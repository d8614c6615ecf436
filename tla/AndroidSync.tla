----------------------------- MODULE AndroidSync -----------------------------
(***************************************************************************)
(* The Android side of cloud save synchronisation: SyncEngine.kt with the  *)
(* Dropbox transport and the Room table of watermarks.                     *)
(*                                                                         *)
(* A run is one call of SyncEngine.sync.  Manual, periodic and instant     *)
(* runs go through SyncOrchestrator.runFullSync, which counts them but     *)
(* does not exclude them, so the runs of Runner interleave step by step.   *)
(* Only a run that finds no listing, or is stopped, ends early; whatever   *)
(* fails for one file is counted and the loop goes on.                     *)
(***************************************************************************)
EXTENDS SyncBase

CONSTANTS
    Runner,   \* the triggers that may run at once
    Faults    \* what may go wrong, a subset of FaultNames

\* listing:   listFolderRecursive fails      transfer: upload or download fails
\* stop:      the coroutine is cancelled or the process killed
\* backup:    the copy to .bak fails         blank, delete: as on the PC
\* aside:     the copy to .conflict fails
\* race:      the player writes during a run
\* cloudrace: the PC writes to the cloud during a run
\* late:      a PC write not dated after the last run reaches the cloud after it
FaultNames == {"listing", "transfer", "stop", "backup", "aside", "blank", "delete",
               "race", "cloudrace", "late"}

VARIABLES
    device,    \* the saves folder of RetroArch on the device
    synced,    \* SyncWatermarkDao: the time of the last transfer of a file
    bak,       \* <save>.bak: one content, rewritten by every download
    aside,     \* <save>.conflict-<millis> files: a set of contents
    run,       \* the state of each run
    versions   \* observation: contents Dropbox has held, and so can restore

androidVars == <<device, synced, bak, aside, run, versions>>
vars == <<baseVars, androidVars>>

Phases == {"idle", "list", "next", "bak", "aside", "open", "receive", "stamp",
           "put", "touch"}

IdleRun ==
    [phase |-> "idle",
     mine |-> [f \in File |-> NotSeen],    \* localByRelative
     theirs |-> [f \in File |-> NotSeen],  \* remoteByRelative
     todo |-> {},
     cur |-> None,
     stamp |-> 0,                          \* modification time the copy will get
     clean |-> TRUE]                       \* observation: nothing has failed in it

Init ==
    /\ BaseInit
    /\ device = [f \in File |-> None]
    /\ synced = [f \in File |-> None]
    /\ bak = [f \in File |-> None]
    /\ aside = [f \in File |-> {}]
    /\ run = [r \in Runner |-> IdleRun]
    /\ versions = [f \in File |-> {}]

Idle == \A r \in Runner : run[r].phase = "idle"
May(fault) == IF fault \in Faults THEN BOOLEAN ELSE {FALSE}

\* Dropbox keeps the versions of a file it replaces.
Archive == versions' = [f \in File |-> versions[f] \cup ContentOf(remote'[f])]
CloudKept == UNCHANGED <<remote, versions>>
-----------------------------------------------------------------------------
(* The steps of a run *)

Goto(r, phase) == run' = [run EXCEPT ![r].phase = phase]

\* LocalFileScanner.scan
Scan(r) ==
    /\ run[r].phase = "idle"
    /\ run' = [run EXCEPT ![r] =
           [IdleRun EXCEPT !.phase = "list",
                           !.mine = [f \in File |-> Seen(device[f])]]]
    /\ UNCHANGED <<baseVars, device, synced, bak, aside, versions>>

\* A failed listing ends the run.
Listed(r) ==
    \E failed \in May("listing") :
        LET theirs == [f \in File |-> Seen(remote[f])]
        IN  run' = IF failed THEN [run EXCEPT ![r] = IdleRun]
                   ELSE [run EXCEPT ![r].phase = "next", ![r].theirs = theirs,
                             ![r].todo = {f \in File : \/ run[r].mine[f].mtime # None
                                                       \/ theirs[f].mtime # None}]

ListFolder(r) ==
    /\ run[r].phase = "list"
    /\ Listed(r)
    /\ UNCHANGED <<baseVars, device, synced, bak, aside, versions>>

\* The listings are those of the start, the watermark is read now.
Decision(r, f) ==
    Decide(run[r].mine[f].mtime, run[r].theirs[f].mtime, synced[f])

IsSuspect(r, f) ==
    /\ run[r].mine[f].mtime # None /\ run[r].theirs[f].mtime # None
    /\ Suspect(Decision(r, f), run[r].mine[f].empty, run[r].theirs[f].empty)

LocalIsNewer(r, f) == run[r].mine[f].mtime >= run[r].theirs[f].mtime

Take(r, f, phase, stamp) ==
    run' = [run EXCEPT ![r].todo = @ \ {f}, ![r].cur = f, ![r].phase = phase,
                       ![r].stamp = stamp]

\* lastModified() of a file that is gone is 0.
LastModified(f) == IF device[f] = None THEN 0 ELSE device[f].mtime

MayTake(r, f) == run[r].phase = "next" /\ f \in run[r].todo

\* Mutant: a file the last listing did not show counts as settled.
SettleUnknown(r, f) ==
    Decision(r, f) = "up_to_date" \/ IsSuspect(r, f) \/ run[r].mine[f].mtime = None
\* Up to date, or an empty save against one with content: neither side is touched.
Settled(r, f) == Decision(r, f) = "up_to_date" \/ IsSuspect(r, f)

Settle(r, f) ==
    /\ MayTake(r, f) /\ Settled(r, f)
    /\ run' = [run EXCEPT ![r].todo = @ \ {f}]
    /\ UNCHANGED <<baseVars, device, synced, bak, aside, versions>>

\* An upload is stamped with the modification time read now; the winner of a
\* conflict with the one that was listed.
TakeUpload(r, f) ==
    /\ MayTake(r, f) /\ ~Settled(r, f)
    /\ \/ Decision(r, f) = "upload" /\ Take(r, f, "put", LastModified(f))
       \/ /\ Decision(r, f) = "conflict" /\ LocalIsNewer(r, f)
          /\ Take(r, f, "put", run[r].mine[f].mtime)
    /\ UNCHANGED <<baseVars, device, synced, bak, aside, versions>>

TakeDownload(r, f) ==
    /\ MayTake(r, f) /\ ~Settled(r, f)
    /\ \/ Decision(r, f) = "download" /\ Take(r, f, "bak", 0)
       \/ /\ Decision(r, f) = "conflict" /\ ~LocalIsNewer(r, f)
          /\ Take(r, f, "aside", 0)
    /\ UNCHANGED <<baseVars, device, synced, bak, aside, versions>>

\* backupBeforeDownload: not for an empty file, and a failure is ignored.
BackupBeforeDownload(r) ==
    LET f == run[r].cur IN
    /\ run[r].phase = "bak"
    /\ \E failed \in May("backup") :
         bak' = IF failed \/ ContentOf(device[f]) \subseteq {Blank} THEN bak
                ELSE [bak EXCEPT ![f] = device[f].content]
    /\ Goto(r, "open")
    /\ UNCHANGED <<baseVars, device, synced, aside, versions>>

\* Mutant: the copy of the other side.
AsideOfRemote(f) == ContentOf(remote[f])
\* What backupLocalFile copies.
AsideOf(f) == ContentOf(device[f])

\* backupLocalFile: a failure is an error of the file, which is left alone.
BackupLocalFile(r) ==
    LET f == run[r].cur IN
    /\ run[r].phase = "aside"
    /\ \/ /\ aside' = [aside EXCEPT ![f] = @ \cup AsideOf(f)]
          /\ Goto(r, "open")
       \/ /\ "aside" \in Faults
          /\ run' = [run EXCEPT ![r].phase = "next", ![r].clean = FALSE]
          /\ UNCHANGED aside
    /\ UNCHANGED <<baseVars, device, synced, bak, versions>>

\* FileOutputStream(destFile) truncates the save before a byte arrives.
OpenFile(r) ==
    /\ run[r].phase = "open"
    /\ device' = [device EXCEPT ![run[r].cur] = [content |-> Blank, mtime |-> now]]
    /\ Goto(r, "receive")
    /\ UNCHANGED <<baseVars, synced, bak, aside, versions>>

\* The content arrives; download returns the remote's modification time.
Receive(r) ==
    LET f == run[r].cur IN
    /\ run[r].phase = "receive" /\ remote[f] # None
    /\ device' = [device EXCEPT ![f] = [content |-> remote[f].content, mtime |-> now]]
    /\ run' = [run EXCEPT ![r].phase = "stamp", ![r].stamp = remote[f].mtime]
    /\ UNCHANGED <<baseVars, synced, bak, aside, versions>>

\* destFile.setLastModified(remoteMtime); no effect on a file that is gone.
Stamped(r) ==
    LET f == run[r].cur IN
    device' = IF device[f] = None THEN device
              ELSE [device EXCEPT ![f].mtime = run[r].stamp]

SetLastModified(r) ==
    /\ run[r].phase = "stamp"
    /\ Stamped(r)
    /\ Goto(r, "touch")
    /\ UNCHANGED <<baseVars, synced, bak, aside, versions>>

\* transport.upload: the content the file has now, dated stamp.
Put(r) ==
    LET f == run[r].cur IN
    /\ run[r].phase = "put" /\ device[f] # None
    /\ remote' = [remote EXCEPT ![f] =
                      [content |-> device[f].content, mtime |-> run[r].stamp]]
    /\ Archive
    /\ Goto(r, "touch")
    /\ UNCHANGED <<now, made, superseded, device, synced, bak, aside>>

\* A download that fails leaves what it has written so far.
Broken(r) ==
    LET f == run[r].cur IN
    \/ run[r].phase = "put" /\ UNCHANGED device
    \/ run[r].phase = "receive" /\ UNCHANGED device
    \/ /\ run[r].phase = "receive" /\ remote[f] # None
       /\ device' = [device EXCEPT ![f] = [content |-> Torn, mtime |-> now]]

\* The exception skips touchWatermark.
AfterBroken == "next"

TransferFails(r) ==
    /\ \/ "transfer" \in Faults
       \/ run[r].phase = "put" /\ device[run[r].cur] = None
    /\ Broken(r)
    /\ run' = [run EXCEPT ![r].phase = AfterBroken, ![r].clean = FALSE]
    /\ UNCHANGED <<baseVars, synced, bak, aside, versions>>

\* The watermark is the time after the transfer, and durable at once.
TouchWatermark(r) ==
    /\ run[r].phase = "touch"
    /\ synced' = [synced EXCEPT ![run[r].cur] = now]
    /\ Goto(r, "next")
    /\ UNCHANGED <<baseVars, device, bak, aside, versions>>

EndRun(r) ==
    /\ run[r].phase = "next" /\ run[r].todo = {}
    /\ run' = [run EXCEPT ![r] = IdleRun]
    /\ UNCHANGED <<baseVars, device, synced, bak, aside, versions>>

\* The service is destroyed or the process killed; nothing is undone.
Stop(r) ==
    /\ "stop" \in Faults /\ run[r].phase # "idle"
    /\ run' = [run EXCEPT ![r] = IdleRun]
    /\ UNCHANGED <<baseVars, device, synced, bak, aside, versions>>

RunStep(r) ==
    \/ Scan(r) \/ ListFolder(r)
    \/ \E f \in File : Settle(r, f) \/ TakeUpload(r, f) \/ TakeDownload(r, f)
    \/ BackupBeforeDownload(r) \/ BackupLocalFile(r)
    \/ OpenFile(r) \/ Receive(r) \/ SetLastModified(r) \/ Put(r)
    \/ TransferFails(r) \/ TouchWatermark(r) \/ EndRun(r) \/ Stop(r)
-----------------------------------------------------------------------------
(* The world around a run *)

MayWrite == Idle \/ "race" \in Faults
FileOnly == CloudKept /\ UNCHANGED <<now, synced, bak, aside, run>>

\* A session on the device ends and writes its save.
Play(f) ==
    /\ MayWrite /\ made < MaxVersion
    /\ made' = made + 1
    /\ superseded' = superseded \cup ContentOf(device[f])
    /\ device' = [device EXCEPT ![f] = [content |-> made + 1, mtime |-> now]]
    /\ FileOnly

\* The emulator leaves an empty save.
Truncate(f) ==
    /\ MayWrite /\ "blank" \in Faults
    /\ superseded' = superseded \cup ContentOf(device[f])
    /\ device' = [device EXCEPT ![f] = [content |-> Blank, mtime |-> now]]
    /\ UNCHANGED made /\ FileOnly

\* The user deletes the save.
Delete(f) ==
    /\ MayWrite /\ "delete" \in Faults /\ device[f] # None
    /\ superseded' = superseded \cup ContentOf(device[f])
    /\ device' = [device EXCEPT ![f] = None]
    /\ UNCHANGED made /\ FileOnly

Late(f, m) == synced[f] # None /\ ~ChangedSince(m, synced[f])

\* The PC, whose player played on from the remote save, uploads the session it
\* wrote at time m.
PcUpload(f, m) ==
    /\ Idle \/ "cloudrace" \in Faults
    /\ m = now \/ "late" \in Faults
    /\ Late(f, m) => "late" \in Faults
    /\ remote[f] # None => m > remote[f].mtime
    /\ made < MaxVersion
    /\ made' = made + 1
    /\ superseded' = superseded \cup ContentOf(remote[f])
    /\ remote' = [remote EXCEPT ![f] = [content |-> made + 1, mtime |-> m]]
    /\ Archive
    /\ UNCHANGED <<now, device, synced, bak, aside, run>>

DeviceEnv == \E f \in File : Play(f) \/ Truncate(f) \/ Delete(f)

Next ==
    \/ \E r \in Runner : RunStep(r)
    \/ DeviceEnv
    \/ \E f \in File, m \in 0 .. now : PcUpload(f, m)
    \/ Tick /\ UNCHANGED androidVars

Spec == Init /\ [][Next]_vars
-----------------------------------------------------------------------------
(* Properties *)

\* Where a content of f can still be found, or why it need not be.
Kept(f, c) ==
    \/ c \in superseded \/ c = bak[f] \/ c \in aside[f] \/ c \in versions[f]
    \/ c \in ContentOf(device[f]) \/ c \in ContentOf(remote[f])

\* Only the steps of runs change run; the player and the PC do not.
EngineActs == run' # run

\* Whatever a run replaces on the device is kept (SyncEngine.kt 107-119,
\* 156-160: .bak or .conflict copy, then the download).
ReplacedIsKept ==
    [][\A f \in File : EngineActs =>
          \A c \in ContentOf(device[f]) \ {Blank, Torn} : Kept(f, c)']_vars

\* SAVE-GUARD-2: no run replaces a save with content in the cloud by an empty
\* one, even when the listing fails (SyncEngine.kt 59-63, 86-96).
EmptyNeverWins ==
    [][\A f \in File : EngineActs =>
          (ContentOf(remote'[f]) = {Blank} => ContentOf(remote[f]) \in {{}, {Blank}})]_vars

\* A watermark is written only when the two sides hold the same save with the
\* same time: a transfer that failed leaves none, and the next run sees nothing
\* to transfer back (SyncEngine.kt 98-123, 187-192).
WatermarkIsAncestor ==
    [][\A f \in File : synced'[f] # synced[f] =>
          /\ ContentOf(device[f]) = ContentOf(remote[f])
          /\ SameTime(device[f].mtime, remote[f].mtime)]_vars

Agree(f) ==
    \/ ContentOf(device[f]) = ContentOf(remote[f])
    \/ /\ device[f] # None /\ remote[f] # None
       /\ \/ SameTime(device[f].mtime, remote[f].mtime)
          \/ (device[f].content = Blank) # (remote[f].content = Blank)

\* A run in which no transfer fails leaves the two sides of every file equal,
\* whatever earlier runs left behind, but for times that cannot be told apart
\* and empty saves (all of SyncEngine.sync).
QuietRunConverges ==
    [][\A r \in Runner :
         (/\ run[r].phase = "next" /\ run[r].todo = {} /\ run'[r].phase = "idle"
          /\ run[r].clean)
         => \A f \in File : Agree(f)]_vars

\* The cloud only ever holds whole saves.
CloudIsWhole == \A f \in File : ContentOf(remote[f]) # {Torn}
=============================================================================

------------------------------- MODULE PcSync -------------------------------
(***************************************************************************)
(* The PC side of cloud save synchronisation: sync_saves of                *)
(* sync/save_syncer.py with the sync log, the delta cache, the versioned   *)
(* backups and the rclone transport it calls.                              *)
(*                                                                         *)
(* A pass is one call of sync_saves.  Passes of the "sync" job never       *)
(* overlap each other (JobManager), but the tray icon's menu calls         *)
(* sync_saves directly, so one pass of each may run at the same time, with *)
(* the player, another device and the clock in between any two steps.      *)
(***************************************************************************)
EXTENDS SyncBase, BackupStore

CONSTANTS
    Pass,           \* the threads that may run a pass: the job, the tray
    BackupPasses,   \* passes given a backup_root
    DeltaPasses,    \* passes given a delta_cache
    Policy,         \* conflict_policy of the configuration
    OverrideChoices,\* per-file choices a user may send with a pass
    KeepN,          \* backup_keep_n
    Faults          \* what may go wrong, a subset of FaultNames

\* listing:   rclone lsjson fails            transfer:  rclone copyto fails
\* crash:     the process is killed          backup:    backup_save raises
\* blank:     an emulator truncates a save   delete:    the user deletes a save
\* pcrace:    the player writes during a pass
\* pcdelete:  the user deletes a save during a pass
\* cloudrace: another device writes to the cloud during a pass
\* late:      another device's write reaches the cloud after a pass although
\*            it is not dated after that pass
FaultNames == {"listing", "transfer", "crash", "backup", "blank", "delete",
               "pcrace", "pcdelete", "cloudrace", "late"}

ASSUME PcAssumption ==
    /\ BackupPasses \subseteq Pass /\ DeltaPasses \subseteq Pass
    /\ Policy \in Policies /\ OverrideChoices \subseteq Overrides
    /\ KeepN \in Int /\ Faults \subseteq FaultNames
    /\ None \notin Pass /\ None \notin File

VARIABLES
    local,      \* the PC's save folder
    watermark,  \* save_sync_log: created_at of the last committed 'ok' row
    delta,      \* DeltaCache: content of the last sync
    backups,    \* saves-backup/<platform>/<game>: a set of [ts, content]
    copies,     \* <save>.conflict-<ts> files: a set of [ts, content]
    dbWriter,   \* the pass that holds SQLite's write lock
    pass,       \* the state of each pass
    pruned      \* observation: contents the backup retention has deleted

pcVars == <<local, watermark, delta, backups, copies, dbWriter, pass, pruned>>
vars == <<baseVars, pcVars>>

Phases == {"idle", "list", "next", "backup", "preserve", "transfer",
           "log", "mark", "note"}

PassState ==
    [phase : Phases,
     ts : 0 .. MaxTime,                 \* timestamp taken when the pass starts
     mine : [File -> Entry],            \* local_saves
     theirs : [File -> Entry],          \* remote_entries
     todo : SUBSET File,                \* files the loop has not reached
     cur : File \cup {None},            \* the file being applied
     action : Actions,                  \* decision.action for cur
     localWins : BOOLEAN,
     logged : SUBSET File]              \* files with an uncommitted 'ok' row

IdlePass ==
    [phase |-> "idle", ts |-> 0, mine |-> [f \in File |-> NotSeen],
     theirs |-> [f \in File |-> NotSeen], todo |-> {}, cur |-> None,
     action |-> "up_to_date", localWins |-> FALSE, logged |-> {}]

Copy == [ts : 0 .. MaxTime, content : Content]

TypeOK ==
    /\ BaseTypeOK
    /\ local \in Folder
    /\ watermark \in [File -> 0 .. MaxTime \cup {None}]
    /\ delta \in [File -> Content \cup {None}]
    /\ backups \in [File -> SUBSET Copy]
    /\ copies \in [File -> SUBSET Copy]
    /\ dbWriter \in Pass \cup {None}
    /\ pass \in [Pass -> PassState]
    /\ pruned \subseteq Content

Init ==
    /\ BaseInit
    /\ local = [f \in File |-> None]
    /\ watermark = [f \in File |-> None]
    /\ delta = [f \in File |-> None]
    /\ backups = [f \in File |-> {}]
    /\ copies = [f \in File |-> {}]
    /\ dbWriter = None
    /\ pass = [p \in Pass |-> IdlePass]
    /\ pruned = {}

Idle == \A p \in Pass : pass[p].phase = "idle"

-----------------------------------------------------------------------------
(* The steps of a pass *)

Goto(p, phase) == pass' = [pass EXCEPT ![p].phase = phase]

\* The timestamp is taken, then the local folder is walked.
Start(p) ==
    /\ pass[p].phase = "idle"
    /\ pass' = [pass EXCEPT ![p] =
           [IdlePass EXCEPT !.phase = "list", !.ts = now,
                            !.mine = [f \in File |-> Seen(local[f])]]]
    /\ UNCHANGED <<baseVars, local, watermark, delta, backups, copies, dbWriter, pruned>>

\* transport.list_remote; an RcloneError is swallowed and the folder read as empty.
ListRemote(p) ==
    /\ pass[p].phase = "list"
    /\ \E failed \in (IF "listing" \in Faults THEN BOOLEAN ELSE {FALSE}) :
         LET theirs == [f \in File |-> IF failed THEN NotSeen ELSE Seen(remote[f])]
         IN  pass' = [pass EXCEPT
               ![p].phase = "next",
               ![p].theirs = theirs,
               ![p].todo = {f \in File : \/ pass[p].mine[f].mtime # None
                                         \/ theirs[f].mtime # None}]
    /\ UNCHANGED <<baseVars, local, watermark, delta, backups, copies, dbWriter, pruned>>

Decision(p, f) ==
    Decide(pass[p].mine[f].mtime, pass[p].theirs[f].mtime, watermark[f])

IsSuspect(p, f) ==
    /\ pass[p].mine[f].mtime # None /\ pass[p].theirs[f].mtime # None
    /\ Suspect(Decision(p, f), pass[p].mine[f].empty, pass[p].theirs[f].empty)

\* Mutant: any content the cache knows is skipped.
DeltaSkipUnhashed(p, f) == p \in DeltaPasses /\ delta[f] # None /\ local[f] # None

\* The delta cache: the content is the one recorded at the last sync.
DeltaSkip(p, f) ==
    /\ p \in DeltaPasses
    /\ delta[f] # None /\ local[f] # None
    /\ local[f].content = delta[f]

Take(p, f, phase, action, localWins) ==
    pass' = [pass EXCEPT ![p].todo = @ \ {f}, ![p].cur = f, ![p].phase = phase,
                         ![p].action = action, ![p].localWins = localWins]

MayWriteDb(p) == dbWriter \in {None, p}

\* The next file needs nothing: up to date, or its content is already up there.
SkipFile(p, f) ==
    /\ pass[p].phase = "next" /\ f \in pass[p].todo
    /\ ~IsSuspect(p, f)
    /\ \/ Decision(p, f) = "up_to_date"
       \/ Decision(p, f) = "upload" /\ DeltaSkip(p, f)
    /\ pass' = [pass EXCEPT ![p].todo = @ \ {f}]
    /\ UNCHANGED <<baseVars, local, watermark, delta, backups, copies, dbWriter, pruned>>

\* One side changed since the last sync, or only one side has the file.
TakeOneWay(p, f) ==
    /\ pass[p].phase = "next" /\ f \in pass[p].todo
    /\ ~IsSuspect(p, f)
    /\ \/ Decision(p, f) = "upload" /\ ~DeltaSkip(p, f)
          /\ Take(p, f, "transfer", "upload", TRUE)
       \/ Decision(p, f) = "download" /\ Take(p, f, "backup", "download", FALSE)
    /\ UNCHANGED <<baseVars, local, watermark, delta, backups, copies, dbWriter, pruned>>

\* Both sides changed, or one of them is empty: the user's choice decides, then
\* the policy; nobody decides over an empty save but the user.
TakeConflict(p, f) ==
    /\ pass[p].phase = "next" /\ f \in pass[p].todo
    /\ Decision(p, f) = "conflict" \/ IsSuspect(p, f)
    /\ \E o \in OverrideChoices :
         IF o = "skip" \/ (o = "none" /\ IsSuspect(p, f))
         THEN Take(p, f, "note", "conflict", FALSE)
         ELSE Take(p, f, "backup", "conflict",
                   LocalWins(o, Policy, pass[p].mine[f].mtime, pass[p].theirs[f].mtime))
    /\ UNCHANGED <<baseVars, local, watermark, delta, backups, copies, dbWriter, pruned>>

\* backup_save before the local file may be replaced; an exception is swallowed.
Backup(p) ==
    LET f == pass[p].cur IN
    /\ pass[p].phase = "backup"
    /\ Goto(p, IF pass[p].action = "conflict" THEN "preserve" ELSE "transfer")
    /\ \/ /\ p \in BackupPasses /\ local[f] # None
          /\ LET b == BackupSave(backups[f], now, local[f].content, KeepN) IN
               /\ backups' = [backups EXCEPT ![f] = b]
               /\ pruned' = pruned \cup (Contents(backups[f]) \ Contents(b))
       \/ /\ p \notin BackupPasses \/ local[f] = None \/ "backup" \in Faults
          /\ UNCHANGED <<backups, pruned>>
    /\ UNCHANGED <<baseVars, local, watermark, delta, copies, dbWriter>>

\* Mutant: the winner is preserved.
LoserSwapped(p, f) == IF pass[p].localWins THEN local[f] ELSE remote[f]
Loser(p, f) == IF pass[p].localWins THEN remote[f] ELSE local[f]

\* The loser of a conflict is copied to <save>.conflict-<ts> on the PC: the
\* remote save by a download, the local save by shutil.copy2.
Preserve(p) ==
    LET f == pass[p].cur IN
    /\ pass[p].phase = "preserve"
    /\ Loser(p, f) # None
    /\ copies' = [copies EXCEPT ![f] = Stored(@, pass[p].ts, Loser(p, f).content)]
    /\ Goto(p, "transfer")
    /\ UNCHANGED <<baseVars, local, watermark, delta, backups, dbWriter, pruned>>

AfterTransfer(p) == IF pass[p].action = "conflict" THEN "mark" ELSE "log"

\* rclone copyto of the local file: what it holds now, not when it was listed.
Upload(p) ==
    LET f == pass[p].cur IN
    /\ pass[p].phase = "transfer" /\ pass[p].localWins
    /\ local[f] # None
    /\ remote' = [remote EXCEPT ![f] = local[f]]
    /\ Goto(p, AfterTransfer(p))
    /\ UNCHANGED <<now, made, superseded, local, watermark, delta, backups, copies,
                   dbWriter, pruned>>

\* rclone copyto of the remote file onto the local one.
Download(p) ==
    LET f == pass[p].cur IN
    /\ pass[p].phase = "transfer" /\ ~pass[p].localWins
    /\ remote[f] # None
    /\ local' = [local EXCEPT ![f] = remote[f]]
    /\ Goto(p, AfterTransfer(p))
    /\ UNCHANGED <<baseVars, watermark, delta, backups, copies, dbWriter, pruned>>

\* rclone fails, at once or after its retries, or finds no such remote file.
TransferFails(p) ==
    LET f == pass[p].cur
        reads == IF pass[p].phase = "preserve" THEN pass[p].localWins
                 ELSE ~pass[p].localWins
    IN
    /\ \/ pass[p].phase = "transfer"
       \/ pass[p].phase = "preserve" /\ pass[p].localWins
    /\ "transfer" \in Faults \/ (reads /\ remote[f] = None)
    /\ ~reads => local[f] # None
    /\ delta' = IF pass[p].action = "conflict" /\ p \in DeltaPasses
                THEN [delta EXCEPT ![f] = None] ELSE delta
    /\ Goto(p, "note")
    /\ UNCHANGED <<baseVars, local, watermark, backups, copies, dbWriter, pruned>>

\* Mutant: a failed transfer is logged as one that worked.
LogOtherAsOk(p) ==
    /\ pass[p].phase = "note" /\ MayWriteDb(p)
    /\ dbWriter' = p
    /\ pass' = [pass EXCEPT ![p].phase = "next", ![p].cur = None,
                            ![p].logged = @ \cup {pass[p].cur}]
    /\ UNCHANGED <<baseVars, local, watermark, delta, backups, copies, pruned>>

\* The 'error' or 'skipped' row of a file that was not synchronised: get_last_sync
\* does not read it.
LogOther(p) ==
    /\ pass[p].phase = "note" /\ MayWriteDb(p)
    /\ dbWriter' = p
    /\ pass' = [pass EXCEPT ![p].phase = "next", ![p].cur = None]
    /\ UNCHANGED <<baseVars, local, watermark, delta, backups, copies, pruned>>

\* The 'ok' row of a transferred file, dated at the start of the pass, and the
\* play session of its game in the same transaction.
LogOk(p) ==
    LET f == pass[p].cur IN
    /\ pass[p].phase = "log" /\ MayWriteDb(p)
    /\ dbWriter' = p
    /\ pass' = [pass EXCEPT
         ![p].logged = @ \cup {f},
         ![p].phase = IF pass[p].action = "conflict" THEN "next" ELSE "mark",
         ![p].cur = IF pass[p].action = "conflict" THEN None ELSE f]
    /\ UNCHANGED <<baseVars, local, watermark, delta, backups, copies, pruned>>

\* mark_synced hashes the local file as it is now, after the transfer.
MarkSynced(p) ==
    LET f == pass[p].cur IN
    /\ pass[p].phase = "mark"
    /\ delta' = IF p \in DeltaPasses /\ local[f] # None
                THEN [delta EXCEPT ![f] = local[f].content] ELSE delta
    /\ pass' = [pass EXCEPT
         ![p].phase = IF pass[p].action = "conflict" THEN "log" ELSE "next",
         ![p].cur = IF pass[p].action = "conflict" THEN f ELSE None]
    /\ UNCHANGED <<baseVars, local, watermark, backups, copies, dbWriter, pruned>>

\* The single commit at the end of the pass makes its watermarks visible.
Finish(p) ==
    /\ pass[p].phase = "next" /\ pass[p].todo = {}
    /\ watermark' = [f \in File |-> IF f \in pass[p].logged THEN pass[p].ts
                                    ELSE watermark[f]]
    /\ dbWriter' = IF dbWriter = p THEN None ELSE dbWriter
    /\ pass' = [pass EXCEPT ![p] = IdlePass]
    /\ UNCHANGED <<baseVars, local, delta, backups, copies, pruned>>

\* repository.connect(): the connection closes without a commit.
Rollback(p) ==
    /\ dbWriter' = IF dbWriter = p THEN None ELSE dbWriter
    /\ pass' = [pass EXCEPT ![p] = IdlePass]

NeedsDb(p) == pass[p].phase \in {"log", "note"}

\* The local file is gone where the code needs it.
FileGone(p) ==
    /\ \/ pass[p].phase = "transfer" /\ pass[p].localWins
       \/ pass[p].phase = "preserve" /\ ~pass[p].localWins
    /\ local[pass[p].cur] = None

\* An exception sync_saves does not catch: upload of a missing file (ValueError),
\* copy2 of one (OSError), or no write lock for 30 s (sqlite3.OperationalError).
Abort(p) ==
    /\ FileGone(p) \/ (NeedsDb(p) /\ ~MayWriteDb(p))
    /\ Rollback(p)
    /\ UNCHANGED <<baseVars, local, watermark, delta, backups, copies, pruned>>

\* The process dies; SQLite rolls back whatever was not committed.
Crash ==
    /\ "crash" \in Faults /\ ~Idle
    /\ pass' = [p \in Pass |-> IdlePass]
    /\ dbWriter' = None
    /\ UNCHANGED <<baseVars, local, watermark, delta, backups, copies, pruned>>

PassStep(p) ==
    \/ Start(p) \/ ListRemote(p)
    \/ \E f \in File : SkipFile(p, f) \/ TakeOneWay(p, f) \/ TakeConflict(p, f)
    \/ Backup(p) \/ Preserve(p) \/ Upload(p) \/ Download(p) \/ TransferFails(p)
    \/ LogOther(p) \/ LogOk(p) \/ MarkSynced(p) \/ Finish(p) \/ Abort(p)
-----------------------------------------------------------------------------
(* The world around a pass *)

PcMayWrite == Idle \/ "pcrace" \in Faults

PcFileOnly == UNCHANGED <<now, remote, watermark, delta, backups, copies,
                          dbWriter, pass, pruned>>

\* A session on the PC ends and writes its save.
PcPlay(f) ==
    /\ PcMayWrite /\ made < MaxVersion
    /\ made' = made + 1
    /\ superseded' = superseded \cup ContentOf(local[f])
    /\ local' = [local EXCEPT ![f] = [content |-> made + 1, mtime |-> now]]
    /\ PcFileOnly

\* The emulator opens the save for writing and writes nothing new.
PcTouch(f) ==
    /\ PcMayWrite /\ local[f] # None
    /\ local' = [local EXCEPT ![f].mtime = now]
    /\ UNCHANGED <<made, superseded>>
    /\ PcFileOnly

\* The emulator leaves an empty save.
PcTruncate(f) ==
    /\ PcMayWrite /\ "blank" \in Faults
    /\ superseded' = superseded \cup ContentOf(local[f])
    /\ local' = [local EXCEPT ![f] = [content |-> Blank, mtime |-> now]]
    /\ UNCHANGED made
    /\ PcFileOnly

\* The user deletes the save.
PcDelete(f) ==
    /\ ("delete" \in Faults /\ PcMayWrite) \/ "pcdelete" \in Faults
    /\ local[f] # None
    /\ superseded' = superseded \cup ContentOf(local[f])
    /\ local' = [local EXCEPT ![f] = None]
    /\ UNCHANGED made
    /\ PcFileOnly

\* Dated m, another device's write is not newer than the last pass.
Late(f, m) == watermark[f] # None /\ ~ChangedSince(m, watermark[f])

\* Another device, whose player played on from the remote save, uploads the
\* session it wrote at time m.
RemoteWrite(f, m) ==
    /\ Idle \/ "cloudrace" \in Faults
    /\ m = now \/ "late" \in Faults
    /\ Late(f, m) => "late" \in Faults
    /\ remote[f] # None => m > remote[f].mtime
    /\ made < MaxVersion
    /\ made' = made + 1
    /\ superseded' = superseded \cup ContentOf(remote[f])
    /\ remote' = [remote EXCEPT ![f] = [content |-> made + 1, mtime |-> m]]
    /\ UNCHANGED <<now, pcVars>>

PcEnv ==
    \/ Tick /\ UNCHANGED pcVars
    \/ \E f \in File : PcPlay(f) \/ PcTouch(f) \/ PcTruncate(f) \/ PcDelete(f)
    \/ \E f \in File, m \in 0 .. now : RemoteWrite(f, m)

Next == Crash \/ (\E p \in Pass : PassStep(p)) \/ PcEnv

Spec == Init /\ [][Next]_vars

-----------------------------------------------------------------------------
(* Properties *)

\* Where a content of f can still be found, or why it need not be: a player
\* played on from it, or the retention the user configured deleted it.
Kept(f, c) ==
    \/ c \in superseded \/ c \in pruned
    \/ c \in Contents(backups[f]) \/ c \in Contents(copies[f])
    \/ c \in ContentOf(local[f]) \/ c \in ContentOf(remote[f])

\* Only the steps of passes change pass; the player and other devices do not.
SyncerActs == pass' # pass

\* S29: whatever a pass that is given a backup_root replaces on the PC is kept
\* somewhere, even while the tray's pass, which has none, works on the same
\* files (save_syncer.py 264-284, 348-424; server.py 603-614).
DownloadKeeps ==
    [][\A p \in BackupPasses, f \in File : pass'[p] # pass[p] =>
          \A c \in ContentOf(local[f]) : Kept(f, c)']_vars

\* Whatever a pass replaces in the cloud is kept somewhere, once the file has
\* been synchronised before: an upload only replaces a content its players
\* went on from, and a conflict copies the loser first (save_syncer.py 386-403).
UploadKeeps ==
    [][\A f \in File : SyncerActs /\ watermark[f] # None =>
          \A c \in ContentOf(remote[f]) : Kept(f, c)']_vars

\* SAVE-GUARD-2: an empty save never replaces one with content by itself, on
\* either side (save_syncer.py 183-196, 319-332).
EmptyNeverWins ==
    [][\A f \in File : SyncerActs =>
          /\ (ContentOf(remote'[f]) = {Blank} => ContentOf(remote[f]) \in {{}, {Blank}})
          /\ (ContentOf(local'[f]) = {Blank} => ContentOf(local[f]) \in {{}, {Blank}})]_vars

\* A watermark is committed for a file only when its two sides hold the same
\* content: the next conflict check starts from a true common ancestor
\* (sync_log.py 100-135, save_syncer.py 234-245, 285-295, 432-443, 462-463).
WatermarkIsAncestor ==
    [][\A f \in File : watermark'[f] # watermark[f] =>
          ContentOf(local[f]) = ContentOf(remote[f])]_vars

Agree(f) ==
    \/ ContentOf(local[f]) = ContentOf(remote[f])
    \/ /\ local[f] # None /\ remote[f] # None
       /\ \/ SameTime(local[f].mtime, remote[f].mtime)
          \/ (local[f].content = Blank) # (remote[f].content = Blank)

\* A pass that runs alone and in which nothing fails leaves the two sides of
\* every file equal, but for files whose times cannot be told apart and for
\* empty saves (the whole of sync_saves).
QuietPassConverges ==
    [][\A p \in Pass :
         (/\ pass[p].phase = "next" /\ pass[p].todo = {}
          /\ \A q \in Pass \ {p} : pass[q].phase = "idle")
         => \A f \in File : Agree(f)]_vars
=============================================================================

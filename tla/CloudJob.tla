------------------------------ MODULE CloudJob ------------------------------
(***************************************************************************)
(* What a PC synchronises with the cloud besides its saves, and the four   *)
(* ways to do it: the job "sync" of the server, the menu of the tray icon, *)
(* the command `rommgr sync` and `rommgr restore`.  Each walks a list of   *)
(* sources, one after another, and none knows of the others nor of the     *)
(* other PCs and the console that share the cloud folder.                  *)
(*                                                                         *)
(* A source is a single file (a playlist of RetroArch) or a folder, which  *)
(* stands here for its one file: the pass over a folder of saves, with its *)
(* watermarks and its conflicts, is the module PcSync.  A copy of a file   *)
(* is what it holds and its modification time; the play logs (.lrtl) hold  *)
(* the minutes played so far on the device that writes them.               *)
(*                                                                         *)
(* A session of play is one unit of the clock, so no two are written at    *)
(* the same time.                                                          *)
(***************************************************************************)
EXTENDS ConflictResolver, Sequences, FiniteSetsExt

CONSTANTS
    Host, Runner,   \* the PCs; the processes that synchronise them
    HostOf, Kind,   \* of a runner: its PC; "job", "tray", "command" or "restore"
    Explicit,       \* of a PC: the sources its config.toml names, in order
    Implicit,       \* of a PC: the folders behind saves_remote and states_remote
    PlayHosts,      \* the PCs whose playtime_remote is set
    Singles,        \* the sources that are one file
    SyncAll,        \* the folders all of whose files are synchronised
    Missing,        \* the folders that are not there
    States,         \* the folder of savestates
    MaxPlays,       \* bound on the sessions
    MaxFaults       \* bound on the calls of rclone that fail

VARIABLES
    played,   \* how many sessions were played on each device; their sum is the clock
    disk,     \* per PC and file, its copy or None
    cloud,    \* per path of the cloud, its copy or None
    console,  \* the play log on the console
    run,      \* per runner: where in its list it is, and what it is about to do
    minutes,  \* per PC and origin, the minutes in the database
    faults

vars == <<played, disk, cloud, console, run, minutes, faults>>

Logs == {"pc", "android"}
Item == Logs \cup (UNION {{Explicit[h][i] : i \in DOMAIN Explicit[h]} : h \in Host})
        \cup UNION {{Implicit[h][i] : i \in DOMAIN Implicit[h]} : h \in Host}

Empty == [f \in Item |-> None]
Idle == [at |-> 0, act |-> "none"]

\* Mutant: one folder of logs for every device.
SharedRemote(f) == IF f \in Logs THEN "pc" ELSE f
\* Each origin of minutes has a folder of its own under playtime_remote.
RemoteOf(f) == f

Derived(h) == IF h \in PlayHosts THEN <<"pc", "android">> ELSE <<>>

\* What the job lists, the command, the restore and the tray, which gives up without
\* explicit sources and knows nothing of the play logs.
JobSources(h) == Explicit[h] \o Derived(h) \o Implicit[h]
CommandSources(h) == Explicit[h] \o Derived(h)
RestoreSources(h) == Explicit[h]
TraySources(h) == IF Explicit[h] = <<>> THEN <<>> ELSE Explicit[h] \o Implicit[h]
SourcesOf(r) ==
    LET h == HostOf[r] IN
    CASE Kind[r] = "job" -> JobSources(h)
      [] Kind[r] = "command" -> CommandSources(h)
      [] Kind[r] = "restore" -> RestoreSources(h)
      [] Kind[r] = "tray" -> TraySources(h)

Clock == MapThenSumSet(LAMBDA d : played[d], DOMAIN played)

Mtime(c) == IF c = None THEN None ELSE c.mtime

Current(r) == SourcesOf(r)[run[r].at]
At(r) == run[r].at \in DOMAIN SourcesOf(r)

\* A restore makes the folders it needs.
Lacks(r) == Current(r) \in Missing \ Singles /\ Kind[r] # "restore"

\* The tray lists a folder with the extensions of saves whatever its source
\* says, so the files of a sync_all folder look missing.
LocalSeen(r, f) ==
    IF Kind[r] = "tray" /\ f \in SyncAll THEN None ELSE Mtime(disk[HostOf[r]][f])

Past(r) == [run EXCEPT ![r] = [at |-> @.at + 1, act |-> "none"]]
\* Mutant: a missing folder ends the run.
PastMissingEnding(r) == [run EXCEPT ![r] = Idle]
PastMissing(r) == Past(r)
-----------------------------------------------------------------------------
Init ==
    /\ played = [d \in Host \cup {"console"} |-> 0]
    /\ disk = [h \in Host |-> Empty]
    /\ cloud = Empty
    /\ console = None
    /\ run = [r \in Runner |-> Idle]
    /\ minutes = [h \in PlayHosts |-> [o \in Logs |-> 0]]
    /\ faults = 0

Start(r) ==
    /\ run[r] = Idle
    /\ SourcesOf(r) # <<>>
    /\ run' = [run EXCEPT ![r].at = 1]
    /\ UNCHANGED <<played, disk, cloud, console, minutes, faults>>

\* A folder that is not there is reported, and the next source follows.
SkipMissing(r) ==
    /\ At(r) /\ run[r].act = "none"
    /\ Lacks(r)
    /\ run' = PastMissing(r)
    /\ UNCHANGED <<played, disk, cloud, console, minutes, faults>>

Decided(r, remoteMtime) ==
    LET act == Decide(LocalSeen(r, Current(r)), remoteMtime, None) IN
    /\ run' = IF act = "up_to_date" THEN Past(r) ELSE [run EXCEPT ![r].act = act]
    /\ UNCHANGED <<played, disk, cloud, console, minutes>>

\* The tray hands the pass over the savestates no remote for saves, and the pass
\* raises at its first listing.
NoRemote(r) ==
    /\ At(r)
    /\ Kind[r] = "tray" /\ Current(r) \in States
    /\ run' = Past(r)
    /\ UNCHANGED <<played, disk, cloud, console, minutes, faults>>

CanList(r) ==
    /\ At(r) /\ run[r].act = "none"
    /\ ~Lacks(r)
    /\ ~(Kind[r] = "tray" /\ Current(r) \in States)

\* One listing decides: the newer copy wins.
List(r) ==
    /\ CanList(r)
    /\ Decided(r, Mtime(cloud[RemoteOf(Current(r))]))
    /\ UNCHANGED faults

\* A listing that fails counts as an empty remote.
ListFails(r) ==
    /\ CanList(r)
    /\ faults < MaxFaults
    /\ faults' = faults + 1
    /\ Decided(r, None)

\* The transfer takes the copies there are by now, and their times with them.
Transfer(r) ==
    LET f == Current(r)
        h == HostOf[r] IN
    /\ At(r)
    /\ \/ /\ run[r].act = "upload"
          /\ cloud' = [cloud EXCEPT ![RemoteOf(f)] = disk[h][f]]
          /\ UNCHANGED disk
       \/ /\ run[r].act = "download"
          /\ disk' = [disk EXCEPT ![h][f] = cloud[RemoteOf(f)]]
          /\ UNCHANGED cloud
    /\ run' = Past(r)
    /\ UNCHANGED <<played, console, minutes, faults>>

\* A failed transfer is counted and the next source follows.
TransferFails(r) ==
    /\ At(r) /\ run[r].act # "none"
    /\ faults < MaxFaults
    /\ faults' = faults + 1
    /\ run' = Past(r)
    /\ UNCHANGED <<played, disk, cloud, console, minutes>>

\* Any other failure of a source: the server and the tray catch it.
SourceFails(r) ==
    /\ At(r) /\ Kind[r] \in {"job", "tray"}
    /\ faults < MaxFaults
    /\ faults' = faults + 1
    /\ run' = Past(r)
    /\ UNCHANGED <<played, disk, cloud, console, minutes>>

\* The two commands catch what rclone raises; any other failure ends them.
Errs(r, kind) ==
    /\ At(r) /\ Kind[r] = kind
    /\ faults < MaxFaults
    /\ faults' = faults + 1
    /\ run' = Past(r) \/ run' = [run EXCEPT ![r] = Idle]
    /\ UNCHANGED <<played, disk, cloud, console, minutes>>
CommandFails(r) == Errs(r, "command")
RestoreFails(r) == Errs(r, "restore")

\* The minutes of an origin never fall: a log holds a total.
Noted(old, log) == IF log = None THEN old ELSE Max({old, log.held})

\* Every log of a PC goes into the database under its origin.
Ingested(h, files) == [minutes EXCEPT ![h] = [o \in Logs |-> Noted(@[o], files[o])]]

\* After the last source the job takes the play logs in; the others do not.
Finish(r) ==
    /\ run[r].at = Len(SourcesOf(r)) + 1
    /\ run' = [run EXCEPT ![r] = Idle]
    /\ \/ /\ Kind[r] = "job" /\ HostOf[r] \in PlayHosts
          /\ minutes' = Ingested(HostOf[r], disk[HostOf[r]])
       \/ /\ ~(Kind[r] = "job" /\ HostOf[r] \in PlayHosts)
          /\ UNCHANGED minutes
    /\ UNCHANGED <<played, disk, cloud, console, faults>>

\* /api/playtime-scan: the log of the console comes over the cable, dated by the
\* moment it arrives, and the logs there are go into the database.
PlaytimeScan(h) ==
    /\ \/ console # None /\ disk' = [disk EXCEPT ![h]["android"] = [console EXCEPT !.mtime = Clock]]
       \/ UNCHANGED disk
    /\ minutes' = Ingested(h, disk'[h])
    /\ UNCHANGED <<played, cloud, console, run, faults>>
-----------------------------------------------------------------------------
Fresh(held) == [held |-> held, mtime |-> Clock + 1]

Played(d) == Clock < MaxPlays /\ played' = [played EXCEPT ![d] = @ + 1]

\* A session on a PC rewrites the files the emulator owns there, the play log
\* among them.
PcPlay(h) ==
    /\ Played(h)
    /\ disk' = [disk EXCEPT ![h] =
         [f \in Item |->
            IF f \in {Explicit[h][i] : i \in DOMAIN Explicit[h]} \ Missing THEN Fresh(Clock + 1)
            ELSE IF f = "pc" /\ h \in PlayHosts
                 THEN Fresh(IF @[f] = None THEN 1 ELSE @[f].held + 1)
            ELSE @[f]]]
    /\ UNCHANGED <<cloud, console, run, minutes, faults>>

ConsolePlay ==
    /\ Played("console")
    /\ console' = Fresh(IF console = None THEN 1 ELSE console.held + 1)
    /\ UNCHANGED <<disk, cloud, run, minutes, faults>>

\* The script of the console copies its log up unless the cloud has a newer one.
ConsoleUpload ==
    /\ console # None
    /\ cloud[RemoteOf("android")] # None => cloud[RemoteOf("android")].mtime <= console.mtime
    /\ cloud' = [cloud EXCEPT ![RemoteOf("android")] = console]
    /\ UNCHANGED <<played, disk, console, run, minutes, faults>>

RunStep(r) ==
    \/ Start(r) \/ SkipMissing(r) \/ NoRemote(r) \/ List(r) \/ ListFails(r)
    \/ Transfer(r) \/ TransferFails(r) \/ SourceFails(r)
    \/ CommandFails(r) \/ RestoreFails(r) \/ Finish(r)

Next ==
    \/ \E r \in Runner : RunStep(r)
    \/ \E h \in PlayHosts : PlaytimeScan(h)
    \/ \E h \in Host : PcPlay(h)
    \/ ConsolePlay \/ ConsoleUpload

Spec == Init /\ [][Next]_vars
-----------------------------------------------------------------------------
(* Properties *)

Shared(h, f) == \E i \in DOMAIN Explicit[h] : Explicit[h][i] = f /\ f \notin Missing

\* When the sessions stop, every PC that names a source ends with the copy the
\* cloud has, whatever failed before it in the list and whoever else was
\* synchronising (run_cloud_sync_job, sync_single_file).
SourcesSettle ==
    <>[](\A h \in Host, f \in Item : Shared(h, f) => disk[h][f] = cloud[RemoteOf(f)])

\* When the sessions stop, the database ends with the minutes of each device under
\* that device, none lost and none counted twice (build_cloud_sync_sources,
\* ingest_lrtl_dir).
PlaytimeTold ==
    <>[](\A h \in PlayHosts :
          minutes[h] = [pc |-> played[h], android |-> played["console"]])

\* A synchronisation never decides to download a copy older than the one the PC
\* has (sync_saves, decide: the newest wins).
NeverDownloadsOlder ==
    [][\A r \in Runner :
         run[r].act = "none" /\ run'[r].act = "download"
            => LET mine == disk[HostOf[r]][Current(r)]
               IN mine = None \/ cloud[RemoteOf(Current(r))].mtime >= mine.mtime]_vars
=============================================================================

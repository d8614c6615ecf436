---------------------------- MODULE EmulatorWatch ----------------------------
(***************************************************************************)
(* The daemon that starts a cloud sync when a watched emulator closes:     *)
(* _emulator_sync_watcher_loop of web/daemons.py, over the job manager.    *)
(*                                                                         *)
(* It compares two samples of the process list, so a session that opens    *)
(* and closes between two samples does not exist for it.                   *)
(***************************************************************************)
EXTENDS JobManager

CONSTANTS
    Sync,        \* the job "sync"
    MaxSessions  \* bound on the sessions of the emulator

ASSUME WatchAssumption == Sync \in Job /\ MaxSessions \in Nat

VARIABLES
    open,      \* a watched emulator is running
    sessions,  \* sessions opened so far
    previous,  \* the last sample
    watcher,   \* what the loop is about to do
    unsynced   \* observation: a session has ended since the last sync started

watchVars == <<open, sessions, previous, watcher, unsynced>>
allVars == <<vars, watchVars>>

WatchInit ==
    /\ Init
    /\ open = FALSE /\ sessions = 0 /\ previous = FALSE
    /\ watcher = "sleeping" /\ unsynced = FALSE

\* The player.
Open ==
    /\ ~open /\ sessions < MaxSessions
    /\ open' = TRUE /\ sessions' = sessions + 1
    /\ UNCHANGED <<vars, previous, watcher, unsynced>>

Close ==
    /\ open
    /\ open' = FALSE /\ unsynced' = TRUE
    /\ UNCHANGED <<vars, sessions, previous, watcher>>

\* Mutant: the sample is taken over before it is compared.
SampleTooEarly ==
    /\ previous' = open
    /\ watcher' = IF previous' /\ ~open THEN "closed" ELSE "sleeping"
\* current = _list_running_process_names(); closed = previous - current
Sampled ==
    /\ watcher' = IF previous /\ ~open THEN "closed" ELSE "sleeping"
    /\ previous' = open

Sample ==
    /\ watcher = "sleeping"
    /\ Sampled
    /\ UNCHANGED <<vars, open, sessions, unsynced>>

\* get_status()["sync_running"]: the close is dropped while a sync runs.
CheckRunning ==
    /\ watcher = "closed"
    /\ watcher' = IF runningFlag[Sync] THEN "sleeping" ELSE "starting"
    /\ UNCHANGED <<vars, open, sessions, previous, unsynced>>

\* The bound on the runs is not reached.
RunsLeft == \E w \in Run : stage[w] = "new"

\* run_cloud_sync_job: start answers started or already_running.
StartSync ==
    /\ watcher = "starting"
    /\ watcher' = "sleeping"
    /\ \/ /\ \E w \in Run : Start(Sync, w)
          /\ unsynced' = FALSE
       \/ (runningFlag[Sync] \/ ~RunsLeft) /\ UNCHANGED <<vars, unsynced>>
    /\ UNCHANGED <<open, sessions, previous>>

\* Any job started from a page or by another daemon.
UserStart ==
    /\ \E j \in Job, w \in Run :
         Start(j, w) /\ unsynced' = (unsynced /\ j # Sync)
    /\ UNCHANGED <<open, sessions, previous, watcher>>

\* The runs, the cancel requests and the pages that poll.
Jobs ==
    /\ \/ \E w \in Run : RunStep(w)
       \/ \E j \in Job : Cancel(j)
       \/ \E c \in Client : PollStep(c)
    /\ UNCHANGED watchVars

WatchNext ==
    \/ Open \/ Close \/ Sample \/ CheckRunning \/ StartSync \/ UserStart \/ Jobs

-----------------------------------------------------------------------------
(* Properties *)

\* A session the watcher saw open and then closed is synchronised by a later run,
\* or finds a run going on, or another session has begun (daemons.py 371-383).
CloseTriggers ==
    (previous /\ ~open) ~> (~unsynced \/ runningFlag[Sync] \/ open \/ ~RunsLeft)
=============================================================================

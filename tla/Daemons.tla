------------------------------- MODULE Daemons -------------------------------
(***************************************************************************)
(* The daemons of the server that start jobs beside its pages: the watcher *)
(* of emulators (EmulatorWatch) and the health scheduler, which verifies   *)
(* the library once a week: _health_scheduler_loop of web/daemons.py.      *)
(*                                                                         *)
(* The schedule is a file that a check writes before it finishes, whoever  *)
(* started it and even when it was cancelled; a check that dies of an      *)
(* error does not, and is tried again an hour later.                       *)
(***************************************************************************)
EXTENDS EmulatorWatch

CONSTANT Health   \* the job "health_check"

ASSUME HealthAssumption == Health \in Job \ {Sync} /\ Health \in Cancellable

VARIABLES
    overdue,   \* health_schedule.json is absent, or a week old
    scheduler  \* what the loop is about to do

healthVars == <<overdue, scheduler>>
daemonVars == <<allVars, healthVars>>

DaemonsInit == WatchInit /\ overdue \in BOOLEAN /\ scheduler = "sleeping"

\* A week passes, or the file is lost.
Expire ==
    /\ ~overdue
    /\ overdue' = TRUE
    /\ UNCHANGED <<allVars, scheduler>>

\* overdue and not get_status()["health_check_running"]
Due == overdue /\ ~runningFlag[Health]

LookAtSchedule ==
    /\ scheduler = "sleeping" /\ Due
    /\ scheduler' = "starting"
    /\ UNCHANGED <<allVars, overdue>>

\* start("health_check", _scheduled_run); the answer is not looked at.
StartHealth ==
    /\ scheduler = "starting"
    /\ scheduler' = "sleeping"
    /\ \/ \E w \in Run : Start(Health, w)
       \/ (runningFlag[Health] \/ ~RunsLeft) /\ UNCHANGED vars
    /\ UNCHANGED <<watchVars, overdue>>

\* check_library_health: one row after the other, until it is asked to stop.
Verify(w) ==
    /\ jobOf[w] = Health
    /\ UpdateProgress(w) \/ SeeCancel(w)
    /\ UNCHANGED <<watchVars, healthVars>>

\* _write_health_schedule is best effort, and not reached when the check raises.
Written(w) == overdue' \in IF jobOf[w] = Health THEN {FALSE, overdue} ELSE {overdue}

EndRun(w) == Finish(w) /\ Written(w) /\ UNCHANGED <<watchVars, scheduler>>

\* Everything else the jobs, the watcher and the users do, who start checks as well.
Others ==
    /\ WatchNext
    /\ UNCHANGED healthVars
    /\ ~\E w \in Run : Finish(w) \/ Verify(w)

DaemonsNext ==
    \/ Expire \/ LookAtSchedule \/ StartHealth \/ Others
    \/ \E w \in Run : Verify(w) \/ EndRun(w)

\* Both loops run for ever; a thread is created or refused, and a run ends.
DaemonsSpec ==
    /\ DaemonsInit /\ [][DaemonsNext]_daemonVars
    /\ WF_daemonVars(LookAtSchedule) /\ WF_daemonVars(StartHealth)
    /\ WF_daemonVars(Sample /\ UNCHANGED healthVars)
    /\ WF_daemonVars(CheckRunning /\ UNCHANGED healthVars)
    /\ WF_daemonVars(StartSync /\ UNCHANGED healthVars)
    /\ \A w \in Run :
         /\ WF_daemonVars((Spawn(w) \/ SpawnFails(w)) /\ UNCHANGED <<watchVars, healthVars>>)
         /\ WF_daemonVars(EndRun(w))
-----------------------------------------------------------------------------
(* Properties *)

\* No trigger is lost: a session seen to close is synchronised (CloseTriggers), and a
\* check that is due is started, whatever pages and the other daemon start meanwhile
\* (daemons.py 57-77, 134, 371-383).
TriggersAct ==
    /\ CloseTriggers
    /\ overdue ~> (~overdue \/ runningFlag[Health] \/ ~RunsLeft)
=============================================================================

----------------------------- MODULE JobManager -----------------------------
(***************************************************************************)
(* The background jobs of the web application: JobManager of               *)
(* web/jobs/manager.py as its callers use it.                              *)
(*                                                                         *)
(* HTTP threads and daemons call start; every run is a thread that reports *)
(* progress, may look at its cancel event and calls finish in a finally.   *)
(* What the lock covers is one step.  Thread creation is outside the lock, *)
(* and so is the reading of results and progress by get_status.            *)
(***************************************************************************)
EXTENDS Integers

CONSTANTS
    Job,          \* JOB_NAMES
    Cancellable,  \* jobs whose thread looks at its cancel event
    Client,       \* threads that poll /api/job-status
    None,
    MaxRuns,      \* bound on the runs started
    Faults        \* {"thread"}: the system refuses a new thread

ASSUME JobAssumption ==
    /\ Cancellable \subseteq Job /\ MaxRuns \in Nat /\ None \notin Nat
    /\ None \notin Job /\ Faults \subseteq {"thread"}

Run == 1 .. MaxRuns

VARIABLES
    runningFlag,  \* _running
    results,      \* _results: the run whose result is stored
    progress,     \* _progress: the run that wrote it
    cancel,       \* _cancel
    stage,        \* where each run is
    jobOf,        \* the job of each run
    asked,        \* observation: runs that were asked to stop
    poll          \* the status request of each client

flags == <<runningFlag, results, progress, cancel>>
runs == <<stage, jobOf, asked>>
vars == <<flags, runs, poll>>

\* spawning: start has set the flag, the thread does not exist yet.
\* lost: the thread could not be created; nothing will clear the flag.
Stages == {"new", "spawning", "working", "stopping", "lost", "ended"}
Holding == {"spawning", "working", "stopping", "lost"}

PollState ==
    [phase : {"idle", "copied", "read"}, job : Job \cup {None}, running : BOOLEAN,
     result : Run \cup {None},
     before : Run \cup {None}]   \* observation: the result when running was copied

IdlePoll == [phase |-> "idle", job |-> None, running |-> FALSE, result |-> None,
             before |-> None]

TypeOK ==
    /\ runningFlag \in [Job -> BOOLEAN]
    /\ results \in [Job -> Run \cup {None}]
    /\ progress \in [Job -> Run \cup {None}]
    /\ cancel \in [Job -> BOOLEAN]
    /\ stage \in [Run -> Stages]
    /\ jobOf \in [Run -> Job \cup {None}]
    /\ asked \subseteq Run
    /\ poll \in [Client -> PollState]
    /\ \A c \in Client : poll[c].phase # "idle" => poll[c].job \in Job

Init ==
    /\ runningFlag = [j \in Job |-> FALSE]
    /\ results = [j \in Job |-> None]
    /\ progress = [j \in Job |-> None]
    /\ cancel = [j \in Job |-> FALSE]
    /\ stage = [w \in Run |-> "new"]
    /\ jobOf = [w \in Run |-> None]
    /\ asked = {}
    /\ poll = [c \in Client |-> IdlePoll]

\* The runs that occupy the job.
Holders(j) == {w \in Run : jobOf[w] = j /\ stage[w] \in Holding}

\* Runs are numbered in the order they start.
IsNext(w) == stage[w] = "new" /\ \A v \in Run : v < w => stage[v] # "new"
-----------------------------------------------------------------------------
(* The operations *)

\* Mutant: an old cancel request reaches the next run.
ClaimKeepingCancel(j) ==
    /\ ~runningFlag[j]
    /\ runningFlag' = [runningFlag EXCEPT ![j] = TRUE]
    /\ UNCHANGED cancel
\* start, under the lock; a job that is running answers already_running.
Claim(j) ==
    /\ ~runningFlag[j]
    /\ runningFlag' = [runningFlag EXCEPT ![j] = TRUE]
    /\ cancel' = [cancel EXCEPT ![j] = FALSE]

Start(j, w) ==
    /\ IsNext(w)
    /\ Claim(j)
    /\ stage' = [stage EXCEPT ![w] = "spawning"]
    /\ jobOf' = [jobOf EXCEPT ![w] = j]
    /\ UNCHANGED <<results, progress, asked, poll>>

\* start, after the lock: Thread(target=fn).start()
Spawn(w) ==
    /\ stage[w] = "spawning"
    /\ stage' = [stage EXCEPT ![w] = "working"]
    /\ UNCHANGED <<flags, jobOf, asked, poll>>

\* ... which raises in the caller: the flag stays set.
SpawnFails(w) ==
    /\ "thread" \in Faults /\ stage[w] = "spawning"
    /\ stage' = [stage EXCEPT ![w] = "lost"]
    /\ UNCHANGED <<flags, jobOf, asked, poll>>

\* update_progress
UpdateProgress(w) ==
    /\ stage[w] \in {"working", "stopping"}
    /\ progress' = [progress EXCEPT ![jobOf[w]] = w]
    /\ UNCHANGED <<runningFlag, results, cancel, runs, poll>>

\* The thread finds its cancel event set and leaves its loop.
SeeCancel(w) ==
    /\ stage[w] = "working" /\ jobOf[w] \in Cancellable
    /\ cancel[jobOf[w]]
    /\ stage' = [stage EXCEPT ![w] = "stopping"]
    /\ UNCHANGED <<flags, jobOf, asked, poll>>

\* finish, under the lock; a run that died of an error may have no result, and then
\* the one of its predecessor stays.
Released(j, w) ==
    /\ runningFlag' = [runningFlag EXCEPT ![j] = FALSE]
    /\ progress' = [progress EXCEPT ![j] = None]
    /\ results' \in {results, [results EXCEPT ![j] = w]}

\* Mutant: a run that goes on after it finished.
AfterFinishWorking == "working"
\* A run calls finish once, and then touches the manager no more.
AfterFinish == "ended"

Finish(w) ==
    /\ stage[w] \in {"working", "stopping"}
    /\ Released(jobOf[w], w)
    /\ stage' = [stage EXCEPT ![w] = AfterFinish]
    /\ UNCHANGED <<cancel, jobOf, asked, poll>>

\* cancel (POST /api/stop-job), whether or not the job is running.
Cancel(j) ==
    /\ cancel' = [cancel EXCEPT ![j] = TRUE]
    /\ asked' = asked \cup Holders(j)
    /\ UNCHANGED <<runningFlag, results, progress, stage, jobOf, poll>>

\* get_status copies the flags under the lock ...
CopyRunning(c, j) ==
    /\ poll[c].phase = "idle"
    /\ poll' = [poll EXCEPT ![c] = [phase |-> "copied", job |-> j,
                                    running |-> runningFlag[j], result |-> None,
                                    before |-> results[j]]]
    /\ UNCHANGED <<flags, runs>>

\* Mutant: the results are read before the flag.
ReadFlagLast(c) ==
    LET j == poll[c].job IN
    [poll[c] EXCEPT !.phase = "read", !.running = runningFlag[j],
                    !.result = poll[c].before, !.before = results[j]]
\* ... and looks the results up later, without it.
ReadLast(c) == [poll[c] EXCEPT !.phase = "read", !.result = results[poll[c].job]]

ReadResult(c) ==
    /\ poll[c].phase = "copied"
    /\ poll' = [poll EXCEPT ![c] = ReadLast(c)]
    /\ UNCHANGED <<flags, runs>>

Answer(c) ==
    /\ poll[c].phase = "read"
    /\ poll' = [poll EXCEPT ![c] = IdlePoll]
    /\ UNCHANGED <<flags, runs>>

RunStep(w) ==
    \/ Spawn(w) \/ SpawnFails(w) \/ UpdateProgress(w) \/ SeeCancel(w) \/ Finish(w)

PollStep(c) == (\E j \in Job : CopyRunning(c, j)) \/ ReadResult(c) \/ Answer(c)

Next ==
    \/ \E j \in Job, w \in Run : Start(j, w)
    \/ \E w \in Run : RunStep(w)
    \/ \E j \in Job : Cancel(j)
    \/ \E c \in Client : PollStep(c)

Spec == Init /\ [][Next]_vars

-----------------------------------------------------------------------------
(* Properties *)

\* The flag of a job is set exactly while one run occupies it, from the moment
\* start decides to run it (manager.py 72-78, 90-94).
OneRunPerJob ==
    /\ \A j \in Job : runningFlag[j] <=> Holders(j) # {}
    /\ \A j \in Job : \A v, w \in Holders(j) : v = w

\* A run stops early only if it was itself asked to: a cancel that came after its
\* predecessor ended does not reach it (manager.py 72-76, 96-101).
CancelledIfAsked == \A w \in Run : stage[w] = "stopping" => w \in asked

\* A status that says the job is not running carries the result that was the last
\* when the job was found so, or a later one, although results are read after the
\* lock is released: the page that polls never takes an old result for the end
\* (manager.py 130-175).
PollSeesEnd ==
    \A c \in Client :
        poll[c].phase = "read" /\ ~poll[c].running /\ poll[c].before # None
        => poll[c].result # None /\ poll[c].result >= poll[c].before

\* The manager implements one slot per job.
Slot == INSTANCE JobSlot WITH
    active <- [j \in Job |-> Holders(j)],
    outcome <- results,
    done <- {w \in Run : stage[w] = "ended"}
SlotSpec == Slot!Spec
=============================================================================

------------------------------- MODULE JobSlot -------------------------------
(***************************************************************************)
(* What the job manager promises: a job has one slot.  A run takes the     *)
(* slot only when it is empty, and leaves it for ever when it is done,     *)
(* its outcome, if it has one, becoming the job's.  Nothing is said of     *)
(* threads, locks, flags, progress or cancellation.                        *)
(***************************************************************************)
CONSTANTS Job, Run, None

VARIABLES
    active,   \* the runs in each job's slot
    outcome,  \* the run whose result each job shows
    done      \* the runs that have left

vars == <<active, outcome, done>>

Init ==
    /\ active = [j \in Job |-> {}]
    /\ outcome = [j \in Job |-> None]
    /\ done = {}

Begin(j, w) ==
    /\ active[j] = {} /\ w \notin done
    /\ active' = [active EXCEPT ![j] = {w}]
    /\ UNCHANGED <<outcome, done>>

End(j, w) ==
    /\ w \in active[j]
    /\ active' = [active EXCEPT ![j] = @ \ {w}]
    /\ outcome' \in {outcome, [outcome EXCEPT ![j] = w]}
    /\ done' = done \cup {w}

Next == \E j \in Job, w \in Run : Begin(j, w) \/ End(j, w)

Spec == Init /\ [][Next]_vars
=============================================================================

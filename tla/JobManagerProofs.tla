-------------------------- MODULE JobManagerProofs --------------------------
(***************************************************************************)
(* For any jobs, clients and number of runs: a job is occupied by at most  *)
(* one run while its flag is set, and the manager implements the slot of   *)
(* module JobSlot, whether or not the system refuses a thread: a run whose *)
(* thread could not be created keeps the slot for ever.                    *)
(***************************************************************************)
EXTENDS JobManager, TLAPS

\* Every step keeps the types.
LEMMA TypeStep == TypeOK /\ [Next]_vars => TypeOK'
<1>. SUFFICES ASSUME TypeOK, [Next]_vars PROVE TypeOK'
  OBVIOUS
<1>. USE JobAssumption DEF TypeOK, flags, runs
<1>1. ASSUME NEW j \in Job, NEW w \in Run, Start(j, w) PROVE TypeOK'
  BY <1>1 DEF Start, Claim, Stages
<1>2. ASSUME NEW w \in Run, Spawn(w) PROVE TypeOK'
  BY <1>2 DEF Spawn, Stages
<1>3. ASSUME NEW w \in Run, SpawnFails(w) PROVE TypeOK'
  BY <1>3 DEF SpawnFails, Stages
<1>4. ASSUME NEW w \in Run, UpdateProgress(w) PROVE TypeOK'
  BY <1>4 DEF UpdateProgress
<1>5. ASSUME NEW w \in Run, SeeCancel(w) PROVE TypeOK'
  BY <1>5 DEF SeeCancel, Stages
<1>6. ASSUME NEW w \in Run, Finish(w) PROVE TypeOK'
  BY <1>6 DEF Finish, Released, AfterFinish, Stages
<1>7. ASSUME NEW j \in Job, Cancel(j) PROVE TypeOK'
  BY <1>7 DEF Cancel, Holders
<1>8. ASSUME NEW c \in Client, PollStep(c) PROVE TypeOK'
  <2>. USE DEF PollState, IdlePoll
  <2>1. ASSUME NEW j \in Job, CopyRunning(c, j) PROVE TypeOK'
    BY <2>1 DEF CopyRunning
  <2>2. CASE ReadResult(c)
    <3>1. poll[c].job \in Job /\ results[poll[c].job] \in Run \cup {None}
      BY <2>2 DEF ReadResult
    <3>2. ReadLast(c) \in PollState /\ ReadLast(c).job = poll[c].job
      BY <3>1 DEF ReadLast
    <3>. QED BY <2>2, <3>1, <3>2 DEF ReadResult
  <2>3. CASE Answer(c)
    BY <2>3 DEF Answer
  <2>. QED BY <1>8, <2>1, <2>2, <2>3 DEF PollStep
<1>9. CASE UNCHANGED vars
  BY <1>9 DEF vars
<1>. QED
  BY <1>1, <1>2, <1>3, <1>4, <1>5, <1>6, <1>7, <1>8, <1>9 DEF Next, RunStep

\* A run has a job from the moment it starts.
RunsHaveJobs == \A w \in Run : stage[w] # "new" => jobOf[w] \in Job

LEMMA JobsStep == TypeOK /\ RunsHaveJobs /\ [Next]_vars => RunsHaveJobs'
  BY DEF TypeOK, RunsHaveJobs, Next, RunStep, PollStep, vars, flags, runs, Start, Spawn,
         SpawnFails, UpdateProgress, SeeCancel, Finish, Cancel, CopyRunning, ReadResult,
         Answer, AfterFinish

\* What the steps of the manager do to the runs that occupy a job.
LEMMA HoldersStart ==
  ASSUME TypeOK, NEW j \in Job, NEW w \in Run, Start(j, w), Holders(j) = {}
  PROVE  \A i \in Job : Holders(i)' = IF i = j THEN {w} ELSE Holders(i)
  BY DEF TypeOK, Start, IsNext, Holders, Holding

LEMMA HoldersFinish ==
  ASSUME TypeOK, NEW w \in Run, Finish(w)
  PROVE  \A i \in Job : Holders(i)' = Holders(i) \ {w}
  BY DEF TypeOK, Finish, AfterFinish, Holders, Holding

LEMMA HoldersKept ==
  ASSUME TypeOK, [Next]_vars,
         ~\E j \in Job, w \in Run : Start(j, w),
         ~\E w \in Run : Finish(w)
  PROVE  /\ \A i \in Job : Holders(i)' = Holders(i)
         /\ UNCHANGED <<runningFlag, results>>
         /\ \A w \in Run : stage'[w] = "ended" <=> stage[w] = "ended"
<1>. USE DEF TypeOK, Holders, Holding
<1>1. ASSUME NEW w \in Run, Spawn(w) \/ SpawnFails(w) \/ SeeCancel(w)
      PROVE  /\ \A i \in Job : Holders(i)' = Holders(i)
             /\ UNCHANGED <<runningFlag, results>>
             /\ \A v \in Run : stage'[v] = "ended" <=> stage[v] = "ended"
  BY <1>1 DEF Spawn, SpawnFails, SeeCancel, flags
<1>2. CASE UNCHANGED <<runningFlag, results, stage, jobOf>>
  BY <1>2
<1>. QED
  BY <1>1, <1>2 DEF Next, RunStep, PollStep, vars, flags, runs,
     UpdateProgress, Cancel, CopyRunning, ReadResult, Answer

IInv == TypeOK /\ RunsHaveJobs /\ OneRunPerJob

LEMMA InitIInv == Init => IInv
  BY JobAssumption DEF Init, IInv, TypeOK, RunsHaveJobs, OneRunPerJob, Holders, Holding,
     Stages, PollState, IdlePoll

\* A run takes a job only when it is free, and leaves it free.
LEMMA OneRunStep ==
  ASSUME IInv, [Next]_vars
  PROVE  OneRunPerJob'
<1>. USE DEF IInv, OneRunPerJob
<1>1. ASSUME NEW j \in Job, NEW w \in Run, Start(j, w) PROVE OneRunPerJob'
  <2>1. Holders(j) = {}
    BY <1>1 DEF Start, Claim
  <2>2. runningFlag' = [runningFlag EXCEPT ![j] = TRUE]
    BY <1>1 DEF Start, Claim
  <2>3. \A i \in Job : Holders(i)' = IF i = j THEN {w} ELSE Holders(i)
    BY <1>1, <2>1, HoldersStart
  <2>4. \A i \in Job : runningFlag'[i] = IF i = j THEN TRUE ELSE runningFlag[i]
    BY <2>2 DEF TypeOK
  <2>5. \A i \in Job : runningFlag'[i] <=> Holders(i)' # {}
    BY <2>3, <2>4
  <2>6. \A i \in Job : \A u, v \in Holders(i)' : u = v
    BY <2>3
  <2>. QED BY <2>5, <2>6
<1>2. ASSUME NEW w \in Run, Finish(w) PROVE OneRunPerJob'
  <2>1. jobOf[w] \in Job /\ w \in Holders(jobOf[w])
    BY <1>2 DEF RunsHaveJobs, Finish, Holders, Holding
  <2>2. \A i \in Job : Holders(i) \ {w} = IF i = jobOf[w] THEN {} ELSE Holders(i)
    BY <2>1 DEF Holders
  <2>3. runningFlag' = [runningFlag EXCEPT ![jobOf[w]] = FALSE]
    BY <1>2 DEF Finish, Released
  <2>4. \A i \in Job : Holders(i)' = IF i = jobOf[w] THEN {} ELSE Holders(i)
    <3>1. \A i \in Job : Holders(i)' = Holders(i) \ {w}
      BY <1>2, HoldersFinish
    <3>. QED BY <2>2, <3>1
  <2>5. \A i \in Job : runningFlag'[i] = IF i = jobOf[w] THEN FALSE ELSE runningFlag[i]
    BY <2>1, <2>3 DEF TypeOK
  <2>6. \A i \in Job : runningFlag'[i] <=> Holders(i)' # {}
    BY <2>4, <2>5
  <2>7. \A i \in Job : \A u, v \in Holders(i)' : u = v
    BY <2>4
  <2>. QED BY <2>6, <2>7
<1>3. CASE /\ ~\E j \in Job, w \in Run : Start(j, w)
           /\ ~\E w \in Run : Finish(w)
  BY <1>3, HoldersKept
<1>. QED BY <1>1, <1>2, <1>3

\* The flag of a job is set exactly while one run occupies it
\* (manager.py 72-78, 90-94).
THEOREM OneRun == Spec => []OneRunPerJob
<1>1. IInv /\ [Next]_vars => IInv'
  BY TypeStep, JobsStep, OneRunStep DEF IInv
<1>2. IInv => OneRunPerJob
  BY DEF IInv
<1>. QED BY InitIInv, <1>1, <1>2, PTL DEF Spec

\* The initial state maps to that of the slots.
LEMMA SlotInit == Init => Slot!Init
  BY DEF Init, Slot!Init, Holders, Holding

\* Start and Finish map to Begin and End, every other step to a stutter.
LEMMA SlotStep ==
  ASSUME IInv, [Next]_vars
  PROVE  [Slot!Next]_(Slot!vars)
<1>. USE DEF IInv
<1>1. ASSUME NEW j \in Job, NEW w \in Run, Start(j, w) PROVE Slot!Begin(j, w)
  <2>1. Holders(j) = {} /\ results' = results /\ stage[w] = "new"
    BY <1>1 DEF Start, Claim, OneRunPerJob, IsNext
  <2>2. [i \in Job |-> Holders(i)]' = [[i \in Job |-> Holders(i)] EXCEPT ![j] = {w}]
    BY <1>1, <2>1, HoldersStart
  <2>3. \A v \in Run : stage'[v] = "ended" <=> stage[v] = "ended"
    BY <1>1, <2>1 DEF Start, TypeOK
  <2>. QED BY <2>1, <2>2, <2>3 DEF Slot!Begin
<1>2. ASSUME NEW w \in Run, Finish(w) PROVE Slot!End(jobOf[w], w) /\ jobOf[w] \in Job
  <2>1. jobOf[w] \in Job /\ w \in Holders(jobOf[w])
    BY <1>2 DEF RunsHaveJobs, Finish, Holders, Holding
  <2>2. \A i \in Job : i # jobOf[w] => w \notin Holders(i)
    BY DEF Holders
  <2>3. [i \in Job |-> Holders(i)]'
          = [[i \in Job |-> Holders(i)] EXCEPT ![jobOf[w]] = @ \ {w}]
    <3>1. \A i \in Job : Holders(i)' = Holders(i) \ {w}
      BY <1>2, HoldersFinish
    <3>2. \A i \in Job : Holders(i)' = IF i = jobOf[w] THEN Holders(i) \ {w}
                                       ELSE Holders(i)
      BY <2>2, <3>1
    <3>. QED BY <2>1, <3>2
  <2>4. results' \in {results, [results EXCEPT ![jobOf[w]] = w]}
    BY <1>2 DEF Finish, Released
  <2>5. {v \in Run : stage[v] = "ended"}' = {v \in Run : stage[v] = "ended"} \cup {w}
    BY <1>2 DEF Finish, AfterFinish, TypeOK
  <2>. QED BY <2>1, <2>3, <2>4, <2>5 DEF Slot!End
<1>3. CASE /\ ~\E j \in Job, w \in Run : Start(j, w)
           /\ ~\E w \in Run : Finish(w)
  BY <1>3, HoldersKept DEF Slot!vars
<1>. QED BY <1>1, <1>2, <1>3 DEF Slot!Next

\* The manager implements one slot per job (manager.py 66-94).
THEOREM ImplementsSlot == Spec => SlotSpec
<1>1. IInv /\ [Next]_vars => IInv'
  BY TypeStep, JobsStep, OneRunStep DEF IInv
<1>2. IInv /\ [Next]_vars => [Slot!Next]_(Slot!vars)
  BY SlotStep
<1>. QED BY InitIInv, SlotInit, <1>1, <1>2, PTL DEF Spec, SlotSpec, Slot!Spec
-----------------------------------------------------------------------------
(* Cancelling and polling *)

\* Claim clears the event before the next run exists, so a set event was set
\* while the run that can see it held the job.
CancelIsForHolders ==
    \A w \in Run : jobOf[w] \in Job /\ stage[w] \in Holding /\ cancel[jobOf[w]]
                   => w \in asked

CInv == IInv /\ CancelIsForHolders /\ CancelledIfAsked

LEMMA InitCInv == Init => CInv
  BY InitIInv DEF CInv, Init, CancelIsForHolders, CancelledIfAsked, Holding

LEMMA CancelStep ==
  ASSUME CInv, [Next]_vars
  PROVE  CancelIsForHolders' /\ CancelledIfAsked'
<1>. USE DEF CInv, IInv, TypeOK, CancelIsForHolders, CancelledIfAsked, flags, runs
<1>1. ASSUME NEW j \in Job, NEW w \in Run, Start(j, w)
      PROVE  CancelIsForHolders' /\ CancelledIfAsked'
  <2>1. Holders(j) = {} /\ asked' = asked
    BY <1>1 DEF Start, Claim, OneRunPerJob
  <2>2. \A v \in Run \ {w} : /\ jobOf'[v] = jobOf[v] /\ stage'[v] = stage[v]
                             /\ ~(jobOf[v] = j /\ stage[v] \in Holding)
    BY <1>1, <2>1 DEF Start, Holders
  <2>3. jobOf'[w] = j /\ stage'[w] = "spawning" /\ ~cancel'[j]
    BY <1>1 DEF Start, Claim
  <2>4. \A i \in Job \ {j} : cancel'[i] = cancel[i]
    BY <1>1 DEF Start, Claim
  <2>. QED BY <2>1, <2>2, <2>3, <2>4
<1>2. ASSUME NEW w \in Run, RunStep(w)
      PROVE  CancelIsForHolders' /\ CancelledIfAsked'
  <2>1. CASE Spawn(w) \/ SpawnFails(w)
    BY <2>1 DEF Spawn, SpawnFails, Holding
  <2>2. CASE UpdateProgress(w)
    BY <2>2 DEF UpdateProgress
  <2>3. CASE SeeCancel(w)
    <3>1. w \in asked
      BY <2>3 DEF SeeCancel, RunsHaveJobs, Holding
    <3>. QED BY <2>3, <3>1 DEF SeeCancel, Holding
  <2>4. CASE Finish(w)
    BY <2>4 DEF Finish, Released, AfterFinish, Holding
  <2>. QED BY <1>2, <2>1, <2>2, <2>3, <2>4 DEF RunStep
<1>3. ASSUME NEW j \in Job, Cancel(j)
      PROVE  CancelIsForHolders' /\ CancelledIfAsked'
  BY <1>3 DEF Cancel, Holders
<1>4. CASE UNCHANGED <<flags, runs>>
  BY <1>4
<1>. QED
  BY <1>1, <1>2, <1>3, <1>4 DEF Next, PollStep, vars, CopyRunning, ReadResult, Answer

LEMMA CInvStep == CInv /\ [Next]_vars => CInv'
  BY TypeStep, JobsStep, OneRunStep, CancelStep DEF CInv, IInv

\* Only a run that was asked to stop leaves its loop early, however many runs of
\* the job were cancelled before it (manager.py 72-76, 96-101).
THEOREM OnlyAskedRunsStop == Spec => []CancelledIfAsked
<1>1. CInv => CancelledIfAsked
  BY DEF CInv
<1>. QED BY InitCInv, CInvStep, <1>1, PTL DEF Spec

\* Runs start in the order of their numbers.
StartedInOrder ==
    \A v, w \in Run : stage[v] # "new" /\ stage[w] = "new" => v < w

\* The stored result is of a run older than the one that occupies the job.
ResultIsOlder ==
    \A j \in Job : results[j] # None =>
        stage[results[j]] # "new" /\ \A w \in Holders(j) : results[j] < w

\* Until a client reads them, the results only move forward.
CopyIsOlder ==
    \A c \in Client :
        poll[c].phase = "copied" /\ poll[c].before # None
        => results[poll[c].job] # None /\ results[poll[c].job] >= poll[c].before

PInv == IInv /\ StartedInOrder /\ ResultIsOlder /\ CopyIsOlder /\ PollSeesEnd

LEMMA InitPInv == Init => PInv
  BY InitIInv, JobAssumption
     DEF PInv, Init, StartedInOrder, ResultIsOlder, CopyIsOlder, PollSeesEnd, IdlePoll, Run

LEMMA OrderStep ==
  ASSUME PInv, [Next]_vars
  PROVE  StartedInOrder' /\ ResultIsOlder'
<1>. USE JobAssumption DEF PInv, IInv, TypeOK, StartedInOrder, ResultIsOlder, Run
<1>1. ASSUME NEW j \in Job, NEW w \in Run, Start(j, w)
      PROVE  StartedInOrder' /\ ResultIsOlder'
  <2>1. Holders(j) = {}
    BY <1>1 DEF Start, Claim, OneRunPerJob
  <2>2. \A i \in Job : Holders(i)' = IF i = j THEN {w} ELSE Holders(i)
    BY <1>1, <2>1, HoldersStart
  <2>3. results' = results /\ stage' = [stage EXCEPT ![w] = "spawning"] /\ IsNext(w)
    BY <1>1 DEF Start
  <2>4. \A v, u \in Run : stage'[v] # "new" /\ stage'[u] = "new" => v < u
    BY <2>3 DEF IsNext
  <2>5. results[j] # None => results[j] < w
    BY <2>3 DEF IsNext
  <2>6. ASSUME NEW i \in Job, results'[i] # None
        PROVE  stage'[results'[i]] # "new" /\ \A v \in Holders(i)' : results'[i] < v
    <3>1. stage'[results'[i]] # "new"
      BY <2>3, <2>6
    <3>2. \A v \in Holders(i)' : results'[i] < v
      BY <2>2, <2>3, <2>5, <2>6
    <3>. QED BY <3>1, <3>2
  <2>. QED BY <2>4, <2>6
<1>2. ASSUME NEW w \in Run, Finish(w)
      PROVE  StartedInOrder' /\ ResultIsOlder'
  <2>1. jobOf[w] \in Job /\ w \in Holders(jobOf[w])
    BY <1>2 DEF RunsHaveJobs, Finish, Holders, Holding
  <2>2. \A i \in Job : Holders(i)' = Holders(i) \ {w}
    BY <1>2, HoldersFinish
  <2>3. \A v \in Holders(jobOf[w]) : v = w
    BY <2>1 DEF OneRunPerJob
  <2>4. /\ results' \in {results, [results EXCEPT ![jobOf[w]] = w]}
        /\ stage' = [stage EXCEPT ![w] = "ended"] /\ stage[w] # "new"
    BY <1>2 DEF Finish, Released, AfterFinish
  <2>5. StartedInOrder'
    BY <2>4
  <2>6. ASSUME NEW i \in Job, results'[i] # None
        PROVE  stage'[results'[i]] # "new" /\ \A v \in Holders(i)' : results'[i] < v
    <3>1. CASE i = jobOf[w]
      <4>1. Holders(i)' = {}
        BY <2>1, <2>2, <2>3, <3>1
      <4>2. results'[i] = w \/ results'[i] = results[i]
        BY <2>1, <2>4, <3>1
      <4>3. stage'[results'[i]] # "new"
        BY <2>4, <2>6, <4>2
      <4>. QED BY <4>1, <4>3
    <3>2. CASE i # jobOf[w]
      <4>1. results'[i] = results[i] /\ stage[results[i]] # "new"
        BY <2>1, <2>4, <2>6, <3>2
      <4>2. stage'[results[i]] # "new"
        BY <2>4, <4>1
      <4>3. \A v \in Holders(i) : results[i] < v
        BY <2>6, <4>1
      <4>. QED BY <2>2, <4>1, <4>2, <4>3
    <3>. QED BY <3>1, <3>2
  <2>. QED BY <2>5, <2>6
<1>3. CASE /\ ~\E j \in Job, w \in Run : Start(j, w)
           /\ ~\E w \in Run : Finish(w)
  <2>1. /\ \A i \in Job : Holders(i)' = Holders(i)
        /\ results' = results
    BY <1>3, HoldersKept
  <2>2. \A w \in Run : stage'[w] = "new" <=> stage[w] = "new"
    BY <1>3 DEF Next, RunStep, PollStep, vars, runs, Spawn, SpawnFails, UpdateProgress,
       SeeCancel, Cancel, CopyRunning, ReadResult, Answer
  <2>. QED BY <2>1, <2>2
<1>. QED BY <1>1, <1>2, <1>3

\* No step takes back the result of a job.
LEMMA ResultsGrow ==
  ASSUME PInv, [Next]_vars
  PROVE  \A j \in Job : results[j] # None => results'[j] # None /\ results'[j] >= results[j]
<1>. USE JobAssumption DEF PInv, IInv, TypeOK, Run
<1>1. ASSUME NEW w \in Run, Finish(w)
      PROVE  \A j \in Job : results[j] # None
                            => results'[j] # None /\ results'[j] >= results[j]
  <2>1. jobOf[w] \in Job /\ w \in Holders(jobOf[w])
    BY <1>1 DEF RunsHaveJobs, Finish, Holders, Holding
  <2>2. results' \in {results, [results EXCEPT ![jobOf[w]] = w]}
    BY <1>1 DEF Finish, Released
  <2>. QED BY <2>1, <2>2 DEF ResultIsOlder
<1>2. CASE results' = results
  BY <1>2
<1>. QED
  BY <1>1, <1>2 DEF Next, RunStep, PollStep, vars, flags, runs, Start, Spawn, SpawnFails,
     UpdateProgress, SeeCancel, Cancel, CopyRunning, ReadResult, Answer

LEMMA PollStepKeeps ==
  ASSUME PInv, [Next]_vars
  PROVE  CopyIsOlder' /\ PollSeesEnd'
<1>. USE JobAssumption DEF PInv, IInv, TypeOK, Run
<1>1. CASE poll' = poll
  <2>1. \A c \in Client : poll[c].before # None => poll[c].before \in Nat
    BY DEF PollState
  <2>2. ASSUME NEW c \in Client, poll[c].phase = "copied", poll[c].before # None
        PROVE  results'[poll[c].job] # None /\ results'[poll[c].job] >= poll[c].before
    <3>1. /\ poll[c].job \in Job /\ results[poll[c].job] # None
          /\ results[poll[c].job] >= poll[c].before
      BY <2>2 DEF CopyIsOlder
    <3>2. /\ results'[poll[c].job] # None
          /\ results'[poll[c].job] >= results[poll[c].job]
      BY <3>1, ResultsGrow
    <3>3. results[poll[c].job] \in Nat /\ results'[poll[c].job] \in Nat
      BY <3>1, <3>2, TypeStep
    <3>. QED BY <2>1, <2>2, <3>1, <3>2, <3>3
  <2>. QED BY <1>1, <2>2 DEF CopyIsOlder, PollSeesEnd
<1>2. ASSUME NEW c \in Client, PollStep(c)
      PROVE  CopyIsOlder' /\ PollSeesEnd'
  <2>0. results' = results
    BY <1>2 DEF PollStep, CopyRunning, ReadResult, Answer, flags
  <2>1. ASSUME NEW j \in Job, CopyRunning(c, j)
        PROVE  CopyIsOlder' /\ PollSeesEnd'
    BY <2>0, <2>1 DEF CopyRunning, CopyIsOlder, PollSeesEnd
  <2>2. CASE ReadResult(c)
    <3>1. \A d \in Client : poll'[d] = IF d = c THEN ReadLast(c) ELSE poll[d]
      BY <2>2 DEF ReadResult
    <3>2. /\ ReadLast(c).phase = "read" /\ ReadLast(c).before = poll[c].before
          /\ ReadLast(c).result = results[poll[c].job]
      BY DEF ReadLast, PollState
    <3>. QED BY <2>0, <2>2, <3>1, <3>2 DEF ReadResult, CopyIsOlder, PollSeesEnd
  <2>3. CASE Answer(c)
    BY <2>0, <2>3 DEF Answer, IdlePoll, CopyIsOlder, PollSeesEnd
  <2>. QED BY <1>2, <2>1, <2>2, <2>3 DEF PollStep
<1>. QED
  BY <1>1, <1>2 DEF Next, RunStep, vars, flags, runs, Start, Spawn, SpawnFails,
     UpdateProgress, SeeCancel, Finish, Cancel

\* A status that says a job is not running carries the result of the run that ended
\* last when the flags were copied, or a later one, although the results are read
\* after the lock is released (manager.py 130-175).
THEOREM PollsSeeTheEnd == Spec => []PollSeesEnd
<1>1. PInv /\ [Next]_vars => PInv'
  BY TypeStep, JobsStep, OneRunStep, OrderStep, PollStepKeeps DEF PInv, IInv
<1>2. PInv => PollSeesEnd
  BY DEF PInv
<1>. QED BY InitPInv, <1>1, <1>2, PTL DEF Spec
=============================================================================

-------------------------- MODULE RenameApplyProofs --------------------------
(***************************************************************************)
(* Proofs about the jobs apply and undo: no ROM is lost, the games table   *)
(* is true and an undo returns the ROMs, for any games, paths, titles and  *)
(* faults, and however many jobs, crashes and arrivals.                    *)
(***************************************************************************)
EXTENDS RenameApply, FiniteSetTheorems, SequenceTheorems, TLAPS

Phases == {"idle", "rename", "record", "extract"}
Move == [game : Game, from : Path, to : Path]
Operation == [game : Game, from : Path, to : Path, at : Nat]
Places == [Game -> Path \cup {None}]
JobState == [phase : Phases, at : Nat, todo : Seq(Move), clean : BOOLEAN,
             start : Places, goal : Places]

TypeOK ==
    /\ posix \in BOOLEAN /\ now \in Nat
    /\ disk \in [Path -> Game \cup {None}] /\ unzipped \subseteq Game
    /\ row \in Places /\ title \in [Game -> Title \cup {None}]
    /\ ops \in Seq(Operation)
    /\ job \in [Kind -> JobState]
    /\ crashes \in Nat /\ missed \subseteq Game /\ origin \in Places

\* One job at a time, and it has the operation it is about.
OneJob ==
    /\ \A k, l \in Kind : job[k].phase # "idle" /\ job[l].phase # "idle" => k = l
    /\ \A k \in Kind : job[k].phase \in {"record", "extract"} => job[k].todo # <<>>

\* A ROM is at one path, and has a row; a path is in one row.
OnePlace == \A p, q \in Path : disk[p] = disk[q] /\ disk[p] # None => p = q
HasRow == \A p \in Path : disk[p] # None => row[disk[p]] # None
OneRow == \A g, h \in Game : row[g] = row[h] /\ row[g] # None => g = h

\* Every ROM that is known is somewhere, or was an archive.
Kept == \A g \in Game \ unzipped : row[g] # None => \E p \in Path : disk[p] = g

\* A row is true, but for one cut off from its rename.
Excused == unzipped \cup missed \cup BeingRecorded
TrueRow(g) == row[g] # None => disk[row[g]] = g
TrueRows == \A g \in Game \ Excused : TrueRow(g)

\* The places in todo that wait for their rename, and for their row.
ToRename(k) == {i \in DOMAIN job[k].todo : job[k].phase = "rename" \/ i # 1}
ToRecord(k) == {i \in DOMAIN job[k].todo : job[k].phase # "extract" \/ i # 1}

\* What a job is to do it still can: the rows are where it takes the ROMs from.
Doable(k) ==
    LET ahead == job[k].todo IN
    /\ \A i \in ToRecord(k) : row[ahead[i].game] = ahead[i].from
    /\ \A i, j \in DOMAIN ahead : ahead[i].game = ahead[j].game => i = j
    /\ job[k].phase = "record" =>
          ahead[1].game \in unzipped \cup missed \/ disk[ahead[1].to] = ahead[1].game

\* Where a rename replaces what is in the way, nothing is.
Free(k) ==
    posix => LET ahead == job[k].todo IN
             /\ \A i \in ToRename(k) : disk[ahead[i].to] = None
             /\ \A i, j \in ToRename(k) : ahead[i].to = ahead[j].to => i = j

\* The rows of one date are of different games, each where its row says it went.
Batch(at) ==
    /\ \A i \in DOMAIN ops : ops[i].at = at => row[ops[i].game] = ops[i].to
    /\ \A i, j \in DOMAIN ops :
          ops[i].at = at /\ ops[j].at = at /\ ops[i].game = ops[j].game => i = j

\* A job dates its operations, none of which it has still to record.
JobBatch(k) ==
    /\ Batch(job[k].at)
    /\ \A i \in DOMAIN ops, j \in ToRecord(k) :
          ops[i].at = job[k].at => ops[i].game # job[k].todo[j].game

JobInv(k) == job[k].phase # "idle" => Doable(k) /\ Free(k) /\ JobBatch(k)
LastBatchTrue == ops # <<>> => Batch(Last(ops).at)

FilesInv == OnePlace /\ HasRow /\ OneRow /\ Kept /\ TrueRows
ApplyInv ==
    /\ TypeOK /\ OneJob /\ FilesInv /\ LastBatchTrue
    /\ \A k \in Kind : JobInv(k)

\* A game was where `was` says before the batch of a date: an operation of the batch took it
\* from there, or none is about it and its row is still that.
Came(at, was) ==
    \A g \in Game \ (missed \cup unzipped) : was[g] # None =>
        \/ \E i \in DOMAIN ops : ops[i].at = at /\ ops[i].game = g /\ ops[i].from = was[g]
        \/ row[g] = was[g] /\ \A i \in DOMAIN ops : ops[i].at = at => ops[i].game # g

\* origin is where the games were before the last batch, start before the batch of a job.
OriginTrue == ops # <<>> => Came(Last(ops).at, origin)
StartTrue(k) ==
    job[k].phase # "idle" =>
        /\ Came(job[k].at, job[k].start)
        /\ (\E i \in DOMAIN ops : ops[i].at = job[k].at) =>
              Last(ops).at = job[k].at /\ origin = job[k].start

\* While nothing fails an undo has taken a game to its goal, or is yet to.
GoalNear ==
    /\ job["undo"].phase # "extract"
    /\ job["undo"].phase # "idle" /\ job["undo"].clean =>
          \A g \in Game \ (missed \cup unzipped) :
             LET ahead == job["undo"].todo
                 goal == job["undo"].goal IN
             goal[g] # None =>
                \/ \E j \in DOMAIN ahead : ahead[j].game = g /\ ahead[j].to = goal[g]
                \/ row[g] = goal[g] /\ \A j \in DOMAIN ahead : ahead[j].game # g

ReturnInv == ApplyInv /\ OriginTrue /\ GoalNear /\ \A k \in Kind : StartTrue(k)
-----------------------------------------------------------------------------
(* The plan and the batch *)

LEMMA NoneIsNothing == None \notin Game /\ None \notin Path /\ Title \subseteq Path
BY ApplyAssumption

\* A sequence made of n elements of a set.
LEMMA MovesOf ==
    ASSUME NEW n \in Nat, NEW f \in [1 .. n -> Move]
    PROVE  f \in Seq(Move) /\ DOMAIN f = 1 .. n /\ Len(f) = n
BY SeqDef

LEMMA RankIsSmall ==
    ASSUME NEW n \in Nat, NEW order \in [1 .. n -> Game], NEW i \in 1 .. n,
           n <= Cardinality(Game)
    PROVE  Rank(order, i) \in 1 .. Cardinality(Game)
<1>. DEFINE Same == {j \in 1 .. i : title[order[j]] = title[order[i]]}
<1>1. IsFiniteSet(1 .. i) /\ Cardinality(1 .. i) = i
  BY FS_Interval
<1>2. Same \in SUBSET (1 .. i) /\ i \in Same
  OBVIOUS
<1>3. IsFiniteSet(Same) /\ Cardinality(Same) <= i /\ Cardinality(Same) \in Nat
  <2>1. IsFiniteSet(Same) /\ Cardinality(Same) <= Cardinality(1 .. i)
    BY <1>1, <1>2, FS_Subset
  <2>. QED
    BY <1>1, <2>1, FS_CardinalityType
<1>4. Cardinality(Same) # 0
  BY <1>2, <1>3, FS_EmptySet
<1>5. Cardinality(Game) \in Nat
  BY ApplyAssumption, FS_CardinalityType
<1>. QED
  BY <1>3, <1>4, <1>5 DEF Rank

\* The operations of a plan: of different games, each from where its row is.
LEMMA PlanIsGood ==
    ASSUME TypeOK, NEW keepBoth \in BOOLEAN, NEW order \in SetToSeqs(Planned(keepBoth))
    PROVE  /\ Resolve(order) \in Seq(Move)
           /\ \A i \in DOMAIN Resolve(order) :
                 /\ Resolve(order)[i].game \in Planned(keepBoth)
                 /\ Resolve(order)[i].from = row[Resolve(order)[i].game]
                 /\ ~Collides(Resolve(order)[i].game) =>
                       Resolve(order)[i].to = title[Resolve(order)[i].game]
           /\ \A i, j \in DOMAIN Resolve(order) :
                 Resolve(order)[i].game = Resolve(order)[j].game => i = j
<1>. DEFINE n == Cardinality(Planned(keepBoth))
<1>1. Planned(keepBoth) \in SUBSET Game /\ Planned(keepBoth) \subseteq Pending
  BY DEF Planned, Pending
<1>2. n \in Nat /\ n <= Cardinality(Game)
  <2>1. IsFiniteSet(Planned(keepBoth)) /\ n <= Cardinality(Game)
    BY <1>1, ApplyAssumption, FS_Subset
  <2>. QED
    BY <2>1, FS_CardinalityType
<1>3. /\ order \in [1 .. n -> Planned(keepBoth)]
      /\ \A i, j \in 1 .. n : i # j => order[i] # order[j]
  BY DEF SetToSeqs
<1>4. order \in [1 .. n -> Game]
  BY <1>1, <1>3
<1>5. ASSUME NEW i \in 1 .. n
      PROVE  /\ row[order[i]] \in Path /\ title[order[i]] \in Title
             /\ Numbered[title[order[i]]][Rank(order, i)] \in Path
  <2>1. row[order[i]] \in Path /\ title[order[i]] \in Title
    BY <1>1, <1>3 DEF Pending, TypeOK, Places
  <2>2. Rank(order, i) \in 1 .. Cardinality(Game)
    BY <1>2, <1>4, RankIsSmall
  <2>. QED
    BY <2>1, <2>2, ApplyAssumption
<1>6. Resolve(order) \in [1 .. n -> Move]
  BY <1>4, <1>5, NoneIsNothing DEF Resolve, Move
<1>7. Resolve(order) \in Seq(Move) /\ DOMAIN Resolve(order) = 1 .. n
  BY <1>2, <1>6, MovesOf
<1>8. \A i \in 1 .. n :
        /\ Resolve(order)[i].game = order[i] /\ Resolve(order)[i].from = row[order[i]]
        /\ ~Collides(order[i]) => Resolve(order)[i].to = title[order[i]]
  BY <1>3 DEF Resolve
<1>. QED
  BY <1>3, <1>7, <1>8

\* A plan without collisions asks for paths that are free and different.
LEMMA PlanIsFree ==
    ASSUME TypeOK, NEW order \in SetToSeqs(Planned(FALSE))
    PROVE  /\ \A i \in DOMAIN Resolve(order) : disk[Resolve(order)[i].to] = None
           /\ \A i, j \in DOMAIN Resolve(order) :
                 Resolve(order)[i].to = Resolve(order)[j].to => i = j
<1>1. ASSUME NEW i \in DOMAIN Resolve(order)
      PROVE  /\ Resolve(order)[i].game \in Pending /\ ~Collides(Resolve(order)[i].game)
             /\ Resolve(order)[i].to = title[Resolve(order)[i].game]
  BY PlanIsGood DEF Planned
<1>2. \A g, h \in Pending : ~Collides(g) /\ title[g] = title[h] => g = h
  BY DEF Collides
<1>3. \A i, j \in DOMAIN Resolve(order) :
        Resolve(order)[i].game = Resolve(order)[j].game => i = j
  BY PlanIsGood
<1>4. \A g \in Pending : disk[title[g]] = None
  BY DEF Pending
<1>. QED
  BY <1>1, <1>2, <1>3, <1>4

LEMMA OpsAreTyped ==
    ASSUME TypeOK
    PROVE  /\ Len(ops) \in Nat /\ DOMAIN ops = 1 .. Len(ops)
           /\ \A i \in DOMAIN ops : ops[i] \in Operation
BY LenProperties, ElementOfSeq DEF TypeOK

\* An undo takes back the last batch, newest first.
LEMMA UndoingIsGood ==
    ASSUME TypeOK, NEW n \in DOMAIN ops, LastBatch(n)
    PROVE  /\ Undoing(n) \in Seq(Move) /\ DOMAIN Undoing(n) = 1 .. n
           /\ \A i \in 1 .. n :
                 /\ Len(ops) + 1 - i \in DOMAIN ops
                 /\ Undoing(n)[i] = Reversed(ops[Len(ops) + 1 - i])
                 /\ ops[Len(ops) + 1 - i].at = Last(ops).at
<1>1. /\ n \in Nat
      /\ \A i \in 1 .. n : Len(ops) + 1 - i \in DOMAIN ops /\ Len(ops) - n < Len(ops) + 1 - i
  BY OpsAreTyped
<1>2. Undoing(n) \in [1 .. n -> Move]
  BY <1>1, OpsAreTyped DEF Undoing, Reversed, Move, Operation
<1>. QED
  BY <1>1, <1>2, MovesOf DEF LastBatch, Undoing
-----------------------------------------------------------------------------
(* Types *)

LEMMA PlacesTyped == TypeOK => PlacesNow \in Places
BY DEF PlacesNow, PlaceOf, Places

LEMMA TailTyped ==
    ASSUME NEW s \in Seq(Move), s # <<>>
    PROVE  /\ Tail(s) \in Seq(Move) /\ Head(s) = s[1] /\ s[1] \in Move
           /\ Len(s) \in Nat /\ 1 \in DOMAIN s /\ DOMAIN s = 1 .. Len(s)
           /\ DOMAIN Tail(s) = 1 .. (Len(s) - 1)
           /\ \A i \in 1 .. (Len(s) - 1) : Tail(s)[i] = s[i + 1]
<1>1. /\ Len(s) \in Nat \ {0} /\ DOMAIN s = 1 .. Len(s) /\ s[1] \in Move
  BY EmptySeq, LenProperties, ElementOfSeq
<1>2. /\ Tail(s) \in Seq(Move) /\ Len(Tail(s)) = Len(s) - 1
      /\ \A i \in 1 .. Len(Tail(s)) : Tail(s)[i] = s[i + 1]
  BY HeadTailProperties
<1>3. DOMAIN Tail(s) = 1 .. Len(Tail(s))
  BY <1>2, LenProperties
<1>. QED
  BY <1>1, <1>2, <1>3

\* The operation a job is about.
LEMMA HeadTyped ==
    ASSUME TypeOK, NEW k \in Kind, job[k].todo # <<>>
    PROVE  /\ job[k].todo \in Seq(Move) /\ Now1(k) = job[k].todo[1] /\ Now1(k) \in Move
           /\ Now1(k).game \in Game /\ Now1(k).from \in Path /\ Now1(k).to \in Path
           /\ 1 \in DOMAIN job[k].todo /\ Tail(job[k].todo) \in Seq(Move)
<1>1. job[k].todo \in Seq(Move)
  BY DEF TypeOK, JobState
<1>. QED
  BY <1>1, TailTyped DEF Now1, Move

LEMMA TodoTyped ==
    ASSUME TypeOK, NEW k \in Kind, NEW i \in DOMAIN job[k].todo
    PROVE  job[k].todo[i] \in Move
<1>1. job[k].todo \in Seq(Move)
  BY DEF TypeOK, JobState
<1>2. i \in 1 .. Len(job[k].todo)
  BY <1>1, LenProperties
<1>. QED
  BY <1>1, <1>2, ElementOfSeq

LEMMA IdleTyped == IdleJob \in JobState
<1>1. <<>> \in Seq(Move)
  BY EmptySeq
<1>. QED
  BY <1>1 DEF IdleJob, JobState, Phases, Places

LEMMA BeginTyped ==
    ASSUME TypeOK, NEW k \in Kind, NEW moves \in Seq(Move), NEW goal \in Places,
           Begin(k, moves, goal)
    PROVE  TypeOK'
<1>1. [phase |-> "rename", at |-> now, todo |-> moves, clean |-> TRUE,
       start |-> PlacesNow, goal |-> goal] \in JobState
  BY PlacesTyped DEF TypeOK, JobState, Phases
<1>. QED
  BY <1>1 DEF Begin, TypeOK, library

\* A job that goes on with other operations.
LEMMA JobGoesOn ==
    ASSUME TypeOK, NEW k \in Kind, NEW p \in Phases, NEW moves \in Seq(Move),
           job' = [job EXCEPT ![k].phase = p, ![k].todo = moves]
    PROVE  /\ job' \in [Kind -> JobState]
           /\ job'[k].phase = p /\ job'[k].todo = moves /\ job'[k].at = job[k].at
           /\ \A l \in Kind : l # k => job'[l] = job[l]
<1>1. job[k] \in JobState
  BY DEF TypeOK
<1>2. [job[k] EXCEPT !.phase = p, !.todo = moves] \in JobState
  BY <1>1 DEF JobState
<1>3. job' = [job EXCEPT ![k] = [job[k] EXCEPT !.phase = p, !.todo = moves]]
  BY DEF TypeOK
<1>. QED
  BY <1>1, <1>2, <1>3 DEF TypeOK, JobState

LEMMA TypeInit == Init => TypeOK
BY IdleTyped, EmptySeq DEF Init, TypeOK, Places, Kind

LEMMA TypeStep == TypeOK /\ OneJob /\ [Next]_vars => TypeOK'
<1>. SUFFICES ASSUME TypeOK, OneJob, [Next]_vars PROVE TypeOK'
  OBVIOUS
<1>1. CASE StartApply
  <2>1. PICK keepBoth \in BOOLEAN :
          \E order \in SetToSeqs(Planned(keepBoth)) :
            Begin("apply", Resolve(order), IdleJob.goal)
    BY <1>1 DEF StartApply, TypeOK
  <2>2. PICK order \in SetToSeqs(Planned(keepBoth)) :
          Begin("apply", Resolve(order), IdleJob.goal)
    BY <2>1
  <2>3. Resolve(order) \in Seq(Move)
    BY PlanIsGood
  <2>4. IdleJob.goal \in Places
    BY IdleTyped DEF JobState
  <2>. QED
    BY <2>2, <2>3, <2>4, BeginTyped DEF Kind
<1>2. CASE StartUndo
  <2>1. PICK n \in DOMAIN ops : LastBatch(n) /\ Begin("undo", Undoing(n), origin)
    BY <1>2 DEF StartUndo
  <2>2. Undoing(n) \in Seq(Move)
    BY <2>1, UndoingIsGood
  <2>. QED
    BY <2>1, <2>2, BeginTyped DEF Kind, TypeOK
<1>3. CASE Crash
  <2>1. BeingRecorded \subseteq Game
    BY HeadTyped DEF BeingRecorded, OneJob
  <2>. QED
    BY <1>3, <2>1, IdleTyped DEF Crash, TypeOK, library
<1>4. ASSUME NEW k \in Kind, SkipOp(k) PROVE TypeOK'
  <2>1. Tail(job[k].todo) \in Seq(Move)
    BY <1>4, HeadTyped DEF SkipOp, Next1
  <2>. QED
    BY <1>4, <2>1 DEF SkipOp, TypeOK, JobState, library
<1>5. ASSUME NEW k \in Kind, RenameOp(k) PROVE TypeOK'
  <2>1. Now1(k).from \in Path /\ Now1(k).to \in Path
    BY <1>5, HeadTyped DEF RenameOp, Next1
  <2>. QED
    BY <1>5, <2>1 DEF RenameOp, Goto, TypeOK, JobState, Phases
<1>6. ASSUME NEW k \in Kind, RecordOp(k) PROVE TypeOK'
  <2>1. /\ Now1(k).game \in Game /\ Now1(k).from \in Path /\ Now1(k).to \in Path
        /\ Tail(job[k].todo) \in Seq(Move) /\ job[k].at \in Nat /\ job[k].start \in Places
    BY <1>6, HeadTyped DEF RecordOp, OneJob, TypeOK, JobState
  <2>2. [game |-> Now1(k).game, from |-> Now1(k).from, to |-> Now1(k).to, at |-> job[k].at]
          \in Operation
    BY <2>1 DEF Operation
  <2>3. ops' \in Seq(Operation)
    BY <1>6, <2>2, AppendProperties DEF RecordOp, TypeOK
  <2>4. row' \in Places /\ origin' \in Places
    BY <1>6, <2>1 DEF RecordOp, RowFollows, TypeOK, Places
  <2>5. job' \in [Kind -> JobState]
    <3>1. PICK p \in Phases, moves \in Seq(Move) :
            job' = [job EXCEPT ![k].phase = p, ![k].todo = moves]
      BY <1>6, <2>1, HeadTyped DEF RecordOp, Phases, OneJob
    <3>. QED
      BY <3>1, JobGoesOn
  <2>. QED
    BY <1>6, <2>3, <2>4, <2>5 DEF RecordOp, TypeOK
<1>7. ASSUME NEW k \in Kind, RecordFails(k) PROVE TypeOK'
  <2>1. Now1(k).game \in Game
    BY <1>7, HeadTyped DEF RecordFails, OneJob
  <2>. QED
    BY <1>7, <2>1, IdleTyped DEF RecordFails, TypeOK, library
<1>8. ASSUME NEW k \in Kind, ExtractOp(k) PROVE TypeOK'
  <2>1. Now1(k).game \in Game /\ Tail(job[k].todo) \in Seq(Move)
    BY <1>8, HeadTyped DEF ExtractOp, OneJob
  <2>2. disk' \in [Path -> Game \cup {None}] /\ unzipped' \subseteq Game
    BY <1>8, <2>1 DEF ExtractOp, TypeOK
  <2>3. job' \in [Kind -> JobState]
    BY <1>8, <2>1, JobGoesOn DEF ExtractOp, Phases
  <2>. QED
    BY <1>8, <2>2, <2>3 DEF ExtractOp, TypeOK
<1>9. ASSUME NEW k \in Kind, Finish(k) PROVE TypeOK'
  BY <1>9, IdleTyped DEF Finish, TypeOK, library
<1>10. CASE Tick
  BY <1>10 DEF Tick, TypeOK, library
<1>11. ASSUME NEW g \in Game, NEW p \in Path, Arrive(g, p) PROVE TypeOK'
  BY <1>11 DEF Arrive, TypeOK, Places
<1>12. ASSUME NEW g \in Game, NEW p \in Title, Match(g, p) PROVE TypeOK'
  BY <1>12 DEF Match, TypeOK
<1>13. CASE UNCHANGED vars
  BY <1>13 DEF vars, library, TypeOK
<1>. QED
  BY <1>1, <1>2, <1>3, <1>4, <1>5, <1>6, <1>7, <1>8, <1>9, <1>10, <1>11, <1>12, <1>13
     DEF Next, JobStep
-----------------------------------------------------------------------------
(* Every step keeps the invariant *)

LEMMA Recording ==
    ASSUME NEW k \in Kind, \A l \in Kind : l # k => job[l].phase = "idle"
    PROVE  BeingRecorded = IF job[k].phase = "record" THEN {Now1(k).game} ELSE {}
BY DEF BeingRecorded

LEMMA RecordingNext ==
    ASSUME NEW k \in Kind, \A l \in Kind : l # k => job'[l].phase = "idle"
    PROVE  BeingRecorded' = IF job'[k].phase = "record" THEN {Now1(k).game'} ELSE {}
BY DEF BeingRecorded, Now1

LEMMA IdleRecordsNothing ==
    /\ Idle => BeingRecorded = {}
    /\ Idle' => BeingRecorded' = {}
BY DEF Idle, BeingRecorded

\* While a job runs the other one is idle.
LEMMA OthersIdle ==
    ASSUME OneJob, NEW k \in Kind, job[k].phase # "idle"
    PROVE  \A l \in Kind : l # k => job[l].phase = "idle"
BY DEF OneJob

LEMMA SameFiles ==
    ASSUME FilesInv, LastBatchTrue, UNCHANGED <<disk, unzipped, row, ops>>,
           Excused \subseteq Excused'
    PROVE  FilesInv' /\ LastBatchTrue'
BY DEF FilesInv, OnePlace, HasRow, OneRow, Kept, TrueRows, TrueRow, LastBatchTrue, Batch

\* A job that is begun.
LEMMA BeginKeeps ==
    ASSUME ApplyInv, TypeOK', MayStart, NEW k \in Kind, NEW moves \in Seq(Move), NEW goal,
           Begin(k, moves, goal),
           \A i \in DOMAIN moves : row[moves[i].game] = moves[i].from,
           \A i, j \in DOMAIN moves : moves[i].game = moves[j].game => i = j,
           posix => /\ \A i \in DOMAIN moves : disk[moves[i].to] = None
                    /\ \A i, j \in DOMAIN moves : moves[i].to = moves[j].to => i = j
    PROVE  ApplyInv'
<1>1. /\ job \in [Kind -> JobState] /\ Idle /\ UNCHANGED <<library, missed>>
      /\ \A i \in DOMAIN ops : ops[i].at # now
      /\ job'[k].phase = "rename" /\ job'[k].at = now /\ job'[k].todo = moves
      /\ \A l \in Kind : l # k => job'[l].phase = "idle"
  BY DEF ApplyInv, TypeOK, MayStart, Begin, Idle
<1>2. OneJob'
  BY <1>1 DEF OneJob
<1>3. FilesInv' /\ LastBatchTrue'
  <2>1. Excused \subseteq Excused'
    BY <1>1, IdleRecordsNothing DEF Excused, library
  <2>. QED
    BY <1>1, <2>1, SameFiles DEF ApplyInv, library
<1>4. JobInv(k)'
  <2>1. Doable(k)' /\ Free(k)'
    BY <1>1 DEF Doable, Free, ToRename, ToRecord, library
  <2>2. JobBatch(k)'
    BY <1>1 DEF JobBatch, Batch, library
  <2>. QED
    BY <2>1, <2>2 DEF JobInv
<1>5. \A l \in Kind : JobInv(l)'
  BY <1>1, <1>4 DEF JobInv
<1>. QED
  BY <1>2, <1>3, <1>5 DEF ApplyInv

LEMMA StartApplyKeeps == ApplyInv /\ TypeOK' /\ StartApply => ApplyInv'
<1>. SUFFICES ASSUME ApplyInv, TypeOK', StartApply PROVE ApplyInv'
  OBVIOUS
<1>1. PICK keepBoth \in BOOLEAN :
        /\ posix => keepBoth = FALSE
        /\ \E order \in SetToSeqs(Planned(keepBoth)) :
             Begin("apply", Resolve(order), IdleJob.goal)
  BY DEF StartApply, ApplyInv, TypeOK
<1>2. PICK order \in SetToSeqs(Planned(keepBoth)) :
        Begin("apply", Resolve(order), IdleJob.goal)
  BY <1>1
<1>3. TypeOK /\ MayStart /\ "apply" \in Kind
  BY DEF ApplyInv, StartApply, Kind
<1>4. /\ Resolve(order) \in Seq(Move)
      /\ \A i \in DOMAIN Resolve(order) :
            row[Resolve(order)[i].game] = Resolve(order)[i].from
      /\ \A i, j \in DOMAIN Resolve(order) :
            Resolve(order)[i].game = Resolve(order)[j].game => i = j
  BY <1>3, PlanIsGood
<1>5. posix => /\ \A i \in DOMAIN Resolve(order) : disk[Resolve(order)[i].to] = None
               /\ \A i, j \in DOMAIN Resolve(order) :
                     Resolve(order)[i].to = Resolve(order)[j].to => i = j
  BY <1>1, <1>3, PlanIsFree
<1>. QED
  BY <1>2, <1>3, <1>4, <1>5, BeginKeeps

LEMMA StartUndoKeeps == ApplyInv /\ TypeOK' /\ StartUndo => ApplyInv'
<1>. SUFFICES ASSUME ApplyInv, TypeOK', StartUndo PROVE ApplyInv'
  OBVIOUS
<1>1. PICK n \in DOMAIN ops : LastBatch(n) /\ Begin("undo", Undoing(n), origin)
  BY DEF StartUndo
<1>2. TypeOK /\ MayStart /\ ~posix /\ "undo" \in Kind
  BY DEF ApplyInv, StartUndo, Kind
<1>3. Batch(Last(ops).at)
  BY <1>2, OpsAreTyped DEF ApplyInv, LastBatchTrue
<1>4. /\ Undoing(n) \in Seq(Move) /\ DOMAIN Undoing(n) = 1 .. n /\ n \in Nat /\ Len(ops) \in Nat
      /\ \A i \in 1 .. n :
            /\ Len(ops) + 1 - i \in DOMAIN ops
            /\ Undoing(n)[i] = Reversed(ops[Len(ops) + 1 - i])
            /\ ops[Len(ops) + 1 - i].at = Last(ops).at
  BY <1>1, <1>2, UndoingIsGood, OpsAreTyped
<1>5. \A i \in 1 .. n : row[Undoing(n)[i].game] = Undoing(n)[i].from
  BY <1>3, <1>4 DEF Batch, Reversed
<1>6. ASSUME NEW i \in 1 .. n, NEW j \in 1 .. n, Undoing(n)[i].game = Undoing(n)[j].game
      PROVE  i = j
  <2>1. ops[Len(ops) + 1 - i].game = ops[Len(ops) + 1 - j].game
    BY <1>4, <1>6 DEF Reversed
  <2>2. Len(ops) + 1 - i = Len(ops) + 1 - j
    BY <1>3, <1>4, <2>1 DEF Batch
  <2>. QED
    BY <1>4, <2>2
<1>. QED
  BY <1>1, <1>2, <1>4, <1>5, <1>6, BeginKeeps

\* A job that ends, or is cut off, and excuses what it was recording.
LEMMA EndKeeps ==
    ASSUME ApplyInv, TypeOK', Idle', UNCHANGED library,
           missed \cup BeingRecorded \subseteq missed'
    PROVE  ApplyInv'
<1>1. Excused \subseteq Excused'
  BY DEF Excused, library
<1>2. FilesInv' /\ LastBatchTrue'
  BY <1>1, SameFiles DEF ApplyInv, library
<1>. QED
  BY <1>2 DEF ApplyInv, OneJob, Idle, JobInv

LEMMA ArriveKeeps ==
    ASSUME ApplyInv, TypeOK', NEW g \in Game, NEW p \in Path, Arrive(g, p)
    PROVE  ApplyInv'
<1>1. /\ disk \in [Path -> Game \cup {None}] /\ row \in Places /\ OnePlace /\ HasRow
      /\ OneRow /\ Kept /\ TrueRows /\ Idle /\ TypeOK
  BY DEF ApplyInv, FilesInv, TypeOK, Arrive
<1>2. /\ row[g] = None /\ disk[p] = None /\ \A h \in Game : row[h] # p
      /\ disk' = [disk EXCEPT ![p] = g] /\ row' = [row EXCEPT ![g] = p]
      /\ UNCHANGED <<posix, unzipped, ops, job, missed>>
  BY DEF Arrive
<1>3. disk'[p] = g /\ row'[g] = p /\ \A q \in Path : disk[q] # g
  BY <1>1, <1>2, NoneIsNothing DEF Places, HasRow
<1>4. OnePlace' /\ HasRow' /\ OneRow'
  BY <1>1, <1>2, <1>3, NoneIsNothing DEF OnePlace, HasRow, OneRow, Places
<1>5. Kept'
  BY <1>1, <1>2, <1>3, NoneIsNothing DEF Kept, Places
<1>6. TrueRows'
  <2>1. Excused' = Excused
    BY <1>1, <1>2, IdleRecordsNothing DEF Excused, Idle
  <2>. QED
    BY <1>1, <1>2, <1>3, <2>1 DEF TrueRows, TrueRow, Places
<1>7. LastBatchTrue'
  <2>1. \A i \in DOMAIN ops : ops[i].to \in Path
    BY <1>1, OpsAreTyped DEF Operation
  <2>2. \A i \in DOMAIN ops : row[ops[i].game] = ops[i].to => row'[ops[i].game] = ops[i].to
    BY <1>1, <1>2, <2>1, NoneIsNothing, OpsAreTyped DEF Operation, Places
  <2>. QED
    BY <1>2, <2>2 DEF LastBatchTrue, Batch, ApplyInv
<1>. QED
  BY <1>1, <1>2, <1>4, <1>5, <1>6, <1>7 DEF ApplyInv, FilesInv, OneJob, Idle, JobInv

\* What is left of a job when its first operation is done with.
LEMMA Shift ==
    ASSUME TypeOK, NEW k \in Kind, job[k].todo # <<>>,
           job'[k].todo = Tail(job[k].todo), job'[k].phase = "rename"
    PROVE  /\ ToRename(k)' = DOMAIN job'[k].todo /\ ToRecord(k)' = DOMAIN job'[k].todo
           /\ \A i \in DOMAIN job'[k].todo :
                 /\ i + 1 \in ToRename(k) /\ i + 1 \in ToRecord(k)
                 /\ i + 1 \in DOMAIN job[k].todo /\ i \in Nat
                 /\ job'[k].todo[i] = job[k].todo[i + 1]
<1>1. job[k].todo \in Seq(Move)
  BY HeadTyped
<1>. QED
  BY <1>1, TailTyped DEF ToRename, ToRecord

LEMMA SkipKeeps ==
    ASSUME ApplyInv, TypeOK', NEW k \in Kind, SkipOp(k)
    PROVE  ApplyInv'
<1>1. /\ TypeOK /\ OneJob /\ job[k].phase = "rename" /\ job[k].todo # <<>>
      /\ UNCHANGED <<posix, disk, unzipped, row, ops, missed>>
  BY DEF ApplyInv, SkipOp, Next1, library
<1>2. /\ job'[k].phase = "rename" /\ job'[k].todo = Tail(job[k].todo)
      /\ job'[k].at = job[k].at /\ \A l \in Kind : l # k => job'[l] = job[l]
  BY <1>1 DEF SkipOp, TypeOK, JobState
<1>3. \A l \in Kind : l # k => job[l].phase = "idle" /\ job'[l].phase = "idle"
  BY <1>1, <1>2, OthersIdle
<1>4. OneJob'
  BY <1>2, <1>3 DEF OneJob
<1>5. FilesInv' /\ LastBatchTrue'
  <2>1. Excused \subseteq Excused'
    BY <1>1, <1>2, <1>3, Recording DEF Excused
  <2>. QED
    BY <1>1, <2>1, SameFiles DEF ApplyInv
<1>6. Doable(k)' /\ Free(k)' /\ JobBatch(k)'
  <2>1. Doable(k) /\ Free(k) /\ JobBatch(k)
    BY <1>1 DEF ApplyInv, JobInv
  <2>2. /\ ToRename(k)' = DOMAIN job'[k].todo /\ ToRecord(k)' = DOMAIN job'[k].todo
        /\ \A i \in DOMAIN job'[k].todo :
              /\ i + 1 \in ToRename(k) /\ i + 1 \in ToRecord(k)
              /\ i + 1 \in DOMAIN job[k].todo /\ i \in Nat
              /\ job'[k].todo[i] = job[k].todo[i + 1]
    BY <1>1, <1>2, Shift
  <2>3. Doable(k)'
    <3>1. \A i, j \in DOMAIN job'[k].todo :
            job'[k].todo[i].game = job'[k].todo[j].game => i = j
      BY <2>1, <2>2 DEF Doable
    <3>2. \A i \in DOMAIN job'[k].todo : row[job'[k].todo[i].game] = job'[k].todo[i].from
      BY <2>1, <2>2 DEF Doable
    <3>. QED
      BY <1>1, <1>2, <2>2, <3>1, <3>2 DEF Doable
  <2>4. Free(k)'
    <3>. SUFFICES ASSUME posix
                  PROVE  /\ \A i \in DOMAIN job'[k].todo : disk[job'[k].todo[i].to] = None
                         /\ \A i, j \in DOMAIN job'[k].todo :
                               job'[k].todo[i].to = job'[k].todo[j].to => i = j
      BY <1>1, <2>2 DEF Free
    <3>. QED
      BY <2>1, <2>2 DEF Free
  <2>5. JobBatch(k)'
    <3>1. \A i \in DOMAIN ops, j \in DOMAIN job'[k].todo :
            ops[i].at = job[k].at => ops[i].game # job'[k].todo[j].game
      BY <2>1, <2>2 DEF JobBatch
    <3>2. Batch(job[k].at)
      BY <2>1 DEF JobBatch
    <3>. QED
      BY <1>1, <1>2, <2>2, <3>1, <3>2 DEF JobBatch, Batch
  <2>. QED
    BY <2>3, <2>4, <2>5
<1>. QED
  BY <1>3, <1>4, <1>5, <1>6 DEF ApplyInv, JobInv

LEMMA RenameKeeps ==
    ASSUME ApplyInv, TypeOK', NEW k \in Kind, RenameOp(k)
    PROVE  ApplyInv'
<1>. DEFINE op == Now1(k)
<1>1. /\ TypeOK /\ OneJob /\ job[k].phase = "rename" /\ job[k].todo # <<>>
      /\ disk[op.from] # None /\ (posix \/ disk[op.to] = None \/ op.to = op.from)
      /\ disk' = IF op.to = op.from THEN disk
                 ELSE [disk EXCEPT ![op.to] = disk[op.from], ![op.from] = None]
      /\ UNCHANGED <<posix, unzipped, row, ops, missed>>
  BY DEF ApplyInv, RenameOp, Next1
<1>2. /\ job'[k].phase = "record" /\ job'[k].todo = job[k].todo
      /\ job'[k].at = job[k].at /\ \A l \in Kind : l # k => job'[l] = job[l]
  BY <1>1 DEF RenameOp, Goto, TypeOK, JobState
<1>3. \A l \in Kind : l # k => job[l].phase = "idle" /\ job'[l].phase = "idle"
  BY <1>1, <1>2, OthersIdle
<1>4. OneJob'
  BY <1>1, <1>2, <1>3 DEF OneJob
<1>5. /\ op = job[k].todo[1] /\ op.game \in Game /\ op.from \in Path /\ op.to \in Path
      /\ 1 \in DOMAIN job[k].todo /\ Doable(k) /\ Free(k) /\ JobBatch(k)
  BY <1>1, HeadTyped DEF ApplyInv, JobInv
<1>6. row[op.game] = op.from
  BY <1>1, <1>5 DEF Doable, ToRecord
<1>7. disk[op.to] = None \/ op.to = op.from
  BY <1>1, <1>5 DEF Free, ToRename
<1>8. /\ disk \in [Path -> Game \cup {None}] /\ row \in Places /\ OnePlace /\ HasRow /\ OneRow
      /\ Kept /\ TrueRows
  BY <1>1 DEF ApplyInv, FilesInv, TypeOK
<1>9. /\ Excused = unzipped \cup missed
      /\ Excused' = unzipped \cup missed \cup {op.game}
  BY <1>1, <1>2, <1>3, Recording, RecordingNext DEF Excused, Now1
<1>10. OnePlace' /\ HasRow' /\ OneRow'
  BY <1>1, <1>5, <1>7, <1>8 DEF OnePlace, HasRow, OneRow
<1>11. Kept'
  <2>. SUFFICES ASSUME NEW g \in Game \ unzipped, row[g] # None
                PROVE  \E p \in Path : disk'[p] = g
    BY <1>1 DEF Kept
  <2>1. PICK p \in Path : disk[p] = g
    BY <1>8 DEF Kept
  <2>2. CASE p = op.from
    BY <1>1, <1>5, <1>8, <2>1, <2>2
  <2>3. CASE p # op.from
    BY <1>1, <1>5, <1>7, <1>8, <2>1, <2>3, NoneIsNothing
  <2>. QED
    BY <2>2, <2>3
<1>12. TrueRows'
  <2>. SUFFICES ASSUME NEW g \in Game, g \notin unzipped \cup missed, g # op.game, row[g] # None
                PROVE  disk'[row[g]] = g
    BY <1>1, <1>9 DEF TrueRows, TrueRow
  <2>1. disk[row[g]] = g /\ row[g] \in Path
    BY <1>8, <1>9 DEF TrueRows, TrueRow, Places
  <2>2. row[g] # op.from
    BY <1>5, <1>6, <1>8 DEF OneRow
  <2>3. row[g] # op.to
    BY <1>7, <2>1, <2>2, NoneIsNothing
  <2>. QED
    BY <1>1, <1>5, <1>8, <2>1, <2>2, <2>3
<1>13. LastBatchTrue'
  BY <1>1 DEF ApplyInv, LastBatchTrue, Batch
<1>14. Doable(k)'
  <2>1. op.game \in unzipped \cup missed \/ disk[op.from] = op.game
    BY <1>5, <1>6, <1>8, <1>9, NoneIsNothing DEF TrueRows, TrueRow, Places
  <2>2. disk[op.from] = op.game => disk'[op.to] = op.game
    BY <1>1, <1>5, <1>8
  <2>3. ToRecord(k)' = ToRecord(k)
    BY <1>1, <1>2 DEF ToRecord
  <2>. QED
    BY <1>1, <1>2, <1>5, <2>1, <2>2, <2>3 DEF Doable
<1>15. Free(k)'
  <2>1. \A i \in ToRename(k)' : i \in ToRename(k) /\ i # 1
    BY <1>1, <1>2 DEF ToRename
  <2>2. \A i \in ToRename(k) : job[k].todo[i].to \in Path
    BY <1>1, TodoTyped DEF ToRename, Move
  <2>3. ASSUME posix, NEW i \in ToRename(k)' PROVE disk'[job[k].todo[i].to] = None
    <3>1. disk[job[k].todo[i].to] = None /\ job[k].todo[i].to # op.to
      BY <1>1, <1>5, <2>1, <2>3 DEF Free, ToRename
    <3>. QED
      BY <1>1, <1>5, <1>8, <2>1, <2>2, <3>1
  <2>. QED
    BY <1>1, <1>2, <1>5, <2>1, <2>3 DEF Free
<1>16. JobBatch(k)'
  <2>1. ToRecord(k)' = ToRecord(k)
    BY <1>1, <1>2 DEF ToRecord
  <2>. QED
    BY <1>1, <1>2, <1>5, <2>1 DEF JobBatch, Batch
<1>. QED
  BY <1>3, <1>4, <1>10, <1>11, <1>12, <1>13, <1>14, <1>15, <1>16 DEF ApplyInv, FilesInv, JobInv

\* After the row is written the job goes on, with this operation or with the next.
LEMMA RecordGoesOn ==
    ASSUME TypeOK, NEW k \in Kind, job[k].todo # <<>>, RecordOp(k)
    PROVE  /\ job'[k].phase \in {"rename", "extract"} /\ job'[k].at = job[k].at
           /\ \A l \in Kind : l # k => job'[l] = job[l]
           /\ job'[k].phase = "extract" => job'[k].todo = job[k].todo
           /\ \E d \in Nat :
                /\ \A i \in DOMAIN job'[k].todo :
                      /\ i \in Nat /\ i + d \in DOMAIN job[k].todo
                      /\ job'[k].todo[i] = job[k].todo[i + d]
                /\ \A i \in ToRecord(k)' \cup ToRename(k)' :
                      i \in DOMAIN job'[k].todo /\ i + d # 1
<1>. DEFINE extracts == k = "apply" /\ Now1(k).game \in Zipped \ unzipped
<1>1. job[k].todo \in Seq(Move)
  BY HeadTyped
<1>2. job' = [job EXCEPT ![k].phase = IF extracts THEN "extract" ELSE "rename",
                         ![k].todo = IF extracts THEN @ ELSE Tail(@)]
  BY DEF RecordOp
<1>3. /\ job'[k].phase = IF extracts THEN "extract" ELSE "rename"
      /\ job'[k].todo = IF extracts THEN job[k].todo ELSE Tail(job[k].todo)
      /\ job'[k].at = job[k].at /\ \A l \in Kind : l # k => job'[l] = job[l]
  BY <1>2 DEF TypeOK, JobState
<1>. HIDE DEF extracts
<1>4. CASE extracts
  <2>1. \A i \in DOMAIN job'[k].todo : i \in Nat /\ i + 0 = i
    BY <1>1, <1>3, <1>4, TailTyped
  <2>2. \A i \in ToRecord(k)' \cup ToRename(k)' : i \in DOMAIN job'[k].todo /\ i # 1
    BY <1>3, <1>4 DEF ToRecord, ToRename
  <2>. QED
    BY <1>3, <1>4, <2>1, <2>2
<1>5. CASE ~extracts
  <2>1. \A i \in DOMAIN job'[k].todo :
          /\ i \in Nat /\ i + 1 \in DOMAIN job[k].todo /\ i + 1 # 1
          /\ job'[k].todo[i] = job[k].todo[i + 1]
    BY <1>1, <1>3, <1>5, TailTyped
  <2>2. \A i \in ToRecord(k)' \cup ToRename(k)' : i \in DOMAIN job'[k].todo
    BY DEF ToRecord, ToRename
  <2>. QED
    BY <1>3, <1>5, <2>1, <2>2
<1>. QED
  BY <1>4, <1>5

LEMMA RecordKeeps ==
    ASSUME ApplyInv, TypeOK', NEW k \in Kind, RecordOp(k)
    PROVE  ApplyInv'
<1>. DEFINE op == Now1(k)
<1>. DEFINE new == [game |-> op.game, from |-> op.from, to |-> op.to, at |-> job[k].at]
<1>1. /\ TypeOK /\ OneJob /\ job[k].phase = "record" /\ job[k].todo # <<>>
      /\ row' = [row EXCEPT ![op.game] = op.to] /\ \A g \in Game \ {op.game} : row[g] # op.to
      /\ ops' = Append(ops, new) /\ UNCHANGED <<posix, disk, unzipped, missed>>
  BY DEF ApplyInv, RecordOp, OneJob, RowFollows, Taken
<1>2. /\ job'[k].phase \in {"rename", "extract"} /\ job'[k].at = job[k].at
      /\ \A l \in Kind : l # k => job'[l] = job[l]
      /\ job'[k].phase = "extract" => job'[k].todo = job[k].todo
  BY <1>1, RecordGoesOn
<1>3. PICK d \in Nat :
        /\ \A i \in DOMAIN job'[k].todo :
              /\ i \in Nat /\ i + d \in DOMAIN job[k].todo
              /\ job'[k].todo[i] = job[k].todo[i + d]
        /\ \A i \in ToRecord(k)' \cup ToRename(k)' :
              i \in DOMAIN job'[k].todo /\ i + d # 1
  BY <1>1, RecordGoesOn
<1>4. \A l \in Kind : l # k => job[l].phase = "idle" /\ job'[l].phase = "idle"
  BY <1>1, <1>2, OthersIdle
<1>5. /\ op = job[k].todo[1] /\ op.game \in Game /\ op.from \in Path /\ op.to \in Path
      /\ 1 \in DOMAIN job[k].todo /\ Doable(k) /\ Free(k) /\ JobBatch(k)
  BY <1>1, HeadTyped DEF ApplyInv, JobInv
<1>6. /\ ToRecord(k) = DOMAIN job[k].todo
      /\ \A i \in DOMAIN job[k].todo : i # 1 => job[k].todo[i].game # op.game
      /\ \A i \in DOMAIN job[k].todo : row[job[k].todo[i].game] = job[k].todo[i].from
      /\ op.game \in unzipped \cup missed \/ disk[op.to] = op.game
  BY <1>1, <1>5 DEF ToRecord, Doable
<1>7. /\ disk \in [Path -> Game \cup {None}] /\ row \in Places /\ OnePlace /\ HasRow /\ OneRow
      /\ Kept /\ TrueRows /\ row[op.game] # None
  BY <1>1, <1>5, <1>6, NoneIsNothing DEF ApplyInv, FilesInv, TypeOK
<1>8. OneJob'
  BY <1>1, <1>2, <1>4 DEF OneJob
<1>9. OnePlace' /\ HasRow' /\ OneRow' /\ Kept'
  BY <1>1, <1>5, <1>7, NoneIsNothing DEF OnePlace, HasRow, OneRow, Kept, Places
<1>10. TrueRows'
  <2>1. /\ Excused = unzipped \cup missed \cup {op.game}
        /\ Excused' = unzipped \cup missed
    BY <1>1, <1>2, <1>4, Recording, RecordingNext DEF Excused
  <2>. QED
    BY <1>1, <1>5, <1>6, <1>7, <2>1 DEF TrueRows, TrueRow, Places
<1>11. /\ Len(ops) \in Nat /\ DOMAIN ops = 1 .. Len(ops) /\ DOMAIN ops' = 1 .. (Len(ops) + 1)
       /\ \A i \in DOMAIN ops : ops'[i] = ops[i] /\ ops[i].game \in Game
       /\ ops'[Len(ops) + 1] = new /\ Len(ops') = Len(ops) + 1
  <2>1. new \in Operation /\ ops \in Seq(Operation)
    BY <1>1, <1>5 DEF Operation, TypeOK, JobState
  <2>. QED
    BY <1>1, <2>1, AppendProperties, LenProperties, OpsAreTyped DEF Operation
<1>12. \A i \in DOMAIN ops :
         ops[i].at = job[k].at => ops[i].game # op.game /\ row'[ops[i].game] = ops[i].to
  <2>1. \A i \in DOMAIN ops : ops[i].at = job[k].at => ops[i].game # op.game
    BY <1>5, <1>6 DEF JobBatch
  <2>. QED
    BY <1>1, <1>5, <1>7, <1>11, <2>1 DEF JobBatch, Batch, Places
<1>13. \A i \in DOMAIN ops' : i \in DOMAIN ops \/ (ops'[i] = new /\ i = Len(ops) + 1)
  <2>1. \A i \in 1 .. (Len(ops) + 1) : i \in 1 .. Len(ops) \/ i = Len(ops) + 1
    BY <1>11
  <2>. QED
    BY <1>11, <2>1
<1>14. Batch(job[k].at)'
  <2>1. ASSUME NEW i \in DOMAIN ops', ops'[i].at = job[k].at
        PROVE  row'[ops'[i].game] = ops'[i].to
    BY <1>1, <1>5, <1>7, <1>11, <1>12, <1>13, <2>1 DEF Places
  <2>2. ASSUME NEW i \in DOMAIN ops', NEW j \in DOMAIN ops', ops'[i].at = job[k].at,
               ops'[j].at = job[k].at, ops'[i].game = ops'[j].game
        PROVE  i = j
    BY <1>5, <1>11, <1>12, <1>13, <2>2 DEF JobBatch, Batch
  <2>. QED
    BY <1>2, <2>1, <2>2 DEF Batch
<1>15. LastBatchTrue'
  BY <1>2, <1>11, <1>14 DEF LastBatchTrue, Last, Batch
<1>16. Doable(k)'
  <2>1. \A i \in ToRecord(k)' : row'[job'[k].todo[i].game] = job'[k].todo[i].from
    <3>. SUFFICES ASSUME NEW i \in ToRecord(k)'
                  PROVE  row'[job'[k].todo[i].game] = job'[k].todo[i].from
      OBVIOUS
    <3>1. i + d \in DOMAIN job[k].todo /\ i + d # 1 /\ job'[k].todo[i] = job[k].todo[i + d]
      BY <1>3
    <3>2. job[k].todo[i + d].game \in Game
      BY <1>1, <3>1, TodoTyped DEF Move
    <3>. QED
      BY <1>1, <1>6, <1>7, <3>1, <3>2 DEF Places
  <2>2. \A i, j \in DOMAIN job'[k].todo : job'[k].todo[i].game = job'[k].todo[j].game => i = j
    <3>. SUFFICES ASSUME NEW i \in DOMAIN job'[k].todo, NEW j \in DOMAIN job'[k].todo,
                         job'[k].todo[i].game = job'[k].todo[j].game
                  PROVE  i = j
      OBVIOUS
    <3>1. i + d = j + d
      BY <1>3, <1>5 DEF Doable
    <3>. QED
      BY <1>3, <3>1
  <2>. QED
    BY <1>2, <2>1, <2>2 DEF Doable
<1>17. Free(k)'
  <2>. SUFFICES ASSUME posix
                PROVE  /\ \A i \in ToRename(k)' : disk[job'[k].todo[i].to] = None
                       /\ \A i, j \in ToRename(k)' :
                             job'[k].todo[i].to = job'[k].todo[j].to => i = j
    BY <1>1 DEF Free
  <2>1. \A i \in ToRename(k)' :
          /\ i \in Nat /\ i + d \in ToRename(k) /\ job'[k].todo[i] = job[k].todo[i + d]
    BY <1>3 DEF ToRename
  <2>2. /\ \A i \in ToRename(k) : disk[job[k].todo[i].to] = None
        /\ \A i, j \in ToRename(k) : job[k].todo[i].to = job[k].todo[j].to => i = j
    BY <1>5 DEF Free
  <2>3. ASSUME NEW i \in ToRename(k)', NEW j \in ToRename(k)',
               job'[k].todo[i].to = job'[k].todo[j].to
        PROVE  i = j
    <3>1. i + d = j + d
      BY <2>1, <2>2, <2>3
    <3>. QED
      BY <2>1, <3>1
  <2>. QED
    BY <2>1, <2>2, <2>3
<1>18. JobBatch(k)'
  <2>1. ASSUME NEW i \in DOMAIN ops', NEW j \in ToRecord(k)', ops'[i].at = job[k].at
        PROVE  ops'[i].game # job'[k].todo[j].game
    <3>1. j + d \in DOMAIN job[k].todo /\ j + d # 1 /\ job'[k].todo[j] = job[k].todo[j + d]
      BY <1>3
    <3>2. i \in DOMAIN ops => ops'[i].game # job[k].todo[j + d].game
      BY <1>5, <1>6, <1>11, <2>1, <3>1 DEF JobBatch
    <3>. QED
      BY <1>6, <1>13, <3>1, <3>2
  <2>. QED
    BY <1>2, <1>14, <2>1 DEF JobBatch
<1>. QED
  BY <1>4, <1>8, <1>9, <1>10, <1>15, <1>16, <1>17, <1>18 DEF ApplyInv, FilesInv, JobInv

\* An archive that is extracted and discarded.
LEMMA ExtractKeeps ==
    ASSUME ApplyInv, TypeOK', NEW k \in Kind, ExtractOp(k)
    PROVE  ApplyInv'
<1>. DEFINE op == Now1(k)
<1>1. /\ TypeOK /\ OneJob /\ job[k].phase = "extract" /\ job[k].todo # <<>>
      /\ UNCHANGED <<posix, row, ops, missed>>
      /\ \/ UNCHANGED <<disk, unzipped>>
         \/ /\ disk[op.to] = op.game /\ disk' = [disk EXCEPT ![op.to] = None]
            /\ unzipped' = unzipped \cup {op.game}
  BY DEF ApplyInv, ExtractOp, OneJob
<1>2. /\ job'[k].phase = "rename" /\ job'[k].todo = Tail(job[k].todo)
      /\ job'[k].at = job[k].at /\ \A l \in Kind : l # k => job'[l] = job[l]
  BY <1>1 DEF ExtractOp, TypeOK, JobState
<1>3. \A l \in Kind : l # k => job[l].phase = "idle" /\ job'[l].phase = "idle"
  BY <1>1, <1>2, OthersIdle
<1>4. OneJob'
  BY <1>2, <1>3 DEF OneJob
<1>5. /\ op.game \in Game /\ op.to \in Path /\ disk \in [Path -> Game \cup {None}]
      /\ row \in Places /\ OnePlace /\ HasRow /\ OneRow /\ Kept /\ TrueRows
  BY <1>1, HeadTyped DEF ApplyInv, FilesInv, TypeOK
<1>6. \A p \in Path : disk'[p] = disk[p] \/ (disk'[p] = None /\ disk[p] = op.game /\ p = op.to)
  BY <1>1, <1>5
<1>7. unzipped \subseteq unzipped' /\ (disk' = disk \/ op.game \in unzipped')
  BY <1>1
<1>8. OnePlace' /\ HasRow' /\ OneRow'
  BY <1>1, <1>5, <1>6 DEF OnePlace, HasRow, OneRow
<1>9. Kept'
  BY <1>1, <1>5, <1>6, <1>7 DEF Kept
<1>10. TrueRows'
  <2>1. Excused = unzipped \cup missed /\ Excused' = unzipped' \cup missed
    BY <1>1, <1>2, <1>3, Recording, RecordingNext DEF Excused
  <2>. QED
    BY <1>1, <1>5, <1>6, <1>7, <2>1 DEF TrueRows, TrueRow, Places
<1>11. LastBatchTrue'
  BY <1>1 DEF ApplyInv, LastBatchTrue, Batch
<1>12. Doable(k) /\ Free(k) /\ JobBatch(k)
  BY <1>1 DEF ApplyInv, JobInv
<1>13. /\ ToRename(k)' = DOMAIN job'[k].todo /\ ToRecord(k)' = DOMAIN job'[k].todo
       /\ \A i \in DOMAIN job'[k].todo :
             /\ i + 1 \in ToRename(k) /\ i + 1 \in ToRecord(k)
             /\ i + 1 \in DOMAIN job[k].todo /\ i \in Nat
             /\ job'[k].todo[i] = job[k].todo[i + 1]
  BY <1>1, <1>2, Shift
<1>14. Doable(k)'
  <2>1. \A i, j \in DOMAIN job'[k].todo :
          job'[k].todo[i].game = job'[k].todo[j].game => i = j
    BY <1>12, <1>13 DEF Doable
  <2>2. \A i \in DOMAIN job'[k].todo : row[job'[k].todo[i].game] = job'[k].todo[i].from
    BY <1>12, <1>13 DEF Doable
  <2>. QED
    BY <1>1, <1>2, <1>13, <2>1, <2>2 DEF Doable
<1>15. Free(k)'
  <2>. SUFFICES ASSUME posix
                PROVE  /\ \A i \in DOMAIN job'[k].todo : disk'[job'[k].todo[i].to] = None
                       /\ \A i, j \in DOMAIN job'[k].todo :
                             job'[k].todo[i].to = job'[k].todo[j].to => i = j
    BY <1>1, <1>13 DEF Free
  <2>1. \A i \in DOMAIN job'[k].todo : disk[job'[k].todo[i].to] = None
    BY <1>12, <1>13 DEF Free
  <2>2. \A i \in DOMAIN job'[k].todo : job'[k].todo[i].to \in Path
    BY <1>1, <1>13, TodoTyped DEF Move
  <2>3. \A i, j \in DOMAIN job'[k].todo : job'[k].todo[i].to = job'[k].todo[j].to => i = j
    BY <1>12, <1>13 DEF Free
  <2>. QED
    BY <1>6, <2>1, <2>2, <2>3
<1>16. JobBatch(k)'
  <2>1. \A i \in DOMAIN ops, j \in DOMAIN job'[k].todo :
          ops[i].at = job[k].at => ops[i].game # job'[k].todo[j].game
    BY <1>12, <1>13 DEF JobBatch
  <2>2. Batch(job[k].at)
    BY <1>12 DEF JobBatch
  <2>. QED
    BY <1>1, <1>2, <1>13, <2>1, <2>2 DEF JobBatch, Batch
<1>. QED
  BY <1>3, <1>4, <1>8, <1>9, <1>10, <1>11, <1>14, <1>15, <1>16 DEF ApplyInv, FilesInv, JobInv

\* A step that touches neither the files nor the tables nor a job.
LEMMA RestKeeps ==
    ASSUME ApplyInv, TypeOK', UNCHANGED <<posix, disk, unzipped, row, ops, job, missed>>
    PROVE  ApplyInv'
<1>1. OneJob' /\ Excused' = Excused
  BY DEF ApplyInv, OneJob, Excused, BeingRecorded, Now1
<1>2. FilesInv' /\ LastBatchTrue'
  BY <1>1, SameFiles DEF ApplyInv
<1>3. ASSUME NEW k \in Kind PROVE JobInv(k)'
  BY DEF ApplyInv, JobInv, Doable, Free, JobBatch, Batch, ToRename, ToRecord
<1>. QED
  BY <1>1, <1>2, <1>3 DEF ApplyInv
-----------------------------------------------------------------------------
(* The theorems *)

LEMMA ApplyInit == Init => ApplyInv
<1>. SUFFICES ASSUME Init PROVE ApplyInv
  OBVIOUS
<1>1. TypeOK
  BY TypeInit
<1>2. \A k \in Kind : job[k].phase = "idle"
  BY DEF Init, IdleJob
<1>3. FilesInv
  BY NoneIsNothing DEF Init, FilesInv, OnePlace, HasRow, OneRow, Kept, TrueRows, TrueRow
<1>4. ops = <<>>
  BY DEF Init
<1>. QED
  BY <1>1, <1>2, <1>3, <1>4 DEF ApplyInv, OneJob, LastBatchTrue, JobInv

LEMMA ApplyStep == ApplyInv /\ [Next]_vars => ApplyInv'
<1>. SUFFICES ASSUME ApplyInv, [Next]_vars PROVE ApplyInv'
  OBVIOUS
<1>1. TypeOK' /\ TypeOK /\ OneJob
  BY TypeStep DEF ApplyInv
<1>2. CASE StartApply
  BY <1>1, <1>2, StartApplyKeeps
<1>3. CASE StartUndo
  BY <1>1, <1>3, StartUndoKeeps
<1>4. CASE Crash
  BY <1>1, <1>4, EndKeeps DEF Crash, Idle, IdleJob
<1>5. ASSUME NEW k \in Kind, SkipOp(k) PROVE ApplyInv'
  BY <1>1, <1>5, SkipKeeps
<1>6. ASSUME NEW k \in Kind, RenameOp(k) PROVE ApplyInv'
  BY <1>1, <1>6, RenameKeeps
<1>7. ASSUME NEW k \in Kind, RecordOp(k) PROVE ApplyInv'
  BY <1>1, <1>7, RecordKeeps
<1>8. ASSUME NEW k \in Kind, RecordFails(k) \/ Finish(k) PROVE ApplyInv'
  <2>1. /\ job[k].phase # "idle" /\ job' = [job EXCEPT ![k] = IdleJob] /\ UNCHANGED library
        /\ job \in [Kind -> JobState]
    BY <1>1, <1>8 DEF RecordFails, Finish, TypeOK
  <2>2. \A l \in Kind : l # k => job[l].phase = "idle"
    BY <1>1, <2>1, OthersIdle
  <2>3. Idle'
    BY <2>1, <2>2 DEF Idle, IdleJob
  <2>4. missed \cup BeingRecorded \subseteq missed'
    BY <1>8, <2>2, Recording DEF RecordFails, Finish
  <2>. QED
    BY <1>1, <2>1, <2>3, <2>4, EndKeeps
<1>9. ASSUME NEW k \in Kind, ExtractOp(k) PROVE ApplyInv'
  BY <1>1, <1>9, ExtractKeeps
<1>10. ASSUME NEW g \in Game, NEW p \in Path, Arrive(g, p) PROVE ApplyInv'
  BY <1>1, <1>10, ArriveKeeps
<1>11. ASSUME NEW g \in Game, NEW p \in Title, Match(g, p) PROVE ApplyInv'
  BY <1>1, <1>11, RestKeeps DEF Match
<1>12. CASE Tick \/ UNCHANGED vars
  BY <1>1, <1>12, RestKeeps DEF Tick, vars, library
<1>. QED
  BY <1>2, <1>3, <1>4, <1>5, <1>6, <1>7, <1>8, <1>9, <1>10, <1>11, <1>12 DEF Next, JobStep

\* A ROM that is at one place is at the one PlaceOf tells.
LEMMA PlaceIsTold ==
    ASSUME OnePlace, NEW g \in Game, NEW p \in Path, disk[p] = g
    PROVE  PlaceOf(g) = p
BY NoneIsNothing DEF OnePlace, PlaceOf

\* For any games, paths, titles and faults, a rename of an apply replaces no ROM, nor does
\* one of an undo: each that the table knows is somewhere, or was extracted
\* (operation_planner.py 266-280, collision_resolver.py 8-50, organize.py 241-330).
THEOREM NoRomIsLost == Spec => []NothingOverwritten
<1>1. ApplyInv => NothingOverwritten
  <2>. SUFFICES ASSUME ApplyInv, NEW g \in Game, row[g] # None, g \notin unzipped
                PROVE  PlaceOf(g) # None
    BY DEF NothingOverwritten
  <2>1. PICK p \in Path : disk[p] = g
    BY DEF ApplyInv, FilesInv, Kept
  <2>. QED
    BY <2>1, PlaceIsTold, NoneIsNothing DEF ApplyInv, FilesInv
<1>. QED
  BY <1>1, ApplyInit, ApplyStep, PTL DEF Spec

\* For any games, paths, titles and faults, a row of the games table says where its ROM is,
\* unless a crash or a failed transaction cut it off from its rename (organize.py
\* 176-200, games.py 230-257).
THEOREM TableIsTrue == Spec => []RowsAreTrue
<1>1. ApplyInv => RowsAreTrue
  <2>. SUFFICES ASSUME ApplyInv, NEW g \in Game \ unzipped, row[g] # None,
                       g \notin missed \cup BeingRecorded
                PROVE  row[g] = PlaceOf(g)
    BY DEF RowsAreTrue, Stale
  <2>1. disk[row[g]] = g /\ row[g] \in Path
    BY DEF ApplyInv, FilesInv, TrueRows, TrueRow, Excused, TypeOK, Places
  <2>. QED
    BY <2>1, PlaceIsTold DEF ApplyInv, FilesInv
<1>. QED
  BY <1>1, ApplyInit, ApplyStep, PTL DEF Spec
-----------------------------------------------------------------------------
(* An undo returns the games *)

\* A step that changes neither rows nor log, and begins no job.
LEMMA QuietReturns ==
    ASSUME ReturnInv, UNCHANGED <<row, ops, origin>>,
           missed \subseteq missed', unzipped \subseteq unzipped',
           \A k \in Kind : job'[k].phase # "idle" =>
               /\ job[k].phase # "idle"
               /\ job'[k].at = job[k].at /\ job'[k].start = job[k].start
    PROVE  OriginTrue' /\ \A k \in Kind : StartTrue(k)'
<1>1. OriginTrue'
  BY DEF ReturnInv, OriginTrue, Came
<1>2. ASSUME NEW k \in Kind, job'[k].phase # "idle" PROVE StartTrue(k)'
  <2>1. StartTrue(k) /\ job[k].phase # "idle" /\ job'[k].at = job[k].at
        /\ job'[k].start = job[k].start
    BY <1>2 DEF ReturnInv
  <2>2. PICK at, was : at = job[k].at /\ was = job[k].start
    OBVIOUS
  <2>3. job'[k].at = at /\ job'[k].start = was
    BY <2>1, <2>2
  <2>4. Came(at, was)'
    BY <2>1, <2>2 DEF StartTrue, Came
  <2>. QED
    BY <2>1, <2>2, <2>3, <2>4 DEF StartTrue, Came
<1>. QED
  BY <1>1, <1>2 DEF StartTrue

\* At rest the rows are where the games are, so they are what a job that begins finds.
LEMMA StartIsRows ==
    ASSUME ApplyInv, Idle, NEW g \in Game \ (missed \cup unzipped), PlacesNow[g] # None
    PROVE  row[g] = PlacesNow[g]
<1>1. /\ OnePlace /\ HasRow /\ TrueRows /\ BeingRecorded = {}
      /\ disk \in [Path -> Game \cup {None}] /\ row \in Places
  BY IdleRecordsNothing DEF ApplyInv, FilesInv, TypeOK
<1>2. PICK p \in Path : disk[p] = g
  BY DEF PlacesNow, PlaceOf
<1>3. row[g] \in Path /\ disk[row[g]] = g
  BY <1>1, <1>2, NoneIsNothing DEF HasRow, TrueRows, TrueRow, Excused, Places
<1>. QED
  BY <1>1, <1>3, PlaceIsTold DEF PlacesNow

LEMMA BeginReturns ==
    ASSUME ReturnInv, MayStart, NEW k \in Kind, NEW moves, NEW goal, Begin(k, moves, goal)
    PROVE  OriginTrue' /\ \A l \in Kind : StartTrue(l)'
<1>1. /\ Idle /\ \A i \in DOMAIN ops : ops[i].at # now
      /\ UNCHANGED <<row, ops, origin, missed, unzipped>> /\ job \in [Kind -> JobState]
  BY DEF MayStart, Begin, library, ReturnInv, ApplyInv, TypeOK
<1>2. /\ job'[k].at = now /\ job'[k].start = PlacesNow
      /\ \A l \in Kind : l # k => job'[l] = job[l]
  BY <1>1 DEF Begin
<1>3. OriginTrue'
  BY <1>1 DEF ReturnInv, OriginTrue, Came
<1>4. PICK was : was = PlacesNow
  OBVIOUS
<1>5. \A g \in Game \ (missed \cup unzipped) : was[g] # None => row[g] = was[g]
  BY <1>1, <1>4, StartIsRows DEF ReturnInv
<1>6. StartTrue(k)'
  BY <1>1, <1>2, <1>4, <1>5 DEF StartTrue, Came
<1>7. \A l \in Kind : l # k => job'[l].phase = "idle"
  BY <1>1, <1>2 DEF Idle
<1>. QED
  BY <1>3, <1>6, <1>7 DEF StartTrue

\* The goal of an undo is where its batch took the games from.
LEMMA UndoGoal ==
    ASSUME ReturnInv, TypeOK, NEW n \in DOMAIN ops, LastBatch(n),
           NEW g \in Game \ (missed \cup unzipped), origin[g] # None
    PROVE  \/ \E j \in DOMAIN Undoing(n) :
                 Undoing(n)[j].game = g /\ Undoing(n)[j].to = origin[g]
           \/ row[g] = origin[g] /\ \A j \in DOMAIN Undoing(n) : Undoing(n)[j].game # g
<1>1. /\ Len(ops) \in Nat /\ DOMAIN ops = 1 .. Len(ops) /\ n \in 1 .. Len(ops)
      /\ DOMAIN Undoing(n) = 1 .. n
      /\ \A j \in 1 .. n :
            /\ Len(ops) + 1 - j \in DOMAIN ops
            /\ Undoing(n)[j] = Reversed(ops[Len(ops) + 1 - j])
            /\ ops[Len(ops) + 1 - j].at = Last(ops).at
  BY OpsAreTyped, UndoingIsGood
<1>2. Came(Last(ops).at, origin)
  <2>1. ops # <<>>
    BY <1>1
  <2>. QED
    BY <2>1 DEF ReturnInv, OriginTrue
<1>3. CASE \E i \in DOMAIN ops :
             ops[i].at = Last(ops).at /\ ops[i].game = g /\ ops[i].from = origin[g]
  <2>1. PICK i \in DOMAIN ops :
               ops[i].at = Last(ops).at /\ ops[i].game = g /\ ops[i].from = origin[g]
    BY <1>3
  <2>2. Len(ops) - n < i
    BY <2>1 DEF LastBatch
  <2>3. PICK j \in 1 .. n : Len(ops) + 1 - j = i
    <3>1. Len(ops) + 1 - i \in 1 .. n /\ Len(ops) + 1 - (Len(ops) + 1 - i) = i
      BY <1>1, <2>2
    <3>. QED
      BY <3>1
  <2>4. Undoing(n)[j].game = g /\ Undoing(n)[j].to = origin[g]
    BY <1>1, <2>1, <2>3 DEF Reversed
  <2>. QED
    BY <1>1, <2>4
<1>4. CASE /\ row[g] = origin[g]
           /\ \A i \in DOMAIN ops : ops[i].at = Last(ops).at => ops[i].game # g
  BY <1>1, <1>4 DEF Reversed
<1>. QED
  BY <1>2, <1>3, <1>4 DEF Came

\* A row and its operation, written: the job's batch grows by the game, from its old row.
LEMMA RecordReturns ==
    ASSUME ReturnInv, NEW k \in Kind, RecordOp(k)
    PROVE  OriginTrue' /\ GoalNear' /\ \A l \in Kind : StartTrue(l)'
<1>. DEFINE op == Now1(k)
<1>. DEFINE new == [game |-> op.game, from |-> op.from, to |-> op.to, at |-> job[k].at]
<1>1. /\ TypeOK /\ OneJob /\ job[k].phase = "record" /\ job[k].todo # <<>>
      /\ row' = [row EXCEPT ![op.game] = op.to] /\ row \in Places
      /\ ops' = Append(ops, new) /\ UNCHANGED <<unzipped, missed>>
      /\ origin' = IF \E i \in DOMAIN ops : ops[i].at = job[k].at THEN origin
                   ELSE job[k].start
  BY DEF ReturnInv, ApplyInv, RecordOp, OneJob, RowFollows, TypeOK
<1>2. /\ op = job[k].todo[1] /\ op.game \in Game /\ op.from \in Path /\ op.to \in Path
      /\ 1 \in DOMAIN job[k].todo /\ Doable(k) /\ JobBatch(k) /\ StartTrue(k)
      /\ job[k].todo \in Seq(Move)
  BY <1>1, HeadTyped DEF ReturnInv, ApplyInv, JobInv
<1>3. /\ row[op.game] = op.from
      /\ \A i \in DOMAIN job[k].todo : i # 1 => job[k].todo[i].game # op.game
      /\ \A i \in DOMAIN ops : ops[i].at = job[k].at => ops[i].game # op.game
  BY <1>1, <1>2 DEF Doable, JobBatch, ToRecord
<1>4. /\ Len(ops) \in Nat /\ DOMAIN ops = 1 .. Len(ops) /\ DOMAIN ops' = 1 .. (Len(ops) + 1)
      /\ \A i \in DOMAIN ops : i \in DOMAIN ops' /\ ops'[i] = ops[i]
      /\ ops'[Len(ops) + 1] = new /\ Len(ops') = Len(ops) + 1
  <2>1. new \in Operation /\ ops \in Seq(Operation)
    BY <1>1, <1>2 DEF Operation, TypeOK, JobState
  <2>. QED
    BY <1>1, <2>1, AppendProperties, LenProperties, OpsAreTyped
<1>5. \A i \in DOMAIN ops' : i \in DOMAIN ops \/ ops'[i] = new
  <2>1. \A i \in 1 .. (Len(ops) + 1) : i \in 1 .. Len(ops) \/ i = Len(ops) + 1
    BY <1>4
  <2>. QED
    BY <1>4, <2>1
<1>6. /\ job'[k].at = job[k].at /\ job'[k].start = job[k].start
      /\ job'[k].clean = job[k].clean /\ job'[k].goal = job[k].goal
      /\ k = "undo" => job'[k].phase = "rename" /\ job'[k].todo = Tail(job[k].todo)
      /\ \A l \in Kind : l # k => job'[l] = job[l] /\ job[l].phase = "idle"
  BY <1>1, OthersIdle DEF RecordOp, TypeOK, JobState
<1>7. PICK at, was : at = job[k].at /\ was = job[k].start
  OBVIOUS
<1>8. Came(at, was) /\ origin' = was
  BY <1>1, <1>2, <1>7 DEF StartTrue
<1>9. Came(at, was)'
  <2>. SUFFICES ASSUME NEW g \in Game, g \notin missed \cup unzipped, was[g] # None
                PROVE  \/ \E i \in DOMAIN ops' :
                             ops'[i].at = at /\ ops'[i].game = g /\ ops'[i].from = was[g]
                       \/ /\ row'[g] = was[g]
                          /\ \A i \in DOMAIN ops' : ops'[i].at = at => ops'[i].game # g
    BY <1>1 DEF Came
  <2>1. CASE g = op.game
    <3>1. row[g] = was[g]
      BY <1>3, <1>7, <1>8, <2>1 DEF Came
    <3>2. ops'[Len(ops) + 1].at = at /\ ops'[Len(ops) + 1].game = g
          /\ ops'[Len(ops) + 1].from = was[g]
      BY <1>3, <1>4, <1>7, <2>1, <3>1
    <3>3. Len(ops) + 1 \in DOMAIN ops'
      BY <1>4
    <3>. QED
      BY <3>2, <3>3
  <2>2. CASE g # op.game
    <3>1. row'[g] = row[g]
      BY <1>1, <2>2 DEF Places
    <3>2. new.game # g
      BY <2>2
    <3>. QED
      BY <1>4, <1>5, <1>8, <3>1, <3>2 DEF Came
  <2>. QED
    BY <2>1, <2>2
<1>10. Last(ops').at = at /\ ops' # <<>>
  BY <1>4, <1>7 DEF Last
<1>11. OriginTrue'
  <2>1. PICK last, from : last = Last(ops').at /\ from = origin'
    OBVIOUS
  <2>2. last = at /\ from = was
    BY <1>8, <1>10, <2>1
  <2>. QED
    BY <1>8, <1>9, <1>10 DEF OriginTrue, Came
<1>12. StartTrue(k)'
  BY <1>6, <1>7, <1>8, <1>9, <1>10 DEF StartTrue, Came
<1>13. GoalNear'
  <2>1. CASE k # "undo"
    BY <1>6, <2>1 DEF GoalNear, Kind
  <2>2. CASE k = "undo"
    <3>. DEFINE ahead == job[k].todo
                goal == job[k].goal
    <3>1. /\ DOMAIN Tail(ahead) = 1 .. (Len(ahead) - 1) /\ DOMAIN ahead = 1 .. Len(ahead)
          /\ Len(ahead) \in Nat
          /\ \A j \in 1 .. (Len(ahead) - 1) : Tail(ahead)[j] = ahead[j + 1]
      BY <1>1, <1>2, TailTyped
    <3>2. /\ \A j \in DOMAIN Tail(ahead) : j + 1 \in DOMAIN ahead /\ j + 1 # 1
          /\ \A j \in DOMAIN ahead : j # 1 => \E i \in DOMAIN Tail(ahead) : i + 1 = j
      <4>1. ASSUME NEW j \in 1 .. (Len(ahead) - 1)
            PROVE  j + 1 \in 1 .. Len(ahead) /\ j + 1 # 1
        BY <3>1
      <4>2. ASSUME NEW j \in 1 .. Len(ahead), j # 1
            PROVE  \E i \in 1 .. (Len(ahead) - 1) : i + 1 = j
        <5>1. j - 1 \in 1 .. (Len(ahead) - 1) /\ (j - 1) + 1 = j
          BY <3>1, <4>2
        <5>. QED
          BY <5>1
      <4>. QED
        BY <3>1, <4>1, <4>2
    <3>3. /\ job["undo"]' = job'[k] /\ job'[k].todo = Tail(ahead) /\ job'[k].goal = goal
          /\ job'[k].phase = "rename" /\ job'[k].clean = job[k].clean
      BY <1>6, <2>2
    <3>4. ASSUME job[k].clean, NEW g \in Game, g \notin missed \cup unzipped, goal[g] # None
          PROVE  \/ \E j \in DOMAIN Tail(ahead) :
                       Tail(ahead)[j].game = g /\ Tail(ahead)[j].to = goal[g]
                 \/ /\ row'[g] = goal[g]
                    /\ \A j \in DOMAIN Tail(ahead) : Tail(ahead)[j].game # g
      <4>1. \/ \E j \in DOMAIN ahead : ahead[j].game = g /\ ahead[j].to = goal[g]
            \/ row[g] = goal[g] /\ \A j \in DOMAIN ahead : ahead[j].game # g
        BY <1>1, <2>2, <3>4 DEF ReturnInv, GoalNear
      <4>2. CASE g = op.game
        <5>1. op.to = goal[g]
          BY <1>2, <1>3, <4>1, <4>2
        <5>. QED
          BY <1>1, <1>2, <1>3, <3>1, <3>2, <4>2, <5>1 DEF Places
      <4>3. CASE g # op.game
        <5>1. row'[g] = row[g]
          BY <1>1, <4>3 DEF Places
        <5>. QED
          BY <1>2, <3>1, <3>2, <4>1, <4>3, <5>1
      <4>. QED
        BY <4>2, <4>3
    <3>. QED
      BY <1>1, <3>3, <3>4 DEF GoalNear
  <2>. QED
    BY <2>1, <2>2
<1>14. \A l \in Kind : l # k => job'[l].phase = "idle"
  BY <1>6
<1>. QED
  BY <1>11, <1>12, <1>13, <1>14 DEF StartTrue

LEMMA ReturnInit == Init => ReturnInv
<1>. SUFFICES ASSUME Init PROVE ReturnInv
  OBVIOUS
<1>1. ops = <<>> /\ \A k \in Kind : job[k].phase = "idle"
  BY DEF Init, IdleJob
<1>. QED
  BY <1>1, ApplyInit DEF ReturnInv, OriginTrue, StartTrue, GoalNear, Kind

LEMMA ReturnStep == ReturnInv /\ [Next]_vars => ReturnInv'
<1>. SUFFICES ASSUME ReturnInv, [Next]_vars
              PROVE  OriginTrue' /\ GoalNear' /\ \A k \in Kind : StartTrue(k)'
  BY ApplyStep DEF ReturnInv
<1>1. TypeOK /\ OneJob /\ "undo" \in Kind /\ "apply" \in Kind /\ job \in [Kind -> JobState]
  BY DEF ReturnInv, ApplyInv, Kind, TypeOK
<1>2. CASE StartApply
  <2>1. MayStart /\ \E keepBoth \in BOOLEAN : \E order \in SetToSeqs(Planned(keepBoth)) :
                       Begin("apply", Resolve(order), IdleJob.goal)
    BY <1>1, <1>2 DEF StartApply, TypeOK
  <2>2. PICK moves, goal : Begin("apply", moves, goal)
    BY <2>1
  <2>3. job'["undo"] = job["undo"] /\ job["undo"].phase = "idle"
    BY <1>1, <2>1, <2>2 DEF Begin, MayStart, Idle
  <2>. QED
    BY <1>1, <2>1, <2>2, <2>3, BeginReturns DEF GoalNear
<1>3. CASE StartUndo
  <2>1. PICK n \in DOMAIN ops : LastBatch(n) /\ Begin("undo", Undoing(n), origin)
    BY <1>3 DEF StartUndo
  <2>2. /\ job'["undo"].phase = "rename" /\ job'["undo"].todo = Undoing(n)
        /\ job'["undo"].goal = origin /\ UNCHANGED <<row, missed, unzipped>>
    BY <1>1, <2>1 DEF Begin, library
  <2>3. GoalNear'
    BY <1>1, <2>1, <2>2, UndoGoal DEF GoalNear
  <2>. QED
    BY <1>1, <1>3, <2>1, <2>3, BeginReturns DEF StartUndo
<1>4. ASSUME NEW k \in Kind, RecordOp(k)
      PROVE  OriginTrue' /\ GoalNear' /\ \A l \in Kind : StartTrue(l)'
  BY <1>4, RecordReturns
<1>5. CASE Crash \/ \E k \in Kind : RecordFails(k) \/ Finish(k)
  <2>1. /\ UNCHANGED <<row, ops, origin, unzipped>> /\ missed \subseteq missed'
        /\ \A k \in Kind : job'[k] = job[k] \/ job'[k].phase = "idle"
    BY <1>1, <1>5 DEF Crash, RecordFails, Finish, library, IdleJob
  <2>2. GoalNear'
    BY <1>1, <2>1 DEF ReturnInv, GoalNear
  <2>3. \A k \in Kind : job'[k].phase # "idle" =>
               /\ job[k].phase # "idle"
               /\ job'[k].at = job[k].at /\ job'[k].start = job[k].start
    BY <2>1
  <2>. QED
    BY <2>1, <2>2, <2>3, QuietReturns
<1>6. ASSUME NEW k \in Kind, SkipOp(k) \/ RenameOp(k) \/ ExtractOp(k)
      PROVE  OriginTrue' /\ GoalNear' /\ \A l \in Kind : StartTrue(l)'
  <2>1. /\ UNCHANGED <<row, ops, origin, missed>> /\ unzipped \subseteq unzipped'
        /\ job[k].phase # "idle" /\ job'[k].at = job[k].at /\ job'[k].start = job[k].start
        /\ \A l \in Kind : l # k => job'[l] = job[l]
    BY <1>1, <1>6 DEF SkipOp, RenameOp, ExtractOp, Next1, Goto, library, JobState
  <2>2. \/ ~job'["undo"].clean /\ job'["undo"].phase = "rename"
        \/ /\ job'["undo"].todo = job["undo"].todo /\ job'["undo"].goal = job["undo"].goal
           /\ job'["undo"].clean = job["undo"].clean
           /\ job'["undo"].phase # "extract"
           /\ job'["undo"].phase # "idle" => job["undo"].phase # "idle"
    <3>1. CASE k # "undo"
      BY <1>1, <2>1, <3>1 DEF ReturnInv, GoalNear
    <3>2. CASE k = "undo"
      BY <1>1, <1>6, <3>2
         DEF SkipOp, RenameOp, ExtractOp, Next1, Goto, ReturnInv, GoalNear, JobState
    <3>. QED
      BY <3>1, <3>2
  <2>3. GoalNear'
    BY <2>1, <2>2 DEF ReturnInv, GoalNear
  <2>. QED
    BY <2>1, <2>3, QuietReturns
<1>7. ASSUME NEW g \in Game, NEW p \in Path, Arrive(g, p)
      PROVE  OriginTrue' /\ GoalNear' /\ \A l \in Kind : StartTrue(l)'
  <2>1. /\ row \in Places /\ row[g] = None /\ row' = [row EXCEPT ![g] = p]
        /\ UNCHANGED <<ops, job, origin, missed, unzipped>>
        /\ \A k \in Kind : job[k].phase = "idle"
    BY <1>1, <1>7 DEF Arrive, Idle, TypeOK
  <2>2. \A h \in Game : h # g => row'[h] = row[h]
    BY <2>1 DEF Places
  <2>3. OriginTrue'
    BY <2>1, <2>2 DEF ReturnInv, OriginTrue, Came
  <2>. QED
    BY <1>1, <2>1, <2>3 DEF StartTrue, GoalNear
<1>8. CASE \/ Tick \/ UNCHANGED vars
           \/ \E g \in Game, p \in Title : Match(g, p)
  <2>1. UNCHANGED <<row, ops, origin, missed, unzipped, job>>
    BY <1>8 DEF Tick, Match, vars, library
  <2>. QED
    BY <2>1, QuietReturns DEF ReturnInv, GoalNear
<1>. QED
  BY <1>2, <1>3, <1>4, <1>5, <1>6, <1>7, <1>8 DEF Next, JobStep

\* For any games, paths, titles and faults: an undo in which nothing fails takes every ROM
\* back where it was before the last batch, and an undo of that undo forth again, but for
\* what a crash cut off and archives extracted by now (organize.py 241-330, games.py
\* 259-284).
THEOREM UndosReturn == Spec => UndoReturns
<1>. DEFINE Step ==
        job["undo"].phase = "rename" /\ job'["undo"].phase = "idle"
        /\ crashes' = crashes /\ job["undo"].clean
        => \A g \in Game \ (missed \cup unzipped) : job["undo"].goal[g] # None =>
                                    PlaceOf(g) = job["undo"].goal[g]
<1>1. ASSUME ReturnInv, [Next]_vars, job["undo"].phase = "rename",
             job'["undo"].phase = "idle", crashes' = crashes, job["undo"].clean,
             NEW g \in Game \ (missed \cup unzipped), job["undo"].goal[g] # None
      PROVE  PlaceOf(g) = job["undo"].goal[g]
  <2>1. /\ TypeOK /\ OneJob /\ FilesInv /\ "undo" \in Kind /\ job \in [Kind -> JobState]
        /\ \A l \in Kind : l # "undo" => job[l].phase = "idle"
    BY <1>1, OthersIdle DEF ReturnInv, ApplyInv, Kind, TypeOK
  <2>2. job["undo"].todo = <<>>
    <3>1. ~Idle /\ ~Crash
      BY <1>1, <2>1 DEF Idle, Crash, TypeOK
    <3>2. Finish("undo")
      <4>1. ASSUME NEW k \in Kind, JobStep(k) PROVE k = "undo" /\ Finish(k)
        <5>1. k = "undo"
          BY <2>1, <4>1
             DEF JobStep, SkipOp, RenameOp, RecordOp, RecordFails, ExtractOp, Finish, Next1
        <5>2. ~RecordOp(k) /\ ~RecordFails(k) /\ ~ExtractOp(k)
          BY <1>1, <5>1 DEF RecordOp, RecordFails, ExtractOp
        <5>3. ~SkipOp(k) /\ ~RenameOp(k)
          BY <1>1, <2>1, <5>1 DEF SkipOp, RenameOp, Goto, Next1, JobState
        <5>. QED
          BY <4>1, <5>1, <5>2, <5>3 DEF JobStep
      <4>2. ~StartApply /\ ~StartUndo
        BY <3>1 DEF StartApply, StartUndo, MayStart
      <4>3. job' # job
        BY <1>1
      <4>. QED
        BY <1>1, <3>1, <4>1, <4>2, <4>3 DEF Next, Tick, Arrive, Match, vars
    <3>. QED
      BY <3>2 DEF Finish
  <2>3. row[g] = job["undo"].goal[g]
    <3>1. DOMAIN job["undo"].todo = {}
      BY <2>2
    <3>. QED
      BY <1>1, <3>1 DEF ReturnInv, GoalNear
  <2>4. BeingRecorded = {}
    BY <1>1, <2>1, Recording
  <2>5. disk[row[g]] = g /\ row[g] \in Path
    BY <1>1, <2>1, <2>3, <2>4 DEF FilesInv, TrueRows, TrueRow, Excused, TypeOK, Places
  <2>. QED
    BY <2>1, <2>3, <2>5, PlaceIsTold DEF FilesInv
<1>2. ReturnInv /\ [Next]_vars => Step
  BY <1>1
<1>3. Spec => [][Step]_vars
  BY <1>2, ReturnInit, ReturnStep, PTL DEF Spec
<1>. QED
  BY <1>3 DEF UndoReturns
=============================================================================

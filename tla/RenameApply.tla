----------------------------- MODULE RenameApply -----------------------------
(***************************************************************************)
(* Renaming the library to its catalogue titles, and undoing it: the jobs  *)
(* "apply" and "undo_apply" of web/handlers/organize.py over the planner,  *)
(* the games table and the log of file operations.                         *)
(*                                                                         *)
(* One rename of a ROM with its saves, or of a disc set, is one step here; *)
(* AtomicRename and DiscSetMove are its detail: it happens or it does not. *)
(* The two jobs have a slot each in the job manager; that a user runs them *)
(* one after the other is assumed.  A path is a file's folder and name.    *)
(* Where os.rename replaces what is in the way, undo and keep_both are     *)
(* left out: a file that has come to the old path, or to a numbered one,   *)
(* would be gone.                                                          *)
(***************************************************************************)
EXTENDS Integers, SequencesExt

CONSTANTS
    Game,        \* rows of the games table, each with the ROM it was made for
    Path,
    None,
    Title,       \* the paths that canonical titles ask for
    Numbered,    \* the paths <stem>_1, <stem>_2, ... of each of them
    Zipped,      \* games whose ROM is an archive that apply extracts
    MaxTime,     \* bound on the clock
    MaxOps,      \* bound on the rows of file_operations
    MaxCrashes,  \* bound on the crashes
    Faults       \* what may go wrong, a subset of FaultNames

\* fail: a rename fails and is rolled back   crash: the process dies
FaultNames == {"fail", "crash"}

ASSUME ApplyAssumption ==
    /\ IsFiniteSet(Game) /\ None \notin Game /\ None \notin Path /\ Title \subseteq Path
    /\ \A p \in Title, n \in 1 .. Cardinality(Game) : Numbered[p][n] \in Path
    /\ Faults \subseteq FaultNames

VARIABLES
    posix,     \* os.rename replaces an existing file; on Windows it raises
    now,       \* utc_now(), in seconds
    disk,      \* the ROM at a path
    unzipped,  \* games whose archive was extracted and discarded
    row,       \* games.source_path
    title,     \* the path the canonical title asks for, or None when unmatched
    ops,       \* file_operations, in the order of id
    job,       \* the state of the two jobs
    crashes,   \* observation
    missed,    \* observation: games renamed without their row
    origin     \* observation: where every game was before the last batch of ops

library == <<posix, disk, unzipped, row, title, ops>>
vars == <<now, library, job, crashes, missed, origin>>

Kind == {"apply", "undo"}

PlaceOf(g) == IF \E p \in Path : disk[p] = g THEN CHOOSE p \in Path : disk[p] = g
              ELSE None
PlacesNow == [g \in Game |-> PlaceOf(g)]

IdleJob ==
    [phase |-> "idle",
     at |-> 0,                             \* timestamp
     todo |-> <<>>,
     clean |-> TRUE,                       \* nothing failed or was skipped
     start |-> [g \in Game |-> None],      \* observation: the places at the start
     goal |-> [g \in Game |-> None]]       \* observation: where an undo takes them

Init ==
    /\ posix \in BOOLEAN /\ now = 0
    /\ disk = [p \in Path |-> None] /\ unzipped = {}
    /\ row = [g \in Game |-> None] /\ title = [g \in Game |-> None]
    /\ ops = <<>>
    /\ job = [k \in Kind |-> IdleJob]
    /\ crashes = 0 /\ missed = {} /\ origin = [g \in Game |-> None]

Idle == \A k \in Kind : job[k].phase = "idle"
Goto(k, phase) == job' = [job EXCEPT ![k].phase = phase]
-----------------------------------------------------------------------------
(* The plan *)

\* build_plan: matched, not where its title asks for, and nothing is there.
Pending == {g \in Game : /\ row[g] # None /\ title[g] # None /\ title[g] # row[g]
                         /\ disk[title[g]] = None}

\* Mutant: collisions stay in the plan.
CollidesNever(g) == FALSE
\* Another operation has the same target.
Collides(g) == \E h \in Pending \ {g} : title[h] = title[g]

Planned(keepBoth) == IF keepBoth THEN Pending ELSE {g \in Pending : ~Collides(g)}

\* The rank of a game among those of its title, in the order of the plan.
Rank(order, i) == Cardinality({j \in 1 .. i : title[order[j]] = title[order[i]]})

\* resolve: collisions have left the plan, or get a numeric suffix.
Resolve(order) ==
    [i \in DOMAIN order |->
        [game |-> order[i], from |-> row[order[i]],
         to |-> IF Collides(order[i]) THEN Numbered[title[order[i]]][Rank(order, i)]
                ELSE title[order[i]]]]
-----------------------------------------------------------------------------
(* The jobs *)

\* The user runs one job at a time, and not two in a second.
MayStart == Idle /\ \A i \in DOMAIN ops : ops[i].at # now

Begin(k, todo, goal) ==
    /\ Len(ops) + Len(todo) <= MaxOps
    /\ job' = [job EXCEPT ![k] = [phase |-> "rename", at |-> now, todo |-> todo,
                                  clean |-> TRUE, start |-> PlacesNow, goal |-> goal]]
    /\ UNCHANGED <<now, library, crashes, missed, origin>>

\* POST /api/apply.  Rows of one title come in any order.
StartApply ==
    /\ MayStart
    /\ \E keepBoth \in IF posix THEN {FALSE} ELSE BOOLEAN :
         \E order \in SetToSeqs(Planned(keepBoth)) :
             Begin("apply", Resolve(order), IdleJob.goal)

\* Mutant: a batch of one operation.
LastOnly(n) == n = 1
\* get_last_apply_batch: the rows dated as the last one are the last n.
LastBatch(n) == \A i \in DOMAIN ops : ops[i].at = Last(ops).at <=> Len(ops) - n < i

\* Newest first, and each from where it went to where it was.
Reversed(op) == [game |-> op.game, from |-> op.to, to |-> op.from]
Undoing(n) == [i \in 1 .. n |-> Reversed(ops[Len(ops) + 1 - i])]

\* POST /api/undo-last-apply.
StartUndo ==
    /\ ~posix /\ MayStart
    /\ \E n \in DOMAIN ops : LastBatch(n) /\ Begin("undo", Undoing(n), origin)

Next1(k) == job[k].phase = "rename" /\ job[k].todo # <<>>
Now1(k) == Head(job[k].todo)

\* The file is not there, or its rename fails: counted, and on to the next.
SkipOp(k) ==
    /\ Next1(k)
    /\ \/ disk[Now1(k).from] = None
       \/ "fail" \in Faults
       \/ ~posix /\ disk[Now1(k).to] # None /\ Now1(k).to # Now1(k).from
    /\ job' = [job EXCEPT ![k].todo = Tail(@), ![k].clean = FALSE]
    /\ UNCHANGED <<now, library, crashes, missed, origin>>

\* rename_rom_with_saves, or move_disc_set_to_subfolder.
RenameOp(k) ==
    LET op == Now1(k) IN
    /\ Next1(k) /\ disk[op.from] # None
    /\ posix \/ disk[op.to] = None \/ op.to = op.from
    /\ disk' = IF op.to = op.from THEN disk
               ELSE [disk EXCEPT ![op.to] = disk[op.from], ![op.from] = None]
    /\ Goto(k, "record")
    /\ UNCHANGED <<posix, now, unzipped, row, title, ops, crashes, missed, origin>>

\* Mutant: the row keeps the old path.
RowUntouched(op) == row' = row
\* UPDATE games SET source_path
RowFollows(op) == row' = [row EXCEPT ![op.game] = op.to]

\* games.source_path is UNIQUE.
Taken(op) == \E g \in Game \ {op.game} : row[g] = op.to

\* apply_rename: the row and the operation, in one transaction.
RecordOp(k) ==
    LET op == Now1(k)
        extracts == k = "apply" /\ op.game \in Zipped \ unzipped IN
    /\ job[k].phase = "record" /\ ~Taken(op)
    /\ RowFollows(op)
    /\ ops' = Append(ops, [game |-> op.game, from |-> op.from, to |-> op.to,
                           at |-> job[k].at])
    /\ origin' = IF \E i \in DOMAIN ops : ops[i].at = job[k].at THEN origin
                 ELSE job[k].start
    /\ job' = [job EXCEPT ![k].phase = IF extracts THEN "extract" ELSE "rename",
                          ![k].todo = IF extracts THEN @ ELSE Tail(@)]
    /\ UNCHANGED <<posix, now, disk, unzipped, title, crashes, missed>>

\* The transaction fails on the path of another row, and the job with it.
RecordFails(k) ==
    /\ job[k].phase = "record" /\ Taken(Now1(k))
    /\ missed' = missed \cup {Now1(k).game}
    /\ job' = [job EXCEPT ![k] = IdleJob]
    /\ UNCHANGED <<now, library, crashes, origin>>

\* extract_zip with delete_source: the archive goes to the trash, or stays.
ExtractOp(k) ==
    LET op == Now1(k) IN
    /\ job[k].phase = "extract"
    /\ \/ UNCHANGED <<disk, unzipped>>
       \/ /\ disk[op.to] = op.game
          /\ disk' = [disk EXCEPT ![op.to] = None]
          /\ unzipped' = unzipped \cup {op.game}
    /\ job' = [job EXCEPT ![k].phase = "rename", ![k].todo = Tail(@)]
    /\ UNCHANGED <<posix, now, row, title, ops, crashes, missed, origin>>

Finish(k) ==
    /\ job[k].phase = "rename" /\ job[k].todo = <<>>
    /\ job' = [job EXCEPT ![k] = IdleJob]
    /\ UNCHANGED <<now, library, crashes, missed, origin>>

BeingRecorded == {Now1(k).game : k \in {j \in Kind : job[j].phase = "record"}}

Crash ==
    /\ "crash" \in Faults /\ ~Idle /\ crashes < MaxCrashes
    /\ job' = [k \in Kind |-> IdleJob]
    /\ crashes' = crashes + 1
    /\ missed' = missed \cup BeingRecorded
    /\ UNCHANGED <<now, library, origin>>

JobStep(k) ==
    \/ SkipOp(k) \/ RenameOp(k) \/ RecordOp(k) \/ RecordFails(k)
    \/ ExtractOp(k) \/ Finish(k)
-----------------------------------------------------------------------------
(* The world *)

Tick ==
    /\ now < MaxTime
    /\ now' = now + 1
    /\ UNCHANGED <<library, job, crashes, missed, origin>>

\* A ROM arrives at a path that no row has, and is scanned.
Arrive(g, p) ==
    /\ Idle /\ row[g] = None /\ disk[p] = None /\ \A h \in Game : row[h] # p
    /\ disk' = [disk EXCEPT ![p] = g] /\ row' = [row EXCEPT ![g] = p]
    /\ UNCHANGED <<posix, now, unzipped, title, ops, job, crashes, missed, origin>>

\* The matcher finds the title of a game, or another one than before.
Match(g, p) ==
    /\ Idle /\ row[g] # None /\ title[g] # p
    /\ title' = [title EXCEPT ![g] = p]
    /\ UNCHANGED <<posix, now, disk, unzipped, row, ops, job, crashes, missed, origin>>

Next ==
    \/ StartApply \/ StartUndo \/ Crash
    \/ \E k \in Kind : JobStep(k)
    \/ Tick
    \/ \E g \in Game, p \in Path : Arrive(g, p)
    \/ \E g \in Game, p \in Title : Match(g, p)

Spec == Init /\ [][Next]_vars
-----------------------------------------------------------------------------
(* Properties *)

\* No ROM is lost: a plan never renames one onto another, nor does an undo, even
\* where os.rename would replace it (operation_planner.py 266-280, collision_resolver.py).
NothingOverwritten ==
    \A g \in Game : row[g] # None => (g \in unzipped \/ PlaceOf(g) # None)

\* Games whose row does not say where they are.
Stale == {g \in Game \ unzipped : row[g] # None /\ row[g] # PlaceOf(g)}

\* The games table is true: only a row whose own rename was cut off before its
\* commit can be false (organize.py 176-200, games.py 230-257).
RowsAreTrue == Stale \subseteq missed \cup BeingRecorded

\* An undo in which nothing fails takes every ROM back where it was before the last
\* batch, and an undo of that undo forth again: all but the one whose rename a crash
\* cut off from its row and its operation, and the archives that are extracted by now
\* (organize.py 241-330, games.py 259-284).
UndoReturns ==
    [][job["undo"].phase = "rename" /\ job'["undo"].phase = "idle"
       /\ crashes' = crashes /\ job["undo"].clean
       => \A g \in Game \ (missed \cup unzipped) : job["undo"].goal[g] # None =>
                                   PlaceOf(g) = job["undo"].goal[g]]_vars
=============================================================================

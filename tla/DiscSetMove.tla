----------------------------- MODULE DiscSetMove -----------------------------
(***************************************************************************)
(* move_disc_set_to_subfolder of renamer/file_renamer.py: a .cue or .gdi   *)
(* sheet moves to another folder and name with the tracks it refers to and *)
(* the saves of its name; everything is moved back when a step fails.      *)
(*                                                                         *)
(* Tracks keep their names, so the references of the sheet stay true as    *)
(* long as sheet and tracks are in one folder.  shutil.move, unlike        *)
(* os.rename, replaces a file that is in the way, here as in the rollback. *)
(***************************************************************************)
EXTENDS Integers

CONSTANTS
    Place,       \* a folder and the name of the sheet in it
    Track,       \* the tracks of the set
    Save,        \* save files of the set, by extension and folder
    None,
    MaxVersion,  \* bound on the saves written by players
    Faults       \* what may go wrong, a subset of FaultNames

\* rename: a move fails     rollback: a move back fails     crash: the process dies
FaultNames == {"rename", "rollback", "crash"}

VARIABLES
    cue,       \* where the sheet is
    tracks,    \* where each track is
    save,      \* the save files that bear the name of each place
    phase, from, to, todo, savesTodo,
    moved,     \* what a rollback moves back; in any order, the files being distinct
    broken,    \* a move back has failed
    result,    \* what the last call answered
    made,      \* saves written so far
    before     \* observation: cue, tracks and save when the call began

disk == <<cue, tracks, save>>
call == <<phase, from, to, todo, savesTodo, moved, broken, result>>
vars == <<disk, call, made, before>>

Now == [cue |-> cue, tracks |-> tracks, save |-> save]

Init ==
    /\ cue \in Place /\ tracks = [t \in Track |-> cue]
    /\ save = [p \in Place |-> [s \in Save |-> None]]
    /\ phase = "idle" /\ from = None /\ to = None /\ todo = {} /\ savesTodo = {}
    /\ moved = {} /\ broken = FALSE /\ result = "none"
    /\ made = 0
    /\ before = Now

May(fault) == IF fault \in Faults THEN BOOLEAN ELSE {FALSE}

Answer(r) ==
    /\ phase' = "idle" /\ result' = r
    /\ from' = None /\ to' = None /\ todo' = {} /\ savesTodo' = {}
    /\ moved' = {} /\ broken' = FALSE
-----------------------------------------------------------------------------
(* The call *)

\* parse_bins_from_cue: the tracks that exist beside the sheet.
TracksOf(p) == {t \in Track : tracks[t] = p}

\* The plan holds no set that is where it belongs.
Start(p) ==
    /\ phase = "idle" /\ p # cue
    /\ phase' = "tracks" /\ from' = cue /\ to' = p
    /\ todo' = TracksOf(cue) /\ savesTodo' = {s \in Save : save[cue][s] # None}
    /\ moved' = {} /\ broken' = FALSE /\ before' = Now
    /\ UNCHANGED <<disk, result, made>>

Record(x) == moved' = moved \cup {x}

\* os.rename(bin_path, bin_dest)
MoveTrack(t) ==
    /\ phase = "tracks" /\ t \in todo
    /\ tracks' = [tracks EXCEPT ![t] = to]
    /\ todo' = todo \ {t} /\ Record(t)
    /\ UNCHANGED <<cue, save, phase, from, to, savesTodo, broken, result, made, before>>

TracksMoved ==
    /\ phase = "tracks" /\ todo = {}
    /\ phase' = "saves"
    /\ UNCHANGED <<disk, from, to, todo, savesTodo, moved, broken, result, made, before>>

\* shutil.move: a save that already bears the new name is gone.
MoveSave(s) ==
    /\ phase = "saves" /\ s \in savesTodo
    /\ save' = [save EXCEPT ![to][s] = save[from][s], ![from][s] = None]
    /\ savesTodo' = savesTodo \ {s} /\ Record(s)
    /\ UNCHANGED <<cue, tracks, phase, from, to, todo, broken, result, made, before>>

SavesMoved ==
    /\ phase = "saves" /\ savesTodo = {}
    /\ phase' = "cue"
    /\ UNCHANGED <<disk, from, to, todo, savesTodo, moved, broken, result, made, before>>

\* os.rename(source_cue, target_cue), last of all.
MoveCue ==
    /\ phase = "cue"
    /\ cue' = to
    /\ Answer("moved")
    /\ UNCHANGED <<tracks, save, made, before>>

MoveFails ==
    /\ "rename" \in Faults
    /\ \/ phase = "tracks" /\ todo # {}
       \/ phase = "saves" /\ savesTodo # {}
       \/ phase = "cue"
    /\ phase' = "rollback"
    /\ UNCHANGED <<disk, from, to, todo, savesTodo, moved, broken, result, made, before>>

\* _rollback: shutil.move of each file that was moved.
RollBack(x) ==
    /\ phase = "rollback" /\ x \in moved
    /\ moved' = moved \ {x}
    /\ \E failed \in May("rollback") :
         /\ broken' = (broken \/ failed)
         /\ tracks' = IF failed \/ x \notin Track THEN tracks
                      ELSE [tracks EXCEPT ![x] = from]
         /\ save' = IF failed \/ x \notin Save THEN save
                    ELSE [save EXCEPT ![from][x] = save[to][x], ![to][x] = None]
    /\ UNCHANGED <<cue, phase, from, to, todo, savesTodo, result, made, before>>

RollBackDone ==
    /\ phase = "rollback" /\ moved = {}
    /\ Answer(IF broken THEN "incomplete" ELSE "rolled_back")
    /\ UNCHANGED <<disk, made, before>>

Crash ==
    /\ "crash" \in Faults /\ phase # "idle"
    /\ Answer("none")
    /\ UNCHANGED <<disk, made, before>>

CallStep ==
    \/ TracksMoved \/ SavesMoved \/ MoveCue \/ MoveFails \/ RollBackDone \/ Crash
    \/ \E t \in Track : MoveTrack(t)
    \/ \E s \in Save : MoveSave(s)
    \/ \E x \in Track \cup Save : RollBack(x)

\* Between two calls a player writes a save under the name of any place: the set
\* may have been played under it before, or on another device.
Play(p, s) ==
    /\ phase = "idle" /\ made < MaxVersion
    /\ made' = made + 1
    /\ save' = [save EXCEPT ![p][s] = made + 1]
    /\ UNCHANGED <<cue, tracks, call, before>>

Next ==
    \/ \E p \in Place : Start(p)
    \/ CallStep
    \/ \E p \in Place, s \in Save : Play(p, s)

Spec == Init /\ [][Next]_vars
-----------------------------------------------------------------------------
(* Properties *)

\* While every call has ended by itself and no move back has failed, sheet and
\* tracks are in one folder: the set loads (file_renamer.py 416-461).
SetIsWhole ==
    phase = "idle" /\ result \in {"moved", "rolled_back"} =>
        \A t \in Track : before.tracks[t] = before.cue => tracks[t] = cue

\* What the call answers is true: "moved" took the saves along, and a rollback
\* without failures brought the set and its saves back (file_renamer.py 392-461).
AnswerIsTrue ==
    [][phase # "idle" /\ phase' = "idle" =>
         /\ result' = "moved" =>
               \A s \in Save : /\ save'[from][s] = None
                               /\ before.save[from][s] # None
                                  => save'[to][s] = before.save[from][s]
         /\ result' = "rolled_back" =>
               cue' = before.cue /\ tracks' = before.tracks
               /\ save'[from] = before.save[from]]_vars
=============================================================================

---------------------------- MODULE RenamerSuite ----------------------------
(***************************************************************************)
(* The renamer for TLC, one of its parts from the first state on: the      *)
(* rename of one ROM with its saves (AtomicRename), the move of a disc set *)
(* (DiscSetMove), or the jobs apply and undo over the library              *)
(* (RenameApply).                                                          *)
(***************************************************************************)
EXTENDS RenameApply

CONSTANTS
    Name,        \* stems with their folder, and the places of a disc set
    Content,     \* the contents of ROM files
    Track,       \* the one that a .cue beside it refers to
    Piece,       \* the tracks of the disc set
    Save,        \* save files, by extension and folder
    MaxVersion,  \* bound on the saves written by players
    FileFaults   \* what may go wrong with a file

\* The paths <stem>_1 and <stem>_2.
NumberedTitles == [p \in Title |-> <<"t1", "t2">>]

VARIABLES
    part,
    rom, save, baks, sheet, phase, from, to, todo, moved, broken, result, made, played, before,
    cue, tracks, setSave, setPhase, setFrom, setTo, setTodo, savesTodo, setMoved, setBroken,
    setResult, setMade, setBefore

Rom == INSTANCE AtomicRename WITH Game <- Content, Faults <- FileFaults

Set == INSTANCE DiscSetMove WITH
    Place <- Name, Track <- Piece, Faults <- FileFaults, save <- setSave, phase <- setPhase,
    from <- setFrom, to <- setTo, todo <- setTodo, moved <- setMoved, broken <- setBroken,
    result <- setResult, made <- setMade, before <- setBefore

ASSUME RenameAssumption ==
    /\ Track \in Content /\ None \notin Content /\ None \notin Nat /\ None \notin Name
    /\ MaxVersion \in Nat /\ FileFaults \subseteq Rom!FaultNames
    /\ Piece \cap Save = {}

romVars == <<rom, save, baks, sheet, phase, from, to, todo, moved, broken, result, made,
             played, before>>
setVars == <<cue, tracks, setSave, setPhase, setFrom, setTo, setTodo, savesTodo, setMoved,
             setBroken, setResult, setMade, setBefore>>
suiteVars == <<part, vars, romVars, setVars>>

\* Exactly one part runs; the variables of the others keep their first values.
Only(p, A, others) == part = p /\ A /\ UNCHANGED <<part, others>>

AnyName == CHOOSE n \in Name : TRUE

SuiteInit ==
    /\ part \in {"rename", "set", "jobs"}
    /\ Init /\ (part # "jobs" => ~posix)
    /\ Rom!Init /\ (part # "rename" => rom = [n \in Name |-> IF n = AnyName THEN Track ELSE None])
    /\ Set!Init /\ (part # "set" => cue = AnyName)

SuiteNext ==
    \/ Only("rename", Rom!Next, <<vars, setVars>>)
    \/ Only("set", Set!Next, <<vars, romVars>>)
    \/ Only("jobs", Next, <<romVars, setVars>>)

SuiteSpec == SuiteInit /\ [][SuiteNext]_suiteVars
-----------------------------------------------------------------------------
(* Properties *)

\* No version of a save is ever lost but to its own player (file_renamer.py 289-310).
NoSaveLost == Rom!NoSaveLost

\* What a call answers is true: after "renamed" and "moved" no save is left under the
\* old name, and after a rollback without failures everything is where it was
\* (file_renamer.py 282-341, 392-461).
AnswersAreTrue == Rom!AnswerIsTrue /\ Set!AnswerIsTrue

\* A disc loads: the sheet beside a data track names the track when a rename ends, and
\* while every move of a set has ended by itself and no move back has failed, its sheet
\* and its tracks are in one folder (file_renamer.py 273-280, 322-327, 416-461).
DiscsAreWhole == Rom!SheetIsRight /\ Set!SetIsWhole
=============================================================================

---------------------------- MODULE AtomicRename ----------------------------
(***************************************************************************)
(* rename_rom_with_saves of renamer/file_renamer.py: a ROM and every save  *)
(* that shares its name move from one name to another, step by step, and   *)
(* are moved back when a step fails.                                       *)
(*                                                                         *)
(* A name is the stem a ROM and its saves have in common, with the folder  *)
(* of the ROM.  Saves in the ROM's folder and in the central folders of    *)
(* RetroArch are handled alike and are members of Save.  os.rename onto an *)
(* existing file raises, as it does on Windows; a rename that only changes *)
(* upper and lower case is left out.  The copies backup_save makes first   *)
(* are in BackupStore: its failure never blocks, so nothing here relies on *)
(* it.                                                                     *)
(***************************************************************************)
EXTENDS Integers

CONSTANTS
    Name,        \* stems with their folder
    Game,        \* the contents of ROM files
    Track,       \* the one that a .cue beside it refers to
    Save,        \* save files of a ROM, by extension and folder
    None,
    MaxVersion,  \* bound on the saves written by players
    Faults       \* what may go wrong, a subset of FaultNames

\* rename: a move fails         rollback: a move back fails
\* sheet:  a .cue or .gdi cannot be rewritten     crash: the process dies
FaultNames == {"rename", "rollback", "sheet", "crash"}

VARIABLES
    rom,      \* the ROM that bears a name
    save,     \* the save files that bear a name: a version, or None
    baks,     \* the .bak, .bak1, ... files beside each of them
    sheet,    \* the name the .cue beside a data track refers to
    phase, from, to, todo, moved,
    broken,   \* rollback_failures is not empty
    result,   \* what the last call answered
    made,     \* saves written so far
    played,   \* observation: versions replaced by their own players
    before    \* observation: rom, save and baks when the call began

disk == <<rom, save, baks>>
call == <<phase, from, to, todo, moved, broken, result>>
players == <<made, played>>
vars == <<disk, sheet, call, players, before>>

Version == 1 .. MaxVersion
Phases == {"idle", "rom", "saves", "rollback", "rollback_rom"}
Results == {"none", "renamed", "refused", "rolled_back", "incomplete"}

TypeOK ==
    /\ rom \in [Name -> Game \cup {None}]
    /\ save \in [Name -> [Save -> Version \cup {None}]]
    /\ baks \in [Name -> [Save -> SUBSET Version]]
    /\ sheet \in Name
    /\ phase \in Phases
    /\ from \in Name \cup {None} /\ to \in Name \cup {None}
    /\ phase # "idle" => from \in Name /\ to \in Name /\ from # to
    /\ todo \subseteq Save /\ moved \subseteq Save
    /\ broken \in BOOLEAN /\ result \in Results
    /\ made \in 0 .. MaxVersion /\ played \subseteq Version
    /\ before \in [rom : [Name -> Game \cup {None}],
                   save : [Name -> [Save -> Version \cup {None}]],
                   baks : [Name -> [Save -> SUBSET Version]]]

Init ==
    /\ rom \in [Name -> Game \cup {None}]
    /\ \A m, n \in Name : rom[m] = rom[n] /\ rom[m] # None => m = n
    /\ sheet \in Name /\ rom[sheet] = Track
    /\ save = [n \in Name |-> [s \in Save |-> None]]
    /\ baks = [n \in Name |-> [s \in Save |-> {}]]
    /\ phase = "idle" /\ from = None /\ to = None /\ todo = {} /\ moved = {}
    /\ broken = FALSE /\ result = "none"
    /\ made = 0 /\ played = {}
    /\ before = [rom |-> rom, save |-> save, baks |-> baks]

May(fault) == IF fault \in Faults THEN BOOLEAN ELSE {FALSE}
SavesOf(n) == {s \in Save : save[n][s] # None}

\* _update_disc_sheet_references, best effort; a crash before it is a failure of it.
SheetFollows(old, new) ==
    \E failed \in May("sheet") :
        sheet' = IF sheet = old /\ ~failed THEN new ELSE sheet

\* Mutant: the sheet is not rewritten.
SheetStays(old, new) == sheet' = sheet
\* ... and again when the ROM goes back to its name.
SheetReturns(old, new) == SheetFollows(old, new)

Answer(r) ==
    /\ phase' = "idle" /\ result' = r
    /\ from' = None /\ to' = None /\ todo' = {} /\ moved' = {} /\ broken' = FALSE
-----------------------------------------------------------------------------
(* The call *)

\* _collect_companions; a game that bears its name already is not in the plan.
Start(a, b) ==
    /\ phase = "idle" /\ a # b /\ rom[a] # None
    /\ phase' = "rom" /\ from' = a /\ to' = b
    /\ todo' = SavesOf(a) /\ moved' = {} /\ broken' = FALSE
    /\ before' = [rom |-> rom, save |-> save, baks |-> baks]
    /\ UNCHANGED <<disk, sheet, result, players>>

\* os.rename(source, target)
RenameRom ==
    /\ phase = "rom"
    /\ rom[to] = None
    /\ rom' = [rom EXCEPT ![to] = rom[from], ![from] = None]
    /\ SheetFollows(from, to)
    /\ phase' = "saves"
    /\ UNCHANGED <<save, baks, from, to, todo, moved, broken, result, players, before>>

RomRefused ==
    /\ phase = "rom"
    /\ rom[to] # None \/ "rename" \in Faults
    /\ Answer("refused")
    /\ UNCHANGED <<disk, sheet, players, before>>

\* Mutant: one .bak, whatever it held.
BakOnly(s) == baks' = [baks EXCEPT ![to][s] = {save[to][s]}]
\* os.replace(new_sav, bak), bak being the first free name.
Displace(s) == baks' = [baks EXCEPT ![to][s] = @ \cup {save[to][s]}]

\* Mutant: a move that the rollback does not know of.
RecordNothing(s) == moved' = moved
\* renamed_saves, what a rollback will move back.
Record(s) == moved' = moved \cup {s}

\* A save already there is displaced, then shutil.move.
MoveSave(s) ==
    /\ phase = "saves" /\ s \in todo
    /\ IF save[to][s] = None THEN UNCHANGED baks ELSE Displace(s)
    /\ save' = [save EXCEPT ![to][s] = save[from][s], ![from][s] = None]
    /\ todo' = todo \ {s} /\ Record(s)
    /\ UNCHANGED <<rom, sheet, phase, from, to, broken, result, players, before>>

\* One of the two fails; a save already displaced stays displaced.
MoveFails(s) ==
    /\ "rename" \in Faults /\ phase = "saves" /\ s \in todo
    /\ \/ UNCHANGED <<save, baks>>
       \/ /\ save[to][s] # None /\ Displace(s)
          /\ save' = [save EXCEPT ![to][s] = None]
    /\ phase' = "rollback"
    /\ UNCHANGED <<rom, sheet, from, to, todo, moved, broken, result, players, before>>

Done ==
    /\ phase = "saves" /\ todo = {}
    /\ Answer("renamed")
    /\ UNCHANGED <<disk, sheet, players, before>>

\* shutil.move(new_path, original_path)
RollBackSave(s) ==
    /\ phase = "rollback" /\ s \in moved
    /\ moved' = moved \ {s}
    /\ \E failed \in May("rollback") :
         /\ broken' = (broken \/ failed)
         /\ save' = IF failed THEN save
                    ELSE [save EXCEPT ![from][s] = save[to][s], ![to][s] = None]
    /\ UNCHANGED <<rom, baks, sheet, phase, from, to, todo, result, players, before>>

RollBackDone ==
    /\ phase = "rollback" /\ moved = {}
    /\ phase' = "rollback_rom"
    /\ UNCHANGED <<disk, sheet, from, to, todo, moved, broken, result, players, before>>

\* os.rename(target, source), and the answer.
RollBackRom ==
    /\ phase = "rollback_rom"
    /\ \E failed \in May("rollback") :
         /\ IF failed THEN UNCHANGED <<rom, sheet>>
            ELSE /\ rom' = [rom EXCEPT ![from] = rom[to], ![to] = None]
                 /\ SheetReturns(to, from)
         /\ Answer(IF broken \/ failed THEN "incomplete" ELSE "rolled_back")
    /\ UNCHANGED <<save, baks, players, before>>

Crash ==
    /\ "crash" \in Faults /\ phase # "idle"
    /\ Answer("none")
    /\ UNCHANGED <<disk, sheet, players, before>>

CallStep ==
    \/ RenameRom \/ RomRefused \/ Done \/ RollBackDone \/ RollBackRom \/ Crash
    \/ \E s \in Save : MoveSave(s) \/ MoveFails(s) \/ RollBackSave(s)

\* Between two calls a player writes a save under any name: under the one the
\* ROM has, or under another one on the device the saves are synchronised with.
Play(n, s) ==
    /\ phase = "idle" /\ made < MaxVersion
    /\ made' = made + 1
    /\ played' = played \cup {v \in Version : v = save[n][s]}
    /\ save' = [save EXCEPT ![n][s] = made + 1]
    /\ UNCHANGED <<rom, baks, sheet, call, before>>

Next ==
    \/ \E a, b \in Name : Start(a, b)
    \/ CallStep
    \/ \E n \in Name, s \in Save : Play(n, s)

Spec == Init /\ [][Next]_vars
-----------------------------------------------------------------------------
(* Properties *)

\* The version is in some save file or .bak.
OnDisk(v) == \E n \in Name, s \in Save : v = save[n][s] \/ v \in baks[n][s]

\* No version of a save is ever lost, whatever fails and wherever the process
\* dies, but those their players replaced: a save in the way is displaced to a
\* .bak that did not exist (file_renamer.py 289-310).
NoSaveLost == \A v \in 1 .. made : v \in played \/ OnDisk(v)

\* What the call answers is true: after "renamed" no save is left under the old
\* name, and after "all renames rolled back" the ROM and each of its saves are
\* where they were (file_renamer.py 282-341).
AnswerIsTrue ==
    [][phase # "idle" /\ phase' = "idle" =>
         /\ result' = "renamed" => /\ rom'[to] = before.rom[from]
                                   /\ \A s \in Save : save'[from][s] = None
                                   /\ \A s \in Save : before.save[from][s] # None
                                         => save'[to][s] = before.save[from][s]
         /\ result' \in {"refused", "rolled_back"} =>
                /\ rom' = before.rom
                /\ save'[from] = before.save[from]]_vars

\* The sheet beside a data track refers to the name the track has, when a call
\* ends: PSX-CUE-DESYNC-1c (file_renamer.py 273-280, 322-327).
SheetIsRight == phase = "idle" => rom[sheet] = Track
=============================================================================

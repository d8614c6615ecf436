------------------------- MODULE RenamerProofs ------------------------------
(***************************************************************************)
(* Proofs about the renamer.  rename_rom_with_saves loses no save, answers *)
(* the truth and leaves the sheet beside a data track right;               *)
(* move_disc_set_to_subfolder answers the truth and leaves a set whole:    *)
(* for any names, saves, tracks and faults.  At the end, what that says of *)
(* the specification TLC checks, of which the two are parts.               *)
(***************************************************************************)
EXTENDS RenamerSuite, TLAPS

\* While a call moves or moves back, the old name is free for every save moved.
OldNamesFree ==
    phase \in {"saves", "rollback"} => \A s \in moved : save[from][s] = None

NotYetMoved == phase = "rom" => moved = {}

KeepInv == Rom!TypeOK /\ OldNamesFree /\ NotYetMoved /\ Rom!NoSaveLost
-----------------------------------------------------------------------------
Saves == [Name -> [Save -> Rom!Version \cup {None}]]
Baks == [Name -> [Save -> SUBSET Rom!Version]]

\* Writing one save file.
LEMMA SaveWritten ==
    ASSUME save \in Saves, NEW n \in Name, NEW s \in Save, NEW x \in Rom!Version \cup {None},
           save' = [save EXCEPT ![n][s] = x]
    PROVE  save' \in Saves
BY DEF Saves

\* A save that leaves the name a for the name b.
LEMMA SaveMoved ==
    ASSUME save \in Saves, NEW a \in Name, NEW b \in Name, a # b, NEW s \in Save,
           save' = [save EXCEPT ![b][s] = save[a][s], ![a][s] = None]
    PROVE  save' \in Saves
BY DEF Saves

\* A save displaced to a .bak.
LEMMA SaveDisplaced ==
    ASSUME save \in Saves, baks \in Baks, to \in Name, NEW s \in Save, save[to][s] # None,
           Rom!Displace(s)
    PROVE  /\ baks' \in Baks /\ save[to][s] \in baks'[to][s]
           /\ \A m \in Name, t \in Save : baks[m][t] \subseteq baks'[m][t]
<1>1. baks[to][s] \cup {save[to][s]} \in SUBSET Rom!Version
  BY DEF Saves, Baks
<1>. QED
  BY <1>1 DEF Saves, Baks, Rom!Displace

LEMMA TypeInit == Rom!Init => Rom!TypeOK
<1>. SUFFICES ASSUME Rom!Init PROVE Rom!TypeOK
  OBVIOUS
<1>1. 0 \in 0 .. MaxVersion
  BY RenameAssumption
<1>2. before \in [rom : [Name -> Content \cup {None}],
                  save : [Name -> [Save -> Rom!Version \cup {None}]],
                  baks : [Name -> [Save -> SUBSET Rom!Version]]]
  BY DEF Rom!Init
<1>. QED
  BY <1>1, <1>2 DEF Rom!Init, Rom!TypeOK, Rom!Phases, Rom!Results

LEMMA TypeStep == Rom!TypeOK /\ [Rom!Next]_(Rom!vars) => Rom!TypeOK'
<1>. SUFFICES ASSUME Rom!TypeOK, [Rom!Next]_(Rom!vars) PROVE Rom!TypeOK'
  OBVIOUS
<1>. USE DEF Rom!TypeOK, Rom!Phases, Rom!Results, Rom!disk, Rom!call, Rom!players
<1>1. ASSUME NEW a \in Name, NEW b \in Name, Rom!Start(a, b) PROVE Rom!TypeOK'
  BY <1>1 DEF Rom!Start, Rom!SavesOf
<1>2. CASE Rom!RenameRom
  BY <1>2 DEF Rom!RenameRom, Rom!SheetFollows
<1>3. CASE Rom!RomRefused
  BY <1>3 DEF Rom!RomRefused, Rom!Answer
<1>4. CASE Rom!Done
  BY <1>4 DEF Rom!Done, Rom!Answer
<1>5. CASE Rom!RollBackDone
  BY <1>5 DEF Rom!RollBackDone
<1>6. CASE Rom!RollBackRom
  BY <1>6 DEF Rom!RollBackRom, Rom!Answer, Rom!SheetReturns, Rom!SheetFollows, Rom!May
<1>7. CASE Rom!Crash
  BY <1>7 DEF Rom!Crash, Rom!Answer
<1>8. ASSUME NEW s \in Save, Rom!MoveSave(s) PROVE Rom!TypeOK'
  <2>1. save' \in Saves
    BY <1>8, SaveMoved DEF Rom!MoveSave, Saves
  <2>2. baks' \in Baks
    BY <1>8, SaveDisplaced DEF Rom!MoveSave, Saves, Baks
  <2>. QED
    BY <1>8, <2>1, <2>2 DEF Rom!MoveSave, Rom!Record, Saves, Baks
<1>9. ASSUME NEW s \in Save, Rom!MoveFails(s) PROVE Rom!TypeOK'
  <2>1. save' \in Saves
    BY <1>9, SaveWritten DEF Rom!MoveFails, Saves
  <2>2. baks' \in Baks
    BY <1>9, SaveDisplaced DEF Rom!MoveFails, Saves, Baks
  <2>. QED
    BY <1>9, <2>1, <2>2 DEF Rom!MoveFails, Saves, Baks
<1>10. ASSUME NEW s \in Save, Rom!RollBackSave(s) PROVE Rom!TypeOK'
  <2>1. save' = save \/ save' = [save EXCEPT ![from][s] = save[to][s], ![to][s] = None]
    BY <1>10 DEF Rom!RollBackSave
  <2>2. save' \in Saves
    BY <1>10, <2>1, SaveMoved DEF Rom!RollBackSave, Saves
  <2>3. broken' \in BOOLEAN
    BY <1>10 DEF Rom!RollBackSave, Rom!May
  <2>. QED
    BY <1>10, <2>2, <2>3 DEF Rom!RollBackSave, Saves
<1>11. ASSUME NEW n \in Name, NEW s \in Save, Rom!Play(n, s) PROVE Rom!TypeOK'
  <2>1. made + 1 \in Rom!Version /\ made' \in 0 .. MaxVersion
    BY <1>11, RenameAssumption DEF Rom!Play, Rom!Version
  <2>2. save' \in Saves
    BY <1>11, <2>1, SaveWritten DEF Rom!Play, Saves
  <2>. QED
    BY <1>11, <2>1, <2>2 DEF Rom!Play, Saves
<1>12. CASE UNCHANGED Rom!vars
  BY <1>12 DEF Rom!vars
<1>. QED
  BY <1>1, <1>2, <1>3, <1>4, <1>5, <1>6, <1>7, <1>8, <1>9, <1>10, <1>11, <1>12
     DEF Rom!Next, Rom!CallStep

\* The state of a rename keeps its type (file_renamer.py 219-343).
THEOREM RenameTypeCorrect == Rom!Spec => []Rom!TypeOK
<1>. QED
  BY TypeInit, TypeStep, PTL DEF Rom!Spec
-----------------------------------------------------------------------------
(* No save is lost *)

LEMMA KeepInit == Rom!Init => KeepInv
BY TypeInit, RenameAssumption DEF Rom!Init, KeepInv, OldNamesFree, NotYetMoved,
   Rom!NoSaveLost

\* Wherever each version was, it still is somewhere.
KeptOnDisk == \A v \in Rom!Version : Rom!OnDisk(v) => Rom!OnDisk(v)'

LEMMA KeptIsNotLost ==
    ASSUME KeepInv, KeptOnDisk, UNCHANGED Rom!players
    PROVE  Rom!NoSaveLost'
BY RenameAssumption DEF KeepInv, KeptOnDisk, Rom!NoSaveLost, Rom!TypeOK, Rom!players,
   Rom!Version

LEMMA SameFiles == UNCHANGED <<save, baks>> => KeptOnDisk
BY DEF KeptOnDisk, Rom!OnDisk

LEMMA MoveKeeps ==
    ASSUME KeepInv, NEW s \in Save, Rom!MoveSave(s)
    PROVE  OldNamesFree' /\ KeptOnDisk
<1>1. /\ save \in Saves /\ baks \in Baks /\ None \notin Rom!Version
      /\ from \in Name /\ to \in Name /\ from # to /\ moved \subseteq Save
  BY RenameAssumption DEF KeepInv, Rom!TypeOK, Rom!MoveSave, Saves, Baks, Rom!Version
<1>2. /\ save'[to][s] = save[from][s] /\ save'[from][s] = None
      /\ \A m \in Name, t \in Save : t # s \/ m \notin {from, to} => save'[m][t] = save[m][t]
  BY <1>1 DEF Rom!MoveSave, Saves
<1>3. /\ \A m \in Name, t \in Save : baks[m][t] \subseteq baks'[m][t]
      /\ save[to][s] # None => save[to][s] \in baks'[to][s]
  BY <1>1, SaveDisplaced DEF Rom!MoveSave
<1>4. OldNamesFree'
  BY <1>1, <1>2 DEF OldNamesFree, KeepInv, Rom!MoveSave, Rom!Record
<1>5. ASSUME NEW v \in Rom!Version, NEW m \in Name, NEW t \in Save, v = save[m][t]
      PROVE  Rom!OnDisk(v)'
  BY <1>1, <1>2, <1>3, <1>5 DEF Rom!OnDisk
<1>6. ASSUME NEW v \in Rom!Version, NEW m \in Name, NEW t \in Save, v \in baks[m][t]
      PROVE  Rom!OnDisk(v)'
  BY <1>3, <1>6 DEF Rom!OnDisk
<1>. QED
  BY <1>4, <1>5, <1>6 DEF KeptOnDisk, Rom!OnDisk

LEMMA FailKeeps ==
    ASSUME KeepInv, NEW s \in Save, Rom!MoveFails(s)
    PROVE  OldNamesFree' /\ KeptOnDisk
<1>1. /\ save \in Saves /\ baks \in Baks /\ None \notin Rom!Version
      /\ from \in Name /\ to \in Name /\ from # to /\ moved \subseteq Save
  BY RenameAssumption DEF KeepInv, Rom!TypeOK, Rom!MoveFails, Saves, Baks, Rom!Version
<1>2. CASE UNCHANGED <<save, baks>>
  BY <1>2 DEF KeptOnDisk, Rom!OnDisk, OldNamesFree, KeepInv, Rom!MoveFails
<1>3. CASE save[to][s] # None /\ Rom!Displace(s) /\ save' = [save EXCEPT ![to][s] = None]
  <2>1. \A m \in Name, t \in Save : t # s \/ m # to => save'[m][t] = save[m][t]
    BY <1>1, <1>3 DEF Saves
  <2>2. /\ \A m \in Name, t \in Save : baks[m][t] \subseteq baks'[m][t]
        /\ save[to][s] \in baks'[to][s]
    BY <1>1, <1>3, SaveDisplaced
  <2>3. OldNamesFree'
    BY <1>1, <2>1 DEF OldNamesFree, KeepInv, Rom!MoveFails
  <2>4. ASSUME NEW v \in Rom!Version, NEW m \in Name, NEW t \in Save, v = save[m][t]
        PROVE  Rom!OnDisk(v)'
    BY <1>1, <2>1, <2>2, <2>4 DEF Rom!OnDisk
  <2>5. ASSUME NEW v \in Rom!Version, NEW m \in Name, NEW t \in Save, v \in baks[m][t]
        PROVE  Rom!OnDisk(v)'
    BY <2>2, <2>5 DEF Rom!OnDisk
  <2>. QED
    BY <2>3, <2>4, <2>5 DEF KeptOnDisk, Rom!OnDisk
<1>. QED
  BY <1>2, <1>3 DEF Rom!MoveFails

\* The old name being free, moving a save back replaces nothing.
LEMMA RollBackKeeps ==
    ASSUME KeepInv, NEW s \in Save, Rom!RollBackSave(s)
    PROVE  OldNamesFree' /\ KeptOnDisk
<1>1. /\ save \in Saves /\ baks \in Baks /\ None \notin Rom!Version
      /\ from \in Name /\ to \in Name /\ from # to /\ moved \subseteq Save
  BY RenameAssumption DEF KeepInv, Rom!TypeOK, Rom!RollBackSave, Saves, Baks, Rom!Version
<1>2. save[from][s] = None
  BY DEF KeepInv, OldNamesFree, Rom!RollBackSave
<1>3. /\ baks' = baks /\ moved' = moved \ {s} /\ from' = from
      /\ phase' = phase /\ phase = "rollback"
  BY DEF Rom!RollBackSave
<1>4. CASE save' = save
  BY <1>3, <1>4 DEF KeptOnDisk, Rom!OnDisk, OldNamesFree, KeepInv
<1>5. CASE save' = [save EXCEPT ![from][s] = save[to][s], ![to][s] = None]
  <2>1. /\ save'[from][s] = save[to][s]
        /\ \A m \in Name, t \in Save : t # s \/ m \notin {from, to} => save'[m][t] = save[m][t]
    BY <1>1, <1>5 DEF Saves
  <2>2. OldNamesFree'
    BY <1>1, <1>3, <2>1 DEF OldNamesFree, KeepInv
  <2>3. ASSUME NEW v \in Rom!Version, NEW m \in Name, NEW t \in Save, v = save[m][t]
        PROVE  Rom!OnDisk(v)'
    BY <1>1, <1>2, <2>1, <2>3 DEF Rom!OnDisk
  <2>. QED
    BY <1>3, <2>2, <2>3 DEF KeptOnDisk, Rom!OnDisk
<1>. QED
  BY <1>4, <1>5 DEF Rom!RollBackSave

LEMMA PlayKeeps ==
    ASSUME KeepInv, NEW n \in Name, NEW s \in Save, Rom!Play(n, s)
    PROVE  Rom!NoSaveLost'
<1>1. /\ save \in Saves /\ None \notin Rom!Version /\ made \in Nat
      /\ made' = made + 1 /\ made + 1 \in Rom!Version /\ made \in 0 .. MaxVersion
  BY RenameAssumption DEF KeepInv, Rom!TypeOK, Rom!Play, Saves, Rom!Version
<1>2. /\ save'[n][s] = made + 1
      /\ \A m \in Name, t \in Save : t # s \/ m # n => save'[m][t] = save[m][t]
  BY <1>1 DEF Rom!Play, Saves
<1>3. ASSUME NEW v \in 1 .. made PROVE v \in played' \/ Rom!OnDisk(v)'
  <2>1. v \in Rom!Version /\ (v \in played \/ Rom!OnDisk(v))
    BY <1>1, RenameAssumption DEF KeepInv, Rom!NoSaveLost, Rom!Version
  <2>2. CASE v \in played
    BY <2>2 DEF Rom!Play
  <2>3. CASE v = save[n][s]
    BY <2>1, <2>3 DEF Rom!Play
  <2>4. ASSUME NEW m \in Name, NEW t \in Save, v = save[m][t], m # n \/ t # s
        PROVE  Rom!OnDisk(v)'
    BY <1>2, <2>4 DEF Rom!OnDisk
  <2>5. ASSUME NEW m \in Name, NEW t \in Save, v \in baks[m][t] PROVE Rom!OnDisk(v)'
    BY <2>5 DEF Rom!OnDisk, Rom!Play
  <2>. QED
    BY <2>1, <2>2, <2>3, <2>4, <2>5 DEF Rom!OnDisk
<1>4. ASSUME NEW v, v = made + 1 PROVE Rom!OnDisk(v)'
  BY <1>2, <1>4 DEF Rom!OnDisk
<1>5. \A v \in 1 .. made' : v \in 1 .. made \/ v = made + 1
  BY <1>1
<1>. QED
  BY <1>3, <1>4, <1>5 DEF Rom!NoSaveLost

LEMMA KeepStep == KeepInv /\ [Rom!Next]_(Rom!vars) => KeepInv'
<1>. SUFFICES ASSUME KeepInv, [Rom!Next]_(Rom!vars) PROVE KeepInv'
  OBVIOUS
<1>1. Rom!TypeOK'
  BY TypeStep DEF KeepInv
<1>2. NotYetMoved'
  BY DEF KeepInv, NotYetMoved, Rom!Next, Rom!CallStep, Rom!Start, Rom!RenameRom,
     Rom!RomRefused, Rom!Done, Rom!RollBackDone, Rom!RollBackRom, Rom!Crash, Rom!MoveSave,
     Rom!MoveFails, Rom!RollBackSave, Rom!Play, Rom!Answer, Rom!call, Rom!vars
<1>3. ASSUME NEW a \in Name, NEW b \in Name, Rom!Start(a, b)
      PROVE  OldNamesFree' /\ Rom!NoSaveLost'
  BY <1>3, SameFiles, KeptIsNotLost DEF Rom!Start, OldNamesFree, Rom!disk
<1>4. ASSUME Rom!RenameRom PROVE OldNamesFree' /\ Rom!NoSaveLost'
  BY <1>4, SameFiles, KeptIsNotLost DEF Rom!RenameRom, OldNamesFree, NotYetMoved, KeepInv
<1>5. ASSUME Rom!RomRefused \/ Rom!Done \/ Rom!Crash PROVE OldNamesFree' /\ Rom!NoSaveLost'
  BY <1>5, SameFiles, KeptIsNotLost DEF Rom!RomRefused, Rom!Done, Rom!Crash, Rom!Answer,
     OldNamesFree, Rom!disk
<1>6. ASSUME Rom!RollBackDone PROVE OldNamesFree' /\ Rom!NoSaveLost'
  BY <1>6, SameFiles, KeptIsNotLost DEF Rom!RollBackDone, OldNamesFree, Rom!disk
<1>7. ASSUME Rom!RollBackRom PROVE OldNamesFree' /\ Rom!NoSaveLost'
  BY <1>7, SameFiles, KeptIsNotLost DEF Rom!RollBackRom, Rom!Answer, OldNamesFree
<1>8. ASSUME NEW s \in Save, Rom!MoveSave(s) PROVE OldNamesFree' /\ Rom!NoSaveLost'
  BY <1>8, MoveKeeps, KeptIsNotLost DEF Rom!MoveSave
<1>9. ASSUME NEW s \in Save, Rom!MoveFails(s) PROVE OldNamesFree' /\ Rom!NoSaveLost'
  BY <1>9, FailKeeps, KeptIsNotLost DEF Rom!MoveFails
<1>10. ASSUME NEW s \in Save, Rom!RollBackSave(s) PROVE OldNamesFree' /\ Rom!NoSaveLost'
  BY <1>10, RollBackKeeps, KeptIsNotLost DEF Rom!RollBackSave
<1>11. ASSUME NEW n \in Name, NEW s \in Save, Rom!Play(n, s)
       PROVE  OldNamesFree' /\ Rom!NoSaveLost'
  BY <1>11, PlayKeeps DEF Rom!Play, OldNamesFree, Rom!call
<1>12. ASSUME UNCHANGED Rom!vars PROVE OldNamesFree' /\ Rom!NoSaveLost'
  BY <1>12, SameFiles, KeptIsNotLost DEF Rom!vars, Rom!disk, Rom!call, OldNamesFree, KeepInv
<1>13. OldNamesFree' /\ Rom!NoSaveLost'
  BY <1>3, <1>4, <1>5, <1>6, <1>7, <1>8, <1>9, <1>10, <1>11, <1>12 DEF Rom!Next,
     Rom!CallStep
<1>. QED
  BY <1>1, <1>2, <1>13 DEF KeepInv

\* For any names, saves and faults, every version of a save is in a save file or a
\* .bak, but those their players replaced: a rename, a failed one, a failed
\* rollback or a crash loses none (file_renamer.py 282-314).
THEOREM RenameLosesNothing == Rom!Spec => []Rom!NoSaveLost
<1>1. KeepInv => Rom!NoSaveLost
  BY DEF KeepInv
<1>. QED
  BY <1>1, KeepInit, KeepStep, PTL DEF Rom!Spec
-----------------------------------------------------------------------------
(* The answer is true *)

\* The ROM has moved and nothing else bore its new name.
RomMoved ==
    /\ before.rom[to] = None
    /\ rom = [before.rom EXCEPT ![to] = before.rom[from], ![from] = None]

\* A save that has moved bears the new name and no longer the old one.
HasMoved(s) == save[from][s] = None /\ save[to][s] = before.save[from][s]

\* How far the call has come since before.
Progress ==
    /\ phase = "rom" =>
         /\ rom = before.rom /\ save = before.save
         /\ todo = Rom!SavesOf(from) /\ moved = {} /\ ~broken
    /\ phase = "saves" =>
         /\ RomMoved /\ ~broken /\ todo \cap moved = {}
         /\ \A s \in moved : HasMoved(s)
         /\ \A s \in Save \ moved : save[from][s] = before.save[from][s]
         /\ \A s \in Save \ (moved \cup todo) : save[from][s] = None
    /\ phase = "rollback" =>
         /\ RomMoved
         /\ \A s \in moved : HasMoved(s)
         /\ ~broken => \A s \in Save \ moved : save[from][s] = before.save[from][s]
    /\ phase = "rollback_rom" =>
         /\ RomMoved
         /\ ~broken => \A s \in Save : save[from][s] = before.save[from][s]

AnswerInv == Rom!TypeOK /\ Progress

LEMMA ProgressInit == Rom!Init => AnswerInv
BY TypeInit DEF Rom!Init, AnswerInv, Progress

LEMMA ProgressStep == AnswerInv /\ [Rom!Next]_(Rom!vars) => AnswerInv'
<1>. SUFFICES ASSUME AnswerInv, [Rom!Next]_(Rom!vars) PROVE AnswerInv'
  OBVIOUS
<1>1. Rom!TypeOK'
  BY TypeStep DEF AnswerInv
<1>2. Rom!TypeOK /\ Progress
  BY DEF AnswerInv
<1>3. save \in Saves /\ moved \subseteq Save /\ todo \subseteq Save /\ before.save \in Saves
  BY <1>2 DEF Rom!TypeOK, Saves
<1>4. ASSUME NEW a \in Name, NEW b \in Name, Rom!Start(a, b) PROVE Progress'
  BY <1>4 DEF Rom!Start, Progress, Rom!SavesOf, Rom!disk
<1>5. ASSUME Rom!RenameRom PROVE Progress'
  BY <1>2, <1>5 DEF Rom!RenameRom, Progress, RomMoved, HasMoved, Rom!SavesOf
<1>6. ASSUME Rom!RomRefused \/ Rom!Done \/ Rom!RollBackRom \/ Rom!Crash PROVE Progress'
  BY <1>6 DEF Rom!RomRefused, Rom!Done, Rom!RollBackRom, Rom!Crash, Rom!Answer, Progress
<1>7. ASSUME Rom!RollBackDone PROVE Progress'
  BY <1>2, <1>7 DEF Rom!RollBackDone, Progress, RomMoved, HasMoved, Rom!disk
<1>8. ASSUME NEW s \in Save, Rom!MoveSave(s) PROVE Progress'
  <2>1. from \in Name /\ to \in Name /\ from # to /\ phase = "saves" /\ s \in todo
    BY <1>2, <1>8 DEF Rom!MoveSave, Rom!TypeOK
  <2>2. /\ save'[to][s] = save[from][s] /\ save'[from][s] = None
        /\ \A m \in Name, t \in Save : t # s => save'[m][t] = save[m][t]
    BY <1>3, <1>8, <2>1 DEF Rom!MoveSave, Saves
  <2>3. phase' = "saves" /\ RomMoved' /\ ~broken'
    BY <1>2, <1>8, <2>1 DEF Rom!MoveSave, Progress, RomMoved
  <2>4. moved' = moved \cup {s} /\ todo' = todo \ {s} /\ UNCHANGED <<from, to, before>>
    BY <1>8 DEF Rom!MoveSave, Rom!Record
  <2>5. s \notin moved /\ save[from][s] = before.save[from][s]
    BY <1>2, <1>3, <2>1 DEF Progress
  <2>. QED
    BY <1>2, <1>3, <2>1, <2>2, <2>3, <2>4, <2>5 DEF Progress, HasMoved
<1>9. ASSUME NEW s \in Save, Rom!MoveFails(s) PROVE Progress'
  <2>1. from \in Name /\ to \in Name /\ from # to /\ phase = "saves" /\ s \in todo
    BY <1>2, <1>9 DEF Rom!MoveFails, Rom!TypeOK
  <2>2. /\ \A t \in Save : save'[from][t] = save[from][t]
        /\ \A t \in Save \ {s} : save'[to][t] = save[to][t]
    BY <1>3, <1>9, <2>1 DEF Rom!MoveFails, Saves
  <2>. QED
    BY <1>2, <1>3, <1>9, <2>1, <2>2 DEF Rom!MoveFails, Progress, RomMoved, HasMoved
<1>10. ASSUME NEW s \in Save, Rom!RollBackSave(s) PROVE Progress'
  <2>1. from \in Name /\ to \in Name /\ from # to /\ phase = "rollback" /\ s \in moved
    BY <1>2, <1>10 DEF Rom!RollBackSave, Rom!TypeOK
  <2>2. HasMoved(s) /\ RomMoved' /\ \A t \in moved : HasMoved(t)
    BY <1>2, <1>10, <2>1 DEF Rom!RollBackSave, Progress, RomMoved
  <2>3. /\ \A m \in Name, t \in Save : t # s => save'[m][t] = save[m][t]
        /\ ~broken' => ~broken /\ save'[from][s] = save[to][s]
    <3>1. PICK failed \in Rom!May("rollback") :
            /\ broken' = (broken \/ failed)
            /\ save' = IF failed THEN save
                       ELSE [save EXCEPT ![from][s] = save[to][s], ![to][s] = None]
      BY <1>10 DEF Rom!RollBackSave
    <3>2. CASE failed
      BY <3>1, <3>2
    <3>3. CASE ~failed
      BY <1>3, <2>1, <3>1, <3>3 DEF Saves
    <3>. QED
      BY <3>2, <3>3
  <2>4. moved' = moved \ {s} /\ UNCHANGED <<phase, from, to, before>>
    BY <1>10 DEF Rom!RollBackSave
  <2>. QED
    BY <1>2, <1>3, <2>1, <2>2, <2>3, <2>4 DEF Progress, HasMoved
<1>11. ASSUME NEW n \in Name, NEW s \in Save, Rom!Play(n, s) PROVE Progress'
  BY <1>11 DEF Rom!Play, Progress, Rom!call
<1>12. ASSUME UNCHANGED Rom!vars PROVE Progress'
  BY <1>2, <1>12 DEF Rom!vars, Rom!disk, Rom!call, Progress, RomMoved, HasMoved, Rom!SavesOf
<1>13. Progress'
  BY <1>4, <1>5, <1>6, <1>7, <1>8, <1>9, <1>10, <1>11, <1>12 DEF Rom!Next, Rom!CallStep
<1>. QED
  BY <1>1, <1>13 DEF AnswerInv

LEMMA SavesAreBack ==
    ASSUME Rom!TypeOK, from \in Name, \A s \in Save : save[from][s] = before.save[from][s]
    PROVE  save[from] = before.save[from]
<1>1. /\ save[from] \in [Save -> Rom!Version \cup {None}]
      /\ before.save[from] \in [Save -> Rom!Version \cup {None}]
  BY DEF Rom!TypeOK
<1>. QED
  BY <1>1

\* For any names, saves and faults, what the call answers is true (file_renamer.py
\* 263-343).
THEOREM RenameAnswersTruly == Rom!Spec => Rom!AnswerIsTrue
<1>. DEFINE Truth ==
       phase # "idle" /\ phase' = "idle" =>
         /\ result' = "renamed" => /\ rom'[to] = before.rom[from]
                                   /\ \A s \in Save : save'[from][s] = None
                                   /\ \A s \in Save : before.save[from][s] # None
                                         => save'[to][s] = before.save[from][s]
         /\ result' \in {"refused", "rolled_back"} =>
                /\ rom' = before.rom
                /\ save'[from] = before.save[from]
<1>1. AnswerInv /\ [Rom!Next]_(Rom!vars) => Truth
  <2>. SUFFICES ASSUME AnswerInv, [Rom!Next]_(Rom!vars), phase # "idle", phase' = "idle"
                PROVE  Truth
    OBVIOUS
  <2>1. Rom!TypeOK /\ Progress /\ from \in Name /\ to \in Name /\ from # to
    BY DEF AnswerInv, Rom!TypeOK
  <2>2. CASE Rom!RomRefused
    BY <2>1, <2>2 DEF Rom!RomRefused, Rom!Answer, Progress, Rom!disk
  <2>3. CASE Rom!Done
    <3>1. \A s \in Save : s \in moved \/ (save[from][s] = None /\ before.save[from][s] = None)
      BY <2>1, <2>3 DEF Rom!Done, Progress
    <3>2. rom[to] = before.rom[from] /\ \A s \in moved : HasMoved(s)
      BY <2>1, <2>3 DEF Rom!Done, Progress, RomMoved, Rom!TypeOK
    <3>. QED
      BY <2>3, <3>1, <3>2 DEF Rom!Done, Rom!Answer, HasMoved, Rom!disk
  <2>4. CASE Rom!RollBackRom
    <3>. SUFFICES ASSUME result' = "rolled_back"
                  PROVE  rom' = before.rom /\ save'[from] = before.save[from]
      BY <2>4 DEF Rom!RollBackRom, Rom!Answer
    <3>1. ~broken /\ rom' = [rom EXCEPT ![from] = rom[to], ![to] = None]
      BY <2>4 DEF Rom!RollBackRom, Rom!Answer
    <3>2. /\ rom = [before.rom EXCEPT ![to] = before.rom[from], ![from] = None]
          /\ before.rom[to] = None /\ before.rom \in [Name -> Content \cup {None}]
          /\ \A s \in Save : save[from][s] = before.save[from][s]
      BY <2>1, <2>4, <3>1 DEF Rom!RollBackRom, Progress, RomMoved, Rom!TypeOK
    <3>3. rom' = before.rom
      BY <2>1, <3>1, <3>2
    <3>4. save'[from] = before.save[from]
      BY <2>1, <2>4, <3>2, SavesAreBack DEF Rom!RollBackRom
    <3>. QED
      BY <3>3, <3>4
  <2>5. CASE Rom!Crash
    BY <2>5 DEF Rom!Crash, Rom!Answer
  <2>6. Rom!RomRefused \/ Rom!Done \/ Rom!RollBackRom \/ Rom!Crash
    BY DEF Rom!Next, Rom!CallStep, Rom!Start, Rom!RenameRom, Rom!RollBackDone, Rom!MoveSave,
       Rom!MoveFails, Rom!RollBackSave, Rom!Play, Rom!call, Rom!vars
  <2>. QED
    BY <2>2, <2>3, <2>4, <2>5, <2>6
<1>2. Rom!Spec => [][Truth]_(Rom!vars)
  BY <1>1, ProgressInit, ProgressStep, PTL DEF Rom!Spec
<1>. QED
  BY <1>2 DEF Rom!AnswerIsTrue
-----------------------------------------------------------------------------
(* The sheet beside a data track *)

\* The sheet names the track at every step of a call: it is rewritten with it.
SheetInv == AnswerInv /\ rom[sheet] = Track

LEMMA SheetStep ==
    ASSUME "sheet" \notin FileFaults, SheetInv, [Rom!Next]_(Rom!vars)
    PROVE  SheetInv'
<1>1. AnswerInv'
  BY ProgressStep DEF SheetInv
<1>2. /\ rom \in [Name -> Content \cup {None}] /\ sheet \in Name /\ rom[sheet] = Track
      /\ Track # None /\ Progress /\ Rom!TypeOK
  BY RenameAssumption DEF SheetInv, AnswerInv, Rom!TypeOK
<1>3. Rom!May("sheet") = {FALSE}
  BY DEF Rom!May
<1>4. ASSUME Rom!RenameRom PROVE rom'[sheet'] = Track
  <2>1. from \in Name /\ to \in Name /\ from # to /\ rom[to] = None
    BY <1>2, <1>4 DEF Rom!RenameRom, Rom!TypeOK
  <2>2. sheet' = IF sheet = from THEN to ELSE sheet
    BY <1>3, <1>4 DEF Rom!RenameRom, Rom!SheetFollows
  <2>3. rom' = [rom EXCEPT ![to] = rom[from], ![from] = None]
    BY <1>4 DEF Rom!RenameRom
  <2>. QED
    BY <1>2, <2>1, <2>2, <2>3
<1>5. ASSUME Rom!RollBackRom PROVE rom'[sheet'] = Track
  <2>1. from \in Name /\ to \in Name /\ from # to /\ RomMoved
    BY <1>2, <1>5 DEF Rom!RollBackRom, Rom!TypeOK, Progress
  <2>2. rom[from] = None
    BY <1>2, <2>1 DEF RomMoved, Rom!TypeOK
  <2>3. CASE UNCHANGED <<rom, sheet>>
    BY <1>2, <2>3
  <2>4. CASE /\ rom' = [rom EXCEPT ![from] = rom[to], ![to] = None]
             /\ sheet' = IF sheet = to THEN from ELSE sheet
    BY <1>2, <2>1, <2>2, <2>4
  <2>. QED
    BY <1>3, <1>5, <2>3, <2>4 DEF Rom!RollBackRom, Rom!SheetReturns, Rom!SheetFollows
<1>6. ASSUME UNCHANGED <<rom, sheet>> PROVE rom'[sheet'] = Track
  BY <1>2, <1>6
<1>7. rom'[sheet'] = Track
  BY <1>4, <1>5, <1>6 DEF Rom!Next, Rom!CallStep, Rom!Start, Rom!RomRefused, Rom!Done,
     Rom!RollBackDone, Rom!Crash, Rom!MoveSave, Rom!MoveFails, Rom!RollBackSave, Rom!Play,
     Rom!disk, Rom!vars
<1>. QED
  BY <1>1, <1>7 DEF SheetInv

\* Unless a sheet could not be rewritten, the sheet beside a data track names the track
\* whenever no call is under way, and even while one is (file_renamer.py 273-280, 322-327).
THEOREM SheetStaysRight == ASSUME "sheet" \notin FileFaults PROVE Rom!Spec => []Rom!SheetIsRight
<1>1. Rom!Init => SheetInv
  BY ProgressInit DEF Rom!Init, SheetInv
<1>2. SheetInv /\ [Rom!Next]_(Rom!vars) => SheetInv'
  BY SheetStep
<1>3. SheetInv => Rom!SheetIsRight
  BY DEF SheetInv, Rom!SheetIsRight
<1>. QED
  BY <1>1, <1>2, <1>3, PTL DEF Rom!Spec
-----------------------------------------------------------------------------
(* The move of a disc set *)

SetPhases == {"idle", "tracks", "saves", "cue", "rollback"}

SetTypeOK ==
    /\ cue \in Name /\ tracks \in [Piece -> Name] /\ setSave \in Saves
    /\ setPhase \in SetPhases
    /\ setPhase # "idle" => setFrom \in Name /\ setTo \in Name /\ setFrom # setTo
    /\ setTodo \subseteq Piece /\ savesTodo \subseteq Save
    /\ setMoved \subseteq Piece \cup Save
    /\ setBroken \in BOOLEAN /\ setMade \in 0 .. MaxVersion
    /\ setBefore \in [cue : Name, tracks : [Piece -> Name], save : Saves]

\* The sheet moves last, so until then it is where it was.
SheetInPlace == setPhase # "idle" => cue = setFrom /\ setBefore.cue = setFrom

\* A piece is where it was before the call, or it has moved along.
PieceTracked(t) ==
    IF t \in setMoved THEN tracks[t] = setTo /\ setBefore.tracks[t] = setFrom
    ELSE tracks[t] = setBefore.tracks[t]

SaveTracked(s) ==
    IF s \in setMoved
    THEN setSave[setFrom][s] = None /\ setSave[setTo][s] = setBefore.save[setFrom][s]
    ELSE setSave[setFrom][s] = setBefore.save[setFrom][s]

Forward == setPhase \in {"tracks", "saves", "cue"}

SetProgress ==
    /\ Forward => ~setBroken
    /\ setPhase # "idle" /\ ~setBroken =>
         /\ \A t \in Piece : PieceTracked(t)
         /\ \A s \in Save : SaveTracked(s)
    /\ Forward =>
         /\ \A t \in setTodo : setBefore.tracks[t] = setFrom
         /\ \A t \in Piece : setBefore.tracks[t] = setFrom => t \in setTodo \cup setMoved
         /\ \A s \in Save : setBefore.save[setFrom][s] # None => s \in savesTodo \cup setMoved
         /\ savesTodo \cap setMoved = {}
    /\ setPhase \in {"saves", "cue"} => setTodo = {}
    /\ setPhase = "cue" => savesTodo = {}

SetInv == SetTypeOK /\ SheetInPlace /\ SetProgress /\ Set!SetIsWhole

\* The save s leaves the name a for the name b.
Moved(f, a, b, s) == [f EXCEPT ![b][s] = f[a][s], ![a][s] = None]

LEMMA FileMoved ==
    ASSUME NEW f \in Saves, NEW a \in Name, NEW b \in Name, a # b, NEW s \in Save
    PROVE  /\ Moved(f, a, b, s) \in Saves
           /\ Moved(f, a, b, s)[b][s] = f[a][s] /\ Moved(f, a, b, s)[a][s] = None
           /\ \A n \in Name, t \in Save : t # s => Moved(f, a, b, s)[n][t] = f[n][t]
<1>1. f[a] \in [Save -> Rom!Version \cup {None}] /\ f[b] \in [Save -> Rom!Version \cup {None}]
  BY DEF Saves
<1>2. f[a][s] \in Rom!Version \cup {None}
  BY <1>1
<1>. QED
  BY <1>1, <1>2 DEF Saves, Moved

LEMMA SetInitial == Set!Init => SetInv
<1>. SUFFICES ASSUME Set!Init PROVE SetInv
  OBVIOUS
<1>1. 0 \in 0 .. MaxVersion
  BY RenameAssumption
<1>. QED
  BY <1>1 DEF Set!Init, Set!Now, SetInv, SetTypeOK, SetPhases, SheetInPlace, SetProgress,
     Forward, Saves, Set!SetIsWhole

LEMMA SetTypeStep == SetTypeOK /\ [Set!Next]_(Set!vars) => SetTypeOK'
<1>. SUFFICES ASSUME SetTypeOK, [Set!Next]_(Set!vars) PROVE SetTypeOK'
  OBVIOUS
<1>. USE DEF SetTypeOK, SetPhases, Set!disk, Set!call
<1>1. ASSUME NEW p \in Name, Set!Start(p) PROVE SetTypeOK'
  BY <1>1 DEF Set!Start, Set!TracksOf, Set!Now
<1>2. ASSUME NEW t \in Piece, Set!MoveTrack(t) PROVE SetTypeOK'
  BY <1>2 DEF Set!MoveTrack, Set!Record
<1>3. CASE Set!TracksMoved
  BY <1>3 DEF Set!TracksMoved
<1>4. CASE Set!SavesMoved
  BY <1>4 DEF Set!SavesMoved
<1>5. CASE Set!MoveCue
  BY <1>5 DEF Set!MoveCue, Set!Answer
<1>6. CASE Set!MoveFails
  BY <1>6 DEF Set!MoveFails
<1>7. CASE Set!RollBackDone
  BY <1>7 DEF Set!RollBackDone, Set!Answer
<1>8. CASE Set!Crash
  BY <1>8 DEF Set!Crash, Set!Answer
<1>9. ASSUME NEW s \in Save, Set!MoveSave(s) PROVE SetTypeOK'
  <2>1. setSave' \in Saves
    <3>1. setFrom \in Name /\ setTo \in Name /\ setFrom # setTo
      BY <1>9 DEF Set!MoveSave
    <3>2. setSave' = Moved(setSave, setFrom, setTo, s)
      BY <1>9 DEF Set!MoveSave, Moved
    <3>. QED
      BY <3>1, <3>2, FileMoved
  <2>. QED
    BY <1>9, <2>1 DEF Set!MoveSave, Set!Record
<1>10. ASSUME NEW x \in Piece \cup Save, Set!RollBack(x) PROVE SetTypeOK'
  <2>1. PICK failed \in Set!May("rollback") :
          /\ setBroken' = (setBroken \/ failed)
          /\ tracks' = IF failed \/ x \notin Piece THEN tracks
                       ELSE [tracks EXCEPT ![x] = setFrom]
          /\ setSave' = IF failed \/ x \notin Save THEN setSave
                    ELSE [setSave EXCEPT ![setFrom][x] = setSave[setTo][x], ![setTo][x] = None]
    BY <1>10 DEF Set!RollBack
  <2>2. setFrom \in Name /\ setTo \in Name /\ setFrom # setTo
    BY <1>10 DEF Set!RollBack
  <2>3. tracks' \in [Piece -> Name]
    BY <2>1, <2>2
  <2>4. setSave' \in Saves
    <3>1. setSave' = setSave \/ (x \in Save /\ setSave' = Moved(setSave, setTo, setFrom, x))
      BY <2>1 DEF Moved
    <3>. QED
      BY <2>2, <3>1, FileMoved
  <2>5. setBroken' \in BOOLEAN
    BY <2>1 DEF Set!May
  <2>. QED
    BY <1>10, <2>3, <2>4, <2>5 DEF Set!RollBack
<1>11. ASSUME NEW p \in Name, NEW s \in Save, Set!Play(p, s) PROVE SetTypeOK'
  <2>1. setMade + 1 \in Rom!Version /\ setMade' \in 0 .. MaxVersion
    BY <1>11, RenameAssumption DEF Set!Play, Rom!Version
  <2>2. setSave' \in Saves
    BY <1>11, <2>1 DEF Set!Play, Saves
  <2>. QED
    BY <1>11, <2>1, <2>2 DEF Set!Play
<1>12. CASE UNCHANGED Set!vars
  BY <1>12 DEF Set!vars
<1>. QED
  BY <1>1, <1>2, <1>3, <1>4, <1>5, <1>6, <1>7, <1>8, <1>9, <1>10, <1>11, <1>12
     DEF Set!Next, Set!CallStep

\* A piece of the set is no save of it.
LEMMA PiecesAreNoSaves == \A x \in Piece : x \notin Save
BY RenameAssumption

LEMMA PieceMoves ==
    ASSUME SetInv, SetTypeOK', NEW t \in Piece, Set!MoveTrack(t)
    PROVE  SheetInPlace' /\ SetProgress'
<1>. USE DEF SetInv
<1>1. /\ setPhase = "tracks" /\ setPhase' = "tracks" /\ t \in setTodo
      /\ tracks' = [tracks EXCEPT ![t] = setTo] /\ setTodo' = setTodo \ {t}
      /\ setMoved' = setMoved \cup {t}
      /\ UNCHANGED <<cue, setSave, setFrom, setTo, savesTodo, setBroken, setBefore>>
  BY DEF Set!MoveTrack, Set!Record
<1>2. /\ SheetInPlace' /\ Forward /\ Forward' /\ ~setBroken /\ t \notin Save
      /\ setBefore.tracks[t] = setFrom /\ tracks \in [Piece -> Name]
  BY <1>1, PiecesAreNoSaves DEF SheetInPlace, Forward, SetProgress, SetTypeOK
<1>3. \A u \in Piece : PieceTracked(u)'
  BY <1>1, <1>2 DEF SetProgress, PieceTracked
<1>4. \A s \in Save : SaveTracked(s)'
  BY <1>1, <1>2 DEF SetProgress, SaveTracked
<1>5. savesTodo' \cap setMoved' = {}
  BY <1>1, <1>2 DEF SetProgress, SetTypeOK
<1>. QED
  BY <1>1, <1>2, <1>3, <1>4, <1>5 DEF SetProgress

LEMMA SetSaveMoves ==
    ASSUME SetInv, SetTypeOK', NEW s \in Save, Set!MoveSave(s)
    PROVE  SheetInPlace' /\ SetProgress'
<1>. USE DEF SetInv
<1>1. /\ setPhase = "saves" /\ setPhase' = "saves" /\ s \in savesTodo
      /\ setSave' = Moved(setSave, setFrom, setTo, s)
      /\ savesTodo' = savesTodo \ {s} /\ setMoved' = setMoved \cup {s}
      /\ UNCHANGED <<cue, tracks, setFrom, setTo, setTodo, setBroken, setBefore>>
  BY DEF Set!MoveSave, Set!Record, Moved
<1>2. /\ SheetInPlace' /\ Forward /\ Forward' /\ ~setBroken /\ s \notin Piece
      /\ s \notin setMoved /\ setTodo = {} /\ setSave \in Saves
      /\ setFrom \in Name /\ setTo \in Name /\ setFrom # setTo
  BY <1>1, PiecesAreNoSaves DEF SheetInPlace, Forward, SetProgress, SetTypeOK
<1>3. \A u \in Piece : PieceTracked(u)'
  BY <1>1, <1>2 DEF SetProgress, PieceTracked
<1>4. \A t \in Save : SaveTracked(t)'
  <2>1. /\ setSave'[setTo][s] = setSave[setFrom][s] /\ setSave'[setFrom][s] = None
        /\ \A n \in Name, t \in Save : t # s => setSave'[n][t] = setSave[n][t]
    BY <1>1, <1>2, FileMoved
  <2>2. \A t \in Save : SaveTracked(t)
    BY <1>1, <1>2 DEF SetProgress
  <2>. QED
    BY <1>1, <1>2, <2>1, <2>2 DEF SaveTracked
<1>5. savesTodo' \cap setMoved' = {}
  BY <1>1, <1>2 DEF SetProgress
<1>. QED
  BY <1>1, <1>2, <1>3, <1>4, <1>5 DEF SetProgress

LEMMA OneMovesBack ==
    ASSUME SetInv, SetTypeOK', NEW x \in Piece \cup Save, Set!RollBack(x)
    PROVE  SheetInPlace' /\ SetProgress'
<1>. USE DEF SetInv
<1>1. /\ setPhase = "rollback" /\ setPhase' = "rollback" /\ x \in setMoved
      /\ setMoved' = setMoved \ {x} /\ UNCHANGED <<cue, setFrom, setTo, setBefore>>
  BY DEF Set!RollBack
<1>2. SheetInPlace' /\ ~Forward'
  BY <1>1 DEF SheetInPlace, Forward
<1>3. ASSUME ~setBroken'
      PROVE  (\A u \in Piece : PieceTracked(u)') /\ (\A s \in Save : SaveTracked(s)')
  <2>1. /\ ~setBroken
        /\ tracks' = IF x \notin Piece THEN tracks ELSE [tracks EXCEPT ![x] = setFrom]
        /\ setSave' = IF x \notin Save THEN setSave ELSE Moved(setSave, setTo, setFrom, x)
    BY <1>3 DEF Set!RollBack, Moved
  <2>2. /\ setFrom \in Name /\ setTo \in Name /\ setFrom # setTo
        /\ tracks \in [Piece -> Name] /\ setSave \in Saves
    BY <1>1 DEF SetTypeOK
  <2>3. /\ \A u \in Piece : PieceTracked(u)
        /\ \A s \in Save : SaveTracked(s)
    BY <1>1, <2>1 DEF SetProgress
  <2>4. CASE x \in Piece
    <3>1. x \notin Save
      BY <2>4, PiecesAreNoSaves
    <3>. QED
      BY <1>1, <2>1, <2>2, <2>3, <2>4, <3>1 DEF PieceTracked, SaveTracked
  <2>5. CASE x \in Save
    <3>1. x \notin Piece
      BY <2>5, PiecesAreNoSaves
    <3>2. setSave' = Moved(setSave, setTo, setFrom, x)
      BY <2>1, <2>5
    <3>3. /\ setSave'[setFrom][x] = setSave[setTo][x]
          /\ \A n \in Name, t \in Save : t # x => setSave'[n][t] = setSave[n][t]
      BY <2>2, <2>5, <3>2, FileMoved
    <3>. QED
      BY <1>1, <2>1, <2>2, <2>3, <2>5, <3>1, <3>3 DEF PieceTracked, SaveTracked
  <2>. QED
    BY <2>4, <2>5
<1>. QED
  BY <1>1, <1>2, <1>3 DEF SetProgress, Forward

\* What the two answers that are no failure of a move back say of the files.
SetAnswered ==
    /\ setResult' = "moved" =>
         /\ cue' = setTo /\ setBefore.cue = setFrom
         /\ \A t \in Piece : setBefore.tracks[t] = setFrom => tracks'[t] = setTo
         /\ \A s \in Save : /\ setSave'[setFrom][s] = None
                            /\ setBefore.save[setFrom][s] # None
                               => setSave'[setTo][s] = setBefore.save[setFrom][s]
    /\ setResult' = "rolled_back" =>
         /\ cue' = setBefore.cue
         /\ \A t \in Piece : tracks'[t] = setBefore.tracks[t]
         /\ \A s \in Save : setSave'[setFrom][s] = setBefore.save[setFrom][s]

LEMMA SetAnswers ==
    ASSUME SetInv, Set!MoveCue \/ Set!RollBackDone \/ Set!Crash
    PROVE  SetAnswered
<1>. USE DEF SetInv
<1>1. CASE Set!MoveCue
  <2>1. /\ setPhase = "cue" /\ Forward /\ ~setBroken /\ setTodo = {} /\ savesTodo = {}
        /\ cue' = setTo /\ UNCHANGED <<tracks, setSave>> /\ setResult' = "moved"
    BY <1>1 DEF Set!MoveCue, Set!Answer, Forward, SetProgress
  <2>2. setBefore.cue = setFrom
    BY <2>1 DEF SheetInPlace
  <2>3. \A t \in Piece : setBefore.tracks[t] = setFrom => tracks'[t] = setTo
    BY <2>1 DEF SetProgress, PieceTracked
  <2>4. ASSUME NEW s \in Save
        PROVE  /\ setSave'[setFrom][s] = None
               /\ setBefore.save[setFrom][s] # None
                    => setSave'[setTo][s] = setBefore.save[setFrom][s]
    BY <2>1 DEF SetProgress, SaveTracked
  <2>. QED
    BY <2>1, <2>2, <2>3, <2>4 DEF SetAnswered
<1>2. CASE Set!RollBackDone
  <2>1. /\ setPhase = "rollback" /\ setMoved = {} /\ UNCHANGED <<cue, tracks, setSave>>
        /\ setResult' = IF setBroken THEN "incomplete" ELSE "rolled_back"
    BY <1>2 DEF Set!RollBackDone, Set!Answer, Set!disk
  <2>. QED
    BY <2>1 DEF SetAnswered, SetProgress, SheetInPlace, PieceTracked, SaveTracked
<1>3. CASE Set!Crash
  BY <1>3 DEF Set!Crash, Set!Answer, SetAnswered
<1>. QED
  BY <1>1, <1>2, <1>3

LEMMA SetStep == SetInv /\ [Set!Next]_(Set!vars) => SetInv'
<1>. SUFFICES ASSUME SetInv, [Set!Next]_(Set!vars) PROVE SetInv'
  OBVIOUS
<1>1. SetTypeOK'
  BY SetTypeStep DEF SetInv
<1>2. SetTypeOK /\ SheetInPlace /\ SetProgress /\ Set!SetIsWhole
  BY DEF SetInv
<1>. DEFINE Goal == SheetInPlace' /\ SetProgress' /\ Set!SetIsWhole'
<1>3. ASSUME NEW p \in Name, Set!Start(p) PROVE Goal
  <2>1. /\ setPhase' = "tracks" /\ setFrom' = cue /\ cue' = cue /\ setBefore' = Set!Now
        /\ setTodo' = {t \in Piece : tracks[t] = cue}
        /\ savesTodo' = {s \in Save : setSave[cue][s] # None}
        /\ setMoved' = {} /\ ~setBroken' /\ UNCHANGED <<tracks, setSave>>
    BY <1>3 DEF Set!Start, Set!TracksOf, Set!disk
  <2>2. /\ setBefore'.cue = cue /\ setBefore'.tracks = tracks /\ setBefore'.save = setSave
    BY <2>1 DEF Set!Now
  <2>3. (\A t \in Piece : PieceTracked(t)') /\ (\A s \in Save : SaveTracked(s)')
    BY <2>1, <2>2 DEF PieceTracked, SaveTracked
  <2>. QED
    BY <2>1, <2>2, <2>3 DEF SheetInPlace, SetProgress, Forward, Set!SetIsWhole
<1>4. ASSUME NEW t \in Piece, Set!MoveTrack(t) PROVE Goal
  BY <1>1, <1>4, PieceMoves DEF Set!MoveTrack, Set!SetIsWhole
<1>5. ASSUME NEW s \in Save, Set!MoveSave(s) PROVE Goal
  BY <1>1, <1>5, SetSaveMoves DEF Set!MoveSave, Set!SetIsWhole
<1>6. ASSUME NEW x \in Piece \cup Save, Set!RollBack(x) PROVE Goal
  BY <1>1, <1>6, OneMovesBack DEF Set!RollBack, Set!SetIsWhole
<1>7. ASSUME Set!TracksMoved \/ Set!SavesMoved \/ Set!MoveFails PROVE Goal
  <2>1. /\ Forward /\ setPhase' \in {"saves", "cue", "rollback"}
        /\ setPhase' = "saves" => setPhase = "tracks" /\ setTodo = {}
        /\ setPhase' = "cue" => setPhase = "saves" /\ savesTodo = {}
        /\ UNCHANGED <<cue, tracks, setSave, setFrom, setTo, setTodo, savesTodo, setMoved,
                       setBroken, setBefore>>
    BY <1>7 DEF Set!TracksMoved, Set!SavesMoved, Set!MoveFails, Set!disk, Forward
  <2>2. ~setBroken /\ setPhase # "idle"
    BY <1>2, <2>1 DEF SetProgress, Forward
  <2>3. (\A t \in Piece : PieceTracked(t)') /\ (\A s \in Save : SaveTracked(s)')
    BY <1>2, <2>1, <2>2 DEF SetProgress, PieceTracked, SaveTracked
  <2>4. SheetInPlace' /\ Set!SetIsWhole'
    BY <1>2, <2>1, <2>2 DEF SheetInPlace, Set!SetIsWhole
  <2>. QED
    BY <1>2, <2>1, <2>2, <2>3, <2>4 DEF SetProgress, Forward
<1>8. ASSUME Set!MoveCue \/ Set!RollBackDone \/ Set!Crash PROVE Goal
  <2>1. setPhase' = "idle" /\ setBefore' = setBefore
    BY <1>8 DEF Set!MoveCue, Set!RollBackDone, Set!Crash, Set!Answer
  <2>2. SetAnswered
    BY <1>8, SetAnswers DEF SetInv
  <2>3. Set!SetIsWhole'
    BY <2>1, <2>2 DEF SetAnswered, Set!SetIsWhole
  <2>. QED
    BY <1>8, <2>1, <2>3 DEF SheetInPlace, SetProgress, Forward, Set!MoveCue,
       Set!RollBackDone, Set!Crash, Set!Answer
<1>9. ASSUME NEW p \in Name, NEW s \in Save, Set!Play(p, s) PROVE Goal
  BY <1>2, <1>9 DEF Set!Play, Set!call, SheetInPlace, SetProgress, Forward, Set!SetIsWhole
<1>10. ASSUME UNCHANGED Set!vars PROVE Goal
  BY <1>2, <1>10 DEF Set!vars, Set!disk, Set!call, SheetInPlace, SetProgress, Forward,
     PieceTracked, SaveTracked, Set!SetIsWhole
<1>11. Goal
  BY <1>3, <1>4, <1>5, <1>6, <1>7, <1>8, <1>9, <1>10 DEF Set!Next, Set!CallStep
<1>. QED
  BY <1>1, <1>11 DEF SetInv

\* For any places, tracks, saves and faults: after a move or a rollback in which nothing
\* failed to move back, the sheet and the tracks are in one folder (file_renamer.py
\* 416-461).
THEOREM SetStaysWhole == Set!Spec => []Set!SetIsWhole
<1>1. SetInv => Set!SetIsWhole
  BY DEF SetInv
<1>. QED
  BY <1>1, SetInitial, SetStep, PTL DEF Set!Spec

\* For any places, tracks, saves and faults, what move_disc_set_to_subfolder answers is
\* true (file_renamer.py 392-461).
THEOREM SetAnswersTruly == Set!Spec => Set!AnswerIsTrue
<1>. DEFINE Truth ==
       setPhase # "idle" /\ setPhase' = "idle" =>
         /\ setResult' = "moved" =>
               \A s \in Save : /\ setSave'[setFrom][s] = None
                               /\ setBefore.save[setFrom][s] # None
                                  => setSave'[setTo][s] = setBefore.save[setFrom][s]
         /\ setResult' = "rolled_back" =>
               cue' = setBefore.cue /\ tracks' = setBefore.tracks
               /\ setSave'[setFrom] = setBefore.save[setFrom]
<1>1. SetInv /\ [Set!Next]_(Set!vars) => Truth
  <2>. SUFFICES ASSUME SetInv, [Set!Next]_(Set!vars), setPhase # "idle", setPhase' = "idle"
                PROVE  Truth
    OBVIOUS
  <2>1. Set!MoveCue \/ Set!RollBackDone \/ Set!Crash
    BY DEF Set!Next, Set!CallStep, Set!Start, Set!MoveTrack, Set!TracksMoved, Set!MoveSave,
       Set!SavesMoved, Set!MoveFails, Set!RollBack, Set!Play, Set!call, Set!vars
  <2>2. SetAnswered
    BY <2>1, SetAnswers
  <2>3. /\ setFrom \in Name
        /\ setBefore.tracks \in [Piece -> Name] /\ tracks' \in [Piece -> Name]
        /\ setBefore.save \in Saves /\ setSave' \in Saves
    BY SetTypeStep DEF SetInv, SetTypeOK
  <2>4. /\ setBefore.save[setFrom] \in [Save -> Rom!Version \cup {None}]
        /\ setSave'[setFrom] \in [Save -> Rom!Version \cup {None}]
    BY <2>3 DEF Saves
  <2>. QED
    BY <2>2, <2>3, <2>4 DEF SetAnswered
<1>2. Set!Spec => [][Truth]_(Set!vars)
  BY <1>1, SetInitial, SetStep, PTL DEF Set!Spec
<1>. QED
  BY <1>2 DEF Set!AnswerIsTrue
-----------------------------------------------------------------------------
(* The specification that TLC checks *)

\* Each of its three parts takes a step of its own or is left alone, so what is proved
\* of the jobs in RenameApplyProofs holds of it as well.
LEMMA SuiteRefines == SuiteSpec => Spec /\ Rom!Spec /\ Set!Spec
<1>1. SuiteInit => Init /\ Rom!Init /\ Set!Init
  BY DEF SuiteInit
<1>2. [SuiteNext]_suiteVars => [Next]_vars
  BY DEF SuiteNext, Only, suiteVars
<1>3. [SuiteNext]_suiteVars => [Rom!Next]_(Rom!vars)
  BY DEF SuiteNext, Only, suiteVars, romVars, Rom!vars, Rom!disk, Rom!call, Rom!players
<1>4. [SuiteNext]_suiteVars => [Set!Next]_(Set!vars)
  BY DEF SuiteNext, Only, suiteVars, setVars, Set!vars, Set!disk, Set!call
<1>. QED
  BY <1>1, <1>2, <1>3, <1>4, PTL DEF SuiteSpec, Spec, Rom!Spec, Set!Spec

\* For any names, saves and faults, every version of a save is in a save file or a
\* .bak, but those their players replaced (file_renamer.py 282-314).
THEOREM SavesAreKept == SuiteSpec => []NoSaveLost
<1>1. Rom!NoSaveLost => NoSaveLost
  BY DEF NoSaveLost
<1>. QED
  BY <1>1, RenameLosesNothing, SuiteRefines, PTL

\* A disc loads, for any names, tracks, saves and faults but a sheet that cannot be
\* rewritten: its sheet names the track, and a set is in one folder (file_renamer.py
\* 273-280, 322-327, 416-461).
THEOREM DiscsStayWhole == ASSUME "sheet" \notin FileFaults PROVE SuiteSpec => []DiscsAreWhole
<1>1. Rom!Spec => []Rom!SheetIsRight
  BY SheetStaysRight
<1>2. Rom!SheetIsRight /\ Set!SetIsWhole => DiscsAreWhole
  BY DEF DiscsAreWhole
<1>. QED
  BY <1>1, <1>2, SuiteRefines, SetStaysWhole, PTL

\* Both calls answer the truth, for any names, tracks, saves and faults (file_renamer.py
\* 282-341, 392-461).
THEOREM AnswersStayTrue == SuiteSpec => AnswersAreTrue
BY SuiteRefines, RenameAnswersTruly, SetAnswersTruly, PTL DEF AnswersAreTrue
=============================================================================

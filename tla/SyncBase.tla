------------------------------ MODULE SyncBase ------------------------------
(***************************************************************************)
(* What the save synchronisers of the PC and of the Android app share: the *)
(* clock, the cloud folder and the history of what players wrote.          *)
(*                                                                         *)
(* A save file is its content and its modification time.  A content is the *)
(* number of the game session that wrote it, or Blank (0 bytes), or Torn   *)
(* (the prefix an interrupted download leaves).  rclone copyto and the     *)
(* Dropbox client both store the modification time of the source with the  *)
(* copy, so a transfer moves the whole record.                             *)
(*                                                                         *)
(* superseded is an observation: the contents a player replaced by playing *)
(* on from them.  Losing one of those is what the player asked for.        *)
(***************************************************************************)
EXTENDS ConflictResolver

CONSTANTS
    File,         \* relative paths of save files
    Blank, Torn,  \* the two damaged contents
    MaxTime,      \* bound on the clock
    MaxVersion    \* bound on the number of sessions that write a save

ASSUME BoundsAssumption == MaxTime \in Nat /\ MaxVersion \in Nat
ASSUME DamagedAssumption == {Blank, Torn, None} \cap Nat = {} /\ Blank # None /\ Torn # None

VARIABLES
    now,        \* the wall clock, in seconds or coarser
    remote,     \* the cloud folder: a save or None, per file
    made,       \* how many sessions have written a save
    superseded  \* contents replaced by their own players

baseVars == <<now, remote, made, superseded>>

Version == 1 .. MaxVersion
Content == Version \cup {Blank, Torn}
Save == [content : Content, mtime : 0 .. MaxTime]
Folder == [File -> Save \cup {None}]

\* "No such file" is not a file.
ASSUME NoFileAssumption == None \notin Save

\* What a listing tells of a file: its modification time and whether it is empty.
Seen(s) == IF s = None THEN [mtime |-> None, empty |-> FALSE]
           ELSE [mtime |-> s.mtime, empty |-> s.content = Blank]
NotSeen == [mtime |-> None, empty |-> FALSE]
Entry == [mtime : 0 .. MaxTime \cup {None}, empty : BOOLEAN]

ContentOf(s) == IF s = None THEN {} ELSE {s.content}

BaseTypeOK ==
    /\ now \in 0 .. MaxTime
    /\ remote \in Folder
    /\ made \in 0 .. MaxVersion
    /\ superseded \subseteq Content

BaseInit ==
    /\ now = 0
    /\ remote = [f \in File |-> None]
    /\ made = 0
    /\ superseded = {}

\* Time passes.
Tick ==
    /\ now < MaxTime
    /\ now' = now + 1
    /\ UNCHANGED <<remote, made, superseded>>
=============================================================================

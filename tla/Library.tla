------------------------------- MODULE Library -------------------------------
(***************************************************************************)
(* The library as the handlers of the server and the commands of the       *)
(* console see it: the files of LibraryStore, what a name and a content    *)
(* tell, and the threads that work on them.  A request or a command reads  *)
(* what it needs when it starts and then works through a list of chores,   *)
(* one file at a time; ThreadingHTTPServer runs each one in a thread of    *)
(* its own, and a command of the console in a process of its own.          *)
(***************************************************************************)
EXTENDS LibraryStore, SequencesExt

CONSTANTS
    Tags,       \* of a stem: title, region, disc, revision, kind, place in the alphabet
    Facts,      \* of a content: the disc it holds, its RetroAchievements, its data files
    Folder,     \* the platform of each folder
    ByExtension, \* PLATFORM_BY_EXTENSION: the extensions of one platform
    Threads,    \* the requests and commands that may run at a time
    Stories,    \* what the library is at first, and what is done with it
    MaxStarts   \* bound on the requests and commands of a run

VARIABLES
    tale,       \* what the story of this run tells: what is done, what may fail
    todo,       \* the chores left to each thread
    starts      \* requests so far

work == <<tale, todo, starts>>

Does(what) == what \in tale.does
Fault(what) == what \in tale.faults

Idle == \A t \in Threads : todo[t] = <<>>
Now(t) == Head(todo[t])
Doing(t, chore) == todo[t] # <<>> /\ Now(t).do = chore
Later(t) == Tail(todo[t])
Then(t, chores) == todo' = [todo EXCEPT ![t] = chores] /\ UNCHANGED <<tale, starts>>
Start(t, chores) ==
    /\ todo[t] = <<>> /\ starts < MaxStarts
    /\ starts' = starts + 1
    /\ todo' = [todo EXCEPT ![t] = chores] /\ UNCHANGED tale

\* A chore for each of some files, in some order.
Each(S, chore(_)) == LET s == SetToSeq(S) IN [i \in DOMAIN s |-> chore(s[i])]

\* The server is stopped: what the requests had left is forgotten.
Stop ==
    /\ Fault("stop") /\ ~Idle
    /\ todo' = [t \in Threads |-> <<>>]
    /\ UNCHANGED <<store, tale, starts>>
-----------------------------------------------------------------------------
(* Files that belong together *)

SaveExts == {"srm"}
DataExts == {"bin", "img", "sub"}

FactsAt(p) == Facts[disk[p]]
\* detect_platform: the extension, or the folder when many platforms share it.
TruePlatform(p) == IF p.ext \in DOMAIN ByExtension THEN ByExtension[p.ext] ELSE Folder[p.dir]

\* parse_bins_from_cue, the FILE lines of a sheet; the .img and .sub of a .ccd share its stem.
DataOf(p) ==
    CASE p.ext \in {"cue", "gdi"} -> {At(p.dir, d.stem, d.ext) : d \in FactsAt(p).data}
      [] p.ext = "ccd" -> {At(p.dir, p.stem, x) : x \in {"img", "sub"}}
      [] OTHER -> {}

\* What is read of the file itself, when it is there: the hash RetroAchievements gives to
\* its disc, the rawsha1 of a .chd, the product code of a cartridge.
Fact(p, field) == IF On(p) THEN FactsAt(p)[field] ELSE None
\* The file that holds the disc: the first of its data, for a sheet.
Carrier(p) == IF On(p) /\ DataOf(p) # {} THEN CHOOSE d \in DataOf(p) : TRUE ELSE p

Sheets == {p \in DOMAIN disk : p.ext \in {"cue", "gdi", "ccd"}}

\* What an emulator can start: a file of its own, or a sheet whose data are all there.
Plays(p) ==
    /\ p.ext \notin SaveExts \cup DataExts \cup {"m3u"}
    /\ \A d \in DataOf(p) : On(d) /\ disk[d] \in {x.content : x \in FactsAt(p).data}

Playable == {FactsAt(p).game : p \in {q \in DOMAIN disk : Plays(q)}} \ {None}

\* The saves of a ROM that go with its name.
SavesAt(p) == {s \in DOMAIN disk : s.ext \in SaveExts /\ s.dir = p.dir /\ s.stem = p.stem}
=============================================================================

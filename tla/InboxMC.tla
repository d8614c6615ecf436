------------------------------- MODULE InboxMC -------------------------------
(***************************************************************************)
(* An Inbox for TLC.  A is the game t of the catalogue, C and B are other  *)
(* dumps of its name; s is a save of a; z and v are archives with A, arc   *)
(* an arcade set, col a collection with z in it; k is a BIOS, m a Mega     *)
(* Drive ROM, p and q the chips of the machine mac, q that of its clone    *)
(* min, and r another chip.                                                *)
(***************************************************************************)
EXTENDS InboxPipeline

One(stem, ext, c) == [stem |-> stem, ext |-> ext, content |-> c]
ArchiveTable == [z |-> {One("a", "rom", "A")}, v |-> {One("a", "rom", "A")},
                 arc |-> {One("x", "chip", "p")}, col |-> {One("z", "zip", "z")},
                 mac |-> {One("p", "chip", "p"), One("q", "chip", "q")},
                 min |-> {One("q", "chip", "q")}]
\* TLC evaluates the definition that replaces a constant at every use, and a constant
\* definition that it names but once.
Archives == ArchiveTable
TitleTable == [x \in {<<"A", "a">>, <<"A", "t">>} |-> One("t", "rom", "A") @@ [platform |-> "gb"]]
Titles == TitleTable
Platforms == [e \in {"rom", "md"} |-> IF e = "md" THEN "md" ELSE "gb"]
RATable == [c \in {"A", "B", "C", "S", "torn"} |-> CASE c = "A" -> 5 [] c = "C" -> 7 [] OTHER -> 0]
RA == RATable
Collections == [c \in {"col"} |-> "sub"]
MachineTable == {[stem |-> "mac", content |-> "mac", chips |-> {"p", "q"}],
                 [stem |-> "min", content |-> "min", chips |-> {"q"}]}
Machines == MachineTable

File(dir, stem, ext, c) == [at |-> At(dir, stem, ext), has |-> c]
Inbox(stem, ext, c) == File("inbox", stem, ext, c)
A == Inbox("a", "rom", "A")
T == Inbox("t", "rom", "C")
Z == Inbox("z", "zip", "z")

Conflicts == {A, T, Inbox("t", "rom", "B")}
Extractions == {Z, Inbox("a", "sav", "S"), Inbox("a", "rom", "B")}
SevenZips == {Inbox("v", "7z", "v"), Z, T}
Parts == {Inbox("p", "chip", "p"), Inbox("q", "chip", "q"), Inbox("q", "chip", "r")}
ArcadeZip == Inbox("arc", "zip", "arc")
Drives == {Inbox("m", "md", "m"), A}
Systems == {ArcadeZip, Inbox("n", "txt", "n")}
Bioses == {Inbox("k", "bin", "k"), File("sub", "k", "bin", "k"), File("inbox", "d", "zip", "A")}
Loose == {File("roms", "arc", "zip", "arc"), File("roms", "col", "zip", "col"), A}

Told(drops, users, faults) == [drops |-> drops, users |-> users, faults |-> faults]
AllStories == {Told(Conflicts, {"page"}, {"move", "db", "crash"}),
               Told(Extractions, {"manual"}, {"torn", "crash"}),
               Told(SevenZips, {"page"}, {"torn", "db"}),
               Told({A, T}, {"wizard"}, {"move"}), Told({Z}, {"wizard"}, {"torn", "crash"}),
               Told(Parts, {"manual"}, {"crash"}), Told(Drives, {"manual"}, {"move"}),
               Told(Systems, {"wizard"}, {}), Told(Bioses, {"manual"}, {"move"}),
               Told(Loose, {"router"}, {"move", "torn"})}
=============================================================================

------------------------------ MODULE LibraryMC ------------------------------
(***************************************************************************)
(* Libraries for TLC, and the stories of what is done with them.           *)
(***************************************************************************)
EXTENDS LibraryRequests

Name(base, region, disc, rev, kind, rank) ==
    [base |-> base, region |-> region, disc |-> disc, rev |-> rev, kind |-> kind, rank |-> rank]
NameTable ==
         [keu |-> Name("k", "eu", 0, 0, "final", 1), kus |-> Name("k", "us", 0, 0, "final", 2),
          kr1 |-> Name("k", "eu", 0, 1, "final", 3), kbeta |-> Name("k", "eu", 0, 0, "pre", 4),
          kcopy |-> Name("k", "eu", 0, 0, "copy", 5), khack |-> Name("k", "eu", 0, 0, "hack", 6),
          sf2 |-> Name("sf2", "none", 0, 0, "set", 13), xjp |-> Name("x", "jp", 0, 0, "final", 14),
          kn |-> Name("k", "jp", 0, 0, "final", 15),
          x |-> Name("x", "eu", 0, 0, "final", 7), xvc |-> Name("x", "eu", 0, 0, "alt", 8),
          z |-> Name("z", "eu", 0, 0, "final", 9), z1 |-> Name("z", "eu", 1, 0, "final", 10),
          xs |-> Name("xs", "eu", 0, 0, "final", 16), xss |-> Name("xss", "eu", 0, 0, "final", 17),
          t1 |-> Name("x", "eu", 0, 0, "track", 19), t2 |-> Name("x", "eu", 0, 0, "track", 18),
          kus1 |-> Name("kus", "us", 0, 0, "numbered", 20),
          z2 |-> Name("z", "eu", 2, 0, "final", 11), raw |-> Name("raw", "xx", 0, 0, "final", 12)]
\* TLC evaluates the definition that replaces a constant at every use: a table is named, and
\* evaluated, once.
Names == NameTable
Regions2 == <<"es", "eu">>
Discs2 == [t \in {<<"z", 1>>, <<"z", 2>>} |-> IF t[2] = 1 THEN "z1" ELSE "z2"]

Fact1(game, ra, hash, rawsha, header, data, good, size) ==
    [game |-> game, ra |-> ra, hash |-> hash, raw |-> rawsha, header |-> header,
     data |-> data, good |-> good, size |-> size]
Cart(game, ra, header, good, size) == Fact1(game, ra, None, None, header, {}, good, size)
Disc(game, ra, hash, rawsha, data) == Fact1(game, ra, hash, rawsha, None, data, FALSE, 1)
Data(stem, ext, c) == [stem |-> stem, ext |-> ext, content |-> c]
ContentTable ==
    [K1 |-> Cart("k", 5, "hk", TRUE, 1), K2 |-> Cart("k", 0, "hk2", FALSE, 1),
     K3 |-> Cart("k", -1, "hk", FALSE, 2), K4 |-> Cart("k", -1, None, FALSE, 1),
     kz |-> Cart("k", -1, None, FALSE, 1),
     XC |-> Disc("x", 3, None, None, {Data("x", "bin", "XB")}), XB |-> Disc(None, -1, "dx", None, {}),
     XD |-> Disc("x", 3, "dx", "rx", {}), XE |-> Disc("x", 3, "dx", "rx", {}),
     Z1 |-> Disc("z1", 2, "dz1", "rz1", {}), Z2 |-> Disc("z2", 2, "dz2", "rz2", {}),
     dx |-> Disc("x", 3, None, None, {}), dz1 |-> Disc("z1", 2, None, None, {}), dz2 |-> Disc("z2", 2, None, None, {}),
     XM |-> Disc("x", 3, "dx", "rx", {}), YM |-> Disc("y", -1, "dy", "ry", {}),
     ZC |-> Disc("z1", 2, None, None, {Data("z1", "bin", "ZB")}), ZM |-> Disc("z1", 2, None, None, {}), ZB |-> Disc(None, -1, None, None, {}),
     T |-> Disc(None, -1, None, None, {}), torn |-> Disc(None, -1, None, None, {}),
     QC |-> Disc("q", 0, None, None, {Data("x", "bin", "QB")}), QB |-> Disc(None, 0, "dq", None, {}),
     QM |-> Disc(None, 0, "bad", None, {}),
     P |-> Disc("p", -1, None, None, {}), PI |-> Disc("p", -1, None, None, {}),
     L |-> Disc(None, -1, None, None, {Data("z1", "chd", "Z1"), Data("z2", "chd", "Z2")}),
     TA |-> Disc(None, -1, None, None, {}),
     XT |-> Disc("x", 3, None, None, {Data("t1", "bin", "TA"), Data("t2", "bin", "T")}),
     S |-> Cart(None, -1, None, FALSE, 1), S2 |-> Cart(None, -1, None, FALSE, 1)]
Contents == ContentTable
Members == [c \in {"kz", "XM", "ZM", "PI"} |->
               CASE c = "kz" -> {Data("keu", "gba", "K1")}
                 [] c = "XM" -> {Data("x", "cue", "XC"), Data("x", "bin", "XB")}
                 [] c = "PI" -> {Data("x", "cso", "P")}
                 [] OTHER -> {Data("z1", "cue", "ZC"), Data("z1", "bin", "ZB")}]
Products == [XC |-> "XM", XB |-> "XM", ZC |-> "ZM", P |-> "PI", QC |-> "QM", QB |-> "QM"]
Sheets1 == [XB |-> "XC"]
StagedStems == [s \in DOMAIN Names |-> IF s = "x" THEN "xs" ELSE "xss"]
Lists == [d \in SUBSET ({"z1", "z2"} \X {"cue", "chd", "bin"}) |-> "L"]
Tracks == [t1 |-> 1, t2 |-> 2]
Sheets2 == [x |-> "XT"]
Loose2 == {"sub", "huerfanos", "saves", "saves_gba", "saves_psx", "states_gba", "bios"}
Homes == [d \in {"gba", "psx", "x", "z", "device", "arcade", "advance"} \cup Loose2 |->
             CASE d = "arcade" -> d [] d \in {"gba", "device", "advance"} -> "gba" [] d \in Loose2 -> None
               [] OTHER -> "psx"]
HomesOf == [gba |-> "gba", psx |-> "psx"]
Shelves == [srm |-> [d \in DOMAIN Homes |-> IF Homes[d] = "gba" THEN "saves_gba" ELSE "saves_psx"],
            state |-> [d \in DOMAIN Homes |-> "states_gba"]]
Aliases == [advance |-> "gba"]

File(dir, stem, ext, c, title, platform) ==
    [at |-> At(dir, stem, ext), has |-> c, title |-> title, platform |-> platform]
Gba(dir, stem, c, title) == File(dir, stem, "gba", c, title, "gba")
Save(dir, stem, c) == File(dir, stem, "srm", c, None, None)
Psx(dir, stem, ext, c, title) == File(dir, stem, ext, c, title, "psx")

Told(files, does, faults) ==
    [files |-> files, does |-> does, faults |-> faults,
     known |-> <<>>, dats |-> <<>>, sent |-> <<>>, edits |-> {}]
Regions == {Gba("gba", "keu", "K1", "keu"), Gba("gba", "kus", "K2", "kus"),
            Gba("sub", "kcopy", "K1", "keu"), Save("sub", "kcopy", "S")}
Sets == {Psx("x", "x", "cue", "XC", "x"), Psx("x", "x", "bin", "XB", "x"), Psx("psx", "x", "chd", "XD", "x"),
         Psx("psx", "xvc", "chd", "XE", None)}
TwoDiscs == {Psx("z", "z1", "chd", "Z1", "z"), Psx("z", "z2", "chd", "Z2", "z"), Psx("psx", "z1", "chd", "Z1", "z")}
Discs3 == {Psx("z", "z1", "chd", "Z1", "z"), Psx("z", "z2", "chd", "Z2", "z"), Psx("psx", "z", "chd", "Z1", "z")}
Plan == {Gba("gba", "khack", "K3", "keu"), Gba("gba", "raw", "K1", "keu"), Gba("gba", "keu", "K2", None),
         Save("gba", "raw", "S"), Save("gba", "keu", "S2")}
Race == {Gba("gba", "raw", "K1", "keu"), Gba("gba", "kcopy", "K2", "keu"), Save("gba", "raw", "S")}
Copies == {Gba("gba", "keu", "K1", "keu"), Gba("gba", "kcopy", "K1", "keu"), Save("gba", "kcopy", "S"),
           File("gba", "kcopy", "zip", "kz", "keu", "gba"), File("gba", "kus", "zip", "kz", "kus", "gba"), Save("gba", "kus", "S2")}
Variants == {Gba("gba", "keu", "K1", "keu"), Gba("gba", "kr1", "K2", "kr1"), Gba("gba", "kbeta", "K3", "kbeta"),
             Gba("gba", "kus", "K4", "kus"), Save("gba", "kus", "S")}
Device == {Gba("device", "keu", "K1", "keu"), Gba("device", "kcopy", "K1", "keu")}
Plain == {Gba("gba", "keu", "K1", "keu"), Gba("gba", "kcopy", "K1", "keu"), Gba("gba", "khack", "K3", "keu")}
All == {"move", "db", "stop", "vanish"}
DupStories ==
    {Told(Regions, {"review", "applyAll"}, All), Told(Sets, {"review", "applyAll"}, All),
     Told(TwoDiscs, {"review", "applyAll"}, All), Told(Discs3, {"review", "applyAll"}, All),
     Told(Plain, {"review", "choose", "applyAll"}, All), Told(Sets, {"review", "choose"}, All \ {"vanish"}),
     Told(Regions, {"review", "choose", "byContent"}, All \ {"vanish"}),
     Told(Plan, {"applyAll", "conflicts", "review", "byContent"}, All),
     Told(Race, {"conflicts", "review", "byContent"}, All),
     Told(Race \cup {Gba("gba", "keu", "K3", "keu")}, {"conflicts", "delete"}, {"vanish", "move"}),
     Told(Copies, {"byContent"}, All), Told(Copies, {"byContent", "review"}, All \ {"stop"}),
     Told(Variants, {"byVariant"}, All),
     Told(Device, {"byContent", "review", "adb"}, {"move", "db"}),
     Told(Plain, {"deleteAll", "exclude", "review"}, All \ {"vanish"}),
     Told(Plain, {"delete", "noSupport"}, All)}

Entry(sha, title, dir, platform, serial, rank) ==
    [sha |-> sha, title |-> title, dir |-> dir, platform |-> platform, serial |-> serial, rank |-> rank]
Listings ==
    {Entry("K1", "keu", "nointro", "gba", None, 1), Entry("K2", "kus", "nointro", "gba", None, 2),
     Entry("K9", "kn", "nointro", "nes", None, 3), Entry("X1", "x", "redump", "psx", "s1", 4),
     Entry("X2", "xjp", "redump", "psx", "s2", 5), Entry("Y1", "z1", "redump", "psx", None, 6),
     Entry("Y2", "z2", "redump", "psx", None, 7), Entry(None, "sf2", "arcade", None, None, 8)}
E(title) == CHOOSE e \in Listings : e.title = title
Gba1 == [gba |-> "gba"]
Boots == [c \in DOMAIN Contents \cup {"S"} |-> IF c = "XD" THEN "s1" ELSE IF c = "XE" THEN "s2" ELSE None]

Seen1(p, sha, md5, at, marked) ==
    p :> [sha |-> sha, md5 |-> md5, stamp |-> at, title |-> None, sure |-> None, marked |-> marked,
         aged |-> FALSE]
Aged1(p, sha, marked) == p :> [Seen1(p, sha, None, 1, marked)[p] EXCEPT !.aged = TRUE]
Change(dir, stem, ext, c) == [at |-> At(dir, stem, ext), has |-> c]
Keu == At("gba", "keu", "gba")
Kcopy == At("gba", "kcopy", "gba")
File2(p, c) == [at |-> p, has |-> c, title |-> None, platform |-> None]
TwoRoms == {File2(Keu, "K1"), File2(Kcopy, "K2")}
ScanStories ==
    {[Told(TwoRoms \cup {Save("gba", "keu", "S")}, {"full"}, {"read", "erase", "crash"}) EXCEPT
        !.known = Seen1(Keu, "K1", None, 1, TRUE) @@ Seen1(Kcopy, None, None, 1, TRUE),
        !.edits = {Change("gba", "keu", "gba", "K3"), Change("gba", "kus", "gba", "K4")}],
     [Told(TwoRoms, {"full", "quick"}, {"read", "erase", "cancel"}) EXCEPT
        !.known = Seen1(Keu, "K1", None, 1, TRUE) @@ Aged1(Kcopy, "K4", TRUE),
        !.edits = {Change("gba", "keu", "gba", "K3"), Change("gba", "kus", "gba", "K4")}],
     [Told(TwoRoms, {"full", "match"}, {"locked", "cancel", "erase", "crash"}) EXCEPT
        !.known = Seen1(Keu, "K1", None, 1, TRUE) @@ Seen1(Kcopy, "K4", None, 0, TRUE),
        !.dats = [nes |-> [list |-> {E("keu"), E("kn")}, fresh |-> FALSE]],
        !.edits = {Change("gba", "kcopy", "gba", "K2")}],
     [Told(TwoRoms, {"adbscan"}, {"hash", "cancel", "crash", "erase"}) EXCEPT
        !.known = Seen1(Keu, "K1", "K1", 1, TRUE) @@ Seen1(Kcopy, "K2", None, 1, TRUE),
        !.edits = {Change("gba", "keu", "gba", "K3"), Change("gba", "kus", "gba", "K4")}],
     [Told({File2(Kcopy, "K4"), File2(At("gba", "khack", "gba"), "K3"), File2(At("psx", "xvc", "chd"), "XE"),
            File2(At("sub", "z1", "chd"), "Z1"), File2(At("sub", "sf2", "zip"), "kz"),
            File2(At("gba", "z1", "gba"), "K2")}, {"match"}, {"rename", "cancel"}) EXCEPT
        !.known = [p \in {Kcopy, At("gba", "khack", "gba"), At("psx", "xvc", "chd"), At("sub", "z1", "chd"),
                          At("sub", "sf2", "zip"), At("gba", "z1", "gba")} |->
                     Seen1(p, "none", None, 1, TRUE)[p]],
        !.dats = [all |-> [list |-> Listings \ {E("kus")}, fresh |-> FALSE]],
        !.edits = {Change("gba", "keu", "gba", "K4")}],
     [Told({File2(Kcopy, "K2")}, {"fetch", "import", "match"}, {"net", "bad", "week", "crash"}) EXCEPT
        !.known = Seen1(Kcopy, "K2", None, 1, TRUE),
        !.dats = [listxml |-> [list |-> {E("sf2")}, fresh |-> FALSE], nes |-> [list |-> {E("keu")}, fresh |-> FALSE]],
        !.sent = [nes |-> {E("keu"), E("kus")}, listxml |-> {E("sf2")}]]}

RawSet == {File2(At("psx", "x", "cue"), "XC"), File2(At("psx", "x", "bin"), "XB")}
Beside(c) == RawSet \cup {File2(At("psx", "x", "chd"), c)}
Unhashed == {File2(At("psx", "z1", "cue"), "ZC"), File2(At("psx", "z1", "bin"), "ZB")}
Loose1 == {File2(At("psx", "x", "bin"), "XB"), File2(At("psx", "t2", "bin"), "T")}
Packed == {File2(At("psx", "x", "cso"), "P"), File2(At("gba", "x", "v64"), "P"), File2(At("arcade", "x", "cso"), "P")}
Zipped == {File2(At("gba", "kus", "zip"), "kz"), File2(At("gba", "z1", "zip"), "kz")}
Tools == {"stop", "cancel", "chdman"}
ConvertStories ==
    {Told(RawSet \cup Unhashed, {"chd"}, Tools),
     Told(Loose1, {"chd", "cues"}, Tools), Told(Beside("XM"), {"chd", "clean", "cleanCueBin"}, Tools),
     Told(Beside("YM"), {"chd", "clean"}, {"stop"}), Told(Beside("torn"), {"chd", "clean"}, {"stop"}),
     Told({File2(At("psx", "x", "cue"), "XC")}, {"chd"}, Tools),
     Told({File2(At("psx", "x", "cue"), "QC"), File2(At("psx", "x", "bin"), "QB")}, {"chd"}, {}),
     Told(Packed, {"cso", "n64"}, Tools), Told(Zipped, {"extract"}, {"cancel", "write"}),
     Told(Zipped \cup {File2(At("gba", "keu", "gba"), "K2")}, {"extract", "cleanZips"}, {"write"}),
     Told({File2(At("psx", "z1", "cue"), "ZC"), File2(At("psx", "z1", "bin"), "ZB"), File2(At("psx", "z2", "chd"), "Z2")}, {"m3u", "chd"}, {})}

Track1(dir) == File2(At(dir, "t1", "bin"), "TA")
Track2(dir) == File2(At(dir, "t2", "bin"), "T")
Sheet(dir) == File2(At(dir, "x", "cue"), "XT")
Doctor == {"prune", "repair"}
Halts == {"stop"}
DoctorStories ==
    {Told({Sheet("x"), Track1("x"), Track2("psx")}, Doctor, Halts),
      Told({Sheet("x"), Track1("psx"), Track2("z"), Track1("sub")}, Doctor, Halts),
      Told({Track1("psx"), Track2("x")}, Doctor, Halts),
      Told({File2(At("psx", "t1", "bin"), "T"), Track2("x")}, {"repair"}, {}),
      Told({Sheet("x"), Track1("x"), Track2("x"), Sheet("z"), Track1("z")}, Doctor, Halts),
      Told({Sheet("x"), Track1("x"), File2(At("psx", "x", "chd"), "XD"), File2(At("psx", "z1", "chd"), "torn"), Track2("z"),
            File2(At("psx", "z2", "chd"), "Z2"), File2(At("psx", "z", "m3u"), "L"), File2(At("sub", "x", "cue"), "XC")},
           {"prune"}, Halts),
      Told({Gba("sub", "keu", "K1", "keu"), Save("sub", "keu", "S"), Save("gba", "kus", "S2"), Save("sub", "kus", "S"),
            Gba("gba", "kcopy", "K1", "keu")}, {"saves", "moveRom", "junk"}, {})}

TidyStories ==
    {Told({Gba("sub", "keu", "K1", "keu"), Save("sub", "keu", "S"), Gba("gba", "kus", "K2", "kus"), Save("gba", "kus", "S2"),
           File2(At("gba", "raw", "bin"), "T")}, {"organize"}, {}),
     Told({Gba("sub", "keu", "K1", "keu"), Save("sub", "keu", "S"), Gba("gba", "keu", "K2", "keu"), Save("gba", "keu", "S2")},
          {"organize"}, {"vanish", "stop"}),
     Told({Psx("x", "x", "cue", "XC", "x"), Psx("x", "x", "bin", "XB", "x"), File("psx", "keu", "gba", "K1", "keu", "psx"),
           Save("saves", "keu", "S")}, {"organize", "fix"}, {}),
     Told({Gba("advance", "keu", "K1", "keu"), Save("advance", "keu", "S"), Gba("gba", "kus", "K2", "kus"),
           Gba("advance", "kus", "K3", "kus"), File2(At("advance", "kus", "state"), "T")}, {"migrate"}, {}),
     Told({Gba("psx", "keu", "K1", "keu"), Gba("psx", "kus", "K2", "kus"), Gba("gba", "kus", "K2", "kus"),
           Gba("psx", "kr1", "K3", "keu"), Gba("gba", "kr1", "K4", "keu")}, {"relocate"}, {}),
     Told({File("x", "keu", "gba", "K1", "keu", "psx"), File("x", "kus", "gba", "K2", "kus", "psx")}, {"organize", "relocate"}, {})}

AllStories == TidyStories \cup DupStories \cup ScanStories \cup ConvertStories \cup DoctorStories
Alike == Permutations(Threads)
=============================================================================

------------------------------- MODULE CableMC -------------------------------
(***************************************************************************)
(* A library and a console for TLC.                                        *)
(***************************************************************************)
EXTENDS Cable, TLC

Cut == -99

At(dir, stem, ext) == [dir |-> dir, stem |-> stem, ext |-> ext]
Dirs == {"gba", "advance", "saves/gba", "psx"}
Slugs == [d \in Dirs |-> IF d = "advance" THEN "gba" ELSE d]
Plain == [d \in Dirs |-> IF d = "saves/gba" THEN "gba" ELSE d]
Titles == [s \in {"x", "y", "z", "z1"} |-> IF s = "z1" THEN "z" ELSE s]
Is(v, t) == [v |-> v, t |-> t]

X == At("gba", "x", "srm")
XRom == At("gba", "x", "gba")
Y == At("gba", "y", "gba")
WrappedX == At("saves/gba", "x", "srm")
Chd == At("psx", "z", "chd")
Cue == At("psx", "z1", "cue")

Asked(way, via, what, skip, safe, mirror, games) ==
    [way |-> way, via |-> via, what |-> what, skip |-> skip, safe |-> safe, mirror |-> mirror,
     games |-> games, excluded |-> {}, dups |-> FALSE]
Newest(via) == Asked("newest", via, {"saves"}, FALSE, FALSE, FALSE, {})
Way(way, via, skip, mirror) == Asked(way, via, {"saves", "roms"}, skip, FALSE, mirror, {})

Told(library, console, asks, auto, watch, faults, skew, room) ==
    [pc |-> library, dev |-> console, asks |-> asks, auto |-> auto,
     autoAsk |-> Newest(IF auto = "card" THEN "card" ELSE "adb"), watch |-> watch,
     known |-> {-2}, faults |-> faults, skew |-> skew, room |-> room,
     playsPc |-> {X}, playsDev |-> {X, WrappedX}]

AliasY == At("advance", "y", "gba")
Both == X :> Is(-3, -9) @@ XRom :> Is(-1, -9)
OnlyX == X :> Is(-3, -9)
Far == WrappedX :> Is(-3, -10) @@ XRom :> Is(-1, -10)
Alias == Both @@ AliasY :> Is(-2, -9)
Discs == X :> Is(-3, -9) @@ Chd :> Is(-1, -9)
DiscsToo == X :> Is(-3, -10) @@ Cue :> Is(-1, -10) @@ Y :> Is(-1, -10)

AllStories ==
    {Told(OnlyX, <<>>, {Newest("adb")}, None, FALSE, {"cancel"}, s, 9) : s \in {-1, 0, 1, 20}}
    \cup {Told(OnlyX, OnlyX, {Newest("card")}, None, FALSE, {"cancel"}, s, 9) : s \in {-1, 0, 1}}
    \cup {Told(OnlyX, OnlyX, {Newest("adb")}, "adb", FALSE, {"transfer", "plug"}, 0, 9),
          Told(OnlyX, OnlyX, {}, "card", FALSE, {"transfer", "plug"}, 0, 9),
          Told(Alias, Far, {Way("up", "adb", TRUE, FALSE), Way("down", "adb", TRUE, TRUE)}, None, FALSE, {"transfer", "cancel"}, 0, 9),
          Told(Both, Far, {Way("up", "card", FALSE, FALSE), Way("down", "card", TRUE, TRUE)}, None, FALSE, {"transfer"}, 0, 9),
          Told(Discs, DiscsToo, {Way("up", "adb", FALSE, TRUE), Way("down", "adb", FALSE, TRUE)}, None, FALSE, {}, 0, 9),
          Told(Discs, DiscsToo, {[Way("up", "card", FALSE, TRUE) EXCEPT !.excluded = {"gba"}], Way("down", "card", FALSE, TRUE)}, None, FALSE, {}, 0, 9),
          Told(Both, Both, {Asked("remove", "adb", {"roms"}, FALSE, FALSE, FALSE, {XRom}),
                            Asked("send", "adb", {"roms"}, TRUE, FALSE, FALSE, {XRom, Y}),
                            Asked("up", "card", {"saves"}, FALSE, TRUE, FALSE, {})}, None, FALSE, {"transfer"}, 0, 9),
          Told(Both, Far @@ Y :> Is(-2, -9), {[Way("down", v, FALSE, FALSE) EXCEPT !.dups = TRUE] : v \in {"adb", "card"}}, None, FALSE, {"plug"}, 0, 9),
          Told(OnlyX, OnlyX, {Newest("adb"), Way("up", "adb", FALSE, FALSE)}, "adb", TRUE, {"probe"}, 0, 0)}
    \* A save at two places of the console.
    \cup {Told(OnlyX, WrappedX :> Is(-3, -10), {Newest("adb")}, None, FALSE, {}, 0, 9)}
    \* A cable pulled out of a mirror, and a folder with another name in one.
    \cup {Told(Both, Both, {Way("down", v, FALSE, TRUE)}, None, FALSE, {"plug"}, 0, 9) : v \in {"adb", "card"}}
    \cup {Told(Alias, Far, {Way("up", v, FALSE, TRUE)}, None, FALSE, {}, 0, 9) : v \in {"adb", "card"}}
=============================================================================

------------------------------- MODULE Organizer -------------------------------
(***************************************************************************)
(* Putting the library in order: organize-library, migrate-saves-structure *)
(* and fix-platforms of handlers/organize.py, which run in the thread of   *)
(* their request, and relocate-misplaced of the console.                   *)
(*                                                                         *)
(* organize-library moves files as it goes and writes their new paths in   *)
(* one transaction, which it commits after the last ROM.                   *)
(***************************************************************************)
EXTENDS Library

CONSTANTS
    HomeOf,     \* _ES_PLATFORM_FOLDERS: the folder of a platform
    Shelf,      \* of an extension and a folder: where the saves, states... of its games go
    Alias,      \* folder_aliases: a folder and the one it is merged into
    BiosStems   \* _known_bios_names

ASSUME OrganizerAssumption ==
    /\ DOMAIN Alias \cup Range(HomeOf) \subseteq DOMAIN Folder
    /\ \A x \in DOMAIN Shelf : DOMAIN Shelf[x] = DOMAIN Folder
    /\ SaveExts \subseteq DOMAIN Shelf

Errand(do, p, q, batch) == [do |-> do, at |-> p, to |-> q, batch |-> batch]

\* What waits for its turn: nothing there is replaced, and what has gone is passed over.
Tidy(t) ==
    /\ Doing(t, "tidy") /\ Then(t, Later(t))
    /\ IF On(Now(t).at) /\ ~On(Now(t).to)
       THEN disk' = Moved(Now(t).at, Now(t).to) /\ UNCHANGED <<trash, rows, purged>>
       ELSE UNCHANGED store
Tidying(target) == Each({p \in DOMAIN target : target[p] # p}, LAMBDA p : Errand("tidy", p, target[p], {}))
-----------------------------------------------------------------------------
(* POST /api/organize-library *)

Known1(platform) == platform \in DOMAIN HomeOf
HomeAt(p, platform) == At(HomeOf[platform], p.stem, p.ext)
SaveHome(s, platform) == At(Shelf[s.ext][HomeOf[platform]], s.stem, s.ext)

\* The transaction of a thread: the rows that it has moved, and the database with them.
InBatch(t) == todo[t] # <<>> /\ Now(t).do \in {"place", "shelve", "record"} /\ Now(t).batch # {}
Sees(batch) ==
    LET gone == {m[1] : m \in batch} IN
    [p \in (DOMAIN rows \ gone) \cup {m[2] : m \in {x \in batch : Has(x[1])}} |->
        IF p \in DOMAIN rows \ gone THEN rows[p] ELSE rows[(CHOOSE m \in batch : m[2] = p)[1]]]

OrganizeLibrary(t) ==
    LET known == {p \in DOMAIN rows : Known1(rows[p].platform)} IN
    /\ Does("organize") /\ known # {}
    /\ Start(t, Each(known, LAMBDA p : Errand("place", p, rows[p].platform, {}))
                \o <<Errand("record", None, None, {}),
                     Errand("flat", None, {<<p.stem, rows[p].platform>> : p \in known}, {}),
                     Errand("bios", None, None, {})>>)
    /\ UNCHANGED store

\* A row whose file is there.  The move comes before the UPDATE, which fails when another
\* request has the database for 30 seconds, or when the table knows the new path.
Place(t) ==
    LET p == Now(t).at
        q == HomeAt(p, Now(t).to)
        batch == Now(t).batch
        taken == q \in DOMAIN Sees(batch) \/ \E u \in Threads \ {t} : InBatch(u)
        shelve(b) == <<Errand("shelve", p, Now(t).to, b)>> \o [i \in DOMAIN Later(t) |-> [Later(t)[i] EXCEPT !.batch = b]]
    IN
    /\ Doing(t, "place")
    /\ IF ~On(p) THEN Then(t, Later(t)) /\ UNCHANGED store
       ELSE IF On(q) THEN Then(t, shelve(batch)) /\ UNCHANGED store
       ELSE /\ disk' = Moved(p, q) /\ UNCHANGED <<trash, rows, purged>>
            /\ Then(t, shelve(IF taken THEN batch ELSE batch \cup {<<p, q>>}))
\* Its saves leave the folder it was in, wherever it is now.
Shelve(t) ==
    LET p == Now(t).at
        free == {s \in SavesAt(p) : ~On(SaveHome(s, Now(t).to))}
    IN
    /\ Doing(t, "shelve") /\ Then(t, Later(t))
    /\ disk' = Over([q \in {SaveHome(s, Now(t).to) : s \in free} |->
                        disk[CHOOSE s \in free : SaveHome(s, Now(t).to) = q]], Without(disk, free))
    /\ UNCHANGED <<trash, rows, purged>>
Record(t) ==
    /\ Doing(t, "record")
    /\ rows' = Sees(Now(t).batch) /\ UNCHANGED <<disk, trash, purged>>
    /\ Then(t, [i \in DOMAIN Later(t) |-> [Later(t)[i] EXCEPT !.batch = {}]])

\* The saves loose in saves/, by the name of the first row that has it.
FlatSaves(t) ==
    LET flat == {s \in DOMAIN disk : s.dir = "saves" /\ s.ext \in SaveExts /\ \E r \in Now(t).to : r[1] = s.stem}
        of(s) == (CHOOSE r \in Now(t).to : r[1] = s.stem)[2] IN
    /\ Doing(t, "flat") /\ UNCHANGED store
    /\ Then(t, Tidying([s \in flat |-> SaveHome(s, of(s))]) \o Later(t))
\* What is named like a BIOS and is not in the table.
Bioses(t) ==
    /\ Doing(t, "bios") /\ UNCHANGED store
    /\ Then(t, Tidying([p \in {x \in DOMAIN disk : x.ext = "bin" /\ x.stem \in BiosStems /\ ~Has(x)} |->
                           [p EXCEPT !.dir = "bios"]]) \o Later(t))
-----------------------------------------------------------------------------
(* POST /api/migrate-saves-structure, and the commands *)

\* The saves, states and media of a folder, and all that is in one of another name; the
\* table is not told.
Merged(d) == IF d \in DOMAIN Alias THEN Alias[d] ELSE d
Migrated(p) == At(IF p.ext \in DOMAIN Shelf THEN Shelf[p.ext][Merged(p.dir)] ELSE Merged(p.dir), p.stem, p.ext)
MigrateSaves(t) ==
    /\ Does("migrate")
    /\ LET loose == {p \in DOMAIN disk : p.dir \notin {"saves", "bios"} \cup UNION {Range(Shelf[x]) : x \in DOMAIN Shelf}} IN
       Start(t, Tidying([p \in loose |-> Migrated(p)]))
    /\ UNCHANGED store

\* relocate-misplaced: the files whose extension is of another platform than their folder.
Misplaced == {p \in DOMAIN disk : Folder[p.dir] # None /\ TruePlatform(p) \notin {None, Folder[p.dir]}
                                  /\ Known1(TruePlatform(p))}
RelocateMisplaced(t) ==
    /\ Does("relocate")
    /\ Start(t, Each(Misplaced, LAMBDA p : Errand("relocate", p, HomeAt(p, TruePlatform(p)), {})))
    /\ UNCHANGED store
\* The same content goes to the trash, another one stays; without its source the command ends.
Relocate(t) ==
    LET p == Now(t).at
        q == Now(t).to IN
    /\ Doing(t, "relocate") /\ UNCHANGED <<rows, purged>>
    /\ CASE On(q) /\ SameContent(p, q) -> Discard({p}) /\ Then(t, Later(t))
         [] On(q) /\ ~SameContent(p, q) -> UNCHANGED <<disk, trash>> /\ Then(t, Later(t))
         [] ~On(q) /\ On(p) -> disk' = Moved(p, q) /\ UNCHANGED trash /\ Then(t, Later(t))
         [] OTHER -> UNCHANGED <<disk, trash>> /\ Then(t, <<>>)

\* fix-platforms, with and without --mismatched: a row without a platform, or with one that
\* its extension denies.
FixPlatforms ==
    LET wrong == {p \in DOMAIN rows : \/ rows[p].platform = None /\ TruePlatform(p) # None
                                      \/ p.ext \in DOMAIN ByExtension /\ rows[p].platform # ByExtension[p.ext]} IN
    /\ Does("fix") /\ wrong # {} /\ \A t \in Threads : ~InBatch(t)
    /\ rows' = [p \in DOMAIN rows |-> IF p \in wrong THEN [rows[p] EXCEPT !.platform = TruePlatform(p)] ELSE rows[p]]
    /\ UNCHANGED <<disk, trash, purged, work>>

OrganizerStep ==
    \/ \E t \in Threads :
         \/ OrganizeLibrary(t) \/ Place(t) \/ Shelve(t) \/ Record(t) \/ FlatSaves(t) \/ Bioses(t) \/ Tidy(t)
         \/ MigrateSaves(t) \/ RelocateMisplaced(t) \/ Relocate(t)
    \/ FixPlatforms
=============================================================================

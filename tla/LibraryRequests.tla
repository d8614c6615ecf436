--------------------------- MODULE LibraryRequests ---------------------------
(***************************************************************************)
(* The requests, commands and jobs that work on one library: the pages of  *)
(* duplicates and of the doctor, the converters, the organiser, and the    *)
(* jobs scan, match and download_dats.  A story says what the library is   *)
(* at first, what is done with it and what may fail.                       *)
(***************************************************************************)
EXTENDS Duplicates, Scanner, Converters, DiscSets, Organizer

\* The jobs that read the files and write the table of Scanner.
ScanJobs == {"full", "quick", "adbscan"}
\* What a row says of its file as long as the file has the stamp of the row: a hash is the
\* one of its content, unless a quick scan moved the stamp on (rom_scanner.py 149); a device's row
\* counts only with both hashes (get_known_hashes).
SaysTrue(does, row, at, content) ==
    /\ row.sha # None /\ row.stamp = at /\ ~row.aged
    /\ "adbscan" \in does => row.md5 # None
    => row.sha = content
IsRow(r) ==
    /\ r = [sha |-> r.sha, md5 |-> r.md5, stamp |-> r.stamp, title |-> r.title, sure |-> r.sure,
            marked |-> r.marked, aged |-> r.aged]
    /\ r.aged \in BOOLEAN

\* The files of a library at first: one at a path, of contents that the facts are about.
ASSUME FilesAssumption ==
    \A s \in Stories :
        /\ IsFiniteSet(s.files) /\ \A f \in s.files : f.at = At(f.at.dir, f.at.stem, f.at.ext) /\ f.has \in DOMAIN Facts
        /\ \A f, g \in s.files : f.at = g.at => f = g
\* A sheet names no save.
ASSUME FactsAssumption == None \notin DOMAIN Facts /\ \A c \in DOMAIN Facts : \A d \in Facts[c].data : d.ext \notin SaveExts
ASSUME NamesAssumption == None \notin {"scan", "match"}
\* The table that a scan starts from is one that earlier scans have left.
ASSUME RowsAssumption ==
    \A s \in Stories : \A p \in DOMAIN s.known :
        IsRow(s.known[p]) /\ s.known[p].stamp \in Int /\ s.known[p].stamp <= 1
\* A scan has the library for itself, but for the user who writes files, and for the jobs
\* that have slots of their own.  A console and a folder have a database each.
ASSUME ScansAssumption ==
    \A s \in Stories : s.does \cap ScanJobs # {} =>
        /\ s.does \subseteq ScanJobs \cup {"match", "fetch", "import"}
        /\ s.faults \cap {"vanish", "rename"} = {}
        /\ "adbscan" \in s.does => s.does \cap {"full", "quick"} = {} /\ \A p \in DOMAIN s.known : ~s.known[p].aged
        /\ \A f \in s.files \cup s.edits : f.has # None
        /\ \A f \in s.files : f.at \in DOMAIN s.known => SaysTrue(s.does, s.known[f.at], 1, f.has)

\* A catalogue is a finite list, in the order in which it is searched.
IsList(list) == IsFiniteSet(list) /\ None \notin list /\ \A e \in list : e.rank \in Nat
ASSUME DatsAssumption ==
    \A s \in Stories :
        /\ IsFiniteSet(DOMAIN s.dats) /\ \A d \in DOMAIN s.sent : IsList(s.sent[d])
        /\ \A d \in DOMAIN s.dats :
             s.dats[d] = [list |-> s.dats[d].list, fresh |-> s.dats[d].fresh] /\ IsList(s.dats[d].list)

RowOf(f) == [sha |-> f.has, title |-> f.title, platform |-> f.platform]
Begin(s) ==
    /\ tale = [does |-> s.does, faults |-> s.faults, edits |-> s.edits, sent |-> s.sent, first |-> {f.has : f \in s.files}]
    /\ disk = [p \in {f.at : f \in s.files} |-> (CHOOSE f \in s.files : f.at = p).has]
    /\ rows = [p \in {f.at : f \in {g \in s.files : g.platform # None}} |->
                  RowOf(CHOOSE f \in s.files : f.at = p)]
    /\ games = s.known /\ dats = s.dats
    /\ stamp = [p \in DOMAIN disk |-> 1]
Init ==
    /\ \E s \in Stories : Begin(s)
    /\ starts = 0 /\ todo = [t \in Threads |-> <<>>] /\ edits = 0
    /\ trash = {} /\ purged = {} /\ page = {} /\ excluded = {} /\ checked = {}
    /\ lock = None /\ draft = <<>> /\ scan = NoScan /\ match = NoMatch /\ fetch = NoFetch

\* A file is deleted by hand, while no request is at work.
Vanish ==
    /\ Fault("vanish") /\ Idle
    /\ \E p \in DOMAIN disk :
         /\ disk' = Without(disk, {p})
         /\ purged' = purged \cup {disk[p]}
    /\ UNCHANGED <<trash, rows, work, dupVars>>

Next ==
    \/ /\ DuplicatesStep \/ (Stop /\ UNCHANGED dupVars) \/ (PurgeTrash /\ UNCHANGED <<work, dupVars>>) \/ Vanish
       /\ UNCHANGED scanVars
    \/ (ConvertersStep \/ DoctorStep \/ OrganizerStep) /\ UNCHANGED <<dupVars, scanVars>>
    \/ ScannerNext /\ UNCHANGED dupVars
Spec == Init /\ [][Next]_<<store, work, dupVars, scanVars>>

Tidies == tale.does \cap {"organize", "migrate", "relocate"} # {}
-----------------------------------------------------------------------------
(* Properties *)

\* Every content of the library is on the disk, in an archive or in the trash, but for what
\* the user purged, deleted by hand or had cleaned after an extraction: every request of
\* the duplicates page, the doctor, the converters and the organiser discards to the trash
\* and unlinks nothing that is not inside a disc image (trash.py 28-53).
NothingLost == edits = 0 /\ ~Does("cleanZips") => tale.first \subseteq Live \cup Discarded \cup purged

\* A save is beside a ROM that bears its name, or on the shelf of its platform, whatever
\* copies are discarded and wherever the organiser moves the ROM: two pieces of state that
\* different handlers move at different times (duplicates_service.py, organize.py).
Saves == {p \in DOMAIN disk : p.ext \in SaveExts}
Settled == Tidies /\ ~Does("fix") /\ starts > 0 /\ Idle /\ ~Fault("stop")
SavesServe ==
    purged \cap tale.first = {} /\ ((Does("byContent") /\ ~Does("review")) \/ Settled) =>
        \A s \in Saves : \E f \in DOMAIN disk :
            Rom(f) /\ f.stem = s.stem /\ s.dir \in {f.dir, Shelf["srm"][f.dir]}

\* A game leaves the library only when the user picks the files that go: whatever else the
\* pages decide at the same time, one playable copy of each game stays (the keepers of
\* ra_duplicates_service.py, the guards of duplicates_service.py).  Two ways in which the
\* last copy goes all the same are said here, file by file.  A numbered disc may go while
\* its title has a copy without a number, for the discs are then no set but copies of one
\* game (Unnumbered).  And a request looks for the file it keeps once and then discards the
\* others: when the user picks a keeper of his own meanwhile, each request may discard what
\* the other one keeps, and he may keep data whose sheet is going (Crossed;
\* ra_duplicates_service.py 236, 251).
Picked == Does("delete") \/ Does("noSupport") \/ Does("cleanZips") \/ Does("junk")
Owned == {Facts[c].game : c \in tale.first}
Unnumbered(p) == Tag(p).disc # 0 /\ \E q \in DOMAIN disk \ {p} : Plays(q) /\ Tag(q).disc = 0 /\ Tag(q).base = Tag(p).base
Crossed(t) == Does("choose") /\ Doing(t, "discard") /\ Now(t).of # {} /\ \A p \in Now(t).of : ~(On(p) /\ Plays(p))
Excused(g) ==
    \/ \E p \in DOMAIN disk \ DOMAIN disk' : FactsAt(p).game = g /\ Unnumbered(p)
    \/ \E t \in Threads : Crossed(t) /\ FactsAt(Now(t).at).game = g /\ Now(t).at \notin DOMAIN disk'
GameStays ==
    [][Picked \/ Vanish \/ edits # edits'
       \/ IF Tidies THEN Idle' /\ ~Fault("stop") /\ purged' = {} => Owned \subseteq Playable' \cup {None}
          ELSE \A g \in (Playable \cap Owned) \ Playable' : Excused(g)]_<<store, work, dupVars>>

\* Pruning never takes a piece of a set that could still be put together: the doctor's
\* "prune" after its "repair" (incomplete_sets_service.py).
PiecesStay == [][Does("prune") => Mendable \cap Owned \subseteq Mendable']_<<store, work>>

\* What a match writes is what the catalogues say: a title is given only when one listing
\* of the platform has that name or content, and a catalogue is lost only by a download of
\* its own that was due or by the user's import, MAME's not even then (matcher.py, scan.py).
CatalogueHolds == OnlyTitle /\ ListingKept
=============================================================================

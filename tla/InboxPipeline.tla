---------------------------- MODULE InboxPipeline ----------------------------
(***************************************************************************)
(* The Inbox: what is dropped there is extracted, identified, renamed and  *)
(* moved to its platform folder by the job "inbox" of web/inbox_pipeline,  *)
(* which the daemon of web/daemons.py, a page or the zip router starts.    *)
(* The setup wizard (job "setup") and the page that resolves conflicts     *)
(* work on the same files and rows, each in a thread of its own.           *)
(*                                                                         *)
(* A run goes through phases.  Each phase lists its files once, then looks *)
(* at one after the other (Look) and does what it decided (the actions     *)
(* after it): whatever another actor does in between is seen by nobody.    *)
(* A rename with its saves is one step; AtomicRename is its detail.        *)
(***************************************************************************)
EXTENDS LibraryStore, SequencesExt

CONSTANTS
    Catalog,       \* what the matcher says of a <<content, stem>>: [stem, platform]
    Platform,      \* the platform folder that each extension is detected as
    ArcadeSet,     \* archives whose members are all roms of arcade sets
    DiscSet,       \* archives that extract_zip and extract_7z leave alone
    Collection,    \* archives of archives: [content -> the folder they go to]
    Bios,          \* the stems of _KNOWN_BIOS_MAP
    Identified,    \* the .md files whose CRC is that of a Mega Drive ROM
    Machine,       \* the sets that loose chips complete: [stem, content, chips]
    Achievements,  \* RetroAchievements of a content, or -1
    Blocked,       \* the blocklist
    Torn,          \* the content of a file that was not written to its end
    DeleteSource,  \* the values of inbox.delete_source and delete_zips
    Stories,       \* what may come together: drops [at, has], users and faults
    MaxRuns,       \* bound on the runs of the two jobs
    MaxFaults      \* bound on the faults

\* move: shutil.move fails   torn: a member is cut short   db: a row cannot be deleted
\* crash: the process dies
FaultNames == {"move", "torn", "db", "crash"}
\* Who acts beside the watcher.
UserNames == {"page", "wizard", "router", "manual"}

ASSUME InboxAssumption ==
    /\ MaxRuns \in Nat /\ MaxFaults \in Nat /\ DeleteSource \subseteq BOOLEAN
    /\ \A s \in Stories : s.users \subseteq UserNames /\ s.faults \subseteq FaultNames
    /\ \A s \in Stories : \A d \in s.drops : d.at = At(d.at.dir, d.at.stem, d.at.ext)

VARIABLES
    run,      \* the state of each actor
    sig,      \* last_signature of the watcher
    runs,     \* runs started so far
    tale,     \* the story that is told, and the drops that have come
    losers,   \* observation: contents that lost a conflict or are junk
    skipped,  \* observation: members not extracted as their name was taken
    replaced, \* observation: contents an upload or a second extraction replaced
    cut,      \* observation: paths whose move was parted from its discard or its row
    filled,   \* observation: library paths that have held a file
    unseen,   \* observation: drops no run that ended has started after
    aborted,  \* observation: a run has ended in an exception
    failed    \* faults so far

seenVars == <<losers, skipped, replaced, cut, filled, unseen, aborted, failed>>
vars == <<store, run, sig, runs, tale, seenVars>>

Job == {"inbox", "setup"}
Actor == Job \cup {"page", "watcher"}

InboxDir == {"inbox", "megadrive", "sub"}
Library(p) == p.dir \notin InboxDir \cup {"processed", "roms"}
Archive(p) == p.ext \in {"zip", "7z"}
\* is_rom_file: a .md is one only in the folder of its platform.
IsRom(p) == p.ext = "rom" \/ (p.ext = "md" /\ p.dir = "megadrive")

NoHand == [do |-> "none", from |-> None, to |-> None, left |-> {}]
Idle == [at |-> "idle", todo |-> {}, hand |-> NoHand, spent |-> {}, delete |-> FALSE,
         seen |-> {}, saw |-> {}]

Init ==
    /\ \E s \in Stories :
         tale = [came |-> {}, drops |-> s.drops, users |-> s.users, faults |-> s.faults]
    /\ disk = <<>> /\ trash = {} /\ rows = <<>> /\ purged = {}
    /\ run = [k \in Actor |-> Idle]
    /\ sig = {} /\ runs = 0
    /\ losers = {} /\ skipped = {} /\ replaced = {} /\ cut = {} /\ filled = {}
    /\ unseen = {} /\ aborted = FALSE /\ failed = 0

\* What every step adds to the observations of the library's paths.
Filling == filled' = filled \cup {p \in DOMAIN disk' : Library(p)}
-----------------------------------------------------------------------------
(* The files of a phase *)

Op(p, q) == [from |-> p, to |-> q, left |-> {}]
Files(k) == {p \in DOMAIN disk : k = "setup" \/ p.dir \in InboxDir}

ZipOps(k, ext) == {Op(p, At("arcade", p.stem, ext)) : p \in {f \in Files(k) : f.ext = ext}}

BiosOps(k) ==
    {Op(p, At("bios", p.stem, p.ext)) :
        p \in {f \in Files(k) : f.ext = "bin" /\ f.stem \in Bios /\ f.dir \notin {"bios", "processed"}}}

MdOps == {Op(p, At("megadrive", p.stem, "md")) :
             p \in {f \in DOMAIN disk : f.dir = "inbox" /\ f.ext = "md" /\ disk[f] \in Identified}}

Chips == {f \in DOMAIN disk : f.dir = "inbox" /\ f.ext = "chip"}

\* What a machine may be packed from: one file of the pool for each of its roms.
Picks(m) == {S \in SUBSET Chips : /\ {disk[f] : f \in S} = m.chips
                                  /\ \A f, g \in S : disk[f] = disk[g] => f = g}
ChipOps == UNION {{[from |-> m, to |-> At("arcade", m.stem, "zip"), left |-> S] : S \in Picks(m)} :
                     m \in Machine}

\* The only ROM outside the Inbox with the save's stem.
RomOf(s) == {p \in DOMAIN rows : p.dir \notin InboxDir /\ p.stem = s.stem /\ On(p)}
SaveOps == {Op(p, None) : p \in {f \in DOMAIN disk : f.dir = "inbox" /\ f.ext = "sav"}}

\* A ROM is read unless its row has a hash and its mtime and size have not changed.
ScanOps(k) == {[from |-> p, to |-> None, left |-> {disk[p]}] :
                 p \in {f \in Files(k) : IsRom(f) /\ ~(Has(f) /\ rows[f].sha = disk[f])}}

Unresolved == {p \in DOMAIN rows : rows[p].title = None /\ rows[p].sha \notin Blocked}

MatchOps == {[from |-> p, to |-> None, left |-> {rows[p].sha}] : p \in Unresolved}

\* build_plan: collisions are not pending.
Target(p) == [p EXCEPT !.stem = rows[p].title]
Pending == {p \in DOMAIN rows : /\ rows[p].title # None /\ rows[p].sha \notin Blocked
                                /\ Target(p) # p /\ ~On(Target(p))}
RenameOps == {Op(p, Target(p)) :
                p \in {f \in Pending : /\ f.dir \in InboxDir
                                       /\ \A g \in Pending \ {f} : Target(g) # Target(f)}}

\* _organize_dest_file: the platform's folder, and the name the file has.
Dest(p) == [p EXCEPT !.dir = rows[p].platform]
\* Mutant: the rows of the library too.
OrganizeOpsAll == {[from |-> p, to |-> Dest(p), left |-> {rows[p].sha}] : p \in DOMAIN rows}

OrganizeOps == {[from |-> p, to |-> Dest(p), left |-> {rows[p].sha}] :
                  p \in {f \in DOMAIN rows : f.dir \in InboxDir}}

ArchiveOps(k) == {Op(p, [p EXCEPT !.dir = "processed"]) : p \in run[k].spent}

\* _build_junk_scan at the root: loose archives, by what their CRCs say they are.
RouteOps ==
    {Op(p, [p EXCEPT !.dir = IF disk[p] \in ArcadeSet THEN "arcade" ELSE "inbox"]) :
        p \in {f \in DOMAIN disk : f.dir = "roms" /\ Archive(f)}}

JunkOps == {Op(p, None) : p \in {f \in DOMAIN disk : f.ext = "txt"}}

Listing(k, phase) ==
    CASE phase = "route" -> RouteOps       [] phase = "junk" -> JunkOps
      [] phase = "zips" -> ZipOps(k, "zip")
      [] phase = "sevenzips" -> ZipOps(k, "7z")
      [] phase = "bios" -> BiosOps(k)
      [] phase = "md" -> MdOps             [] phase = "chips" -> ChipOps
      [] phase = "saves" -> SaveOps        [] phase = "scan" -> ScanOps(k)
      [] phase = "match" -> MatchOps
      [] phase = "plan" -> {}              [] phase = "rename" -> RenameOps
      [] phase = "organize" -> OrganizeOps
      [] OTHER -> ArchiveOps(k)

SetupPhases == <<"junk", "zips", "bios", "scan", "match", "plan">>

Phases == [inbox |-> <<"route", "zips", "sevenzips", "bios", "md", "chips", "saves", "scan", "match",
                       "plan", "rename", "organize", "archive">>,
           setup |-> SetupPhases,
           watcher |-> <<"saves">>,
           page |-> <<>>]
\* The next phase that finds something to do: the others are passed over in the same step.
Following(k, phase) ==
    LET now == CHOOSE n \in DOMAIN Phases[k] : Phases[k][n] = phase
        later == {n \in DOMAIN Phases[k] : /\ n > now
                                          /\ \/ Phases[k][n] = "scan"
                                             \/ Listing(k, Phases[k][n]) # {}}
    IN  IF later = {} THEN "end" ELSE Phases[k][Min(later)]
-----------------------------------------------------------------------------
(* The steps of a run *)

\* Actor k takes op off its list, and does act with what it knows of it.
Hand(k, op, act, known) ==
    [run EXCEPT ![k].todo = @ \ {op},
                ![k].hand = IF act = "skip" THEN NoHand
                            ELSE [do |-> act, from |-> known.from, to |-> known.to,
                                  left |-> known.left]]
Free(k) == run[k].hand = NoHand
Holding(k, act) == run[k].hand.do = act
From(k) == run[k].hand.from
To(k) == run[k].hand.to
Done(k) == run' = [run EXCEPT ![k].hand = NoHand]
Then(k, act) == run' = [run EXCEPT ![k].hand.do = act]

Begin(k, phase, delete) ==
    run' = [run EXCEPT ![k] = [Idle EXCEPT !.at = phase, !.todo = Listing(k, phase),
                                           !.delete = delete, !.saw = unseen]]

\* _do_inbox_run, the watcher and _run_zip_route_apply: the slot "inbox" is free.
StartInbox(phase, delete) ==
    /\ run["inbox"].at = "idle" /\ runs < MaxRuns
    /\ Begin("inbox", phase, delete)
    /\ runs' = runs + 1
    /\ UNCHANGED <<store, sig, tale, seenVars>>

StartByHand == "manual" \in tale.users /\ \E d \in DeleteSource : StartInbox("zips", d)
StartRouter == "router" \in tale.users /\ StartInbox("route", TRUE)

\* _do_setup_run: a slot of its own.
StartWizard ==
    /\ "wizard" \in tale.users /\ run["setup"].at = "idle" /\ runs < MaxRuns
    /\ \E d \in DeleteSource : Begin("setup", "junk", d)
    /\ runs' = runs + 1
    /\ UNCHANGED <<store, sig, tale, seenVars>>

\* The phase has nothing left: the next one lists its files, or the run is over.
Advance(k) ==
    LET next == Following(k, run[k].at) IN
    /\ k \in Job /\ run[k].at \notin {"idle", "scan", "prune", "match"}
    /\ run[k].todo = {} /\ Free(k)
    /\ IF next # "end"
       THEN /\ run' = [run EXCEPT ![k].at = next, ![k].todo = Listing(k, next),
                                  ![k].seen = IF next = "scan" THEN Files(k) ELSE {}]
            /\ UNCHANGED unseen
       ELSE /\ run' = [run EXCEPT ![k] = Idle]
            /\ unseen' = IF k = "inbox" THEN unseen \ run[k].saw ELSE unseen
    /\ UNCHANGED <<store, sig, runs, tale, losers, skipped, replaced, cut, filled, aborted, failed>>

\* An exception that nobody catches ends the run, with its result {"error": ...}.
Abort(k) ==
    /\ run' = [run EXCEPT ![k] = Idle]
    /\ aborted' = TRUE
    /\ UNCHANGED <<store, sig, runs, tale, losers, skipped, replaced, cut, filled, unseen, failed>>

\* The folder that an archive is extracted to, and where a member of it lands there.
Into(k, p) == [p EXCEPT !.dir = IF run[k].at = "route" THEN Collection[disk[p]] ELSE p.dir]
Member(q, m) == At(q.dir, m.stem, m.ext)

\* What one look at a file decides.
ZipChoice(k, op) ==
    IF ~On(op.from) THEN "skip"
    ELSE IF k = "inbox" /\ disk[op.from] \in ArcadeSet /\ op.from.ext = "zip"
         THEN IF On(op.to) THEN "skip" ELSE "move"
    ELSE IF disk[op.from] \in DiscSet \/ disk[op.from] \notin DOMAIN Inner \/ op.from.dir = "arcade"
         THEN "skip" ELSE "extract"

RouteChoice(op) ==
    IF ~On(op.from) THEN "skip"
    ELSE IF disk[op.from] \in DOMAIN Collection THEN "extract"
    ELSE IF On(op.to) THEN "skip" ELSE "try"

BiosChoice(op) ==
    IF ~On(op.from) THEN "skip"
    ELSE IF ~On(op.to) THEN "move"
    ELSE IF SameContent(op.from, op.to) THEN "discard" ELSE "skip"

SaveTo(s) == [s EXCEPT !.dir = (CHOOSE p \in RomOf(s) : TRUE).dir]

\* RA-CONFLICT-1: more achievements win; without any, both stay.
ConflictChoice(p, q) ==
    LET src == Achievements[disk[p]]
        dst == Achievements[disk[q]]
    IN  IF src <= 0 /\ dst <= 0 THEN "skip" ELSE IF dst < src THEN "swap" ELSE "lose"

\* Mutant: the name in the platform's folder is not looked at.
OrganizeChoiceOver(op) ==
    IF ~On(op.from) \/ op.left \subseteq Blocked THEN "skip" ELSE "organize"

OrganizeChoice(op) ==
    IF ~On(op.from) \/ op.left \subseteq Blocked THEN "skip"
    ELSE IF ~On(op.to) THEN "organize"
    ELSE IF SameContent(op.from, op.to) THEN "dup"
    ELSE ConflictChoice(op.from, op.to)

\* Archived already: a file of that name is in _processed.
ArchiveChoice(k, op) ==
    IF ~On(op.from) THEN "skip"
    ELSE IF run[k].delete \/ On(op.to) THEN "tidy" ELSE "try"

Choice(k, op) ==
    CASE run[k].at = "route" -> RouteChoice(op)
      [] run[k].at \in {"zips", "sevenzips"} -> ZipChoice(k, op)
      [] run[k].at = "bios" -> BiosChoice(op)
      [] run[k].at = "md" -> IF On(op.to) THEN "skip" ELSE "move"
      [] run[k].at = "chips" -> IF On(op.to) THEN "skip" ELSE "pack"
      [] run[k].at = "saves" -> IF On(op.from) /\ Cardinality(RomOf(op.from)) = 1
                                   /\ ~On(SaveTo(op.from)) THEN "try" ELSE "skip"
      [] run[k].at = "rename" -> IF On(op.from) THEN "rename" ELSE "skip"
      [] run[k].at = "organize" -> OrganizeChoice(op)
      [] run[k].at = "junk" -> IF On(op.from) THEN "tidy" ELSE "skip"
      [] OTHER -> ArchiveChoice(k, op)

\* The members that are not there yet; a member whose name is taken counts as extracted.
Members(k, op) == {m \in Inner[disk[op.from]] : ~On(Member(Into(k, op.from), m))}
Taken(k, op) == {m.content : m \in {x \in Inner[disk[op.from]] \ Members(k, op) :
                                      disk[Member(Into(k, op.from), x)] # x.content}}

\* The machines with most chips come first.
InTurn(k, op) ==
    run[k].at = "chips" =>
        \A other \in run[k].todo : Cardinality(other.from.chips) <= Cardinality(op.from.chips)

Look(k) ==
    /\ run[k].at \notin {"scan", "prune", "match"} /\ Free(k)
    /\ \E op \in run[k].todo :
         LET act == Choice(k, op) IN
         /\ InTurn(k, op)
         /\ run' = Hand(k, op, act,
                        CASE act = "extract" -> [op EXCEPT !.to = Into(k, op.from),
                                                           !.left = Members(k, op)]
                          [] run[k].at = "saves" /\ act = "try" -> [op EXCEPT !.to = SaveTo(op.from)]
                          [] OTHER -> op)
         /\ skipped' = IF act = "extract" THEN skipped \cup Taken(k, op) ELSE skipped
    /\ UNCHANGED <<store, sig, runs, tale, losers, replaced, cut, filled, unseen, aborted, failed>>

\* shutil.move: arcade sets, BIOS and .md files.  A failure ends the run.
Move(k) ==
    /\ Holding(k, "move")
    /\ \/ /\ On(From(k))
          /\ disk' = Moved(From(k), To(k)) /\ Filling
          /\ Done(k)
          /\ UNCHANGED <<trash, rows, purged, sig, runs, tale, losers, skipped, replaced,
                         cut, unseen, aborted, failed>>
       \/ ~On(From(k)) /\ Abort(k)

\* The same where the code catches the failure: saves, routed and archived archives.
TryMove(k) ==
    /\ Holding(k, "try")
    /\ \/ On(From(k)) /\ disk' = Moved(From(k), To(k))
       \/ ~On(From(k)) /\ UNCHANGED disk
    /\ Filling /\ Done(k)
    /\ UNCHANGED <<trash, rows, purged, sig, runs, tale, losers, skipped, replaced, cut,
                   unseen, aborted, failed>>

\* discard_to_trash of a BIOS that is a duplicate, of junk, of an archive that is done.
DiscardOne(k) ==
    /\ run[k].hand.do \in {"discard", "tidy"}
    /\ \/ /\ On(From(k))
          /\ Discard({From(k)}) /\ Filling /\ Done(k)
          /\ losers' = IF run[k].at = "junk" THEN losers \cup {disk[From(k)]} ELSE losers
          /\ UNCHANGED <<rows, purged, sig, runs, tale, skipped, replaced, cut, unseen,
                         aborted, failed>>
       \/ ~On(From(k)) /\ Holding(k, "discard") /\ Abort(k)
       \/ /\ ~On(From(k)) /\ Holding(k, "tidy") /\ Done(k)
          /\ UNCHANGED <<store, sig, runs, tale, seenVars>>

\* extract_zip: member by member, under their real names.
ExtractMember(k) ==
    /\ Holding(k, "extract") /\ On(From(k))
    /\ \E m \in run[k].hand.left :
         LET q == Member(To(k), m) IN
         /\ disk' = Put(disk, q, m.content)
         /\ run' = [run EXCEPT ![k].hand.left = @ \ {m}]
         /\ replaced' = IF On(q) /\ disk[q] # m.content THEN replaced \cup {disk[q], m.content}
                        ELSE replaced
    /\ Filling
    /\ UNCHANGED <<trash, rows, purged, sig, runs, tale, losers, skipped, cut, unseen,
                   aborted, failed>>

\* All members are there: the archive is done with.
Extracted(k) ==
    /\ Holding(k, "extract") /\ (run[k].hand.left = {} \/ ~On(From(k)))
    /\ LET now == run[k].at = "route" \/ (k = "setup" /\ run[k].delete) IN
         IF On(From(k)) /\ now
         THEN Discard({From(k)}) /\ Done(k)
         ELSE /\ run' = [run EXCEPT ![k].hand = NoHand,
                                    ![k].spent = IF k = "inbox" THEN @ \cup {From(k)} ELSE @]
              /\ UNCHANGED <<disk, trash>>
    /\ UNCHANGED <<rows, purged, sig, runs, tale, seenVars>>

\* _reconstruct_loose_arcade_sets: the set is packed aside and moved in place.
Pack(k) ==
    LET m == run[k].hand.from
        chips == {f \in run[k].hand.left : On(f)} IN
    /\ Holding(k, "pack")
    /\ IF chips = run[k].hand.left
       THEN /\ disk' = Put(disk, To(k), m.content)
            /\ Then(k, "chips")
       ELSE Done(k) /\ UNCHANGED disk
    /\ Filling
    /\ UNCHANGED <<trash, rows, purged, sig, runs, tale, losers, skipped, replaced, cut,
                   unseen, aborted, failed>>

\* Only then do the chips leave the pool and go to the trash.
DiscardChips(k) ==
    /\ Holding(k, "chips")
    /\ \/ /\ \A f \in run[k].hand.left : On(f)
          /\ Discard(run[k].hand.left)
          /\ run' = [run EXCEPT ![k].todo = {op \in @ : op.left \cap run[k].hand.left = {}},
                                ![k].hand = NoHand]
          /\ UNCHANGED <<rows, purged, sig, runs, tale, seenVars>>
       \/ (\E f \in run[k].hand.left : ~On(f)) /\ Abort(k)

The(S) == CHOOSE x \in S : TRUE
\* What phase k read of each file when it listed it.
Read(k) == [p \in {op.from : op \in run[k].todo} |->
               The(UNION {op.left : op \in {o \in run[k].todo : o.from = p}})]

\* scan_library: the rows of all the files it read, in one transaction.
Scan(k) ==
    /\ run[k].at = "scan"
    /\ rows' = Upserted([p \in DOMAIN Read(k) |-> [sha |-> Read(k)[p],
                                                  platform |-> Platform[p.ext]]])
    /\ run' = [run EXCEPT ![k].at = "prune", ![k].todo = {}]
    /\ UNCHANGED <<disk, trash, purged, sig, runs, tale, seenVars>>

\* prune_stale_entries: rows under the root that the walk did not meet.
Prune(k) ==
    /\ run[k].at = "prune"
    /\ DeleteRows({p \in DOMAIN rows : /\ k = "setup" \/ p.dir \in InboxDir
                                      /\ p \notin run[k].seen})
    /\ run' = [run EXCEPT ![k].at = "match", ![k].todo = MatchOps, ![k].seen = {}]
    /\ UNCHANGED <<disk, trash, purged, sig, runs, tale, seenVars>>

\* The matcher over what was unresolved when it began, in one transaction.
Match(k) ==
    LET asked == [p \in DOMAIN Read(k) |-> <<Read(k)[p], p.stem>>]
        known == {p \in DOMAIN asked : asked[p] \in DOMAIN Catalog} IN
    /\ run[k].at = "match"
    /\ rows' = Matched([p \in known |-> Catalog[asked[p]]])
    /\ run' = [run EXCEPT ![k].at = "plan", ![k].todo = {}]
    /\ UNCHANGED <<disk, trash, purged, sig, runs, tale, seenVars>>
-----------------------------------------------------------------------------
(* Renaming and organizing *)

\* The save beside a ROM that bears its name: one extension stands for those of saves.
Companion(p) == At(p.dir, p.stem, "sav")

\* rename_rom_with_saves: os.rename does not replace a file; a save that is in the way is
\* set aside under a .bak of its own.
RenameFile(k) ==
    LET p == From(k)
        q == To(k)
        save == Companion(p)
        place == Companion(q)
        baks == {BakOf(place, q) : s \in {place} \cap DOMAIN disk}
        news == {q} \cup IF On(save) THEN {place} \cup baks ELSE {} IN
    /\ Holding(k, "rename")
    /\ \/ /\ On(p) /\ ~On(q)
          /\ On(save) /\ On(place) => FreeBaks(place, q) # {}
          /\ disk' = Over([f \in news |-> IF f = q THEN disk[p] ELSE IF f = place THEN disk[save] ELSE disk[place]],
                          Without(disk, {p, save}))
          /\ Then(k, "record")
       \/ (~On(p) \/ On(q)) /\ UNCHANGED disk /\ Done(k)
    /\ Filling
    /\ UNCHANGED <<trash, rows, purged, sig, runs, tale, losers, skipped, replaced, cut,
                   unseen, aborted, failed>>

\* apply_rename, in a transaction of its own; source_path is UNIQUE.
RecordRename(k) ==
    /\ Holding(k, "record")
    /\ rows' = IF Has(To(k)) THEN rows ELSE RowMoved(From(k), To(k))
    /\ Done(k)
    /\ UNCHANGED <<disk, trash, purged, sig, runs, tale, seenVars>>

\* INBOX-ATOMIC-1: the row first, the move inside its transaction; a move that fails
\* takes the row back.
OrganizeFile(k) ==
    /\ Holding(k, "organize")
    /\ \/ On(From(k)) /\ disk' = Moved(From(k), To(k)) /\ rows' = RowMoved(From(k), To(k))
       \/ ~On(From(k)) /\ UNCHANGED <<disk, rows>>
    /\ Filling /\ Done(k)
    /\ UNCHANGED <<trash, purged, sig, runs, tale, losers, skipped, replaced, cut, unseen,
                   aborted, failed>>

\* The same file is there: the source goes to the trash, and its row.
DropDuplicate(k) ==
    /\ Holding(k, "dup")
    /\ IF On(From(k)) THEN Discard({From(k)}) /\ DeleteRows({From(k)})
       ELSE UNCHANGED <<disk, trash, rows>>
    /\ Filling /\ Done(k)
    /\ UNCHANGED <<purged, sig, runs, tale, losers, skipped, replaced, cut, unseen, aborted, failed>>

\* _discard_file: to the trash and out of the table; of a file that has gone, the row
\* only.  When the table refuses, the file is moved back.
DiscardFile(p) ==
    /\ IF On(p) THEN Discard({p}) ELSE UNCHANGED <<disk, trash>>
    /\ DeleteRows({p})
    /\ losers' = losers \cup {disk[q] : q \in {p} \cap DOMAIN disk}

\* _resolve_organize_conflict, when the source loses...
Lose(k) ==
    /\ Holding(k, "lose")
    /\ DiscardFile(From(k))
    /\ Filling /\ Done(k)
    /\ UNCHANGED <<purged, sig, runs, tale, skipped, replaced, cut, unseen, aborted, failed>>

\* ... and when the file in the library does: it is discarded,
Swap(k) ==
    /\ Holding(k, "swap")
    /\ DiscardFile(To(k))
    /\ Filling /\ Then(k, "enter")
    /\ UNCHANGED <<purged, sig, runs, tale, skipped, replaced, cut, unseen, aborted, failed>>

\* the source takes its place, or does not,
Enter(k) ==
    /\ Holding(k, "enter")
    /\ \/ /\ On(From(k))
          /\ disk' = Moved(From(k), To(k)) /\ Then(k, "row")
          /\ UNCHANGED cut
       \/ /\ ~On(From(k))
          /\ cut' = cut \cup {To(k)} /\ Done(k)
          /\ UNCHANGED disk
    /\ Filling
    /\ UNCHANGED <<trash, rows, purged, sig, runs, tale, losers, skipped, replaced, unseen,
                   aborted, failed>>

\* and its row follows.
EnterRow(k) ==
    /\ Holding(k, "row")
    /\ rows' = RowMoved(From(k), To(k))
    /\ Done(k)
    /\ UNCHANGED <<disk, trash, purged, sig, runs, tale, seenVars>>

\* resolve_inbox_conflict: the user's choice, whatever the job is doing.
PageResolves ==
    /\ "page" \in tale.users /\ Free("page")
    /\ \E p \in DOMAIN rows, keep \in {"swap", "lose"} :
         /\ p.dir \in InboxDir /\ On(p) /\ On(Dest(p)) /\ ~SameContent(p, Dest(p))
         /\ run' = [run EXCEPT !["page"].hand = [do |-> keep, from |-> p, to |-> Dest(p),
                                                 left |-> {}]]
    /\ UNCHANGED <<store, sig, runs, tale, seenVars>>

Fault(name) == name \in tale.faults /\ failed < MaxFaults /\ failed' = failed + 1

\* What actor k is doing fails: a move nobody catches ends the run; a caught one leaves the
\* files as they are, but not what was discarded before it; a member of a zip stays cut
\* short, where extract_7z puts nothing in place; _discard_file moves its file back.
Fail(k) ==
    /\ \/ /\ Holding(k, "move") /\ Fault("move") /\ aborted' = TRUE
          /\ run' = [run EXCEPT ![k] = Idle]
          /\ UNCHANGED <<disk, replaced, cut>>
       \/ /\ run[k].hand.do \in {"try", "rename", "organize"} /\ Fault("move") /\ Done(k)
          /\ UNCHANGED <<disk, replaced, cut, aborted>>
       \/ /\ run[k].hand.do \in {"lose", "swap"} /\ Fault("db") /\ Done(k)
          /\ UNCHANGED <<disk, replaced, cut, aborted>>
       \/ /\ Holding(k, "enter") /\ Fault("move") /\ Done(k)
          /\ cut' = cut \cup {To(k)}
          /\ UNCHANGED <<disk, replaced, aborted>>
       \/ /\ Holding(k, "extract") /\ On(From(k)) /\ Fault("torn") /\ Done(k)
          /\ \E m \in run[k].hand.left :
               LET q == Member(To(k), m) IN
               IF From(k).ext = "7z" THEN UNCHANGED <<disk, replaced>>
               ELSE /\ disk' = Put(disk, q, Torn)
                    /\ replaced' = IF On(q) THEN replaced \cup {disk[q], Torn} ELSE replaced
          /\ UNCHANGED <<cut, aborted>>
    /\ Filling
    /\ UNCHANGED <<trash, rows, purged, sig, runs, tale, losers, skipped, unseen>>

Step(k) ==
    \/ Advance(k) \/ Look(k) \/ Move(k) \/ TryMove(k) \/ DiscardOne(k)
    \/ ExtractMember(k) \/ Extracted(k) \/ Pack(k) \/ DiscardChips(k)
    \/ Scan(k) \/ Prune(k) \/ Match(k) \/ RenameFile(k) \/ RecordRename(k)
    \/ OrganizeFile(k) \/ DropDuplicate(k) \/ Lose(k) \/ Swap(k) \/ Enter(k) \/ EnterRow(k)
-----------------------------------------------------------------------------
(* The watcher and the world *)

\* _route_orphan_saves, each time it wakes.
Wake ==
    /\ run["watcher"].at = "idle" /\ SaveOps # {}
    /\ run' = [run EXCEPT !["watcher"].at = "saves", !["watcher"].todo = SaveOps]
    /\ UNCHANGED <<store, sig, runs, tale, seenVars>>

\* _inbox_pending and _pending_signature: names, sizes and dates.
PendingFiles == {p \in DOMAIN disk : p.dir = "inbox" /\ p.ext # "sav"}
Signature == {<<p, disk[p]>> : p \in PendingFiles}

\* Mutant: what waits is remembered while a run is on.
PollRemembering ==
    /\ \/ run["watcher"].at = "idle" /\ SaveOps = {}
       \/ run["watcher"].at = "saves" /\ run["watcher"].todo = {} /\ Free("watcher")
    /\ LET start == Signature \notin {{}, sig} /\ run["inbox"].at = "idle" IN
         /\ sig' = Signature
         /\ run' = [run EXCEPT !["watcher"] = [Idle EXCEPT !.at = IF start THEN "start"
                                                                ELSE "idle"]]
    /\ UNCHANGED <<store, runs, tale, seenVars>>

\* The set has changed and the slot looks free: it is remembered, then the job started.
Poll ==
    /\ \/ run["watcher"].at = "idle" /\ SaveOps = {}
       \/ run["watcher"].at = "saves" /\ run["watcher"].todo = {} /\ Free("watcher")
    /\ LET start == Signature \notin {{}, sig} /\ run["inbox"].at = "idle" IN
         /\ sig' = IF Signature = {} THEN {} ELSE IF start THEN Signature ELSE sig
         /\ run' = [run EXCEPT !["watcher"] = [Idle EXCEPT !.at = IF start THEN "start"
                                                                ELSE "idle"]]
    /\ UNCHANGED <<store, runs, tale, seenVars>>

\* job_manager.start answers started or already_running.
WatcherStarts ==
    LET wake == [run EXCEPT !["watcher"].at = "idle"] IN
    /\ run["watcher"].at = "start"
    /\ IF run["inbox"].at = "idle" /\ runs < MaxRuns
       THEN /\ \E d \in DeleteSource :
                 run' = [wake EXCEPT !["inbox"] =
                           [Idle EXCEPT !.at = "zips", !.todo = ZipOps("inbox", "zip"),
                                        !.delete = d, !.saw = unseen]]
            /\ runs' = runs + 1
       ELSE run' = wake /\ UNCHANGED runs
    /\ UNCHANGED <<store, sig, tale, seenVars>>

\* What the actors have looked at, found there or free, and are about to move or write.
Written == UNION {{Member(To(k), m) : m \in run[k].hand.left} :
                    k \in {x \in Actor : Holding(x, "extract") /\ On(From(x))}}
Held == {From(k) : k \in {x \in Actor : run[x].hand.do \in {"swap", "enter", "lose", "organize"}}}

\* A file is copied to the Inbox or uploaded by a page, over one of that name.  That
\* it comes under the very name an actor is extracting to or moving from is left out.
Arrive ==
    /\ \E d \in tale.drops \ tale.came :
         /\ d.at \notin Written \cup Held
         /\ disk' = Put(disk, d.at, d.has)
         /\ tale' = [tale EXCEPT !.came = @ \cup {d}]
         /\ replaced' = IF On(d.at) THEN replaced \cup {disk[d.at], d.has} ELSE replaced
         /\ unseen' = IF d.at.dir = "inbox" /\ d.at.ext # "sav" THEN unseen \cup {d} ELSE unseen
    /\ Filling
    /\ UNCHANGED <<trash, rows, purged, run, sig, runs, losers, skipped, cut, aborted, failed>>

\* The process dies, between any two steps or between a move and the commit that
\* follows it in one transaction, and starts again.
Crash ==
    /\ Fault("crash") /\ \E k \in Actor : run[k] # Idle
    /\ \/ UNCHANGED disk
       \/ \E k \in Actor : /\ Holding(k, "organize") /\ On(From(k))
                           /\ disk' = Moved(From(k), To(k))
    /\ cut' = cut \cup {To(k) : k \in {x \in Actor : run[x].hand.do \in {"organize", "enter", "row"}}}
    /\ run' = [k \in Actor |-> Idle]
    /\ sig' = {} /\ aborted' = TRUE
    /\ Filling
    /\ UNCHANGED <<trash, rows, purged, runs, tale, losers, skipped, replaced, unseen>>

\* The thread of the watcher.
Watch == Wake \/ Poll \/ WatcherStarts \/ Step("watcher")

Next ==
    \/ StartByHand \/ StartRouter \/ StartWizard \/ PageResolves
    \/ Watch \/ (\E k \in Actor \ {"watcher"} : Step(k))
    \/ (\E k \in Actor : Fail(k)) \/ Arrive \/ Crash

\* The threads go on; nothing obliges the users, nor anything to fail.
Fairness == WF_vars(Watch) /\ WF_vars(Step("inbox")) /\ WF_vars(Step("setup"))

Spec == Init /\ [][Next]_vars /\ Fairness
-----------------------------------------------------------------------------
(* Properties *)

Known == Within({d.has : d \in tale.came})

\* Every content that came is on the disk, in the trash or in an archive that is: only
\* an upload over a file of its name can destroy one (inbox_pipeline.py 24-38, trash.py 28-53).
NothingLost == Known \subseteq Live \cup Discarded \cup Within(replaced)

\* What only the trash still has has lost a conflict, by its achievements or by the user's
\* word: a name alone never discards anything (INBOX-FIX-5, inbox_pipeline.py 29, 1372-1375),
\* but for members left in their archive because their name was taken.  An archive is kept
\* when its members are.
OnlyLosersDiscarded ==
    Known \ DOMAIN Inner \subseteq Live \cup losers \cup Within(skipped \cup replaced)

\* A path of the library that has held a file holds one, whoever resolves its conflicts and
\* in whatever order, unless the move after a discard failed (inbox_pipeline.py 193-220).
LibraryPathStays ==
    \A p \in filled : On(p) \/ p \in cut \/ \E k \in Actor : Holding(k, "enter") /\ To(k) = p

\* A row in the library tells the content of its file, and a title the catalogue gives that
\* content (inbox_pipeline.py 1446-1464).
RowsTell ==
    \A p \in DOMAIN rows :
        Library(p) /\ On(p) /\ disk[p] \notin replaced =>
            \/ rows[p].sha = disk[p]
            \/ p \in cut \/ \E k \in Actor : To(k) = p

\* Sooner or later no drop waits in the Inbox that no run has started after: the watcher
\* forgets nothing that arrives while a run is on, or while another starts (daemons.py
\* 258-302), unless a run ended in an exception.
NoDropForgotten ==
    <>[](\A d \in unseen : d.at \notin PendingFiles \/ aborted \/ runs = MaxRuns)
=============================================================================

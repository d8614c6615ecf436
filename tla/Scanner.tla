------------------------------- MODULE Scanner -------------------------------
(***************************************************************************)
(* Scanning, matching and catalogues: the jobs scan, match and             *)
(* download_dats of handlers/scan.py with scan_library, CatalogMatcher and *)
(* the games table (database/repositories).                                *)
(*                                                                         *)
(* Each job has a slot of its own, so a scan and a match run together.  A  *)
(* job writes the table in one transaction: SQLite lets one job at a time  *)
(* hold it, from its first write to its commit, and the others wait for 30 *)
(* seconds and fail.  A file is a content and a stamp, its mtime and size; *)
(* every write of the user gives it a new one.                             *)
(*                                                                         *)
(* Two fields are observations that no step reads: aged, of a row whose    *)
(* stamp a quick scan moved on while its hash stayed, and took, the hashes *)
(* the match found in the rows when it began.                              *)
(***************************************************************************)
EXTENDS Library

CONSTANTS
    Batch,       \* _HASH_FLUSH_BATCH, _HASH_BATCH_FILES: files hashed together
    Serials,     \* of a content: the boot serial of a PlayStation disc
    MaxEdits     \* bound on the writes of the user

VARIABLES
    stamp,    \* mtime and size of each file
    games,    \* the committed rows
    dats,     \* the files of the catalogues: [kind, list, fresh]
    lock,     \* the job whose transaction has the database
    draft,    \* the rows as that job has written them
    scan, match, fetch,   \* the jobs
    edits     \* writes of the user so far

scanVars == <<stamp, games, dats, lock, draft, scan, match, fetch, edits>>
tree == <<disk, stamp, edits>>
table == <<games, lock, draft>>
jobs == <<scan, match, fetch>>
still == <<trash, rows, purged, work>>

NoScan == [at |-> "idle", kind |-> None, known |-> <<>>, listed |-> <<>>, left |-> {}, seen |-> {},
           held |-> <<>>, shas |-> <<>>, md5s |-> <<>>, cut |-> FALSE, errors |-> FALSE]
NoMatch == [at |-> "idle", todo |-> <<>>, took |-> <<>>, read |-> {None}, cut |-> FALSE]
NoFetch == [at |-> "idle", todo |-> {}, now |-> None, seen |-> {}]

Roms0 == {p \in DOMAIN disk : p.ext \notin SaveExts}
-----------------------------------------------------------------------------
(* The table and its transactions *)

Table(job) == IF lock = job THEN draft ELSE games
\* The first write of batch() takes the database; the rest of them find it taken.
Write(job, g) == lock \in {None, job} /\ lock' = job /\ draft' = g /\ UNCHANGED games
Commit(job) ==
    IF lock = job THEN games' = draft /\ lock' = None /\ draft' = <<>> ELSE UNCHANGED table

NewRow == [sha |-> None, md5 |-> None, title |-> None, sure |-> None, marked |-> FALSE, aged |-> FALSE]
RowIn(g, p) == IF p \in DOMAIN g THEN g[p] ELSE NewRow
\* upsert_game: an empty hash keeps the one of the row; title and marks stay.
Upsert(g, found) ==
    [p \in DOMAIN found \cup DOMAIN g |->
        IF p \notin DOMAIN found THEN g[p]
        ELSE [sha |-> IF found[p].sha # None THEN found[p].sha ELSE RowIn(g, p).sha,
              md5 |-> IF found[p].md5 # None THEN found[p].md5 ELSE RowIn(g, p).md5,
              stamp |-> found[p].stamp, title |-> RowIn(g, p).title,
              sure |-> RowIn(g, p).sure, marked |-> RowIn(g, p).marked,
              aged |-> RowIn(g, p).aged /\ found[p].sha = None]]
Found1(sha, md5, at) == [sha |-> sha, md5 |-> md5, stamp |-> at]
-----------------------------------------------------------------------------
(* The scan of a folder of the PC: scan_library *)

\* Mutant: an unchanged row is not hashed, with a hash or without one.
AnyKnown(p) == TRUE
\* A full scan hashes the row that has no hash, even when the file has not changed.
HasHash(p) == scan.kind = "quick" \/ scan.known[p].sha # None
Unchanged(p) == p \in DOMAIN scan.known /\ scan.known[p].stamp = stamp[p] /\ HasHash(p)

StartScan(kind) ==
    /\ Does(kind) /\ scan.at = "idle" /\ starts < MaxStarts
    /\ starts' = starts + 1
    /\ scan' = [NoScan EXCEPT !.at = "walk", !.kind = kind, !.known = games,
                            !.listed = stamp, !.left = DOMAIN disk]
    /\ UNCHANGED <<trash, rows, purged, tale, todo, tree, table, dats, match, fetch>>

OnPc == scan.kind \in {"full", "quick"}
Walking == scan.at = "walk" /\ OnPc /\ ~scan.cut
ScanStep == UNCHANGED <<still, tree, dats, match, fetch>>

\* The file is gone, or is known and as it was.
WalkPast(p) ==
    /\ Walking /\ p \in scan.left
    /\ ~On(p) \/ (p \in Roms0 /\ Unchanged(p))
    /\ scan' = [scan EXCEPT !.left = @ \ {p}, !.seen = IF On(p) THEN @ \cup {p} ELSE @]
    /\ UNCHANGED table /\ ScanStep
\* A ROM to hash is held until the batch is full.
WalkHold(p) ==
    /\ Walking /\ p \in scan.left /\ scan.kind = "full"
    /\ p \in Roms0 /\ ~Unchanged(p) /\ Cardinality(DOMAIN scan.held) < Batch
    /\ scan' = [scan EXCEPT !.left = @ \ {p}, !.seen = @ \cup {p}, !.held = Put(@, p, stamp[p])]
    /\ UNCHANGED table /\ ScanStep
\* A quick scan has no hash to write, and keeps the one of a changed file.
Skimmed(g, p) ==
    [Upsert(g, [q \in {p} |-> Found1(None, None, stamp[p])]) EXCEPT ![p].aged = @ \/ RowIn(g, p).sha # None]
WalkQuick(p) ==
    /\ Walking /\ p \in scan.left /\ scan.kind = "quick"
    /\ p \in Roms0 /\ ~Unchanged(p)
    /\ scan' = [scan EXCEPT !.left = @ \ {p}, !.seen = @ \cup {p}]
    /\ Write("scan", Skimmed(Table("scan"), p)) /\ ScanStep

\* A save has a table of its own; the first one that is stored takes the database.
WalkSave(p) ==
    /\ Walking /\ p \in scan.left /\ On(p) /\ p \notin Roms0
    /\ scan' = [scan EXCEPT !.left = @ \ {p}, !.seen = @ \cup {p}]
    /\ Write("scan", Table("scan")) /\ ScanStep

WalkOver == scan.left = {} \/ scan.cut
\* _flush_hash_batch: what cannot be read, or not before the cancellation, is not written.
Flush ==
    /\ scan.at = "walk" /\ OnPc /\ DOMAIN scan.held # {}
    /\ WalkOver \/ Cardinality(DOMAIN scan.held) = Batch
    /\ \E read \in SUBSET {p \in DOMAIN scan.held : On(p)} :
         LET missed == DOMAIN scan.held \ read IN
         /\ scan.cut \/ Fault("read") \/ missed \subseteq {p \in DOMAIN scan.held : ~On(p)}
         /\ scan' = [scan EXCEPT !.held = <<>>, !.errors = @ \/ (missed # {} /\ ~scan.cut)]
         /\ IF read = {} THEN UNCHANGED table
            ELSE Write("scan", Upsert(Table("scan"),
                     [p \in read |-> Found1(disk[p], None, scan.held[p])]))
    /\ ScanStep

EndScan ==
    /\ scan.at = "walk" /\ OnPc /\ WalkOver /\ DOMAIN scan.held = {}
    /\ scan' = [scan EXCEPT !.at = "prune"]
    /\ Commit("scan") /\ ScanStep

\* Mutant: whatever was not seen.
AlwaysPrunes == TRUE
\* scan_library prunes always, a device only when nothing cut its scan short.
Prunes == scan.kind # "adb" \/ ~scan.cut
\* prune_stale_entries: the rows without a file that the walk has seen go, with their
\* metadata, tags and history.
Prune ==
    /\ scan.at = "prune" /\ lock = None
    /\ games' = IF Prunes THEN Restrict(games, DOMAIN games \cap scan.seen) ELSE games
    /\ scan' = NoScan
    /\ UNCHANGED <<lock, draft>> /\ ScanStep

\* POST /api/stop-job.
CancelScan ==
    /\ Fault("cancel") /\ scan.at # "idle" /\ ~scan.cut
    /\ scan' = [scan EXCEPT !.cut = TRUE]
    /\ UNCHANGED table /\ ScanStep

\* "database is locked" is no OSError: the scan ends there.
ScanLocked ==
    /\ Fault("locked") /\ scan.at \in {"walk", "prune"} /\ lock \notin {None, "scan"}
    /\ scan' = NoScan
    /\ UNCHANGED table /\ ScanStep
-----------------------------------------------------------------------------
(* The scan of a device over ADB: _do_adb_scan *)

\* The listing is one command; get_known_hashes takes the rows that have both hashes.
StartAdb ==
    /\ Does("adbscan") /\ scan.at = "idle" /\ starts < MaxStarts
    /\ starts' = starts + 1
    /\ scan' = [NoScan EXCEPT
                  !.at = "sha1", !.kind = "adb", !.listed = stamp, !.left = DOMAIN disk,
                  !.known = Restrict(games, {p \in DOMAIN games : None \notin {games[p].sha, games[p].md5}})]
    /\ UNCHANGED <<trash, rows, purged, tale, todo, tree, table, dats, match, fetch>>

Reused(p) == p \in DOMAIN scan.known /\ scan.known[p].stamp = scan.listed[p]
\* hash_batch_now: what the row knows, and the SHA1 of the rest on the device.
HashSha ==
    /\ scan.at = "sha1" /\ ~scan.cut
    /\ \E b \in SUBSET scan.left :
         /\ Cardinality(b) = Min({Batch, Cardinality(scan.left)}) /\ b # {}
         /\ LET old == {p \in b : Reused(p)}
                rest == {p \in b \ old : On(p)} IN
            \E ok \in IF Fault("hash") THEN BOOLEAN ELSE {TRUE} :
                scan' = [scan EXCEPT
                    !.at = IF ok THEN "md5" ELSE "store", !.held = [p \in b |-> scan.listed[p]],
                    !.shas = [p \in IF ok THEN old \cup rest ELSE old |->
                                 IF p \in old THEN scan.known[p].sha ELSE disk[p]],
                    !.md5s = [p \in old |-> scan.known[p].md5], !.errors = @ \/ ~ok]
    /\ UNCHANGED table /\ ScanStep
HashMd5 ==
    LET rest == {p \in DOMAIN scan.held : On(p) /\ ~Reused(p)} IN
    /\ scan.at = "md5"
    /\ \E ok \in IF Fault("hash") /\ ~scan.cut THEN BOOLEAN ELSE {~scan.cut} :
         scan' = [scan EXCEPT
             !.at = "store", !.errors = @ \/ (~ok /\ ~scan.cut),
             !.md5s = [p \in DOMAIN @ \cup IF ok THEN rest ELSE {} |-> IF p \in DOMAIN @ THEN @[p] ELSE disk[p]]]
    /\ UNCHANGED table /\ ScanStep

\* _mtime_to_store: a changed file that was not hashed is given a stamp no file has.
StampToStore(p) ==
    LET changed == p \in DOMAIN scan.known /\ scan.known[p].stamp # scan.listed[p]
        rehashed == p \in DOMAIN scan.shas /\ p \in DOMAIN scan.md5s IN
    IF changed /\ ~rehashed THEN 0 ELSE scan.listed[p]
Hash(f, p) == IF p \in DOMAIN f THEN f[p] ELSE None

\* The rows of the batch; a cancellation is looked at before each file after the first.
Store ==
    /\ scan.at = "store"
    /\ \E b \in (SUBSET DOMAIN scan.held) \ {{}} :
         /\ scan.cut \/ b = DOMAIN scan.held
         /\ Write("scan", Upsert(Table("scan"),
                [p \in b |-> Found1(Hash(scan.shas, p), Hash(scan.md5s, p), StampToStore(p))]))
         /\ scan' = [scan EXCEPT !.at = "sha1", !.left = @ \ b, !.seen = @ \cup b,
                                 !.held = <<>>, !.shas = <<>>, !.md5s = <<>>]
    /\ ScanStep

EndAdb ==
    /\ scan.at = "sha1" /\ WalkOver
    /\ scan' = [scan EXCEPT !.at = "prune"]
    /\ Commit("scan") /\ ScanStep
-----------------------------------------------------------------------------
(* CatalogMatcher *)

\* _load: every catalogue that parses, but the DATs of platforms that have no folder here.
Catalogue == {e \in UNION {dats[d].list : d \in DOMAIN dats} : e.dir = "arcade" \/ e.platform # None}
Best(es) == CHOOSE e \in es : \A f \in es : e.rank <= f.rank
Named(e, sure) == [title |-> e.title, sure |-> sure]

Bases(e) == Tags[e.title].base
\* Mutant: any catalogue will do.
OfAnyPlatform(p, hits) == hits
\* The hits on the platform of the file, when that is known.
OfPlatform(p, hits) == {e \in hits : TruePlatform(p) \in {None, e.platform}}
\* SYSTEM.CNF tells the region of a PlayStation disc.
OfSerial(p, es) ==
    IF TruePlatform(p) = "psx" /\ On(p) THEN {e \in es : e.serial # None /\ e.serial = Serials[disk[p]]} ELSE {}
OfDisc(p, es) == {e \in es : Tags[p.stem].disc # 0 /\ Tags[e.title].disc = Tags[p.stem].disc}

\* _match_by_title: one candidate, or the one that the disc itself or its number tells.
ByName(p, cat) ==
    LET hits == {e \in cat : e.dir # "arcade" /\ Bases(e) = Tags[p.stem].base}
        here == OfPlatform(p, hits)
        told == IF Cardinality(here) > 1 THEN OfSerial(p, here) ELSE {}
        left == IF told = {} THEN here ELSE told IN
    IF Tags[p.stem].kind = "hack" \/ here = {} THEN None
    ELSE IF Cardinality(hits) = 1 THEN Named(Best(here), "medium")
    ELSE IF Cardinality(told) = 1 THEN Named(Best(told), "medium")
    ELSE IF OfDisc(p, left) # {} THEN Named(Best(OfDisc(p, left)), "low")
    ELSE IF Cardinality(left) = 1 THEN Named(Best(left), "low") ELSE None

\* _match_arcade: the short name of a set, which is its title.
ByStem(p, cat) ==
    IF p.ext = "zip" /\ \E e \in cat : e.dir = "arcade" /\ e.title = p.stem
    THEN [title |-> p.stem, sure |-> "medium"] ELSE None

Either(a, b) == IF a # None THEN a ELSE b
\* match: the SHA1, then the names; a set of MAME first among the arcade machines.
MatchOf(sha, p, cat) ==
    LET same == {e \in cat : e.dir # "arcade" /\ e.sha = sha} IN
    IF same # {} THEN Named(Best(same), "high")
    ELSE IF p.ext = "zip" /\ Tags[p.stem].kind = "set" THEN Either(ByStem(p, cat), ByName(p, cat))
    ELSE Either(ByName(p, cat), ByStem(p, cat))
-----------------------------------------------------------------------------
(* The job match *)

MatchStep == UNCHANGED <<still, tree, dats, scan, fetch>>
\* get_unresolved_games: the rows without a match, and the doubtful ones when asked for.
Unresolved(low) ==
    [p \in {q \in DOMAIN games : games[q].sure = None \/ (low /\ games[q].sure = "low")} |-> games[p].sha]
StartMatch(low) ==
    /\ Does("match") /\ match.at = "idle" /\ starts < MaxStarts
    /\ starts' = starts + 1
    /\ match' = [NoMatch EXCEPT !.at = "match", !.todo = Unresolved(low), !.took = Unresolved(low)]
    /\ UNCHANGED <<trash, rows, purged, tale, todo, tree, table, dats, scan, fetch>>
\* The catalogues are read at the first game; a row that is gone is not updated.
MatchOne(p) ==
    /\ match.at = "match" /\ ~match.cut /\ p \in DOMAIN match.todo
    /\ LET cat == IF match.read = {None} THEN Catalogue ELSE match.read
           found == MatchOf(match.todo[p], p, cat)
           g == Table("match") IN
       /\ match' = [match EXCEPT !.read = cat, !.todo = Without(@, {p})]
       /\ Write("match",
              IF p \notin DOMAIN g THEN g
              ELSE [g EXCEPT ![p].title = IF found = None THEN None ELSE found.title,
                             ![p].sure = IF found = None THEN None ELSE found.sure])
    /\ MatchStep
EndMatch ==
    /\ match.at = "match" /\ (DOMAIN match.todo = {} \/ match.cut)
    /\ match' = NoMatch
    /\ Commit("match") /\ MatchStep
CancelMatch ==
    /\ Fault("cancel") /\ match.at # "idle" /\ ~match.cut
    /\ match' = [match EXCEPT !.cut = TRUE]
    /\ UNCHANGED table /\ MatchStep
MatchLocked ==
    /\ Fault("locked") /\ match.at = "match" /\ lock \notin {None, "match"}
    /\ match' = NoMatch
    /\ UNCHANGED table /\ MatchStep
-----------------------------------------------------------------------------
(* The catalogues: _run_dat_download, _download_mame_listxml and the imports *)

FetchStep == UNCHANGED <<still, tree, table, scan, match>>
Fresh(d) == d \in DOMAIN dats /\ dats[d].fresh
File0(list) == [list |-> list, fresh |-> TRUE]
\* What the server sends: the catalogue, or a page or a part of it without entries.
Bodies(d) == {tale.sent[d]} \cup IF Fault("bad") THEN {{}} ELSE {}

StartFetch ==
    /\ Does("fetch") /\ fetch.at = "idle" /\ starts < MaxStarts
    /\ starts' = starts + 1
    /\ fetch' = [NoFetch EXCEPT !.at = "fetch", !.todo = DOMAIN tale.sent]
    /\ UNCHANGED <<trash, rows, purged, tale, todo, tree, table, dats, scan, match>>
Fetching(d) == fetch.at = "fetch" /\ d \in fetch.todo
\* It is not a week old, or the network fails.
FetchSkip(d) ==
    /\ Fetching(d) /\ (Fresh(d) \/ Fault("net"))
    /\ fetch' = [fetch EXCEPT !.todo = @ \ {d}]
    /\ UNCHANGED dats /\ FetchStep
\* A DAT is written where it is read ...
FetchOpen(d) ==
    /\ Fetching(d) /\ ~Fresh(d) /\ d # "listxml"
    /\ dats' = Put(dats, d, File0({}))
    /\ fetch' = [fetch EXCEPT !.at = "body", !.now = d, !.todo = @ \ {d}]
    /\ FetchStep
FetchBody ==
    /\ fetch.at = "body"
    /\ \E body \in Bodies(fetch.now) : dats' = Put(dats, fetch.now, File0(body))
    /\ fetch' = [fetch EXCEPT !.at = "check"]
    /\ FetchStep
\* ... and goes when it has no entries.
FetchCheck ==
    /\ fetch.at = "check"
    /\ dats' = IF dats[fetch.now].list = {} THEN Without(dats, {fetch.now}) ELSE dats
    /\ fetch' = [fetch EXCEPT !.at = "fetch", !.now = None]
    /\ FetchStep
\* 256 KB of the .part file with no <machine> in them are not the listing of MAME.
IsListXml(body) == body # {}
\* The listing of MAME goes to a .part file, which replaces the old one when it is good.
FetchXml(d) ==
    /\ Fetching(d) /\ ~Fresh(d) /\ d = "listxml"
    /\ \E body \in Bodies(d) : dats' = IF IsListXml(body) THEN Put(dats, d, File0(body)) ELSE dats
    /\ fetch' = [fetch EXCEPT !.todo = @ \ {d}]
    /\ FetchStep
EndFetch ==
    /\ fetch.at = "fetch" /\ fetch.todo = {}
    /\ fetch' = NoFetch
    /\ UNCHANGED dats /\ FetchStep

\* A week goes by.
Expire(d) ==
    /\ Fault("week") /\ Fresh(d)
    /\ dats' = [dats EXCEPT ![d].fresh = FALSE]
    /\ UNCHANGED fetch /\ FetchStep
\* _import_dats copies what begins like a DAT.
ImportDat(d) ==
    /\ Does("import") /\ d # "listxml" /\ fetch.now # d
    /\ \E body \in Bodies(d) : dats' = Put(dats, d, File0(body))
    /\ UNCHANGED fetch /\ FetchStep
\* _import_arcade_catalog parses the file before it copies it.
ImportArcade(d) ==
    /\ Does("import") /\ d = "listxml"
    /\ \E body \in Bodies(d) \ {{}} : dats' = Put(dats, d, File0(body))
    /\ UNCHANGED fetch /\ FetchStep
-----------------------------------------------------------------------------
(* The user and the rest of the program *)

\* A file is written, over another one or not: the walk of a scan may find a new one.
Edit(f) ==
    /\ edits < MaxEdits /\ edits' = edits + 1
    /\ disk' = Put(disk, f.at, f.has)
    /\ stamp' = Put(stamp, f.at, 1 + edits')
    /\ \E found \in BOOLEAN :
         scan' = IF scan.at = "walk" /\ OnPc /\ ~On(f.at) /\ found
                 THEN [scan EXCEPT !.left = @ \cup {f.at}] ELSE scan
    /\ UNCHANGED <<still, table, dats, match, fetch>>
Erase(p) ==
    /\ Fault("erase") /\ scan.at = "idle" /\ edits < MaxEdits /\ edits' = edits + 1
    /\ disk' = Without(disk, {p}) /\ stamp' = Without(stamp, {p})
    /\ UNCHANGED <<still, table, dats, jobs>>
\* The renames of other jobs: the file, and its row by its id.
Rename1(p, q) ==
    /\ Fault("rename") /\ edits < MaxEdits /\ edits' = edits + 1
    /\ p \in Roms0 /\ ~On(q) /\ lock = None /\ q \notin DOMAIN games /\ p \in DOMAIN games
    /\ disk' = Moved(p, q) /\ stamp' = Put(Without(stamp, {p}), q, stamp[p])
    /\ games' = Put(Without(games, {p}), q, games[p])
    /\ UNCHANGED <<still, lock, draft, dats, jobs>>
\* The end of the process: SQLite forgets what was not committed.
Crash ==
    /\ Fault("crash") /\ (scan.at # "idle" \/ match.at # "idle" \/ fetch.at # "idle")
    /\ lock' = None /\ draft' = <<>>
    /\ scan' = NoScan /\ match' = NoMatch /\ fetch' = NoFetch
    /\ UNCHANGED <<still, tree, games, dats>>

ScannerNext ==
    \/ \E kind \in {"full", "quick"} : StartScan(kind)
    \/ \E p \in scan.left : WalkPast(p) \/ WalkHold(p) \/ WalkQuick(p) \/ WalkSave(p)
    \/ Flush \/ EndScan \/ Prune \/ CancelScan \/ ScanLocked
    \/ StartAdb \/ HashSha \/ HashMd5 \/ Store \/ EndAdb
    \/ \E low \in BOOLEAN : StartMatch(low)
    \/ \E p \in DOMAIN match.todo : MatchOne(p)
    \/ EndMatch \/ CancelMatch \/ MatchLocked
    \/ StartFetch \/ FetchBody \/ FetchCheck \/ EndFetch
    \/ \E d \in DOMAIN tale.sent :
         FetchSkip(d) \/ FetchOpen(d) \/ FetchXml(d) \/ Expire(d) \/ ImportDat(d) \/ ImportArcade(d)
    \/ \E f \in tale.edits : Edit(f)
    \/ \E p \in Roms0, f \in tale.edits : Rename1(p, f.at)
    \/ \E p \in Roms0 : Erase(p)
    \/ Crash
-----------------------------------------------------------------------------
(* Correctness *)

\* A scan with hashes that was not cut short and reports no error leaves every file that
\* is as the scan found it with the hash of its content: no row that was written without a
\* hash is taken for known, nor one with the hash of an older content, but for the row whose
\* stamp a quick scan moved on: it keeps the old hash, and no scan looks at the file again
\* until it changes (rom_scanner.py 149, games.py 134).
ScanCompletes ==
    [][scan.at = "prune" /\ scan' = NoScan /\ Prune /\ ~scan.cut /\ ~scan.errors /\ scan.kind # "quick" =>
        \A p \in Roms0 \cap DOMAIN scan.listed : scan.listed[p] = stamp[p] =>
            p \in DOMAIN games' /\ (games'[p].sha = disk[p] \/ games'[p].aged)]_<<games, scan>>

\* A scan of a folder prunes although it was cancelled, and p is of the files it had not
\* come to (rom_scanner.py 112, 196).
CutOff(p) == OnPc /\ scan.cut /\ p \notin scan.seen
\* The row of a file that is there all along, with what the user has marked in it, is never
\* dropped: not by the prune of a scan that could not read it, nor by the one of a device
\* whose scan was cut short, nor for a file a cancelled scan of a folder had seen.
MarksStay ==
    [][\A p \in DOMAIN games :
        games[p].marked /\ On(p) /\ On(p)' /\ (p \in DOMAIN scan.listed \/ scan.at = "idle")
            => p \in DOMAIN games' \/ CutOff(p)]_<<games, disk>>

\* What the file could be, for its name: the entries of its title, on its platform, with
\* its serial and its number where these are known.
Could(p, cat) ==
    LET hits == {e \in cat : e.dir # "arcade" /\ Bases(e) = Tags[p.stem].base
                              /\ TruePlatform(p) \in {None, e.platform}}
        told == {e \in hits : TruePlatform(p) = "psx" /\ e.serial # None /\ e.serial = Serials[disk[p]]}
        left == IF told # {} THEN told ELSE hits
        disc == {e \in left : Tags[p.stem].disc # 0 /\ Tags[e.title].disc = Tags[p.stem].disc} IN
    IF disc # {} THEN disc ELSE left
\* A title given by name is the only one the catalogues have for that file: an ambiguous
\* name is left without a title, and the catalogue of another platform gives none.  A title
\* given by hash is the one of an entry with the hash that the row had when the match began;
\* a scan may have written another one since.
OnlyTitle ==
    [][\A p \in DOMAIN games \cap DOMAIN games' :
        LET new == games'[p] IN
        new.title \notin {games[p].title, None} /\ On(p) =>
            IF new.sure = "high"
            THEN \E e \in match.read : e.dir # "arcade" /\ e.sha = match.took[p] /\ e.title = new.title
            ELSE \/ p.ext = "zip" /\ new.title = p.stem
                 \/ {e.title : e \in Could(p, match.read)} = {new.title}]_games

\* A download writes d where it is read, once it is a week old (scan.py 871, 890), or the
\* user brings it himself.
InPlace(d) ==
    \/ fetch.now = d \/ (fetch'.now = d /\ ~dats[d].fresh)
    \/ Does("import") /\ UNCHANGED fetch
\* A catalogue with entries is lost to one without only by its own download, when it was
\* due, or by what the user imports over it; the listing of MAME, which goes through a
\* .part file and is parsed before it is imported, is not lost even then.
ListingKept ==
    [][\A d \in DOMAIN dats :
        dats[d].list # {} =>
            \/ d \in DOMAIN dats' /\ dats'[d].list # {}
            \/ d # "listxml" /\ InPlace(d)]_dats
=============================================================================

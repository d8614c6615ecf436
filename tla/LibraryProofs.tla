---------------------------- MODULE LibraryProofs ----------------------------
(***************************************************************************)
(* Theorems about the jobs and requests that work on one library, for any  *)
(* library, any stories and any number of threads, requests and files.     *)
(***************************************************************************)
EXTENDS LibraryRequests, FiniteSetTheorems, SequenceTheorems, WellFoundedInduction, TLAPS

\* The rows as the scan sees them: its own when it holds the database.
Seen == Table("scan")
Scans == tale.does \cap ScanJobs # {}
OfStory(s) ==
    /\ tale.does = s.does /\ tale.faults = s.faults /\ tale.edits = s.edits
-----------------------------------------------------------------------------
(* The invariant *)

\* The jobs are records of their fields.
IsScan(j) ==
    j = [at |-> j.at, kind |-> j.kind, known |-> j.known, listed |-> j.listed, left |-> j.left, seen |-> j.seen,
         held |-> j.held, shas |-> j.shas, md5s |-> j.md5s, cut |-> j.cut, errors |-> j.errors]
IsMatch(j) == j = [at |-> j.at, todo |-> j.todo, took |-> j.took, read |-> j.read, cut |-> j.cut]

\* The jobs and the transaction that one of them may have.
LockInv ==
    /\ IsScan(scan) /\ IsMatch(match)
    /\ scan.at \in {"idle", "walk", "sha1", "md5", "store", "prune"}
    /\ lock \in {None, "scan", "match"}
    /\ lock = "scan" => scan.at \in {"walk", "sha1", "md5", "store"}
    /\ lock = "match" => match.at = "match"
    /\ scan.at # "idle" =>
        /\ scan.kind \in {"full", "quick", "adb"}
        /\ scan.at = "walk" => scan.kind # "adb"
        /\ scan.at \in {"sha1", "md5", "store"} => scan.kind = "adb"
        /\ Does(IF scan.kind = "adb" THEN "adbscan" ELSE scan.kind)

\* What a transaction has written of the rows that were there: a scan drops none, and a
\* match changes nothing but titles.
SameFile(r, s) ==
    r.sha = s.sha /\ r.md5 = s.md5 /\ r.stamp = s.stamp /\ r.marked = s.marked /\ r.aged = s.aged
DraftInv ==
    /\ lock # None => DOMAIN games \subseteq DOMAIN draft
    /\ lock = "match" =>
        /\ DOMAIN draft = DOMAIN games
        /\ \A p \in DOMAIN games : SameFile(draft[p], games[p])

\* The rows are as a row is, and no row is from later than the files.
RowOK(r) == IsRow(r) /\ r.stamp \in Int /\ r.stamp <= 1 + edits
RowsInv ==
    /\ edits \in Nat
    /\ \A p \in DOMAIN games : RowOK(games[p])
    /\ lock # None => \A p \in DOMAIN draft : RowOK(draft[p])

\* A scan has the files for itself.
AloneInv ==
    /\ Idle /\ checked = {}
    /\ scan.cut => Fault("cancel")
FilesInv ==
    /\ DOMAIN stamp = DOMAIN disk
    /\ \A p \in DOMAIN disk : stamp[p] \in Int /\ 1 <= stamp[p] /\ stamp[p] <= 1 + edits /\ disk[p] # None

\* No quick scan has moved the stamp of a row of a device.
NoneAged(g) == \A p \in DOMAIN g : ~g[p].aged
AgedInv == Does("adbscan") => NoneAged(games) /\ (lock # None => NoneAged(draft))

\* Every row tells the truth about a file that is as it was, unless a quick scan moved its stamp.
Truthful(g) == \A p \in DOMAIN g : On(p) => SaysTrue(tale.does, g[p], stamp[p], disk[p])
TruthInv == Truthful(games) /\ (lock # None => Truthful(draft))

\* What the scan has listed is there, and is not from later than the files; what it has
\* dealt with it has seen.
ListedInv ==
    scan.at # "idle" =>
        /\ DOMAIN scan.listed \subseteq DOMAIN disk
        /\ \A p \in DOMAIN scan.listed :
             /\ scan.listed[p] \in Int /\ scan.listed[p] <= stamp[p]
             /\ ~scan.cut => p \in scan.left \cup scan.seen
             /\ ~scan.cut /\ scan.at = "prune" => p \in scan.seen
        /\ \A p \in DOMAIN scan.held : scan.held[p] \in Int /\ scan.held[p] <= 1 + edits

\* The row of a file has the hash of its content, unless a quick scan moved its stamp.
Hashed(p) == p \in DOMAIN Seen /\ (Seen[p].sha = disk[p] \/ Seen[p].aged)
\* A row that the scan takes for known is one that it need not write.
KnownInv ==
    scan.at # "idle" =>
        \A p \in DOMAIN scan.known :
            /\ scan.known[p].stamp \in Int /\ scan.known[p].stamp <= 1 + edits
            /\ scan.kind = "adb" => scan.known[p].sha # None /\ scan.known[p].md5 # None /\ ~scan.known[p].aged
            /\ On(p) /\ scan.known[p].stamp = stamp[p] /\ scan.known[p].sha # None =>
                 /\ p \in DOMAIN scan.listed => scan.listed[p] = stamp[p]
                 /\ scan.known[p].sha = disk[p] \/ scan.known[p].aged
                 /\ scan.kind \in {"full", "adb"} => Hashed(p)

\* A file that is as it was listed, and that the scan has nothing left to do with, is hashed.
Waiting(p) ==
    CASE scan.at = "walk" -> p \in scan.left \cup DOMAIN scan.held
      [] scan.at = "prune" -> FALSE
      [] OTHER -> p \in scan.left
DoneInv ==
    scan.at # "idle" /\ scan.kind # "quick" /\ ~scan.cut /\ ~scan.errors =>
        \A p \in DOMAIN scan.listed :
            p.ext \notin SaveExts /\ scan.listed[p] = stamp[p] => Waiting(p) \/ Hashed(p)

\* The batch of a device: what was hashed of it, and the rows that are still to be written.
BatchInv ==
    scan.at \in {"sha1", "md5", "store"} =>
        /\ scan.left \subseteq DOMAIN scan.listed
        /\ DOMAIN scan.held \subseteq scan.left
        /\ \A p \in scan.left :
             p \in DOMAIN Seen /\ Seen[p].sha # None /\ Seen[p].md5 # None =>
                 p \in DOMAIN scan.known /\ Seen[p].stamp = scan.known[p].stamp
        /\ scan.at # "sha1" =>
             /\ DOMAIN scan.md5s \subseteq DOMAIN scan.shas
             /\ scan.at = "md5" \/ ~scan.errors => DOMAIN scan.held \subseteq DOMAIN scan.shas
             /\ \A p \in DOMAIN scan.held : Reused(p) => p \in DOMAIN scan.shas
             /\ \A p \in DOMAIN scan.shas :
                  p \in DOMAIN scan.listed /\ (scan.listed[p] = stamp[p] => scan.shas[p] = disk[p])

ScanInv ==
    /\ AloneInv /\ FilesInv /\ AgedInv /\ TruthInv
    /\ ListedInv /\ KnownInv /\ DoneInv /\ BatchInv

IInv ==
    /\ \E s \in Stories : OfStory(s)
    /\ LockInv /\ DraftInv /\ RowsInv
    /\ Scans => ScanInv
    /\ ~Scans => scan.at = "idle"
-----------------------------------------------------------------------------
(* The steps *)

\* What a step of the scan leaves of its record.
Kept == scan'.kind = scan.kind /\ scan'.known = scan.known /\ scan'.listed = scan.listed
Batched == scan'.shas = scan.shas /\ scan'.md5s = scan.md5s

LEMMA NoScanFields ==
    /\ IsScan(NoScan) /\ NoScan.at = "idle" /\ IsMatch(NoMatch) /\ NoMatch.at = "idle"
    /\ DOMAIN NoScan.held = {} /\ DOMAIN NoScan.shas = {} /\ DOMAIN NoScan.md5s = {}
BY DEF IsScan, IsMatch, NoScan, NoMatch

LEMMA StartScanFields ==
    ASSUME NEW kind, StartScan(kind)
    PROVE  /\ IsScan(scan') /\ scan.at = "idle" /\ scan'.at = "walk" /\ scan'.kind = kind /\ scan'.known = games
           /\ scan'.listed = stamp /\ scan'.left = DOMAIN disk /\ DOMAIN scan'.held = {}
           /\ ~scan'.cut /\ ~scan'.errors
<1>1. PICK n : n = NoScan
  OBVIOUS
<1>2. IsScan(n) /\ DOMAIN n.held = {} /\ ~n.cut /\ ~n.errors
  BY <1>1, NoScanFields DEF NoScan
<1>3. scan' = [n EXCEPT !.at = "walk", !.kind = kind, !.known = games, !.listed = stamp, !.left = DOMAIN disk]
      /\ scan.at = "idle"
  BY <1>1 DEF StartScan
<1>. QED
  BY <1>2, <1>3 DEF IsScan

LEMMA StartAdbFields ==
    ASSUME StartAdb
    PROVE  /\ IsScan(scan') /\ scan.at = "idle" /\ scan'.at = "sha1" /\ scan'.kind = "adb"
           /\ scan'.known = Restrict(games, {p \in DOMAIN games : None \notin {games[p].sha, games[p].md5}})
           /\ scan'.listed = stamp /\ scan'.left = DOMAIN disk /\ DOMAIN scan'.held = {}
           /\ ~scan'.cut /\ ~scan'.errors
<1>1. PICK n : n = NoScan
  OBVIOUS
<1>2. IsScan(n) /\ DOMAIN n.held = {} /\ ~n.cut /\ ~n.errors
  BY <1>1, NoScanFields DEF NoScan
<1>3. scan' = [n EXCEPT !.at = "sha1", !.kind = "adb", !.listed = stamp, !.left = DOMAIN disk,
                        !.known = Restrict(games, {p \in DOMAIN games : None \notin {games[p].sha, games[p].md5}})]
      /\ scan.at = "idle"
  BY <1>1 DEF StartAdb
<1>. QED
  BY <1>2, <1>3 DEF IsScan

LEMMA WalkFields ==
    ASSUME IsScan(scan), NEW p, WalkPast(p) \/ WalkHold(p) \/ WalkQuick(p) \/ WalkSave(p)
    PROVE  /\ IsScan(scan') /\ Kept /\ Batched /\ scan.at = "walk" /\ scan'.at = "walk" /\ ~scan.cut /\ ~scan'.cut
           /\ scan'.errors = scan.errors /\ scan.kind # "adb" /\ p \in scan.left /\ scan'.left = scan.left \ {p}
           /\ scan'.seen = IF On(p) THEN scan.seen \cup {p} ELSE scan.seen
           /\ scan'.held = IF WalkHold(p) THEN Put(scan.held, p, stamp[p]) ELSE scan.held
<1>1. CASE WalkPast(p) /\ ~WalkHold(p)
  BY <1>1 DEF IsScan, WalkPast, Kept, Batched, Walking, OnPc
<1>2. CASE WalkHold(p)
  BY <1>2 DEF IsScan, WalkHold, Kept, Batched, Walking, OnPc, Roms0, On
<1>3. CASE WalkQuick(p) /\ ~WalkHold(p)
  BY <1>3 DEF IsScan, WalkQuick, Kept, Batched, Walking, OnPc, Roms0, On
<1>4. CASE WalkSave(p) /\ ~WalkHold(p)
  BY <1>4 DEF IsScan, WalkSave, Kept, Batched, Walking, OnPc, On
<1>. QED
  BY <1>1, <1>2, <1>3, <1>4

LEMMA NoEntries == DOMAIN <<>> = {}
OBVIOUS

LEMMA FlushFields ==
    ASSUME IsScan(scan), Flush
    PROVE  /\ IsScan(scan') /\ Kept /\ Batched /\ scan.at = "walk" /\ scan'.at = "walk" /\ scan'.cut = scan.cut
           /\ scan'.left = scan.left /\ scan'.seen = scan.seen /\ DOMAIN scan'.held = {}
           /\ scan.kind # "adb"
           /\ scan.errors => scan'.errors
           /\ \E read \in SUBSET DOMAIN scan.held :
                /\ \A p \in read : On(p)
                /\ ~scan.cut /\ read # DOMAIN scan.held => scan'.errors
                /\ \/ read = {} /\ UNCHANGED table
                   \/ read # {} /\ Write("scan", Upsert(Seen, [p \in read |-> Found1(disk[p], None, scan.held[p])]))
<1>1. PICK read \in SUBSET {p \in DOMAIN scan.held : On(p)} :
         /\ scan' = [scan EXCEPT !.held = <<>>, !.errors = @ \/ (DOMAIN scan.held \ read # {} /\ ~scan.cut)]
         /\ IF read = {} THEN UNCHANGED table
            ELSE Write("scan", Upsert(Table("scan"), [p \in read |-> Found1(disk[p], None, scan.held[p])]))
  BY DEF Flush
<1>2. PICK none : none = <<>>
  OBVIOUS
<1>3. PICK bad : bad = (scan.errors \/ (DOMAIN scan.held \ read # {} /\ ~scan.cut))
  OBVIOUS
<1>4. scan' = [scan EXCEPT !.held = none, !.errors = bad]
  BY <1>1, <1>2, <1>3
<1>5. /\ IsScan(scan') /\ Kept /\ Batched /\ scan'.at = scan.at /\ scan'.cut = scan.cut
      /\ scan'.left = scan.left /\ scan'.seen = scan.seen /\ scan'.held = none /\ scan'.errors = bad
  BY <1>4 DEF IsScan, Kept, Batched
<1>6. scan.at = "walk" /\ scan.kind # "adb"
  BY DEF Flush, OnPc
<1>. QED
  BY <1>1, <1>2, <1>3, <1>5, <1>6, NoEntries DEF Seen

LEMMA EndScanFields ==
    ASSUME IsScan(scan), EndScan \/ EndAdb
    PROVE  /\ IsScan(scan') /\ Kept /\ scan.at \in {"walk", "sha1"} /\ scan'.at = "prune" /\ scan'.cut = scan.cut
           /\ scan'.left = scan.left /\ scan'.seen = scan.seen /\ scan'.held = scan.held /\ scan'.errors = scan.errors
           /\ scan.left = {} \/ scan.cut
           /\ scan.at = "walk" => DOMAIN scan.held = {}
BY DEF IsScan, EndScan, EndAdb, Kept, WalkOver

LEMMA CancelScanFields ==
    ASSUME IsScan(scan), CancelScan
    PROVE  /\ IsScan(scan') /\ Kept /\ Batched /\ scan'.at = scan.at /\ scan.at # "idle" /\ scan'.cut
           /\ scan'.left = scan.left /\ scan'.seen = scan.seen /\ scan'.held = scan.held /\ scan'.errors = scan.errors
BY DEF IsScan, CancelScan, Kept, Batched

LEMMA HashShaFields ==
    ASSUME IsScan(scan), HashSha
    PROVE  /\ IsScan(scan') /\ Kept /\ scan.at = "sha1" /\ ~scan.cut /\ ~scan'.cut
           /\ scan'.left = scan.left /\ scan'.seen = scan.seen
           /\ scan.errors => scan'.errors
           /\ \E b \in SUBSET scan.left, ok \in BOOLEAN :
                LET old == {p \in b : Reused(p)}
                    rest == {p \in b \ old : On(p)} IN
                /\ scan'.at = (IF ok THEN "md5" ELSE "store") /\ (~ok => scan'.errors)
                /\ scan'.held = [p \in b |-> scan.listed[p]]
                /\ scan'.shas = [p \in IF ok THEN old \cup rest ELSE old |->
                                    IF p \in old THEN scan.known[p].sha ELSE disk[p]]
                /\ scan'.md5s = [p \in old |-> scan.known[p].md5]
<1>. DEFINE old(b) == {p \in b : Reused(p)}
            rest(b) == {p \in b \ old(b) : On(p)}
<1>1. PICK b \in SUBSET scan.left : \E ok \in BOOLEAN :
         scan' = [scan EXCEPT
                    !.at = IF ok THEN "md5" ELSE "store", !.held = [p \in b |-> scan.listed[p]],
                    !.shas = [p \in IF ok THEN old(b) \cup rest(b) ELSE old(b) |->
                                 IF p \in old(b) THEN scan.known[p].sha ELSE disk[p]],
                    !.md5s = [p \in old(b) |-> scan.known[p].md5], !.errors = @ \/ ~ok]
  BY DEF HashSha
<1>2. PICK ok \in BOOLEAN :
         scan' = [scan EXCEPT
                    !.at = IF ok THEN "md5" ELSE "store", !.held = [p \in b |-> scan.listed[p]],
                    !.shas = [p \in IF ok THEN old(b) \cup rest(b) ELSE old(b) |->
                                 IF p \in old(b) THEN scan.known[p].sha ELSE disk[p]],
                    !.md5s = [p \in old(b) |-> scan.known[p].md5], !.errors = @ \/ ~ok]
  BY <1>1
<1>3. scan.at = "sha1" /\ ~scan.cut
  BY DEF HashSha
<1>. HIDE DEF old, rest
<1>4. /\ IsScan(scan') /\ Kept /\ ~scan'.cut /\ scan'.left = scan.left /\ scan'.seen = scan.seen
      /\ scan.errors => scan'.errors
      /\ scan'.at = (IF ok THEN "md5" ELSE "store") /\ (~ok => scan'.errors)
      /\ scan'.held = [p \in b |-> scan.listed[p]]
      /\ scan'.shas = [p \in IF ok THEN old(b) \cup rest(b) ELSE old(b) |->
                                 IF p \in old(b) THEN scan.known[p].sha ELSE disk[p]]
      /\ scan'.md5s = [p \in old(b) |-> scan.known[p].md5]
  BY <1>2, <1>3 DEF IsScan, Kept
<1>. QED
  BY <1>3, <1>4 DEF old, rest

LEMMA HashMd5Fields ==
    ASSUME IsScan(scan), HashMd5
    PROVE  /\ IsScan(scan') /\ Kept /\ scan.at = "md5" /\ scan'.at = "store" /\ scan'.cut = scan.cut
           /\ scan'.left = scan.left /\ scan'.seen = scan.seen /\ scan'.held = scan.held /\ scan'.shas = scan.shas
           /\ scan.errors => scan'.errors
           /\ DOMAIN scan'.md5s \subseteq DOMAIN scan.md5s \cup DOMAIN scan.held
<1>1. PICK rest : rest = {p \in DOMAIN scan.held : On(p) /\ ~Reused(p)}
  OBVIOUS
<1>2. PICK ok : scan' = [scan EXCEPT
             !.at = "store", !.errors = @ \/ (~ok /\ ~scan.cut),
             !.md5s = [p \in DOMAIN @ \cup IF ok THEN rest ELSE {} |-> IF p \in DOMAIN @ THEN @[p] ELSE disk[p]]]
  BY <1>1 DEF HashMd5
<1>3. PICK more : more = [p \in DOMAIN scan.md5s \cup IF ok THEN rest ELSE {} |-> IF p \in DOMAIN scan.md5s THEN scan.md5s[p] ELSE disk[p]]
  OBVIOUS
<1>4. PICK bad : bad = (scan.errors \/ (~ok /\ ~scan.cut))
  OBVIOUS
<1>5. scan' = [scan EXCEPT !.at = "store", !.errors = bad, !.md5s = more]
  BY <1>2, <1>3, <1>4
<1>6. /\ IsScan(scan') /\ Kept /\ scan'.at = "store" /\ scan'.cut = scan.cut /\ scan'.errors = bad
      /\ scan'.left = scan.left /\ scan'.seen = scan.seen /\ scan'.held = scan.held /\ scan'.shas = scan.shas
      /\ scan'.md5s = more
  BY <1>5 DEF IsScan, Kept
<1>7. DOMAIN more \subseteq DOMAIN scan.md5s \cup DOMAIN scan.held
  BY <1>1, <1>3
<1>8. scan.at = "md5"
  BY DEF HashMd5
<1>. QED
  BY <1>4, <1>6, <1>7, <1>8

LEMMA StoreFields ==
    ASSUME IsScan(scan), Store
    PROVE  /\ IsScan(scan') /\ Kept /\ scan.at = "store" /\ scan'.at = "sha1" /\ scan'.cut = scan.cut
           /\ scan'.errors = scan.errors /\ DOMAIN scan'.held = {}
           /\ \E b \in SUBSET DOMAIN scan.held :
                /\ scan'.left = scan.left \ b /\ scan'.seen = scan.seen \cup b
                /\ scan.cut \/ b = DOMAIN scan.held
                /\ Write("scan", Upsert(Seen,
                      [p \in b |-> Found1(Hash(scan.shas, p), Hash(scan.md5s, p), StampToStore(p))]))
<1>1. PICK b \in SUBSET DOMAIN scan.held :
         /\ scan.cut \/ b = DOMAIN scan.held
         /\ Write("scan", Upsert(Table("scan"),
                [p \in b |-> Found1(Hash(scan.shas, p), Hash(scan.md5s, p), StampToStore(p))]))
         /\ scan' = [scan EXCEPT !.at = "sha1", !.left = @ \ b, !.seen = @ \cup b,
                                 !.held = <<>>, !.shas = <<>>, !.md5s = <<>>]
  BY DEF Store
<1>2. PICK none : none = <<>>
  OBVIOUS
<1>3. scan' = [scan EXCEPT !.at = "sha1", !.left = @ \ b, !.seen = @ \cup b, !.held = none, !.shas = none, !.md5s = none]
  BY <1>1, <1>2
<1>4. /\ IsScan(scan') /\ Kept /\ scan'.at = "sha1" /\ scan'.cut = scan.cut /\ scan'.errors = scan.errors
      /\ scan'.held = none /\ scan'.left = scan.left \ b /\ scan'.seen = scan.seen \cup b
  BY <1>3 DEF IsScan, Kept
<1>5. scan.at = "store"
  BY DEF Store
<1>. QED
  BY <1>1, <1>2, <1>4, <1>5, NoEntries DEF Seen

LEMMA EditFields ==
    ASSUME IsScan(scan), NEW f, Edit(f)
    PROVE  /\ IsScan(scan') /\ Kept /\ Batched /\ scan'.at = scan.at /\ scan'.cut = scan.cut
           /\ scan'.seen = scan.seen /\ scan'.held = scan.held /\ scan'.errors = scan.errors
           /\ scan'.left = scan.left \/ (scan.at = "walk" /\ ~On(f.at) /\ scan'.left = scan.left \cup {f.at})
BY DEF IsScan, Edit, Kept, Batched

LEMMA MatchFields ==
    ASSUME IsMatch(match), NEW p, NEW low, StartMatch(low) \/ MatchOne(p) \/ EndMatch \/ CancelMatch \/ MatchLocked
    PROVE  IsMatch(match')
<1>1. CASE StartMatch(low)
  <2>1. PICK n : n = NoMatch
    OBVIOUS
  <2>2. IsMatch(n)
    BY <2>1, NoScanFields
  <2>3. \E t : match' = [n EXCEPT !.at = "match", !.todo = t, !.took = t]
    BY <1>1, <2>1 DEF StartMatch
  <2>. QED
    BY <2>2, <2>3 DEF IsMatch
<1>2. CASE MatchOne(p)
  BY <1>2 DEF IsMatch, MatchOne
<1>3. CASE EndMatch \/ MatchLocked
  BY <1>3, NoScanFields DEF EndMatch, MatchLocked
<1>4. CASE CancelMatch
  BY <1>4 DEF IsMatch, CancelMatch
<1>. QED
  BY <1>1, <1>2, <1>3, <1>4

LEMMA MatchStays ==
    ASSUME IsMatch(match), NEW p, MatchOne(p) \/ CancelMatch
    PROVE  match'.at = match.at
BY DEF IsMatch, MatchOne, CancelMatch
-----------------------------------------------------------------------------
(* The other requests *)

LEMMA TaleByDuplicates == ASSUME DuplicatesStep PROVE tale' = tale
<1>1. ASSUME NEW t, DuplicatesChore(t) PROVE tale' = tale
  <2>1. CASE Keep(t) \/ DiscardFile(t) \/ DiscardOnDevice(t) \/ DiscardGone(t) \/ DiscardFails(t)
    BY <2>1 DEF Keep, DiscardFile, DiscardOnDevice, DiscardGone, DiscardFails, Then
  <2>2. CASE Forget(t) \/ ForgetFails(t) \/ Drop(t) \/ (\E p \in Roms : Loser(t, p)) \/ LosersDone(t)
    BY <2>2 DEF Forget, ForgetFails, Drop, Loser, LosersDone, Then
  <2>3. CASE PlanConflicts(t) \/ DiskConflict(t) \/ Collision(t) \/ Rename(t)
    BY <2>3 DEF PlanConflicts, DiskConflict, Collision, Rename, Then
  <2>. QED
    BY <1>1, <2>1, <2>2, <2>3 DEF DuplicatesChore
<1>2. ASSUME NEW queue, WithQueue(queue) PROVE tale' = tale
  BY <1>2 DEF WithQueue, OpenQueue, ApplyAll, ByContent, ByVariant, ByCommand, Start, work
<1>3. CASE Exclude \/ Include \/ CheckSupport
  BY <1>3 DEF Exclude, Include, CheckSupport, work
<1>4. ASSUME NEW t, Resolve(t) \/ ApplyConflicts(t) \/ DeleteAll(t) \/ Delete(t) \/ DiscardUnsupported(t)
      PROVE  tale' = tale
  BY <1>4 DEF Resolve, ApplyConflicts, DeleteAll, Delete, DiscardUnsupported, Start
<1>. QED
  BY <1>1, <1>2, <1>3, <1>4 DEF DuplicatesStep

LEMMA TaleByConverters == ASSUME ConvertersStep PROVE tale' = tale
<1>1. CASE GenerateM3u \/ \E t \in Threads, del \in BOOLEAN : ConvertChd(t, del) \/ ConvertOthers(t, del) \/ Extract(t, del)
  BY <1>1 DEF GenerateM3u, ConvertChd, ConvertOthers, Extract, Start, work
<1>2. ASSUME NEW t, Bare(t) \/ Unlink(t) \/ ChdThere(t) \/ ChdMissing(t) \/ ChdGone(t) \/ Stage(t) \/ ChdmanOpens(t)
      PROVE  tale' = tale
  BY <1>2 DEF Bare, Unlink, ChdThere, ChdMissing, ChdGone, Stage, ChdmanOpens, Then
<1>3. ASSUME NEW t, Chdman(t) \/ VerifyChd(t) \/ CleanRedundant(t) \/ Clean(t) \/ CleanupCueBin(t) \/ CueBin(t) \/ CancelJob(t)
      PROVE  tale' = tale
  BY <1>3 DEF Chdman, VerifyChd, CleanRedundant, Clean, CleanupCueBin, CueBin, CancelJob, Then, Start
<1>4. ASSUME NEW t, OtherOpens(t) \/ OtherEnds(t) \/ Unzip(t) \/ MemberOpens(t) \/ MemberEnds(t) \/ Toss(t)
                    \/ GenerateCues(t) \/ WriteSheet(t) \/ CleanupZips(t)
      PROVE  tale' = tale
  BY <1>4 DEF OtherOpens, OtherEnds, Unzip, MemberOpens, MemberEnds, Toss, GenerateCues, WriteSheet, CleanupZips, Then, Start
<1>. QED
  BY <1>1, <1>2, <1>3, <1>4 DEF ConvertersStep

LEMMA TaleByOthers == ASSUME DoctorStep \/ OrganizerStep \/ Stop \/ (PurgeTrash /\ UNCHANGED work) \/ Vanish PROVE tale' = tale
<1>1. CASE AdoptSave \/ ArchiveSave \/ DeleteSave \/ MoveRom \/ JunkDelete \/ FixPlatforms
  BY <1>1 DEF AdoptSave, ArchiveSave, DeleteSave, MoveRom, JunkDelete, FixPlatforms, work
<1>2. CASE Stop \/ (PurgeTrash /\ UNCHANGED work) \/ Vanish
  BY <1>2 DEF Stop, Vanish, work
<1>3. ASSUME NEW t, PruneIncomplete(t) \/ Withdraw(t) \/ RepairIncomplete(t) \/ Bring(t) \/ RebuildSet(t) \/ WriteCue(t)
      PROVE  tale' = tale
  BY <1>3 DEF PruneIncomplete, Withdraw, RepairIncomplete, Bring, RebuildSet, WriteCue, Then, Start
<1>4. ASSUME NEW t, OrganizeLibrary(t) \/ Place(t) \/ Shelve(t) \/ Record(t) \/ FlatSaves(t) \/ Bioses(t) \/ Tidy(t)
      PROVE  tale' = tale
  BY <1>4 DEF OrganizeLibrary, Place, Shelve, Record, FlatSaves, Bioses, Tidy, Then, Start
<1>5. ASSUME NEW t, MigrateSaves(t) \/ RelocateMisplaced(t) \/ Relocate(t)
      PROVE  tale' = tale
  BY <1>5 DEF MigrateSaves, RelocateMisplaced, Relocate, Then, Start
<1>. QED
  BY <1>1, <1>2, <1>3, <1>4, <1>5 DEF DoctorStep, OrganizerStep
LEMMA TaleByScanner == ASSUME ScannerNext PROVE tale' = tale
<1>1. ASSUME NEW kind, NEW low, StartScan(kind) \/ StartAdb \/ StartMatch(low) \/ StartFetch PROVE tale' = tale
  BY <1>1 DEF StartScan, StartAdb, StartMatch, StartFetch
<1>2. ASSUME NEW p, WalkPast(p) \/ WalkHold(p) \/ WalkQuick(p) \/ WalkSave(p) \/ MatchOne(p) PROVE tale' = tale
  BY <1>2 DEF WalkPast, WalkHold, WalkQuick, WalkSave, MatchOne, ScanStep, MatchStep, still, work
<1>3. CASE Flush \/ EndScan \/ Prune \/ CancelScan \/ ScanLocked \/ HashSha \/ HashMd5 \/ Store \/ EndAdb
  BY <1>3 DEF Flush, EndScan, Prune, CancelScan, ScanLocked, HashSha, HashMd5, Store, EndAdb, ScanStep, still, work
<1>4. CASE EndMatch \/ CancelMatch \/ MatchLocked \/ FetchBody \/ FetchCheck \/ EndFetch \/ Crash
  BY <1>4 DEF EndMatch, CancelMatch, MatchLocked, FetchBody, FetchCheck, EndFetch, Crash, MatchStep, FetchStep, still, work
<1>5. ASSUME NEW d, FetchSkip(d) \/ FetchOpen(d) \/ FetchXml(d) \/ Expire(d) \/ ImportDat(d) \/ ImportArcade(d)
      PROVE  tale' = tale
  BY <1>5 DEF FetchSkip, FetchOpen, FetchXml, Expire, ImportDat, ImportArcade, FetchStep, still, work
<1>6. ASSUME NEW p, NEW f, Edit(f) \/ Rename1(p, f.at) \/ Erase(p) PROVE tale' = tale
  BY <1>6 DEF Edit, Rename1, Erase, still, work
<1>. QED
  BY <1>1, <1>2, <1>3, <1>4, <1>5, <1>6 DEF ScannerNext

LEMMA TaleStays == ASSUME Next PROVE tale' = tale
BY TaleByDuplicates, TaleByConverters, TaleByOthers, TaleByScanner DEF Next, work

Others ==
    \/ DuplicatesStep \/ (Stop /\ UNCHANGED dupVars) \/ (PurgeTrash /\ UNCHANGED <<work, dupVars>>) \/ Vanish
    \/ (ConvertersStep \/ DoctorStep \/ OrganizerStep) /\ UNCHANGED dupVars

\* What the story of a scan does not do.
OnlyScans ==
    /\ tale.does \subseteq ScanJobs \cup {"match", "fetch", "import"}
    /\ ~Fault("vanish") /\ ~Fault("rename")
LEMMA OnlyScansDoes ==
    ASSUME OnlyScans
    PROVE  /\ ~Does("review") /\ ~Does("exclude") /\ ~Does("applyAll") /\ ~Does("byContent") /\ ~Does("byVariant")
           /\ ~Does("conflicts") /\ ~Does("deleteAll") /\ ~Does("delete") /\ ~Does("noSupport")
           /\ ~Does("chd") /\ ~Does("cso") /\ ~Does("n64") /\ ~Does("extract") /\ ~Does("clean") /\ ~Does("cleanCueBin")
           /\ ~Does("cues") /\ ~Does("m3u") /\ ~Does("cleanZips") /\ ~Does("prune") /\ ~Does("repair") /\ ~Does("saves")
           /\ ~Does("moveRom") /\ ~Does("junk") /\ ~Does("organize") /\ ~Does("migrate") /\ ~Does("relocate") /\ ~Does("fix")
BY DEF OnlyScans, Does, ScanJobs

LEMMA NoDuplicates == ASSUME OnlyScans, AloneInv PROVE ~DuplicatesStep
<1>. USE OnlyScansDoes
<1>1. ASSUME NEW t \in Threads PROVE ~DuplicatesChore(t)
  <2>1. todo[t] = <<>>
    BY DEF AloneInv, Idle
  <2>2. \A do : ~Doing(t, do)
    BY <2>1 DEF Doing
  <2>3. ~(Keep(t) \/ DiscardFile(t) \/ DiscardOnDevice(t) \/ DiscardGone(t) \/ DiscardFails(t) \/ Forget(t) \/ ForgetFails(t))
    BY <2>2 DEF Keep, DiscardFile, DiscardOnDevice, DiscardGone, DiscardFails, Forget, ForgetFails
  <2>4. ~(Drop(t) \/ (\E p \in Roms : Loser(t, p)) \/ LosersDone(t) \/ PlanConflicts(t) \/ DiskConflict(t) \/ Collision(t) \/ Rename(t))
    BY <2>2 DEF Drop, Loser, LosersDone, PlanConflicts, DiskConflict, Collision, Rename
  <2>. QED
    BY <2>3, <2>4 DEF DuplicatesChore
<1>2. ASSUME NEW queue PROVE ~WithQueue(queue)
  BY DEF WithQueue, OpenQueue, ApplyAll, ByContent, ByVariant
<1>3. ~Exclude /\ ~Include /\ ~CheckSupport
  BY DEF Exclude, Include, CheckSupport
<1>4. ASSUME NEW t PROVE ~(Resolve(t) \/ ApplyConflicts(t) \/ DeleteAll(t) \/ Delete(t) \/ DiscardUnsupported(t))
  BY DEF Resolve, ApplyConflicts, DeleteAll, Delete, DiscardUnsupported, AloneInv
<1>. QED
  BY <1>1, <1>2, <1>3, <1>4 DEF DuplicatesStep

LEMMA NoOthers == ASSUME OnlyScans, AloneInv PROVE ~ConvertersStep /\ ~DoctorStep /\ ~OrganizerStep /\ ~Vanish /\ ~Stop
<1>. USE OnlyScansDoes
<1>1. \A t \in Threads : todo[t] = <<>>
  BY DEF AloneInv, Idle
<1>2. \A t \in Threads : \A do : ~Doing(t, do)
  BY <1>1 DEF Doing
<1>3. ASSUME NEW t, NEW del PROVE ~(ConvertChd(t, del) \/ ConvertOthers(t, del) \/ Extract(t, del)) /\ ~GenerateM3u
  BY DEF GenerateM3u, ConvertChd, ConvertOthers, Extract
<1>4. ASSUME NEW t \in Threads
      PROVE  ~(Bare(t) \/ Unlink(t) \/ ChdThere(t) \/ ChdMissing(t) \/ ChdGone(t) \/ Stage(t) \/ ChdmanOpens(t)
               \/ Chdman(t) \/ VerifyChd(t) \/ Clean(t) \/ CueBin(t) \/ CancelJob(t))
  BY <1>1, <1>2 DEF Bare, Unlink, ChdThere, ChdMissing, ChdGone, Stage, ChdmanOpens, Chdman, VerifyChd, Clean, CueBin, CancelJob
<1>5. ASSUME NEW t \in Threads
      PROVE  ~(OtherOpens(t) \/ OtherEnds(t) \/ Unzip(t) \/ MemberOpens(t) \/ MemberEnds(t) \/ Toss(t)
               \/ GenerateCues(t) \/ WriteSheet(t) \/ CleanupZips(t) \/ CleanRedundant(t) \/ CleanupCueBin(t))
  BY <1>2 DEF OtherOpens, OtherEnds, Unzip, MemberOpens, MemberEnds, Toss, GenerateCues, WriteSheet, CleanupZips, CleanRedundant, CleanupCueBin
<1>6. ~(AdoptSave \/ ArchiveSave \/ DeleteSave \/ MoveRom \/ JunkDelete \/ FixPlatforms \/ Vanish \/ Stop)
  BY DEF AdoptSave, ArchiveSave, DeleteSave, MoveRom, JunkDelete, FixPlatforms, Vanish, Stop, OnlyScans, AloneInv
<1>7. ASSUME NEW t \in Threads
      PROVE  ~(PruneIncomplete(t) \/ Withdraw(t) \/ RepairIncomplete(t) \/ Bring(t) \/ RebuildSet(t) \/ WriteCue(t))
  BY <1>2 DEF PruneIncomplete, Withdraw, RepairIncomplete, Bring, RebuildSet, WriteCue
<1>8. ASSUME NEW t \in Threads
      PROVE  ~(OrganizeLibrary(t) \/ Place(t) \/ Shelve(t) \/ Record(t) \/ FlatSaves(t) \/ Bioses(t) \/ Tidy(t)
               \/ MigrateSaves(t) \/ RelocateMisplaced(t) \/ Relocate(t))
  BY <1>2 DEF OrganizeLibrary, Place, Shelve, Record, FlatSaves, Bioses, Tidy, MigrateSaves, RelocateMisplaced, Relocate
<1>9. ~ConvertersStep
  BY <1>3, <1>4, <1>5 DEF ConvertersStep
<1>. QED
  BY <1>6, <1>7, <1>8, <1>9 DEF DoctorStep, OrganizerStep

\* While a story scans, nothing but its jobs and the user who writes files changes a file.
LEMMA OthersWait ==
    ASSUME OnlyScans, AloneInv, Next, ~(ScannerNext /\ UNCHANGED dupVars)
    PROVE  UNCHANGED <<disk, work, dupVars, scanVars>>
BY NoDuplicates, NoOthers DEF Next, PurgeTrash
-----------------------------------------------------------------------------
(* The jobs and the database *)

LEMMA NoneIsNoJob == None # "scan" /\ None # "match"
BY NamesAssumption

\* The scan as LockInv has it.
ScanOK ==
    /\ IsScan(scan)
    /\ scan.at \in {"idle", "walk", "sha1", "md5", "store", "prune"}
    /\ scan.at # "idle" =>
        /\ scan.kind \in {"full", "quick", "adb"}
        /\ scan.at = "walk" => scan.kind # "adb"
        /\ scan.at \in {"sha1", "md5", "store"} => scan.kind = "adb"
        /\ Does(IF scan.kind = "adb" THEN "adbscan" ELSE scan.kind)

LEMMA ScanOKStep == ASSUME ScanOK, ScannerNext, tale' = tale PROVE ScanOK'
<1>. \A what : Does(what)' = Does(what)
  BY DEF Does
<1>1. ASSUME NEW kind \in {"full", "quick"}, StartScan(kind) PROVE ScanOK'
  BY <1>1, StartScanFields DEF ScanOK, StartScan
<1>2. ASSUME NEW p, WalkPast(p) \/ WalkHold(p) \/ WalkQuick(p) \/ WalkSave(p) PROVE ScanOK'
  BY <1>2, WalkFields DEF ScanOK, Kept
<1>3. CASE Flush
  BY <1>3, FlushFields DEF ScanOK, Kept
<1>4. CASE EndScan \/ EndAdb
  BY <1>4, EndScanFields DEF ScanOK, Kept
<1>5. CASE Prune \/ ScanLocked \/ Crash
  BY <1>5, NoScanFields DEF ScanOK, Prune, ScanLocked, Crash
<1>6. CASE CancelScan
  BY <1>6, CancelScanFields DEF ScanOK, Kept
<1>7. CASE StartAdb
  BY <1>7, StartAdbFields DEF ScanOK, StartAdb
<1>8. CASE HashSha
  <2>1. scan'.at \in {"md5", "store"}
    BY <1>8, HashShaFields DEF ScanOK
  <2>. QED
    BY <1>8, <2>1, HashShaFields DEF ScanOK, Kept
<1>9. CASE HashMd5
  BY <1>9, HashMd5Fields DEF ScanOK, Kept
<1>10. CASE Store
  BY <1>10, StoreFields DEF ScanOK, Kept
<1>11. ASSUME NEW f, Edit(f) PROVE ScanOK'
  BY <1>11, EditFields DEF ScanOK, Kept
<1>12. ASSUME UNCHANGED scan PROVE ScanOK'
  BY <1>12 DEF ScanOK
<1>13. ASSUME NEW p, NEW low, StartMatch(low) \/ MatchOne(p) \/ EndMatch \/ CancelMatch \/ MatchLocked \/ StartFetch
                              \/ FetchBody \/ FetchCheck \/ EndFetch
       PROVE  UNCHANGED scan
  BY <1>13 DEF StartMatch, MatchOne, EndMatch, CancelMatch, MatchLocked, StartFetch, FetchBody, FetchCheck, EndFetch,
               MatchStep, FetchStep
<1>14. ASSUME NEW d, FetchSkip(d) \/ FetchOpen(d) \/ FetchXml(d) \/ Expire(d) \/ ImportDat(d) \/ ImportArcade(d)
       PROVE  UNCHANGED scan
  BY <1>14 DEF FetchSkip, FetchOpen, FetchXml, Expire, ImportDat, ImportArcade, FetchStep
<1>15. ASSUME NEW p, NEW q, Rename1(p, q) \/ Erase(p) PROVE UNCHANGED scan
  BY <1>15 DEF Rename1, Erase, jobs
<1>. QED
  BY <1>1, <1>2, <1>3, <1>4, <1>5, <1>6, <1>7, <1>8, <1>9, <1>10, <1>11, <1>12, <1>13, <1>14, <1>15 DEF ScannerNext

LEMMA StoryFacts ==
    ASSUME NEW s \in Stories, OfStory(s), Scans
    PROVE  /\ OnlyScans
           /\ Does("adbscan") => ~Does("full") /\ ~Does("quick")
           /\ \A f \in tale.edits : f.has # None
           /\ Does("adbscan") => NoneAged(s.known)
           /\ \A f \in s.files : f.has # None /\ (f.at \in DOMAIN s.known => SaysTrue(s.does, s.known[f.at], 1, f.has))
<1>1. s.does \cap ScanJobs # {}
  BY DEF OfStory, Scans
<1>. QED
  BY <1>1, ScansAssumption DEF OfStory, OnlyScans, Does, Fault, NoneAged

\* What a scan may write: it drops no row, titles none, only a quick one moves the stamp of
\* a hash, and none of its rows is false.
Grows(g) ==
    /\ DOMAIN Seen \subseteq DOMAIN g /\ \A p \in DOMAIN Seen : g[p].title = Seen[p].title
    /\ \A p \in DOMAIN g : RowOK(g[p])
    /\ \A p \in DOMAIN g : g[p].aged => Does("quick") \/ (p \in DOMAIN Seen /\ Seen[p].aged)
    /\ Truthful(g)
\* What a match may write.
Retitles(g) ==
    /\ DOMAIN g = DOMAIN Table("match")
    /\ \A p \in DOMAIN g : IsRow(g[p]) /\ SameFile(g[p], Table("match")[p])

\* What a step of a scan does with the table.
ScanWrite == UNCHANGED table \/ \E g : Write("scan", g) /\ Grows(g) /\ scan.at # "idle"
\* What a step does with the table, and the job that does it.
TableStep ==
    \/ UNCHANGED table
    \/ \E g : Write("scan", g) /\ (Scans => Grows(g)) /\ scan.at # "idle"
    \/ Commit("scan")
    \/ \E g : Write("match", g) /\ Retitles(g)
    \/ Commit("match")
    \/ lock = None /\ games' = Restrict(games, DOMAIN games \cap scan.seen) /\ UNCHANGED <<lock, draft>>
    \/ lock' = None /\ draft' = <<>> /\ UNCHANGED games

LEMMA SeenOK == ASSUME RowsInv, DraftInv, LockInv PROVE \A p \in DOMAIN Seen : RowOK(Seen[p])
BY NoneIsNoJob DEF RowsInv, Seen, Table

LEMMA SeenTrue == ASSUME TruthInv PROVE Truthful(Seen)
BY NoneIsNoJob DEF TruthInv, Seen, Table

LEMMA UpsertGrows ==
    ASSUME LockInv, DraftInv, RowsInv, TruthInv, NEW found,
           \A p \in DOMAIN found : found[p].stamp \in Int /\ found[p].stamp <= 1 + edits,
           \A p \in DOMAIN found : On(p) => SaysTrue(tale.does, Upsert(Seen, found)[p], stamp[p], disk[p])
    PROVE  Grows(Upsert(Seen, found))
<1>1. PICK g : g = Upsert(Seen, found)
  OBVIOUS
<1>2. /\ DOMAIN g = DOMAIN found \cup DOMAIN Seen
      /\ \A p \in DOMAIN Seen \ DOMAIN found : g[p] = Seen[p]
      /\ \A p \in DOMAIN found :
           /\ IsRow(g[p]) /\ g[p].stamp = found[p].stamp
           /\ g[p].title = RowIn(Seen, p).title /\ (g[p].aged => RowIn(Seen, p).aged)
  BY <1>1 DEF Upsert, IsRow
<1>3. \A p \in DOMAIN g : RowOK(g[p])
  BY <1>2, SeenOK DEF RowOK
<1>4. Truthful(g)
  BY <1>1, <1>2, SeenTrue DEF Truthful
<1>5. \A p \in DOMAIN g : g[p].aged => p \in DOMAIN Seen /\ Seen[p].aged
  BY <1>2 DEF RowIn, NewRow
<1>6. \A p \in DOMAIN Seen : g[p].title = Seen[p].title
  BY <1>2 DEF RowIn
<1>. QED
  BY <1>1, <1>2, <1>3, <1>4, <1>5, <1>6 DEF Grows

\* A quick scan keeps the hash of the row, and the row is aged when it has one.
LEMMA QuickGrows ==
    ASSUME LockInv, DraftInv, RowsInv, FilesInv, TruthInv, NEW p, WalkQuick(p)
    PROVE  Grows(Skimmed(Seen, p))
<1>1. PICK found : found = [q \in {p} |-> Found1(None, None, stamp[p])]
  OBVIOUS
<1>2. On(p) /\ Does("quick")
  BY DEF WalkQuick, Roms0, On, LockInv, Walking
<1>3. DOMAIN found = {p} /\ found[p].stamp = stamp[p] /\ found[p].sha = None /\ found[p].md5 = None
  BY <1>1 DEF Found1
<1>4. stamp[p] \in Int /\ stamp[p] <= 1 + edits
  BY <1>2 DEF FilesInv, On
<1>5. PICK u : u = Upsert(Seen, found)
  OBVIOUS
<1>6. /\ DOMAIN u = {p} \cup DOMAIN Seen /\ \A q \in DOMAIN Seen \ {p} : u[q] = Seen[q]
      /\ IsRow(u[p]) /\ u[p].stamp = stamp[p] /\ u[p].sha = RowIn(Seen, p).sha /\ u[p].title = RowIn(Seen, p).title
  BY <1>3, <1>5 DEF Upsert, IsRow
<1>7. PICK old \in BOOLEAN : old <=> u[p].aged \/ RowIn(Seen, p).sha # None
  OBVIOUS
<1>8. PICK g : g = [u EXCEPT ![p].aged = old]
  OBVIOUS
<1>9. Skimmed(Seen, p) = g
  BY <1>1, <1>5, <1>6, <1>7, <1>8 DEF Skimmed, IsRow
<1>10. /\ DOMAIN g = {p} \cup DOMAIN Seen /\ \A q \in DOMAIN Seen \ {p} : g[q] = Seen[q]
       /\ IsRow(g[p]) /\ g[p].stamp = stamp[p] /\ g[p].sha = RowIn(Seen, p).sha /\ g[p].title = RowIn(Seen, p).title
       /\ RowIn(Seen, p).sha # None => g[p].aged
  BY <1>6, <1>7, <1>8 DEF IsRow
<1>11. \A q \in DOMAIN g : RowOK(g[q])
  BY <1>4, <1>10, SeenOK DEF RowOK
<1>12. Truthful(g)
  BY <1>10, SeenTrue DEF Truthful, SaysTrue
<1>13. \A q \in DOMAIN Seen : g[q].title = Seen[q].title
  BY <1>10 DEF RowIn
<1>. QED
  BY <1>2, <1>9, <1>10, <1>11, <1>12, <1>13 DEF Grows

LEMMA FlushGrows ==
    ASSUME LockInv, DraftInv, RowsInv, FilesInv, TruthInv, ListedInv, NEW read \in SUBSET DOMAIN scan.held,
           \A p \in read : On(p), scan.at # "idle"
    PROVE  Grows(Upsert(Seen, [p \in read |-> Found1(disk[p], None, scan.held[p])]))
<1>1. PICK found : found = [p \in read |-> Found1(disk[p], None, scan.held[p])]
  OBVIOUS
<1>2. /\ DOMAIN found = read
      /\ \A p \in read : found[p].stamp = scan.held[p] /\ found[p].sha = disk[p] /\ found[p].md5 = None
  BY <1>1 DEF Found1
<1>3. \A p \in read : scan.held[p] \in Int /\ scan.held[p] <= 1 + edits
  BY DEF ListedInv
<1>4. ASSUME NEW p \in read PROVE Upsert(Seen, found)[p].sha = disk[p]
  BY <1>2 DEF Upsert, FilesInv, On
<1>. QED
  BY <1>1, <1>2, <1>3, <1>4, UpsertGrows DEF SaysTrue

\* The stamp of a row of a device is the listed one, or one that no file has.
LEMMA StampStored ==
    ASSUME NEW p
    PROVE  StampToStore(p) \in {0, scan.listed[p]}
BY DEF StampToStore

LEMMA StoreGrows ==
    ASSUME LockInv, DraftInv, RowsInv, FilesInv, TruthInv, ListedInv, BatchInv, scan.at = "store",
           Does("adbscan") => ~Does("quick"), NEW b \in SUBSET DOMAIN scan.held
    PROVE  Grows(Upsert(Seen, [p \in b |-> Found1(Hash(scan.shas, p), Hash(scan.md5s, p), StampToStore(p))]))
<1>1. PICK found : found = [p \in b |-> Found1(Hash(scan.shas, p), Hash(scan.md5s, p), StampToStore(p))]
  OBVIOUS
<1>2. /\ DOMAIN found = b
      /\ \A p \in b : found[p].stamp = StampToStore(p) /\ found[p].sha = Hash(scan.shas, p) /\ found[p].md5 = Hash(scan.md5s, p)
  BY <1>1 DEF Found1
<1>3. \A p \in b : p \in scan.left /\ p \in DOMAIN scan.listed /\ p \in DOMAIN disk
  BY DEF BatchInv, ListedInv
<1>4. \A p \in b : /\ scan.listed[p] \in Int /\ scan.listed[p] <= stamp[p] /\ stamp[p] \in Int
                    /\ 1 <= stamp[p] /\ stamp[p] <= 1 + edits /\ disk[p] # None /\ edits \in Nat
  BY <1>3 DEF ListedInv, FilesInv, RowsInv
<1>5. \A p \in b : found[p].stamp \in Int /\ found[p].stamp <= 1 + edits
  BY <1>2, <1>4, StampStored
<1>6. ASSUME NEW p \in b PROVE SaysTrue(tale.does, Upsert(Seen, found)[p], stamp[p], disk[p])
  <2>1. PICK r : r = Upsert(Seen, found)[p]
    OBVIOUS
  <2>2. /\ r.sha = IF Hash(scan.shas, p) # None THEN Hash(scan.shas, p) ELSE RowIn(Seen, p).sha
        /\ r.md5 = IF Hash(scan.md5s, p) # None THEN Hash(scan.md5s, p) ELSE RowIn(Seen, p).md5
        /\ r.stamp = StampToStore(p)
    BY <1>2, <2>1 DEF Upsert
  <2>3. Does("adbscan") /\ ~Does("quick")
    BY DEF LockInv
  <2>4. SUFFICES ASSUME r.sha # None, r.md5 # None, StampToStore(p) = stamp[p]
                 PROVE  r.sha = disk[p]
    BY <2>1, <2>2, <2>3 DEF SaysTrue, Does
  <2>5. scan.listed[p] = stamp[p]
    BY <1>4, <2>4, StampStored
  <2>6. CASE p \in DOMAIN scan.shas
    <3>1. scan.shas[p] = disk[p]
      BY <2>5, <2>6 DEF BatchInv
    <3>. QED
      BY <1>4, <2>2, <2>6, <3>1 DEF Hash
  <2>7. CASE p \notin DOMAIN scan.shas
    <3>1. p \notin DOMAIN scan.md5s
      BY <2>7 DEF BatchInv
    <3>2. p \in DOMAIN Seen /\ Seen[p].sha # None /\ Seen[p].md5 # None
      BY <2>2, <2>4, <2>7, <3>1 DEF Hash, RowIn, NewRow
    <3>3. p \in DOMAIN scan.known
      BY <1>3, <3>2 DEF BatchInv
    <3>4. scan.known[p].stamp = scan.listed[p]
      BY <1>4, <2>4, <2>7, <3>3 DEF StampToStore
    <3>5. p \in DOMAIN scan.held
      OBVIOUS
    <3>. QED
      BY <2>7, <3>3, <3>4, <3>5 DEF BatchInv, Reused
  <2>. QED
    BY <2>6, <2>7
<1>. QED
  BY <1>1, <1>2, <1>5, <1>6, UpsertGrows

LEMMA StoryOf ==
    ASSUME IInv, Scans
    PROVE  /\ OnlyScans /\ ScanInv
           /\ Does("adbscan") => ~Does("full") /\ ~Does("quick")
           /\ \A f \in tale.edits : f.has # None
BY StoryFacts DEF IInv

LEMMA ScanWrites ==
    ASSUME IInv, ScannerNext, NEW p, WalkQuick(p) \/ WalkSave(p) \/ Flush \/ Store
    PROVE  ScanWrite /\ UNCHANGED tree
<1>1. scan.at # "idle" /\ Scans /\ LockInv /\ DraftInv /\ RowsInv
  BY DEF WalkQuick, WalkSave, Flush, Store, Walking, IInv
<1>2. FilesInv /\ TruthInv /\ ListedInv /\ BatchInv /\ IsScan(scan)
  BY <1>1, StoryOf DEF ScanInv, LockInv
<1>3. UNCHANGED tree
  BY DEF WalkQuick, WalkSave, Flush, Store, ScanStep, tree
<1>4. CASE WalkQuick(p)
  <2>1. Grows(Skimmed(Seen, p))
    BY <1>1, <1>2, <1>4, QuickGrows
  <2>. QED
    BY <1>1, <1>3, <1>4, <2>1 DEF ScanWrite, WalkQuick, Seen
<1>5. CASE WalkSave(p)
  <2>1. Grows(Seen)
    BY <1>1, <1>2, SeenOK, SeenTrue DEF Grows
  <2>. QED
    BY <1>1, <1>3, <1>5, <2>1 DEF ScanWrite, WalkSave, Seen
<1>6. CASE Flush
  <2>1. PICK read \in SUBSET DOMAIN scan.held :
          /\ \A x \in read : On(x)
          /\ \/ UNCHANGED table
             \/ Write("scan", Upsert(Seen, [x \in read |-> Found1(disk[x], None, scan.held[x])]))
    BY <1>2, <1>6, FlushFields
  <2>2. Grows(Upsert(Seen, [x \in read |-> Found1(disk[x], None, scan.held[x])]))
    BY <1>1, <1>2, <2>1, FlushGrows
  <2>. QED
    BY <1>1, <1>3, <2>1, <2>2 DEF ScanWrite
<1>7. CASE Store
  <2>1. PICK b \in SUBSET DOMAIN scan.held :
          Write("scan", Upsert(Seen, [x \in b |-> Found1(Hash(scan.shas, x), Hash(scan.md5s, x), StampToStore(x))]))
    BY <1>2, <1>7, StoreFields
  <2>2. Grows(Upsert(Seen, [x \in b |-> Found1(Hash(scan.shas, x), Hash(scan.md5s, x), StampToStore(x))]))
    BY <1>1, <1>2, <1>7, StoreGrows, StoryOf DEF Store
  <2>. QED
    BY <1>1, <1>3, <2>1, <2>2 DEF ScanWrite
<1>. QED
  BY <1>4, <1>5, <1>6, <1>7

LEMMA MatchWrites ==
    ASSUME IInv, NEW p, MatchOne(p)
    PROVE  \E g : Write("match", g) /\ Retitles(g)
<1>1. PICK g : g = Table("match")
  OBVIOUS
<1>2. \A q \in DOMAIN g : IsRow(g[q])
  BY <1>1, NoneIsNoJob DEF IInv, RowsInv, RowOK, Table, LockInv
<1>3. PICK found : Write("match",
              IF p \notin DOMAIN g THEN g
              ELSE [g EXCEPT ![p].title = IF found = None THEN None ELSE found.title,
                             ![p].sure = IF found = None THEN None ELSE found.sure])
  BY <1>1 DEF MatchOne
<1>4. PICK t : t = IF found = None THEN None ELSE found.title
  OBVIOUS
<1>5. PICK u : u = IF found = None THEN None ELSE found.sure
  OBVIOUS
<1>6. CASE p \notin DOMAIN g
  BY <1>1, <1>2, <1>3, <1>6 DEF Retitles, SameFile
<1>7. CASE p \in DOMAIN g
  <2>1. PICK g1 : g1 = [g EXCEPT ![p].title = t]
    OBVIOUS
  <2>2. PICK g2 : g2 = [g1 EXCEPT ![p].sure = u]
    OBVIOUS
  <2>3. DOMAIN g1 = DOMAIN g /\ \A q \in DOMAIN g : IsRow(g1[q]) /\ SameFile(g1[q], g[q])
    BY <1>2, <2>1 DEF IsRow, SameFile
  <2>4. DOMAIN g2 = DOMAIN g /\ \A q \in DOMAIN g : IsRow(g2[q]) /\ SameFile(g2[q], g[q])
    BY <2>2, <2>3 DEF IsRow, SameFile
  <2>5. Write("match", g2)
    BY <1>3, <1>4, <1>5, <1>7, <2>1, <2>2
  <2>. QED
    BY <1>1, <2>4, <2>5 DEF Retitles
<1>. QED
  BY <1>6, <1>7

LEMMA TableSteps ==
    ASSUME IInv, ScannerNext
    PROVE  \/ TableStep /\ UNCHANGED tree
           \/ UNCHANGED table
           \/ \E p, q : Rename1(p, q)
<1>1. ASSUME NEW kind, NEW low, StartScan(kind) \/ StartAdb \/ StartMatch(low) \/ StartFetch PROVE UNCHANGED table
  BY <1>1 DEF StartScan, StartAdb, StartMatch, StartFetch
<1>2. ASSUME NEW p, WalkPast(p) \/ WalkHold(p) PROVE UNCHANGED table
  BY <1>2 DEF WalkPast, WalkHold
<1>3. CASE CancelScan \/ ScanLocked \/ HashSha \/ HashMd5
  BY <1>3 DEF CancelScan, ScanLocked, HashSha, HashMd5
<1>4. CASE CancelMatch \/ MatchLocked \/ FetchBody \/ FetchCheck \/ EndFetch
  BY <1>4 DEF CancelMatch, MatchLocked, FetchBody, FetchCheck, EndFetch, MatchStep, FetchStep
<1>5. ASSUME NEW d, FetchSkip(d) \/ FetchOpen(d) \/ FetchXml(d) \/ Expire(d) \/ ImportDat(d) \/ ImportArcade(d)
      PROVE  UNCHANGED table
  BY <1>5 DEF FetchSkip, FetchOpen, FetchXml, Expire, ImportDat, ImportArcade, FetchStep
<1>6. ASSUME NEW p, NEW f, Edit(f) \/ Erase(p) PROVE UNCHANGED table
  BY <1>6 DEF Edit, Erase
<1>7. CASE EndScan \/ EndAdb \/ EndMatch
  BY <1>7 DEF EndScan, EndAdb, EndMatch, ScanStep, MatchStep, TableStep
<1>8. CASE Prune
  BY <1>8 DEF Prune, ScanStep, TableStep, table
<1>9. CASE Crash
  BY <1>9 DEF Crash, TableStep, tree
<1>10. ASSUME NEW p, MatchOne(p) PROVE TableStep /\ UNCHANGED tree
  BY <1>10, MatchWrites DEF TableStep, MatchOne, MatchStep
<1>11. ASSUME NEW p, WalkQuick(p) \/ WalkSave(p) \/ Flush \/ Store PROVE TableStep /\ UNCHANGED tree
  BY <1>11, ScanWrites DEF TableStep, ScanWrite
<1>. QED
  BY <1>1, <1>2, <1>3, <1>4, <1>5, <1>6, <1>7, <1>8, <1>9, <1>10, <1>11 DEF ScannerNext
-----------------------------------------------------------------------------
(* The table stays right *)

LEMMA DraftStep ==
    ASSUME IInv, TableStep
    PROVE  DraftInv'
<1>. USE NoneIsNoJob
<1>1. CASE UNCHANGED table
  BY <1>1 DEF IInv, DraftInv, table
<1>2. CASE \E g : Write("scan", g) /\ (Scans => Grows(g)) /\ scan.at # "idle"
  BY <1>2 DEF IInv, DraftInv, Write, Grows, Seen, Table
<1>3. CASE Commit("scan") \/ Commit("match")
  BY <1>3 DEF IInv, DraftInv, Commit, table
<1>4. CASE \E g : Write("match", g) /\ Retitles(g)
  BY <1>4 DEF IInv, DraftInv, Write, Retitles, Table, SameFile
<1>5. CASE lock = None /\ UNCHANGED <<lock, draft>>
  BY <1>5 DEF DraftInv
<1>6. CASE lock' = None
  BY <1>6 DEF DraftInv
<1>. QED
  BY <1>1, <1>2, <1>3, <1>4, <1>5, <1>6 DEF TableStep

LEMMA RowsStep ==
    ASSUME IInv, TableStep, edits' = edits
    PROVE  RowsInv'
<1>. USE NoneIsNoJob
<1>1. LockInv /\ DraftInv /\ RowsInv /\ (scan.at # "idle" => Scans)
  BY DEF IInv
<1>2. CASE UNCHANGED table
  BY <1>1, <1>2 DEF RowsInv, RowOK, table
<1>3. CASE \E g : Write("scan", g) /\ (Scans => Grows(g)) /\ scan.at # "idle"
  BY <1>1, <1>3 DEF RowsInv, RowOK, Write, Grows
<1>4. CASE Commit("scan") \/ Commit("match")
  BY <1>1, <1>4 DEF RowsInv, RowOK, Commit, table
<1>5. CASE \E g : Write("match", g) /\ Retitles(g)
  <2>1. PICK g : Write("match", g) /\ Retitles(g)
    BY <1>5
  <2>2. \A p \in DOMAIN Table("match") : RowOK(Table("match")[p])
    BY <1>1 DEF RowsInv, Table
  <2>. QED
    BY <1>1, <2>1, <2>2 DEF RowsInv, RowOK, Write, Retitles, SameFile
<1>6. CASE lock = None /\ games' = Restrict(games, DOMAIN games \cap scan.seen) /\ UNCHANGED <<lock, draft>>
  BY <1>1, <1>6 DEF RowsInv, RowOK, Restrict
<1>7. CASE lock' = None /\ draft' = <<>> /\ UNCHANGED games
  BY <1>1, <1>7 DEF RowsInv, RowOK
<1>. QED
  BY <1>2, <1>3, <1>4, <1>5, <1>6, <1>7 DEF TableStep

LEMMA AgedInvStep ==
    ASSUME IInv, Scans, TableStep, tale' = tale
    PROVE  AgedInv'
<1>. USE NoneIsNoJob
<1>1. LockInv /\ DraftInv /\ AgedInv
  BY DEF IInv, ScanInv
<1>2. SUFFICES ASSUME Does("adbscan")
               PROVE  NoneAged(games') /\ (lock' # None => NoneAged(draft'))
  BY DEF AgedInv, Does, NoneAged
<1>3. NoneAged(games) /\ (lock # None => NoneAged(draft))
  BY <1>1, <1>2 DEF AgedInv
<1>10. ~Does("quick")
  BY <1>2, StoryOf
<1>4. CASE UNCHANGED table
  BY <1>3, <1>4 DEF table
<1>5. CASE \E g : Write("scan", g) /\ (Scans => Grows(g)) /\ scan.at # "idle"
  BY <1>3, <1>5, <1>10 DEF NoneAged, Write, Grows, Seen, Table
<1>6. CASE Commit("scan") \/ Commit("match")
  BY <1>3, <1>6 DEF Commit, table
<1>7. CASE \E g : Write("match", g) /\ Retitles(g)
  BY <1>3, <1>7 DEF NoneAged, Write, Retitles, SameFile, Table
<1>8. CASE lock = None /\ games' = Restrict(games, DOMAIN games \cap scan.seen) /\ UNCHANGED <<lock, draft>>
  BY <1>3, <1>8 DEF NoneAged, Restrict
<1>9. CASE lock' = None /\ draft' = <<>> /\ UNCHANGED games
  BY <1>3, <1>9
<1>. QED
  BY <1>4, <1>5, <1>6, <1>7, <1>8, <1>9 DEF TableStep

LEMMA TruthStep ==
    ASSUME IInv, Scans, TableStep, tale' = tale, UNCHANGED tree
    PROVE  TruthInv'
<1>. USE NoneIsNoJob
<1>1. TruthInv
  BY DEF IInv, ScanInv
<1>4. CASE UNCHANGED table
  BY <1>1, <1>4 DEF TruthInv, Truthful, table, tree, On
<1>5. CASE \E g : Write("scan", g) /\ (Scans => Grows(g)) /\ scan.at # "idle"
  BY <1>1, <1>5 DEF TruthInv, Truthful, Write, Grows, tree, On
<1>6. CASE Commit("scan") \/ Commit("match")
  BY <1>1, <1>6 DEF TruthInv, Truthful, Commit, table, tree, On
<1>7. CASE \E g : Write("match", g) /\ Retitles(g)
  <2>1. PICK g : Write("match", g) /\ Retitles(g)
    BY <1>7
  <2>2. Truthful(Table("match"))
    BY <1>1 DEF TruthInv, Table
  <2>. QED
    BY <1>1, <2>1, <2>2 DEF TruthInv, Truthful, SaysTrue, Write, Retitles, SameFile, tree, On
<1>8. CASE lock = None /\ games' = Restrict(games, DOMAIN games \cap scan.seen) /\ UNCHANGED <<lock, draft>>
  BY <1>1, <1>8 DEF TruthInv, Truthful, Restrict, tree, On
<1>9. CASE lock' = None /\ draft' = <<>> /\ UNCHANGED games
  BY <1>1, <1>9 DEF TruthInv, Truthful, tree, On
<1>. QED
  BY <1>4, <1>5, <1>6, <1>7, <1>8, <1>9 DEF TableStep

\* Who has the database.
LockOK ==
    /\ IsMatch(match) /\ lock \in {None, "scan", "match"}
    /\ lock = "scan" => scan.at \in {"walk", "sha1", "md5", "store"}
    /\ lock = "match" => match.at = "match"

LEMMA LockOKStep ==
    ASSUME LockInv, ScannerNext
    PROVE  LockOK'
<1>. USE NoneIsNoJob
<1>1. LockOK /\ IsScan(scan)
  BY DEF LockInv, LockOK
<1>2. ASSUME UNCHANGED lock, UNCHANGED match, scan'.at = scan.at PROVE LockOK'
  BY <1>1, <1>2 DEF LockOK
<1>3. ASSUME NEW kind, StartScan(kind) \/ StartAdb PROVE LockOK'
  <2>1. UNCHANGED <<lock, match>> /\ scan.at = "idle"
    BY <1>3 DEF StartScan, StartAdb, table
  <2>. QED
    BY <1>1, <2>1 DEF LockOK
<1>4. ASSUME NEW p, WalkPast(p) \/ WalkHold(p) \/ WalkQuick(p) \/ WalkSave(p) PROVE LockOK'
  <2>1. scan'.at = "walk" /\ UNCHANGED match /\ lock' \in {lock, "scan"}
    BY <1>1, <1>4, WalkFields DEF WalkPast, WalkHold, WalkQuick, WalkSave, ScanStep, table, Write
  <2>2. scan.at = "walk"
    BY <1>1, <1>4, WalkFields
  <2>. QED
    BY <1>1, <2>1, <2>2 DEF LockOK
<1>5. CASE Flush
  <2>1. scan.at = "walk" /\ scan'.at = "walk" /\ UNCHANGED match /\ lock' \in {lock, "scan"}
    BY <1>1, <1>5, FlushFields DEF Flush, ScanStep, table, Write
  <2>. QED
    BY <1>1, <2>1 DEF LockOK
<1>6. CASE EndScan \/ EndAdb
  <2>1. scan'.at = "prune" /\ UNCHANGED match /\ Commit("scan")
    BY <1>1, <1>6, EndScanFields DEF EndScan, EndAdb, ScanStep
  <2>. QED
    BY <1>1, <2>1 DEF LockOK, Commit, table
<1>7. CASE Prune
  BY <1>1, <1>7 DEF LockOK, Prune, ScanStep
<1>8. CASE CancelScan
  BY <1>1, <1>2, <1>8, CancelScanFields DEF CancelScan, table, ScanStep
<1>9. CASE ScanLocked
  BY <1>1, <1>9 DEF LockOK, ScanLocked, table, ScanStep
<1>10. CASE HashSha
  <2>1. scan'.at \in {"md5", "store"} /\ scan.at = "sha1" /\ UNCHANGED <<lock, match>>
    BY <1>1, <1>10, HashShaFields DEF HashSha, table, ScanStep
  <2>. QED
    BY <1>1, <2>1 DEF LockOK
<1>11. CASE HashMd5
  <2>1. scan'.at = "store" /\ scan.at = "md5" /\ UNCHANGED <<lock, match>>
    BY <1>1, <1>11, HashMd5Fields DEF HashMd5, table, ScanStep
  <2>. QED
    BY <1>1, <2>1 DEF LockOK
<1>12. CASE Store
  <2>1. scan'.at = "sha1" /\ UNCHANGED match /\ lock' = "scan"
    BY <1>1, <1>12, StoreFields DEF Store, Write, ScanStep
  <2>. QED
    BY <1>1, <2>1 DEF LockOK
<1>13. ASSUME NEW low, StartMatch(low) PROVE LockOK'
  BY <1>1, <1>13, MatchFields DEF LockOK, StartMatch, table
<1>14. ASSUME NEW p, MatchOne(p) PROVE LockOK'
  <2>1. lock' = "match" /\ UNCHANGED scan /\ match'.at = "match" /\ IsMatch(match')
    BY <1>1, <1>14, MatchFields, MatchStays DEF LockOK, MatchOne, MatchStep, Write
  <2>. QED
    BY <1>1, <2>1 DEF LockOK
<1>15. CASE EndMatch
  BY <1>1, <1>15, MatchFields DEF LockOK, EndMatch, Commit, table, MatchStep
<1>16. CASE CancelMatch
  <2>1. IsMatch(match') /\ match'.at = match.at
    BY <1>1, <1>16, MatchFields, MatchStays DEF LockOK
  <2>. QED
    BY <1>1, <1>16, <2>1 DEF LockOK, CancelMatch, table, MatchStep
<1>17. CASE MatchLocked
  BY <1>1, <1>17, MatchFields DEF LockOK, MatchLocked, table, MatchStep
<1>18. CASE StartFetch \/ FetchBody \/ FetchCheck \/ EndFetch
  BY <1>1, <1>2, <1>18 DEF StartFetch, FetchBody, FetchCheck, EndFetch, FetchStep, table
<1>19. ASSUME NEW d, FetchSkip(d) \/ FetchOpen(d) \/ FetchXml(d) \/ Expire(d) \/ ImportDat(d) \/ ImportArcade(d)
       PROVE  LockOK'
  BY <1>1, <1>2, <1>19 DEF FetchSkip, FetchOpen, FetchXml, Expire, ImportDat, ImportArcade, FetchStep, table
<1>20. ASSUME NEW f, Edit(f) PROVE LockOK'
  BY <1>1, <1>2, <1>20, EditFields DEF Edit, table
<1>21. ASSUME NEW p, NEW q, Rename1(p, q) \/ Erase(p) PROVE LockOK'
  BY <1>1, <1>2, <1>21 DEF Rename1, Erase, table, jobs
<1>22. CASE Crash
  BY <1>1, <1>22, NoScanFields DEF LockOK, Crash
<1>. QED
  BY <1>3, <1>4, <1>5, <1>6, <1>7, <1>8, <1>9, <1>10, <1>11, <1>12, <1>13, <1>14, <1>15, <1>16, <1>17, <1>18, <1>19,
     <1>20, <1>21, <1>22 DEF ScannerNext
-----------------------------------------------------------------------------
(* What a scan has done stays done *)

\* The scan goes on seeing the same rows.
SameRows ==
    DOMAIN Seen' = DOMAIN Seen /\ \A p \in DOMAIN Seen : SameFile(Seen'[p], Seen[p])

LEMMA SameRowsUnless ==
    ASSUME LockInv, DraftInv, NEW g,
           UNCHANGED table \/ Commit("scan") \/ (Write("match", g) /\ Retitles(g)) \/ Commit("match")
    PROVE  SameRows
<1>. USE NoneIsNoJob DEF SameFile
<1>1. CASE UNCHANGED table
  BY <1>1 DEF SameRows, Seen, Table, table
<1>2. CASE Commit("scan")
  BY <1>2 DEF SameRows, Seen, Table, Commit, table, LockInv
<1>3. CASE Write("match", g)
  BY <1>3 DEF SameRows, Seen, Table, Write, LockInv
<1>4. CASE Commit("match")
  BY <1>4 DEF SameRows, Seen, Table, Commit, table, LockInv, DraftInv
<1>. QED
  BY <1>1, <1>2, <1>3, <1>4

LEMMA WrittenRows ==
    ASSUME NEW g, Write("scan", g)
    PROVE  Seen' = g
BY DEF Write, Seen, Table

\* A row that is written keeps a true hash, or is given one.
LEMMA WrittenHash ==
    ASSUME NEW found, Write("scan", Upsert(Seen, found)), NEW p, UNCHANGED disk,
           p \in DOMAIN found => (found[p].sha = None /\ Hashed(p)) \/ (found[p].sha = disk[p] /\ disk[p] # None),
           p \notin DOMAIN found => Hashed(p)
    PROVE  Hashed(p)'
<1>1. Seen' = Upsert(Seen, found)
  BY WrittenRows
<1>. QED
  BY <1>1 DEF Hashed, Upsert, RowIn

ScanParts == ListedInv /\ KnownInv /\ DoneInv /\ BatchInv

\* A step of another job, while the scan waits.
LEMMA AsideStep ==
    ASSUME ScanParts, SameRows, UNCHANGED <<scan, disk, stamp, edits>>
    PROVE  ScanParts'
<1>1. \A p : Hashed(p) => Hashed(p)'
  BY DEF SameRows, SameFile, Hashed
<1>2. ListedInv'
  BY DEF ScanParts, ListedInv
<1>3. KnownInv'
  BY <1>1 DEF ScanParts, KnownInv, On
<1>4. DoneInv'
  BY <1>1 DEF ScanParts, DoneInv, Waiting
<1>5. BatchInv'
  BY DEF ScanParts, BatchInv, SameRows, SameFile, Reused
<1>. QED
  BY <1>2, <1>3, <1>4, <1>5 DEF ScanParts

LEMMA IdleParts == ASSUME scan'.at = "idle" PROVE ScanParts'
BY DEF ScanParts, ListedInv, KnownInv, DoneInv, BatchInv

\* The facts a step of a scan starts from.
Ready ==
    /\ LockInv /\ DraftInv /\ RowsInv /\ ScanInv
    /\ Does("adbscan") => ~Does("full") /\ ~Does("quick")

LEMMA StartScanParts ==
    ASSUME Ready, NEW kind \in {"full", "quick"}, StartScan(kind)
    PROVE  ScanParts'
<1>1. /\ scan'.at = "walk" /\ scan'.kind = kind /\ scan'.known = games /\ scan'.listed = stamp
      /\ scan'.left = DOMAIN disk /\ DOMAIN scan'.held = {} /\ ~scan'.cut /\ ~scan'.errors
  BY StartScanFields
<1>2. UNCHANGED <<disk, stamp, edits>> /\ UNCHANGED table /\ Seen = games /\ Seen' = games
  BY NoneIsNoJob, StartScanFields DEF StartScan, tree, table, Seen, Table, Ready, LockInv
<1>3. FilesInv /\ Truthful(games) /\ (\A p \in DOMAIN games : RowOK(games[p])) /\ ~Does("adbscan")
  BY DEF Ready, ScanInv, TruthInv, RowsInv, StartScan
<1>4. ListedInv'
  BY <1>1, <1>2, <1>3 DEF ListedInv, FilesInv
<1>5. KnownInv'
  BY <1>1, <1>2, <1>3 DEF KnownInv, FilesInv, Truthful, SaysTrue, RowOK, On, Hashed, Does
<1>6. DoneInv'
  BY <1>1, <1>2, <1>3 DEF DoneInv, Waiting, FilesInv
<1>. QED
  BY <1>1, <1>4, <1>5, <1>6 DEF ScanParts, BatchInv

LEMMA StartAdbParts ==
    ASSUME Ready, StartAdb
    PROVE  ScanParts'
<1>1. /\ scan'.at = "sha1" /\ scan'.kind = "adb" /\ scan'.listed = stamp
      /\ scan'.known = Restrict(games, {p \in DOMAIN games : None \notin {games[p].sha, games[p].md5}})
      /\ scan'.left = DOMAIN disk /\ DOMAIN scan'.held = {} /\ ~scan'.cut /\ ~scan'.errors
  BY StartAdbFields
<1>2. UNCHANGED <<disk, stamp, edits>> /\ UNCHANGED table /\ Seen = games /\ Seen' = games
  BY NoneIsNoJob, StartAdbFields DEF StartAdb, tree, table, Seen, Table, Ready, LockInv
<1>3. FilesInv /\ Truthful(games) /\ (\A p \in DOMAIN games : RowOK(games[p])) /\ NoneAged(games)
  BY DEF Ready, ScanInv, TruthInv, RowsInv, StartAdb, AgedInv
<1>4. /\ DOMAIN scan'.known = {p \in DOMAIN games : games[p].sha # None /\ games[p].md5 # None}
      /\ \A p \in DOMAIN scan'.known : scan'.known[p] = games[p]
  BY <1>1 DEF Restrict
<1>5. ListedInv'
  BY <1>1, <1>2, <1>3 DEF ListedInv, FilesInv
<1>6. KnownInv'
  BY <1>1, <1>2, <1>3, <1>4 DEF KnownInv, FilesInv, Truthful, SaysTrue, RowOK, On, Hashed, Does, NoneAged
<1>7. DoneInv'
  BY <1>1, <1>2, <1>3 DEF DoneInv, Waiting, FilesInv
<1>8. BatchInv'
  BY <1>1, <1>2, <1>3, <1>4 DEF BatchInv, FilesInv
<1>. QED
  BY <1>5, <1>6, <1>7, <1>8 DEF ScanParts

LEMMA ReadyFacts ==
    ASSUME Ready
    PROVE  /\ IsScan(scan) /\ LockInv /\ FilesInv /\ edits \in Nat
           /\ ListedInv /\ KnownInv /\ DoneInv /\ BatchInv
BY DEF Ready, LockInv, ScanInv, RowsInv

\* A file of the walk: what the row says of it, if the scan takes it for known.
LEMMA WalkParts ==
    ASSUME Ready, NEW p, WalkPast(p) \/ WalkHold(p) \/ WalkQuick(p) \/ WalkSave(p)
    PROVE  ScanParts'
<1>. USE ReadyFacts
<1>1. /\ Kept /\ scan.at = "walk" /\ scan'.at = "walk" /\ ~scan.cut /\ ~scan'.cut
      /\ scan'.errors = scan.errors /\ scan.kind # "adb" /\ p \in scan.left /\ scan'.left = scan.left \ {p}
      /\ scan'.seen = (IF On(p) THEN scan.seen \cup {p} ELSE scan.seen)
      /\ scan'.held = IF WalkHold(p) THEN Put(scan.held, p, stamp[p]) ELSE scan.held
  BY WalkFields
<1>2. UNCHANGED <<disk, stamp, edits>>
  BY DEF WalkPast, WalkHold, WalkQuick, WalkSave, ScanStep, tree
<1>3. /\ DOMAIN scan'.held = (IF WalkHold(p) THEN DOMAIN scan.held \cup {p} ELSE DOMAIN scan.held)
      /\ \A q \in DOMAIN scan.held : q # p => scan'.held[q] = scan.held[q]
      /\ WalkHold(p) => scan'.held[p] = stamp[p] /\ On(p)
      /\ ~WalkHold(p) => scan'.held = scan.held
  BY <1>1 DEF Put, WalkHold, Roms0, On
<1>4. scan.kind # "quick" => \A q : Hashed(q) => Hashed(q)'
  <2>1. CASE WalkPast(p) \/ WalkHold(p)
    <3>1. SameRows
      BY <2>1, SameRowsUnless DEF WalkPast, WalkHold, Ready
    <3>. QED
      BY <1>2, <3>1 DEF SameRows, SameFile, Hashed
  <2>2. CASE WalkSave(p)
    <3>1. Seen' = Seen
      BY <2>2, WrittenRows DEF WalkSave, Seen
    <3>. QED
      BY <1>2, <3>1 DEF Hashed
  <2>3. CASE WalkQuick(p)
    BY <2>3 DEF WalkQuick
  <2>. QED
    BY <2>1, <2>2, <2>3
<1>5. ListedInv'
  BY <1>1, <1>2, <1>3 DEF ListedInv, Kept, FilesInv, On
<1>6. KnownInv'
  BY <1>1, <1>2, <1>4 DEF KnownInv, Kept, On
<1>7. DoneInv'
  <2>1. SUFFICES ASSUME scan.kind # "quick", ~scan.errors, NEW q \in DOMAIN scan.listed,
                        q.ext \notin SaveExts, scan.listed[q] = stamp[q]
                 PROVE  q \in scan'.left \cup DOMAIN scan'.held \/ Hashed(q)'
    BY <1>1, <1>2 DEF DoneInv, Kept, Waiting
  <2>2. q \in scan.left \cup DOMAIN scan.held \/ Hashed(q)
    BY <1>1, <2>1 DEF DoneInv, Waiting
  <2>3. CASE q # p
    BY <1>1, <1>3, <1>4, <2>1, <2>2, <2>3
  <2>4. CASE q = p
    <3>1. On(p) /\ p \in Roms0
      BY <1>1, <2>1, <2>4 DEF ListedInv, On, Roms0
    <3>2. CASE WalkPast(p)
      <4>1. p \in DOMAIN scan.known /\ scan.known[p].stamp = stamp[p] /\ scan.known[p].sha # None
        BY <2>1, <3>1, <3>2 DEF WalkPast, Unchanged, HasHash
      <4>2. scan.kind = "full"
        BY <1>1, <2>1 DEF LockInv
      <4>3. Hashed(p)
        BY <1>1, <3>1, <4>1, <4>2 DEF KnownInv
      <4>. QED
        BY <1>4, <2>1, <2>4, <4>3
    <3>3. CASE WalkHold(p)
      BY <1>3, <2>4, <3>3
    <3>4. ~WalkQuick(p) /\ ~WalkSave(p)
      BY <2>1, <3>1 DEF WalkQuick, WalkSave
    <3>. QED
      BY <3>2, <3>3, <3>4
  <2>. QED
    BY <2>3, <2>4
<1>. QED
  BY <1>1, <1>5, <1>6, <1>7 DEF ScanParts, BatchInv

LEMMA FlushParts ==
    ASSUME Ready, Flush
    PROVE  ScanParts'
<1>. USE ReadyFacts
<1>1. /\ Kept /\ scan.at = "walk" /\ scan'.at = "walk" /\ scan'.cut = scan.cut
      /\ scan'.left = scan.left /\ scan'.seen = scan.seen /\ DOMAIN scan'.held = {}
      /\ scan.errors => scan'.errors
  BY FlushFields
<1>2. PICK read \in SUBSET DOMAIN scan.held :
         /\ \A p \in read : On(p)
         /\ ~scan.cut /\ read # DOMAIN scan.held => scan'.errors
         /\ \/ read = {} /\ UNCHANGED table
            \/ read # {} /\ Write("scan", Upsert(Seen, [p \in read |-> Found1(disk[p], None, scan.held[p])]))
  BY FlushFields
<1>3. UNCHANGED <<disk, stamp, edits>>
  BY DEF Flush, ScanStep, tree
<1>4. ASSUME NEW q, Hashed(q) \/ q \in read PROVE Hashed(q)'
  <2>1. CASE read = {} /\ UNCHANGED table
    <3>1. SameRows
      BY <2>1, SameRowsUnless DEF Ready
    <3>. QED
      BY <1>3, <1>4, <2>1, <3>1 DEF SameRows, SameFile, Hashed
  <2>2. CASE read # {} /\ Write("scan", Upsert(Seen, [p \in read |-> Found1(disk[p], None, scan.held[p])]))
    <3>1. PICK found : found = [p \in read |-> Found1(disk[p], None, scan.held[p])]
      OBVIOUS
    <3>2. DOMAIN found = read /\ (q \in read => found[q].sha = disk[q] /\ disk[q] # None)
      BY <1>2, <3>1 DEF Found1, FilesInv, On
    <3>. QED
      BY <1>3, <1>4, <2>2, <3>1, <3>2, WrittenHash
  <2>. QED
    BY <1>2, <2>1, <2>2
<1>5. ListedInv'
  BY <1>1, <1>3 DEF ListedInv, Kept
<1>6. KnownInv'
  BY <1>1, <1>3, <1>4 DEF KnownInv, Kept, On
<1>7. DoneInv'
  <2>1. SUFFICES ASSUME scan.kind # "quick", ~scan.cut, ~scan'.errors, NEW q \in DOMAIN scan.listed,
                        q.ext \notin SaveExts, scan.listed[q] = stamp[q]
                 PROVE  q \in scan'.left \/ Hashed(q)'
    BY <1>1, <1>3 DEF DoneInv, Kept, Waiting
  <2>2. q \in scan.left \cup DOMAIN scan.held \/ Hashed(q)
    BY <1>1, <2>1 DEF DoneInv, Waiting
  <2>. QED
    BY <1>1, <1>2, <1>4, <2>1, <2>2
<1>. QED
  BY <1>1, <1>5, <1>6, <1>7 DEF ScanParts, BatchInv

LEMMA EndScanParts ==
    ASSUME Ready, EndScan \/ EndAdb
    PROVE  ScanParts'
<1>. USE ReadyFacts
<1>1. /\ Kept /\ scan.at \in {"walk", "sha1"} /\ scan'.at = "prune" /\ scan'.cut = scan.cut
      /\ scan'.left = scan.left /\ scan'.seen = scan.seen /\ scan'.held = scan.held /\ scan'.errors = scan.errors
      /\ scan.left = {} \/ scan.cut
      /\ scan.at = "walk" => DOMAIN scan.held = {}
  BY EndScanFields
<1>2. SameRows /\ UNCHANGED <<disk, stamp, edits>>
  BY SameRowsUnless DEF EndScan, EndAdb, ScanStep, tree, Ready
<1>3. \A p : Hashed(p) => Hashed(p)'
  BY <1>2 DEF SameRows, SameFile, Hashed
<1>4. ListedInv'
  BY <1>1, <1>2 DEF ListedInv, Kept
<1>5. KnownInv'
  BY <1>1, <1>2, <1>3 DEF KnownInv, Kept, On
<1>6. DoneInv'
  BY <1>1, <1>2, <1>3 DEF DoneInv, Kept, Waiting
<1>. QED
  BY <1>1, <1>4, <1>5, <1>6 DEF ScanParts, BatchInv

LEMMA CancelScanParts ==
    ASSUME Ready, CancelScan
    PROVE  ScanParts'
<1>. USE ReadyFacts
<1>1. /\ Kept /\ Batched /\ scan'.at = scan.at /\ scan'.cut
      /\ scan'.left = scan.left /\ scan'.seen = scan.seen /\ scan'.held = scan.held /\ scan'.errors = scan.errors
  BY CancelScanFields
<1>2. SameRows /\ UNCHANGED <<disk, stamp, edits>>
  BY SameRowsUnless DEF CancelScan, ScanStep, tree, Ready
<1>3. \A p : Hashed(p) => Hashed(p)'
  BY <1>2 DEF SameRows, SameFile, Hashed
<1>4. ListedInv'
  BY <1>1, <1>2 DEF ListedInv, Kept
<1>5. KnownInv'
  BY <1>1, <1>2, <1>3 DEF KnownInv, Kept, On
<1>6. BatchInv'
  BY <1>1, <1>2 DEF BatchInv, Kept, Batched, SameRows, SameFile, Reused
<1>. QED
  BY <1>1, <1>4, <1>5, <1>6 DEF ScanParts, DoneInv

LEMMA HashShaParts ==
    ASSUME Ready, HashSha
    PROVE  ScanParts'
<1>. USE ReadyFacts
<1>1. /\ Kept /\ scan.at = "sha1" /\ ~scan.cut /\ ~scan'.cut /\ scan.kind = "adb"
      /\ scan'.left = scan.left /\ scan'.seen = scan.seen /\ (scan.errors => scan'.errors)
  BY HashShaFields DEF LockInv
<1>2. PICK b \in SUBSET scan.left, ok \in BOOLEAN :
        LET old == {p \in b : Reused(p)}
            rest == {p \in b \ old : On(p)} IN
        /\ scan'.at = (IF ok THEN "md5" ELSE "store") /\ (~ok => scan'.errors)
        /\ scan'.held = [p \in b |-> scan.listed[p]]
        /\ scan'.shas = [p \in IF ok THEN old \cup rest ELSE old |->
                            IF p \in old THEN scan.known[p].sha ELSE disk[p]]
        /\ scan'.md5s = [p \in old |-> scan.known[p].md5]
  BY HashShaFields
<1>3. SameRows /\ UNCHANGED <<disk, stamp, edits>>
  BY SameRowsUnless DEF HashSha, ScanStep, tree, Ready
<1>4. \A p : Hashed(p) => Hashed(p)'
  BY <1>3 DEF SameRows, SameFile, Hashed
<1>5. \A p \in b : p \in DOMAIN scan.listed /\ On(p)
  BY <1>1, <1>2 DEF BatchInv, ListedInv, On
<1>6. scan'.at \in {"md5", "store"} /\ DOMAIN scan'.held = b /\ \A p \in b : scan'.held[p] = scan.listed[p]
  BY <1>2
<1>7. ListedInv'
  <2>1. \A p \in b : scan'.held[p] \in Int /\ scan'.held[p] <= 1 + edits
    <3>1. TAKE p \in b
    <3>2. scan.listed[p] \in Int /\ scan.listed[p] <= stamp[p]
      BY <1>1, <1>5 DEF ListedInv
    <3>3. stamp[p] \in Int /\ stamp[p] <= 1 + edits
      BY <1>5 DEF FilesInv, On
    <3>. QED
      BY <1>6, <3>2, <3>3
  <2>2. scan'.at # "prune"
    BY <1>6
  <2>3. ListedInv /\ scan.at # "idle" /\ edits' = edits /\ stamp' = stamp /\ disk' = disk
    BY <1>1, <1>3
  <2>. QED
    BY <1>1, <1>6, <2>1, <2>2, <2>3 DEF ListedInv, Kept
<1>8. KnownInv'
  BY <1>1, <1>3, <1>4, <1>6 DEF KnownInv, Kept, On
<1>9. DoneInv'
  <2>1. SUFFICES ASSUME ~scan'.errors, NEW q \in DOMAIN scan.listed,
                        q.ext \notin SaveExts, scan.listed[q] = stamp[q]
                 PROVE  Waiting(q)' \/ Hashed(q)'
    BY <1>1, <1>3 DEF DoneInv, Kept
  <2>2. q \in scan.left \/ Hashed(q)
    BY <1>1, <2>1 DEF DoneInv, Waiting
  <2>3. q \in scan.left => Waiting(q)'
    BY <1>1, <1>6 DEF Waiting
  <2>. QED
    BY <1>4, <2>2, <2>3
<1>10. BatchInv'
  <2>1. /\ DOMAIN scan'.md5s \subseteq DOMAIN scan'.shas
        /\ scan'.at = "md5" \/ ~scan'.errors => b \subseteq DOMAIN scan'.shas
        /\ \A p \in b : Reused(p) => p \in DOMAIN scan'.shas
        /\ \A p \in DOMAIN scan'.shas : p \in b /\ scan'.shas[p] = (IF Reused(p) THEN scan.known[p].sha ELSE disk[p])
    BY <1>2, <1>5
  <2>2. ASSUME NEW p \in DOMAIN scan'.shas, scan.listed[p] = stamp[p] PROVE scan'.shas[p] = disk[p]
    <3>1. CASE Reused(p)
      BY <1>1, <1>5, <2>1, <2>2, <3>1 DEF KnownInv, Reused
    <3>. QED
      BY <2>1, <3>1
  <2>3. \A p : Reused(p)' <=> Reused(p)
    BY <1>1 DEF Reused, Kept
  <2>4. \A p \in scan.left :
             p \in DOMAIN Seen' /\ Seen'[p].sha # None /\ Seen'[p].md5 # None =>
                 p \in DOMAIN scan.known /\ Seen'[p].stamp = scan.known[p].stamp
    BY <1>1, <1>3 DEF BatchInv, SameRows, SameFile
  <2>5. scan.left \subseteq DOMAIN scan.listed /\ b \subseteq scan.left
    BY <1>1 DEF BatchInv
  <2>6. scan'.left = scan.left /\ scan'.listed = scan.listed /\ scan'.known = scan.known /\ stamp' = stamp /\ disk' = disk
    BY <1>1, <1>3 DEF Kept
  <2>7. /\ scan'.at = "md5" \/ ~scan'.errors => DOMAIN scan'.held \subseteq DOMAIN scan'.shas
        /\ \A p \in DOMAIN scan'.held : Reused(p)' => p \in DOMAIN scan'.shas
        /\ DOMAIN scan'.held \subseteq scan.left
    BY <1>6, <2>1, <2>3, <2>5
  <2>8. \A p \in DOMAIN scan'.shas :
          p \in DOMAIN scan.listed /\ (scan.listed[p] = stamp[p] => scan'.shas[p] = disk[p])
    BY <1>5, <2>1, <2>2
  <2>. QED
    BY <2>1, <2>4, <2>5, <2>6, <2>7, <2>8 DEF BatchInv
<1>. QED
  BY <1>7, <1>8, <1>9, <1>10 DEF ScanParts

LEMMA HashMd5Parts ==
    ASSUME Ready, HashMd5
    PROVE  ScanParts'
<1>. USE ReadyFacts
<1>1. /\ Kept /\ scan.at = "md5" /\ scan'.at = "store" /\ scan'.cut = scan.cut
      /\ scan'.left = scan.left /\ scan'.seen = scan.seen /\ scan'.held = scan.held /\ scan'.shas = scan.shas
      /\ scan.errors => scan'.errors
      /\ DOMAIN scan'.md5s \subseteq DOMAIN scan.md5s \cup DOMAIN scan.held
  BY HashMd5Fields
<1>2. SameRows /\ UNCHANGED <<disk, stamp, edits>>
  BY SameRowsUnless DEF HashMd5, ScanStep, tree, Ready
<1>3. \A p : Hashed(p) => Hashed(p)'
  BY <1>2 DEF SameRows, SameFile, Hashed
<1>4. ListedInv'
  BY <1>1, <1>2 DEF ListedInv, Kept
<1>5. KnownInv'
  BY <1>1, <1>2, <1>3 DEF KnownInv, Kept, On
<1>6. DoneInv'
  BY <1>1, <1>2, <1>3 DEF DoneInv, Kept, Waiting
<1>7. BatchInv'
  BY <1>1, <1>2 DEF BatchInv, Kept, SameRows, SameFile, Reused
<1>. QED
  BY <1>4, <1>5, <1>6, <1>7 DEF ScanParts

LEMMA StoreParts ==
    ASSUME Ready, Store
    PROVE  ScanParts'
<1>. USE ReadyFacts
<1>1. /\ Kept /\ scan.at = "store" /\ scan'.at = "sha1" /\ scan'.cut = scan.cut
      /\ scan'.errors = scan.errors /\ DOMAIN scan'.held = {} /\ scan.kind = "adb"
  BY StoreFields DEF LockInv
<1>2. PICK b \in SUBSET DOMAIN scan.held :
        /\ scan'.left = scan.left \ b /\ scan'.seen = scan.seen \cup b
        /\ scan.cut \/ b = DOMAIN scan.held
        /\ Write("scan", Upsert(Seen, [p \in b |-> Found1(Hash(scan.shas, p), Hash(scan.md5s, p), StampToStore(p))]))
  BY StoreFields
<1>3. UNCHANGED <<disk, stamp, edits>>
  BY DEF Store, ScanStep, tree
<1>4. PICK found : found = [p \in b |-> Found1(Hash(scan.shas, p), Hash(scan.md5s, p), StampToStore(p))]
  OBVIOUS
<1>5. DOMAIN found = b /\ \A p \in b : found[p].sha = Hash(scan.shas, p)
  BY <1>4 DEF Found1
<1>6. Seen' = Upsert(Seen, found)
  BY <1>2, <1>4, WrittenRows
\* A file that is as it was listed: the row of the batch has its hash, or keeps it.
<1>7. ASSUME NEW q \in DOMAIN scan.listed, scan.listed[q] = stamp[q], Hashed(q) \/ (q \in b /\ q \in DOMAIN scan.shas)
      PROVE  Hashed(q)'
  <2>1. q \in DOMAIN scan.shas => scan.shas[q] = disk[q]
    BY <1>1, <1>7 DEF BatchInv
  <2>2. q \in DOMAIN disk /\ disk[q] # None
    BY <1>1, <1>7 DEF ListedInv, FilesInv
  <2>3. q \in DOMAIN found => (found[q].sha = None /\ Hashed(q)) \/ (found[q].sha = disk[q] /\ disk[q] # None)
    BY <1>5, <1>7, <2>1, <2>2 DEF Hash
  <2>. QED
    BY <1>2, <1>3, <1>4, <1>5, <1>7, <2>3, WrittenHash
<1>8. ListedInv'
  BY <1>1, <1>2, <1>3 DEF ListedInv, Kept
<1>9. KnownInv'
  <2>1. ASSUME NEW p \in DOMAIN scan.known, On(p), scan.known[p].stamp = stamp[p], scan.known[p].sha # None
        PROVE  Hashed(p)'
    <3>1. Hashed(p) /\ (p \in DOMAIN scan.listed => scan.listed[p] = stamp[p])
      BY <1>1, <2>1 DEF KnownInv
    <3>2. p \notin DOMAIN scan.listed => p \notin b
      BY <1>1, <1>2 DEF BatchInv
    <3>3. CASE p \in DOMAIN scan.listed
      BY <1>7, <3>1, <3>3
    <3>4. CASE p \notin b
      BY <1>3, <1>2, <1>4, <1>5, <3>1, <3>4, WrittenHash
    <3>. QED
      BY <3>2, <3>3, <3>4
  <2>. QED
    BY <1>1, <1>3, <2>1 DEF KnownInv, Kept, On
<1>10. DoneInv'
  <2>1. SUFFICES ASSUME ~scan.cut, ~scan.errors, NEW q \in DOMAIN scan.listed,
                        q.ext \notin SaveExts, scan.listed[q] = stamp[q]
                 PROVE  q \in scan'.left \/ Hashed(q)'
    BY <1>1, <1>3 DEF DoneInv, Kept, Waiting
  <2>2. q \in scan.left \/ Hashed(q)
    BY <1>1, <2>1 DEF DoneInv, Waiting
  <2>3. b \subseteq DOMAIN scan.shas
    BY <1>1, <1>2, <2>1 DEF BatchInv
  <2>. QED
    BY <1>2, <1>7, <2>1, <2>2, <2>3
<1>11. BatchInv'
  <2>1. \A p : p \notin b => (p \in DOMAIN Seen' <=> p \in DOMAIN Seen) /\ (p \in DOMAIN Seen => Seen'[p] = Seen[p])
    BY <1>5, <1>6 DEF Upsert
  <2>. QED
    BY <1>1, <1>2, <1>3, <2>1 DEF BatchInv, Kept
<1>. QED
  BY <1>8, <1>9, <1>10, <1>11 DEF ScanParts

\* The user writes a file: it has a stamp that no row and no listing has.
LEMMA EditParts ==
    ASSUME Ready, NEW f, f.has # None, Edit(f)
    PROVE  ScanParts' /\ FilesInv' /\ TruthInv'
<1>. USE ReadyFacts
<1>1. /\ IsScan(scan') /\ Kept /\ Batched /\ scan'.at = scan.at /\ scan'.cut = scan.cut
      /\ scan'.seen = scan.seen /\ scan'.held = scan.held /\ scan'.errors = scan.errors
      /\ scan'.left = scan.left \/ (scan.at = "walk" /\ scan'.left = scan.left \cup {f.at})
  BY EditFields
<1>2. /\ edits \in Int /\ edits' = edits + 1 /\ edits' \in Int /\ UNCHANGED <<games, lock, draft, tale>>
      /\ stamp' = Put(stamp, f.at, 1 + edits') /\ disk' = Put(disk, f.at, f.has)
  BY DEF Edit, table, still, work
<1>3. /\ DOMAIN stamp' = {f.at} \cup DOMAIN stamp /\ stamp'[f.at] = 1 + edits' /\ disk'[f.at] = f.has
      /\ \A p \in DOMAIN stamp \ {f.at} : stamp'[p] = stamp[p]
      /\ DOMAIN disk' = {f.at} \cup DOMAIN disk
      /\ \A p \in DOMAIN disk \ {f.at} : disk'[p] = disk[p]
  BY <1>2 DEF Put
<1>4. /\ Seen' = Seen
      /\ \A p \in DOMAIN disk : Hashed(p) /\ p # f.at => Hashed(p)'
  BY <1>2, <1>3 DEF Seen, Table, Hashed
<1>5. DOMAIN stamp = DOMAIN disk /\ \A p \in DOMAIN disk : stamp[p] \in Int /\ 1 <= stamp[p] /\ stamp[p] <= 1 + edits
  BY DEF FilesInv
<1>6. FilesInv'
  BY <1>2, <1>3, <1>5 DEF FilesInv
<1>7. ASSUME NEW p \in DOMAIN scan.listed, scan.at # "idle"
      PROVE  /\ p \in DOMAIN disk /\ scan.listed[p] \in Int /\ scan.listed[p] <= stamp[p]
             /\ scan.listed[p] = stamp'[p] => p # f.at /\ stamp'[p] = stamp[p] /\ disk'[p] = disk[p]
             /\ scan.listed[p] <= stamp'[p]
  <2>1. p \in DOMAIN disk /\ scan.listed[p] \in Int /\ scan.listed[p] <= stamp[p]
    BY <1>7 DEF ListedInv
  <2>. QED
    BY <1>2, <1>3, <1>5, <2>1
<1>8. ListedInv'
  <2>1. \A p \in DOMAIN scan.held : scan.at # "idle" => scan.held[p] \in Int /\ scan.held[p] <= 1 + edits'
    BY <1>2 DEF ListedInv
  <2>. QED
    BY <1>1, <1>3, <1>7, <2>1 DEF ListedInv, Kept
<1>9. KnownInv'
  <2>1. SUFFICES ASSUME scan.at # "idle", NEW p \in DOMAIN scan.known
                 PROVE  /\ scan.known[p].stamp \in Int /\ scan.known[p].stamp <= 1 + edits'
                        /\ scan.kind = "adb" =>
                             scan.known[p].sha # None /\ scan.known[p].md5 # None /\ ~scan.known[p].aged
                        /\ On(p)' /\ scan.known[p].stamp = stamp'[p] /\ scan.known[p].sha # None =>
                             /\ p \in DOMAIN scan.listed => scan.listed[p] = stamp'[p]
                             /\ scan.known[p].sha = disk'[p] \/ scan.known[p].aged
                             /\ scan.kind \in {"full", "adb"} => Hashed(p)'
    BY <1>1 DEF KnownInv, Kept
  <2>2. scan.known[p].stamp \in Int /\ scan.known[p].stamp <= 1 + edits
    BY <2>1 DEF KnownInv
  <2>3. ASSUME On(p)', scan.known[p].stamp = stamp'[p] PROVE p # f.at /\ On(p) /\ stamp'[p] = stamp[p] /\ disk'[p] = disk[p]
    BY <1>2, <1>3, <1>5, <2>2, <2>3 DEF On
  <2>. QED
    BY <1>2, <1>4, <2>1, <2>2, <2>3 DEF KnownInv, On
<1>10. DoneInv'
  <2>1. SUFFICES ASSUME scan.at # "idle", scan.kind # "quick", ~scan.cut, ~scan.errors, NEW p \in DOMAIN scan.listed,
                        p.ext \notin SaveExts, scan.listed[p] = stamp'[p]
                 PROVE  Waiting(p)' \/ Hashed(p)'
    BY <1>1 DEF DoneInv, Kept
  <2>2. p \in DOMAIN disk /\ p # f.at /\ scan.listed[p] = stamp[p]
    BY <1>7, <2>1
  <2>3. Waiting(p) \/ Hashed(p)
    BY <2>1, <2>2 DEF DoneInv
  <2>4. Waiting(p) => Waiting(p)'
    BY <1>1 DEF Waiting
  <2>. QED
    BY <1>4, <2>2, <2>3, <2>4
<1>11. BatchInv'
  <2>1. SUFFICES ASSUME scan.at \in {"sha1", "md5", "store"}
                 PROVE  BatchInv'
    BY <1>1 DEF BatchInv
  <2>2. scan'.left = scan.left /\ \A p : Reused(p)' <=> Reused(p)
    BY <1>1, <2>1 DEF Reused, Kept
  <2>3. scan.at # "sha1" => \A p \in DOMAIN scan.shas :
           p \in DOMAIN scan.listed /\ (scan.listed[p] = stamp'[p] => scan.shas[p] = disk'[p])
    BY <1>7, <2>1 DEF BatchInv
  <2>. QED
    BY <1>1, <1>4, <2>1, <2>2, <2>3 DEF BatchInv, Kept, Batched
<1>12. TruthInv'
  <2>1. ASSUME NEW g, Truthful(g), \A p \in DOMAIN g : RowOK(g[p]), NEW p \in DOMAIN g, p \in DOMAIN disk'
        PROVE  SaysTrue(tale.does, g[p], stamp'[p], disk'[p])
    <3>2. CASE p = f.at
      BY <1>2, <1>3, <2>1, <3>2 DEF SaysTrue, RowOK, Does
    <3>3. CASE p # f.at
      BY <1>3, <1>5, <2>1, <3>3 DEF Truthful, On
    <3>. QED
      BY <3>2, <3>3
  <2>2. \A p \in DOMAIN games : p \in DOMAIN disk' => SaysTrue(tale.does, games[p], stamp'[p], disk'[p])
    BY <2>1 DEF Ready, ScanInv, TruthInv, RowsInv
  <2>3. lock # None =>
          \A p \in DOMAIN draft : p \in DOMAIN disk' => SaysTrue(tale.does, draft[p], stamp'[p], disk'[p])
    BY <2>1 DEF Ready, ScanInv, TruthInv, RowsInv
  <2>. QED
    BY <1>2, <2>2, <2>3 DEF TruthInv, Truthful, On
<1>. QED
  BY <1>6, <1>8, <1>9, <1>10, <1>11, <1>12 DEF ScanParts

LEMMA EraseFiles ==
    ASSUME FilesInv, TruthInv, edits \in Nat, NEW p, Erase(p)
    PROVE  FilesInv' /\ TruthInv'
<1>1. /\ edits' = edits + 1 /\ UNCHANGED <<games, lock, draft, tale>>
      /\ stamp' = Without(stamp, {p}) /\ disk' = Without(disk, {p})
  BY DEF Erase, table, still, work
<1>2. /\ DOMAIN stamp' = DOMAIN stamp \ {p} /\ \A q \in DOMAIN stamp \ {p} : stamp'[q] = stamp[q]
      /\ DOMAIN disk' = DOMAIN disk \ {p} /\ \A q \in DOMAIN disk \ {p} : disk'[q] = disk[q]
  BY <1>1 DEF Without, Restrict
<1>3. FilesInv'
  BY <1>1, <1>2 DEF FilesInv
<1>4. TruthInv'
  BY <1>1, <1>2 DEF TruthInv, Truthful, FilesInv, On
<1>. QED
  BY <1>3, <1>4
-----------------------------------------------------------------------------
(* Every step *)

LEMMA LockStep == ASSUME LockInv, ScannerNext, tale' = tale PROVE LockInv'
BY ScanOKStep, LockOKStep DEF LockInv, ScanOK, LockOK

\* What a step leaves of the files, when it writes none of them.
LEMMA TreeSteps ==
    ASSUME ScannerNext
    PROVE  \/ UNCHANGED tree
           \/ UNCHANGED table /\ edits' = edits + 1 /\ \E f \in tale.edits : Edit(f)
           \/ UNCHANGED table /\ edits' = edits + 1 /\ \E p : Erase(p)
           \/ edits' = edits + 1 /\ \E p, q : Rename1(p, q)
<1>1. ASSUME NEW kind, NEW low, StartScan(kind) \/ StartAdb \/ StartMatch(low) \/ StartFetch PROVE UNCHANGED tree
  BY <1>1 DEF StartScan, StartAdb, StartMatch, StartFetch, tree
<1>2. ASSUME NEW p, WalkPast(p) \/ WalkHold(p) \/ WalkQuick(p) \/ WalkSave(p) \/ MatchOne(p) PROVE UNCHANGED tree
  BY <1>2 DEF WalkPast, WalkHold, WalkQuick, WalkSave, MatchOne, ScanStep, MatchStep, tree
<1>3. CASE Flush \/ EndScan \/ Prune \/ CancelScan \/ ScanLocked \/ HashSha \/ HashMd5 \/ Store \/ EndAdb
  BY <1>3 DEF Flush, EndScan, Prune, CancelScan, ScanLocked, HashSha, HashMd5, Store, EndAdb, ScanStep, tree
<1>4. CASE EndMatch \/ CancelMatch \/ MatchLocked \/ FetchBody \/ FetchCheck \/ EndFetch \/ Crash
  BY <1>4 DEF EndMatch, CancelMatch, MatchLocked, FetchBody, FetchCheck, EndFetch, Crash, MatchStep, FetchStep, tree
<1>5. ASSUME NEW d, FetchSkip(d) \/ FetchOpen(d) \/ FetchXml(d) \/ Expire(d) \/ ImportDat(d) \/ ImportArcade(d)
      PROVE  UNCHANGED tree
  BY <1>5 DEF FetchSkip, FetchOpen, FetchXml, Expire, ImportDat, ImportArcade, FetchStep, tree
<1>6. ASSUME NEW f, Edit(f) PROVE UNCHANGED table /\ edits' = edits + 1
  BY <1>6 DEF Edit
<1>7. ASSUME NEW p, Erase(p) PROVE UNCHANGED table /\ edits' = edits + 1
  BY <1>7 DEF Erase
<1>8. ASSUME NEW p, NEW q, Rename1(p, q) PROVE edits' = edits + 1
  BY <1>8 DEF Rename1
<1>. QED
  BY <1>1, <1>2, <1>3, <1>4, <1>5, <1>6, <1>7, <1>8 DEF ScannerNext

LEMMA TableRight ==
    ASSUME IInv, ScannerNext
    PROVE  DraftInv' /\ RowsInv'
<1>1. DraftInv /\ RowsInv /\ edits \in Nat
  BY DEF IInv, RowsInv
<1>2. ASSUME UNCHANGED table PROVE DraftInv' /\ RowsInv'
  <2>1. edits' \in {edits, edits + 1}
    BY TreeSteps DEF tree
  <2>2. DraftInv'
    BY <1>1, <1>2 DEF DraftInv, table
  <2>3. RowsInv'
    BY <1>1, <1>2, <2>1 DEF RowsInv, RowOK, table
  <2>. QED
    BY <2>2, <2>3
<1>3. ASSUME TableStep, UNCHANGED tree PROVE DraftInv' /\ RowsInv'
  BY <1>3, DraftStep, RowsStep DEF tree
<1>4. ASSUME NEW p, NEW q, Rename1(p, q) PROVE DraftInv' /\ RowsInv'
  <2>1. /\ lock = None /\ lock' = None /\ edits' = edits + 1 /\ p \in DOMAIN games
        /\ games' = Put(Without(games, {p}), q, games[p])
    BY <1>4 DEF Rename1
  <2>2. \A x \in DOMAIN games' : \E y \in DOMAIN games : games'[x] = games[y]
    BY <2>1 DEF Put, Without, Restrict
  <2>3. \A y \in DOMAIN games : IsRow(games[y]) /\ games[y].stamp \in Int /\ games[y].stamp <= 1 + edits'
    BY <1>1, <2>1 DEF RowsInv, RowOK
  <2>4. \A x \in DOMAIN games' : IsRow(games'[x]) /\ games'[x].stamp \in Int /\ games'[x].stamp <= 1 + edits'
    BY <2>2, <2>3
  <2>5. DraftInv'
    BY <2>1, NoneIsNoJob DEF DraftInv
  <2>6. RowsInv'
    BY <1>1, <2>1, <2>4, NoneIsNoJob DEF RowsInv, RowOK
  <2>. QED
    BY <2>5, <2>6
<1>. QED
  BY <1>2, <1>3, <1>4, TableSteps

LEMMA AloneStep ==
    ASSUME AloneInv, IsScan(scan), ScannerNext, UNCHANGED dupVars
    PROVE  AloneInv'
<1>. USE DEF AloneInv, Idle, dupVars
<1>1. tale' = tale /\ checked' = {}
  BY TaleByScanner
<1>2. \A what : Fault(what)' = Fault(what)
  BY <1>1 DEF Fault
<1>3. ASSUME NEW kind, NEW low, StartScan(kind) \/ StartAdb \/ StartMatch(low) \/ StartFetch PROVE AloneInv'
  BY <1>1, <1>2, <1>3, StartScanFields, StartAdbFields DEF StartScan, StartAdb, StartMatch, StartFetch
<1>4. ASSUME NEW p, WalkPast(p) \/ WalkHold(p) \/ WalkQuick(p) \/ WalkSave(p) PROVE AloneInv'
  <2>1. todo' = todo /\ ~scan'.cut
    BY <1>4, WalkFields DEF WalkPast, WalkHold, WalkQuick, WalkSave, ScanStep, still, work
  <2>. QED
    BY <1>1, <2>1
<1>5. CASE Flush \/ EndScan \/ EndAdb \/ HashSha \/ HashMd5 \/ Store
  <2>1. todo' = todo /\ (scan'.cut => scan.cut)
    BY <1>5, FlushFields, EndScanFields, HashShaFields, HashMd5Fields, StoreFields
       DEF Flush, EndScan, EndAdb, HashSha, HashMd5, Store, ScanStep, still, work
  <2>. QED
    BY <1>1, <1>2, <2>1
<1>6. CASE Prune \/ ScanLocked \/ Crash
  <2>1. todo' = todo /\ ~scan'.cut
    BY <1>6 DEF Prune, ScanLocked, Crash, ScanStep, still, work, NoScan
  <2>. QED
    BY <1>1, <2>1
<1>7. CASE CancelScan
  BY <1>1, <1>2, <1>7 DEF CancelScan, ScanStep, still, work
<1>8. ASSUME NEW p, MatchOne(p) \/ EndMatch \/ CancelMatch \/ MatchLocked \/ FetchBody \/ FetchCheck \/ EndFetch
      PROVE  UNCHANGED <<todo, scan>>
  BY <1>8 DEF MatchOne, EndMatch, CancelMatch, MatchLocked, FetchBody, FetchCheck, EndFetch, MatchStep, FetchStep, still, work
<1>9. ASSUME NEW d, FetchSkip(d) \/ FetchOpen(d) \/ FetchXml(d) \/ Expire(d) \/ ImportDat(d) \/ ImportArcade(d)
      PROVE  UNCHANGED <<todo, scan>>
  BY <1>9 DEF FetchSkip, FetchOpen, FetchXml, Expire, ImportDat, ImportArcade, FetchStep, still, work
<1>10. ASSUME NEW p, NEW q, Rename1(p, q) \/ Erase(p) PROVE UNCHANGED <<todo, scan>>
  BY <1>10 DEF Rename1, Erase, jobs, still, work
<1>11. ASSUME NEW f, Edit(f) PROVE todo' = todo /\ scan'.cut = scan.cut
  BY <1>11, EditFields DEF Edit, still, work
<1>12. ASSUME todo' = todo, scan'.cut = scan.cut PROVE AloneInv'
  BY <1>1, <1>2, <1>12
<1>. QED
  BY <1>3, <1>4, <1>5, <1>6, <1>7, <1>8, <1>9, <1>10, <1>11, <1>12 DEF ScannerNext

LEMMA PartsStep ==
    ASSUME IInv, Scans, ScannerNext
    PROVE  ScanParts'
<1>1. Ready /\ LockInv /\ DraftInv /\ ScanParts
  BY StoryOf DEF IInv, Ready, ScanInv, ScanParts
<1>2. ASSUME NEW kind \in {"full", "quick"}, StartScan(kind) PROVE ScanParts'
  BY <1>1, <1>2, StartScanParts
<1>3. ASSUME NEW p, WalkPast(p) \/ WalkHold(p) \/ WalkQuick(p) \/ WalkSave(p) PROVE ScanParts'
  BY <1>1, <1>3, WalkParts
<1>4. CASE Flush \/ EndScan \/ EndAdb \/ CancelScan \/ StartAdb \/ HashSha \/ HashMd5 \/ Store
  BY <1>1, <1>4, FlushParts, EndScanParts, CancelScanParts, StartAdbParts, HashShaParts, HashMd5Parts, StoreParts
<1>5. CASE Prune \/ ScanLocked \/ Crash
  BY <1>5, NoScanFields, IdleParts DEF Prune, ScanLocked, Crash
<1>6. ASSUME NEW p, MatchOne(p) PROVE ScanParts'
  <2>1. SameRows
    BY <1>1, <1>6, MatchWrites, SameRowsUnless
  <2>. QED
    BY <1>1, <1>6, <2>1, AsideStep DEF MatchOne, MatchStep, tree
<1>7. CASE EndMatch
  <2>1. SameRows
    BY <1>1, <1>7, SameRowsUnless DEF EndMatch
  <2>. QED
    BY <1>1, <1>7, <2>1, AsideStep DEF EndMatch, MatchStep, tree
<1>8. ASSUME UNCHANGED table, UNCHANGED <<scan, disk, stamp, edits>> PROVE ScanParts'
  <2>1. SameRows
    BY <1>1, <1>8, SameRowsUnless
  <2>. QED
    BY <1>1, <1>8, <2>1, AsideStep
<1>9. ASSUME NEW low, StartMatch(low) \/ StartFetch \/ CancelMatch \/ MatchLocked \/ FetchBody \/ FetchCheck \/ EndFetch
      PROVE  ScanParts'
  BY <1>8, <1>9 DEF StartMatch, StartFetch, CancelMatch, MatchLocked, FetchBody, FetchCheck, EndFetch, MatchStep, FetchStep, tree
<1>10. ASSUME NEW d, FetchSkip(d) \/ FetchOpen(d) \/ FetchXml(d) \/ Expire(d) \/ ImportDat(d) \/ ImportArcade(d)
       PROVE  ScanParts'
  BY <1>8, <1>10 DEF FetchSkip, FetchOpen, FetchXml, Expire, ImportDat, ImportArcade, FetchStep, tree
<1>11. ASSUME NEW f \in tale.edits, Edit(f) PROVE ScanParts'
  BY <1>1, <1>11, StoryOf, EditParts
<1>12. ASSUME NEW p, Erase(p) PROVE ScanParts'
  BY <1>12, IdleParts DEF Erase, jobs
<1>13. ASSUME NEW p, NEW q PROVE ~Rename1(p, q)
  BY StoryOf DEF OnlyScans, Rename1
<1>. QED
  BY <1>2, <1>3, <1>4, <1>5, <1>6, <1>7, <1>9, <1>10, <1>11, <1>12, <1>13 DEF ScannerNext

LEMMA FilesStep ==
    ASSUME IInv, Scans, ScannerNext
    PROVE  FilesInv' /\ TruthInv'
<1>1. /\ Ready /\ FilesInv /\ TruthInv /\ edits \in Nat /\ tale' = tale
      /\ OnlyScans /\ \A f \in tale.edits : f.has # None
  BY StoryOf, TaleByScanner DEF IInv, Ready, ScanInv, RowsInv
<1>2. CASE UNCHANGED tree
  <2>1. FilesInv'
    BY <1>1, <1>2 DEF FilesInv, tree
  <2>2. CASE UNCHANGED table
    BY <1>1, <1>2, <2>1, <2>2 DEF TruthInv, Truthful, On, tree, table
  <2>3. CASE TableStep
    BY <1>1, <1>2, <2>1, <2>3, TruthStep
  <2>4. ASSUME NEW p, NEW q PROVE ~Rename1(p, q)
    BY <1>1 DEF OnlyScans, Rename1
  <2>. QED
    BY <2>1, <2>2, <2>3, <2>4, TableSteps
<1>3. ASSUME NEW f \in tale.edits, Edit(f) PROVE FilesInv' /\ TruthInv'
  BY <1>1, <1>3, EditParts
<1>4. ASSUME NEW p, Erase(p) PROVE FilesInv' /\ TruthInv'
  BY <1>1, <1>4, EraseFiles
<1>5. ASSUME NEW p, NEW q PROVE ~Rename1(p, q)
  BY <1>1 DEF OnlyScans, Rename1
<1>. QED
  BY <1>2, <1>3, <1>4, <1>5, TreeSteps

LEMMA AgedStep == ASSUME IInv, Scans, ScannerNext PROVE AgedInv'
<1>1. tale' = tale /\ AgedInv /\ OnlyScans
  BY StoryOf, TaleByScanner DEF ScanInv
<1>2. CASE UNCHANGED table
  BY <1>1, <1>2 DEF AgedInv, table, Does, NoneAged
<1>3. CASE TableStep
  BY <1>1, <1>3, AgedInvStep
<1>4. ASSUME NEW p, NEW q PROVE ~Rename1(p, q)
  BY <1>1 DEF OnlyScans, Rename1
<1>. QED
  BY <1>2, <1>3, <1>4, TableSteps

LEMMA ScannerStep ==
    ASSUME IInv, ScannerNext, UNCHANGED dupVars
    PROVE  IInv'
<1>1. tale' = tale /\ LockInv' /\ DraftInv' /\ RowsInv' /\ (Scans' <=> Scans)
  BY TaleByScanner, LockStep, TableRight DEF IInv, Scans
<1>2. \E s \in Stories : OfStory(s)'
  BY <1>1 DEF IInv, OfStory
<1>3. Scans => ScanInv'
  BY PartsStep, FilesStep, AgedStep, AloneStep DEF IInv, ScanInv, ScanParts, LockInv
<1>4. ~Scans => scan'.at = "idle"
  BY <1>1 DEF LockInv, Scans, Does, ScanJobs
<1>. QED
  BY <1>1, <1>2, <1>3, <1>4 DEF IInv

LEMMA QuietStep ==
    ASSUME IInv, Scans, UNCHANGED <<disk, work, dupVars, scanVars>>
    PROVE  IInv'
<1>. USE DEF work, dupVars, scanVars
<1>1. LockInv' /\ DraftInv' /\ RowsInv' /\ tale' = tale
  BY DEF IInv, LockInv, DraftInv, RowsInv, RowOK, Does
<1>2. SameRows
  BY DEF SameRows, SameFile, Seen, Table
<1>3. ScanParts'
  BY <1>2, AsideStep DEF IInv, ScanInv, ScanParts
<1>4. AloneInv' /\ FilesInv' /\ AgedInv' /\ TruthInv'
  BY DEF IInv, ScanInv, AloneInv, Idle, FilesInv, AgedInv, NoneAged, TruthInv, Truthful, On, Does, Fault
<1>5. \E s \in Stories : OfStory(s)'
  BY DEF IInv, OfStory
<1>. QED
  BY <1>1, <1>3, <1>4, <1>5 DEF IInv, ScanInv, ScanParts, Scans

LEMMA OtherStep ==
    ASSUME IInv, ~Scans, tale' = tale, UNCHANGED scanVars
    PROVE  IInv'
<1>. USE DEF scanVars
<1>1. LockInv' /\ DraftInv' /\ RowsInv'
  BY DEF IInv, LockInv, DraftInv, RowsInv, RowOK, Does
<1>2. \E s \in Stories : OfStory(s)'
  BY DEF IInv, OfStory
<1>. QED
  BY <1>1, <1>2 DEF IInv, Scans

LEMMA IInvStep ==
    ASSUME IInv, [Next]_<<store, work, dupVars, scanVars>>
    PROVE  IInv'
<1>1. CASE UNCHANGED <<store, work, dupVars, scanVars>>
  <2>1. UNCHANGED disk /\ tale' = tale
    BY <1>1 DEF store, work
  <2>. QED
    BY <1>1, <2>1, QuietStep, OtherStep
<1>2. CASE Next
  <2>1. CASE ScannerNext /\ UNCHANGED dupVars
    BY <2>1, ScannerStep
  <2>2. CASE Scans /\ ~(ScannerNext /\ UNCHANGED dupVars)
    BY <1>2, <2>2, StoryOf, OthersWait, QuietStep DEF ScanInv
  <2>3. CASE ~Scans /\ ~(ScannerNext /\ UNCHANGED dupVars)
    BY <1>2, <2>3, TaleStays, OtherStep DEF Next
  <2>. QED
    BY <2>1, <2>2, <2>3
<1>. QED
  BY <1>1, <1>2

LEMMA IInvInit == Init => IInv
<1>. SUFFICES ASSUME Init PROVE IInv
  OBVIOUS
<1>1. PICK s \in Stories : Begin(s)
  BY DEF Init
<1>2. /\ lock = None /\ edits = 0 /\ scan = NoScan /\ match = NoMatch /\ checked = {}
      /\ todo = [t \in Threads |-> <<>>]
  BY DEF Init
<1>3. /\ tale.does = s.does /\ tale.faults = s.faults /\ tale.edits = s.edits
      /\ disk = [p \in {f.at : f \in s.files} |-> (CHOOSE f \in s.files : f.at = p).has]
      /\ games = s.known /\ stamp = [p \in DOMAIN disk |-> 1]
  BY <1>1 DEF Begin
<1>4. IsScan(scan) /\ scan.at = "idle" /\ ~scan.cut /\ IsMatch(match)
  BY <1>2, NoScanFields DEF NoScan
<1>5. LockInv /\ DraftInv /\ OfStory(s)
  BY <1>2, <1>3, <1>4, NoneIsNoJob DEF LockInv, DraftInv, OfStory
<1>6. RowsInv
  <2>1. \A p \in DOMAIN games : IsRow(games[p]) /\ games[p].stamp \in Int /\ games[p].stamp <= 1
    BY <1>3, RowsAssumption
  <2>. QED
    BY <1>2, <2>1 DEF RowsInv, RowOK
<1>7. ASSUME Scans PROVE ScanInv
  <2>1. /\ Does("adbscan") => NoneAged(s.known)
        /\ \A f \in s.files : f.has # None /\ (f.at \in DOMAIN s.known => SaysTrue(s.does, s.known[f.at], 1, f.has))
    BY <1>5, <1>7, StoryFacts
  <2>2. \A p \in DOMAIN disk : \E f \in s.files : f.at = p /\ disk[p] = f.has
    BY <1>3
  <2>3. AloneInv
    BY <1>2, <1>4 DEF AloneInv, Idle
  <2>4. FilesInv
    BY <1>2, <1>3, <2>1, <2>2 DEF FilesInv
  <2>5. AgedInv
    BY <1>2, <1>3, <2>1 DEF AgedInv
  <2>6. TruthInv
    BY <1>2, <1>3, <2>1, <2>2 DEF TruthInv, Truthful, On
  <2>. QED
    BY <1>4, <2>3, <2>4, <2>5, <2>6 DEF ScanInv, ListedInv, KnownInv, DoneInv, BatchInv
<1>. QED
  BY <1>4, <1>5, <1>6, <1>7 DEF IInv
-----------------------------------------------------------------------------
(* The theorems *)

LEMMA Inductive == Spec => []IInv
<1>1. Init => IInv
  BY IInvInit
<1>2. IInv /\ [Next]_<<store, work, dupVars, scanVars>> => IInv'
  BY IInvStep
<1>. QED
  BY <1>1, <1>2, PTL DEF Spec

\* Every row of the table is right about the file that it is about, as long as the file is as
\* the row has it: whoever writes the table, also in a transaction that is not committed, and
\* whatever the user writes while full and quick scans run.  A row whose stamp a quick scan
\* moved on is not: it says so (aged), until a scan writes a hash for it (rom_scanner.py 149).
THEOREM RowsAreTrue == Spec => [](Scans => TruthInv)
<1>1. IInv => (Scans => TruthInv)
  BY DEF IInv, ScanInv
<1>. QED
  BY <1>1, Inductive, PTL

\* Which step can take a row out of the table, and which rows it takes.
LEMMA RowsGo ==
    ASSUME IInv, ScannerNext, NEW p \in DOMAIN games, p \notin DOMAIN games'
    PROVE  \/ Prune /\ Prunes /\ p \notin scan.seen
           \/ \E x, y : Rename1(x, y) /\ x = p
<1>. USE NoneIsNoJob
<1>1. LockInv /\ DraftInv /\ IsScan(scan)
  BY DEF IInv, LockInv
<1>2. ASSUME UNCHANGED games PROVE FALSE
  BY <1>2
<1>3. CASE Prune
  BY <1>3 DEF Prune, Restrict
<1>4. ASSUME NEW job, Commit(job), job # None PROVE FALSE
  BY <1>1, <1>4 DEF Commit, table, DraftInv
<1>5. CASE EndScan \/ EndAdb \/ EndMatch
  BY <1>4, <1>5 DEF EndScan, EndAdb, EndMatch
<1>6. ASSUME NEW kind, NEW low, StartScan(kind) \/ StartAdb \/ StartMatch(low) \/ StartFetch PROVE FALSE
  BY <1>2, <1>6 DEF StartScan, StartAdb, StartMatch, StartFetch, table
<1>7. ASSUME NEW q, WalkPast(q) \/ WalkHold(q) \/ WalkQuick(q) \/ WalkSave(q) \/ MatchOne(q) PROVE FALSE
  BY <1>2, <1>7 DEF WalkPast, WalkHold, WalkQuick, WalkSave, MatchOne, Write, table
<1>8. CASE Flush
  BY <1>1, <1>2, <1>8, FlushFields DEF Write, table
<1>9. CASE CancelScan \/ ScanLocked \/ HashSha \/ HashMd5 \/ Store
  BY <1>2, <1>9 DEF CancelScan, ScanLocked, HashSha, HashMd5, Store, Write, table
<1>10. CASE CancelMatch \/ MatchLocked \/ FetchBody \/ FetchCheck \/ EndFetch \/ Crash
  BY <1>2, <1>10 DEF CancelMatch, MatchLocked, FetchBody, FetchCheck, EndFetch, Crash, FetchStep, table
<1>11. ASSUME NEW d, FetchSkip(d) \/ FetchOpen(d) \/ FetchXml(d) \/ Expire(d) \/ ImportDat(d) \/ ImportArcade(d)
       PROVE  FALSE
  BY <1>2, <1>11 DEF FetchSkip, FetchOpen, FetchXml, Expire, ImportDat, ImportArcade, FetchStep, table
<1>12. ASSUME NEW q, NEW f, Edit(f) \/ Erase(q) PROVE FALSE
  BY <1>2, <1>12 DEF Edit, Erase, table
<1>13. ASSUME NEW x, NEW y, Rename1(x, y) PROVE x = p
  BY <1>13 DEF Rename1, Put, Without, Restrict
<1>. QED
  BY <1>3, <1>5, <1>6, <1>7, <1>8, <1>9, <1>10, <1>11, <1>12, <1>13 DEF ScannerNext

\* The row of a file that is there all along, with what the user has marked in it, is never
\* dropped, whatever is read, fails, is cancelled or restarted, on the PC and on a device: but
\* by the prune of a cancelled scan of a folder that had not come to the file (rom_scanner.py
\* 112, 196).
THEOREM MarksAreKept == Spec => MarksStay
<1>. DEFINE Stay(p) == games[p].marked /\ On(p) /\ On(p)' /\ (p \in DOMAIN scan.listed \/ scan.at = "idle")
                           => p \in DOMAIN games' \/ CutOff(p)
<1>1. ASSUME IInv, [Next]_<<store, work, dupVars, scanVars>>
      PROVE  [\A p \in DOMAIN games : Stay(p)]_<<games, disk>>
  <2>1. SUFFICES ASSUME NEW p \in DOMAIN games, p \notin DOMAIN games', On(p), On(p)', ~CutOff(p),
                        p \in DOMAIN scan.listed \/ scan.at = "idle"
                 PROVE  FALSE
    OBVIOUS
  <2>2. ScannerNext
    BY <1>1, <2>1 DEF Next, scanVars
  <2>3. CASE Prune /\ Prunes /\ p \notin scan.seen
    <3>1. Scans /\ scan.at = "prune" /\ scan.kind \in {"full", "quick", "adb"}
      BY <1>1, <2>3 DEF Prune, IInv, LockInv
    <3>2. ListedInv
      BY <1>1, <3>1 DEF IInv, ScanInv
    <3>3. scan.cut
      BY <2>1, <2>3, <3>1, <3>2 DEF ListedInv
    <3>. QED
      BY <2>1, <2>3, <3>1, <3>3 DEF Prunes, CutOff, OnPc
  <2>4. ASSUME NEW x, NEW y, Rename1(x, y), x = p PROVE FALSE
    BY <2>1, <2>4 DEF Rename1, Moved, Put, Without, Restrict, On
  <2>. QED
    BY <1>1, <2>1, <2>2, <2>3, <2>4, RowsGo
<1>. QED
  BY <1>1, Inductive, PTL DEF Spec, MarksStay

\* A scan with hashes that was not cut short and reports no error leaves every file that is
\* as the scan found it with the hash of its content: whatever the rows said, whatever a
\* match writes and the user saves meanwhile, however many scans came before.  Only the row
\* whose stamp a quick scan moved on may keep the hash of an older content (games.py 134).
THEOREM ScansComplete == Spec => ScanCompletes
<1>1. ASSUME IInv, [Next]_<<store, work, dupVars, scanVars>>
      PROVE  [scan.at = "prune" /\ scan' = NoScan /\ Prune /\ ~scan.cut /\ ~scan.errors /\ scan.kind # "quick" =>
                \A p \in Roms0 \cap DOMAIN scan.listed : scan.listed[p] = stamp[p] =>
                    p \in DOMAIN games' /\ (games'[p].sha = disk[p] \/ games'[p].aged)]_<<games, scan>>
  <2>1. SUFFICES ASSUME scan.at = "prune", Prune, ~scan.cut, ~scan.errors, scan.kind # "quick",
                        NEW p \in Roms0 \cap DOMAIN scan.listed, scan.listed[p] = stamp[p]
                 PROVE  p \in DOMAIN games' /\ (games'[p].sha = disk[p] \/ games'[p].aged)
    OBVIOUS
  <2>2. Scans /\ DoneInv /\ ListedInv
    BY <1>1, <2>1 DEF IInv, ScanInv
  <2>3. Hashed(p) /\ p \in scan.seen
    BY <2>1, <2>2 DEF DoneInv, ListedInv, Waiting, Roms0
  <2>4. Seen = games
    BY <2>1, NoneIsNoJob DEF Prune, Seen, Table
  <2>. QED
    BY <2>1, <2>3, <2>4 DEF Prune, Prunes, Restrict, Hashed
<1>. QED
  BY <1>1, Inductive, PTL DEF Spec, ScanCompletes
-----------------------------------------------------------------------------
(* Nothing is lost *)

\* What unlinks its sources, or writes over what is there, by design: the converters; and
\* cleanup-zips, which NothingLost excepts.
Converting == {"chd", "clean", "cleanCueBin", "cso", "n64", "extract", "cleanZips"}
\* What a thread may do where rows cannot always be deleted, and files come back: what else
\* puts files at the paths of others could have taken the place of one.
Answers == {"review", "choose", "exclude", "byContent", "byVariant", "deleteAll", "delete", "noSupport", "adb"}
Careful ==
    /\ tale.does \cap Converting = {}
    /\ Fault("db") => tale.does \subseteq Answers \cup ScanJobs \cup {"match", "fetch", "import"}
Held == Range(disk) \cup trash \cup purged

IsPath(p) == p = At(p.dir, p.stem, p.ext)
IsSequence(s) == s \in Seq(Range(s))
Discardable(db, S) == IsFiniteSet(S) /\ (db => \A p \in S : p.ext \notin SaveExts)

\* The chores that replace nothing, and what each must know for that.
Returning == {"keep", "discard", "drop", "cluster"}
Harmless == Returning \cup {"conflicts", "disk", "collision", "rename", "withdraw", "bring", "rebuild", "sheet0",
                            "tidy", "place", "shelve", "record", "flat", "bios", "relocate", "sheet"}
GoodRename(k) ==
    /\ k.do = "rename" /\ {"do", "at", "to", "of", "next"} \subseteq DOMAIN k
    /\ IsPath(k.to) /\ k.to.ext \notin SaveExts
GoodChore(db, k) ==
    /\ {"do", "at"} \subseteq DOMAIN k /\ k.do \in (IF db THEN Returning ELSE Harmless)
    /\ k.do \in {"keep", "cluster", "collision", "rebuild"} => "of" \in DOMAIN k /\ Discardable(db, k.of)
    /\ k.do = "rename" => GoodRename(k)
    /\ k.do \in {"disk", "collision"} => "to" \in DOMAIN k /\ IsPath(k.to) /\ k.to.ext \notin SaveExts
    /\ k.do \in {"bring", "tidy", "relocate"} => "to" \in DOMAIN k /\ IsPath(k.to)
    /\ k.do \in {"place", "shelve", "record"} => {"to", "batch"} \subseteq DOMAIN k /\ IsFiniteSet(k.batch)
    /\ k.do = "flat" => "to" \in DOMAIN k
    /\ k.do = "sheet0" => IsPath(k.at) /\ "to" \in DOMAIN k
    /\ k.do = "rebuild" => \A p \in k.of : IsPath(p)
    /\ k.do \in {"discard", "cluster"} => {"to", "next"} \subseteq DOMAIN k /\ IsSequence(k.next)
    /\ k.do = "discard" =>
        /\ db => k.at.ext \notin SaveExts /\ k.next = <<>>
        /\ \A i \in DOMAIN k.next : GoodRename(k.next[i])
    /\ k.do = "cluster" => \A i \in DOMAIN k.next : db => k.next[i].ext \notin SaveExts
GoodList(db, s) == IsSequence(s) /\ \A i \in DOMAIN s : GoodChore(db, s[i])
GoodForget(db, k) ==
    /\ k.do = "forget" /\ {"do", "at", "to", "next"} \subseteq DOMAIN k
    /\ GoodList(db, k.next) /\ (k.to # None => IsPath(k.at))
\* A file that is to be forgotten is at the head of its thread.
GoodTodo(db, s) ==
    s # <<>> =>
        /\ IsSequence(s)
        /\ GoodChore(db, s[1]) \/ GoodForget(db, s[1])
        /\ \A i \in DOMAIN s : i > 1 => GoodChore(db, s[i])

DiskInv == IsFiniteSet(DOMAIN disk) /\ \A p \in DOMAIN disk : IsPath(p)
PathsInv == DiskInv /\ IsFiniteSet(DOMAIN rows)
PagesInv ==
    /\ \A g \in page : "entries" \in DOMAIN g /\ Discardable(Fault("db"), g.entries)
    /\ Discardable(Fault("db"), checked)
TodoInv == todo = [t \in Threads |-> todo[t]] /\ \A t \in Threads : GoodTodo(Fault("db"), todo[t])
\* What could come back finds its place free.
Returns(t) == Doing(t, "forget") /\ Now(t).to # None
ReturnInv ==
    Fault("db") =>
        /\ Range(disk) \cup trash \subseteq DOMAIN Facts
        /\ \A t \in Threads : Returns(t) =>
             /\ ~On(Now(t).at) /\ Now(t).at.ext \notin SaveExts
             /\ \A u \in Threads \ {t} : Returns(u) => Now(u).at # Now(t).at
KInv == PathsInv /\ PagesInv /\ TodoInv /\ ReturnInv /\ tale.first \subseteq Held
KeepInv == Careful /\ edits = 0 => KInv
-----------------------------------------------------------------------------
(* Lists of chores *)

LEMMA ListIs ==
    ASSUME NEW n \in Nat, NEW s, s = [i \in 1 .. n |-> s[i]]
    PROVE  IsSequence(s) /\ DOMAIN s = 1 .. n
<1>1. \A i \in 1 .. n : s[i] \in Range(s)
  BY DEF Range
<1>. QED
  BY <1>1 DEF IsSequence

LEMMA ListSeq == ASSUME NEW S, NEW s \in Seq(S) PROVE IsSequence(s) /\ DOMAIN s = 1 .. Len(s) /\ Len(s) \in Nat
<1>1. Len(s) \in Nat /\ s \in [1 .. Len(s) -> S]
  BY LenProperties
<1>2. s = [i \in 1 .. Len(s) |-> s[i]]
  BY <1>1
<1>. QED
  BY <1>1, <1>2, ListIs

LEMMA ListTail ==
    ASSUME NEW s, IsSequence(s), s # <<>>
    PROVE  /\ 1 \in DOMAIN s /\ Head(s) = s[1] /\ IsSequence(Tail(s))
           /\ \A i \in DOMAIN Tail(s) : i + 1 \in DOMAIN s /\ Tail(s)[i] = s[i + 1] /\ i + 1 > 1
<1>1. s \in Seq(Range(s)) /\ Len(s) \in Nat /\ DOMAIN s = 1 .. Len(s) /\ Len(s) # 0
  BY DEF IsSequence
<1>2. /\ Tail(s) \in Seq(Range(s)) /\ DOMAIN Tail(s) = 1 .. Len(s) - 1
      /\ \A i \in 1 .. Len(s) - 1 : Tail(s)[i] = s[i + 1]
  BY <1>1
<1>3. IsSequence(Tail(s))
  BY <1>2, ListSeq
<1>. QED
  BY <1>1, <1>2, <1>3

LEMMA ListCat ==
    ASSUME NEW r, NEW s, IsSequence(r), IsSequence(s)
    PROVE  /\ IsSequence(r \o s)
           /\ \A i \in DOMAIN (r \o s) :
                \/ i \in DOMAIN r /\ (r \o s)[i] = r[i]
                \/ i - Len(r) \in DOMAIN s /\ (r \o s)[i] = s[i - Len(r)]
<1>1. /\ r \in Seq(Range(r)) /\ Len(r) \in Nat /\ DOMAIN r = 1 .. Len(r)
      /\ s \in Seq(Range(s)) /\ Len(s) \in Nat /\ DOMAIN s = 1 .. Len(s)
  BY DEF IsSequence
<1>. DEFINE S == Range(r) \cup Range(s)
<1>2. r \in Seq(S) /\ s \in Seq(S)
  BY <1>1
<1>3. r \o s \in Seq(S) /\ Len(r \o s) = Len(r) + Len(s) /\ DOMAIN (r \o s) = 1 .. Len(r) + Len(s)
  BY <1>1, <1>2
<1>4. \A i \in 1 .. Len(r) + Len(s) : (r \o s)[i] = IF i <= Len(r) THEN r[i] ELSE s[i - Len(r)]
  BY <1>1, <1>2
<1>5. IsSequence(r \o s)
  BY <1>3, ListSeq
<1>. QED
  BY <1>1, <1>3, <1>4, <1>5

LEMMA ListOne == ASSUME NEW k PROVE IsSequence(<<k>>) /\ DOMAIN <<k>> = {1} /\ <<k>>[1] = k
<1>1. <<k>> \in Seq({k}) /\ Len(<<k>>) = 1 /\ <<k>>[1] = k
  OBVIOUS
<1>2. IsSequence(<<k>>) /\ DOMAIN <<k>> = 1 .. 1
  BY <1>1, ListSeq
<1>. QED
  BY <1>1, <1>2

LEMMA ListNone == IsSequence(<<>>) /\ DOMAIN <<>> = {}
BY DEF IsSequence

LEMMA ListRange == ASSUME NEW s, IsSequence(s) PROVE IsFiniteSet(Range(s))
<1>1. s \in Seq(Range(s)) /\ Len(s) \in Nat /\ DOMAIN s = 1 .. Len(s)
  BY DEF IsSequence
<1>2. s \in Surjection(1 .. Len(s), Range(s))
  BY <1>1 DEF Surjection, Range
<1>. QED
  BY <1>1, <1>2, FS_Interval, FS_Surjection

LEMMA FinUnion == \A S, T : IsFiniteSet(S) /\ IsFiniteSet(T) => IsFiniteSet(S \cup T)
BY FS_Union
LEMMA FinSub == \A S, T : IsFiniteSet(S) /\ T \subseteq S => IsFiniteSet(T)
BY FS_Subset

\* The images of a finite set.
LEMMA Image == ASSUME NEW S, IsFiniteSet(S), NEW f PROVE IsFiniteSet({f[x] : x \in S})
<1>. DEFINE T == {f[x] : x \in S}
            g == [x \in S |-> f[x]]
<1>1. g \in Surjection(S, T)
  BY DEF Surjection
<1>. QED
  BY <1>1, FS_Surjection

\* The elements of a finite set, in some order.
LEMMA SomeOrder ==
    ASSUME NEW S, IsFiniteSet(S)
    PROVE  /\ Cardinality(S) \in Nat /\ SetToSeq(S) = [i \in 1 .. Cardinality(S) |-> SetToSeq(S)[i]]
           /\ \A i \in 1 .. Cardinality(S) : SetToSeq(S)[i] \in S
<1>1. Cardinality(S) \in Nat /\ ExistsBijection(1 .. Cardinality(S), S)
  BY FS_CardinalityType
<1>2. \E f \in [1 .. Cardinality(S) -> S] : IsInjective(f)
  BY <1>1 DEF ExistsBijection, Bijection, Injection, IsInjective
<1>3. SetToSeq(S) \in [1 .. Cardinality(S) -> S]
  BY <1>2 DEF SetToSeq
<1>. QED
  BY <1>1, <1>3
-----------------------------------------------------------------------------
(* Lists of good chores *)

LEMMA GoodNone == ASSUME NEW db PROVE GoodList(db, <<>>)
BY ListNone DEF GoodList

LEMMA GoodOne == ASSUME NEW db, NEW k, GoodChore(db, k) PROVE GoodList(db, <<k>>)
BY ListOne DEF GoodList

LEMMA GoodCat ==
    ASSUME NEW db, NEW r, NEW s, GoodList(db, r), GoodList(db, s)
    PROVE  GoodList(db, r \o s)
BY ListCat DEF GoodList

\* A chore for each of some files.
LEMMA GoodEach ==
    ASSUME NEW db, NEW S, IsFiniteSet(S), NEW f, f = [i \in DOMAIN SetToSeq(S) |-> f[i]],
           \A i \in DOMAIN SetToSeq(S) : SetToSeq(S)[i] \in S => GoodChore(db, f[i])
    PROVE  GoodList(db, f)
<1>1. /\ Cardinality(S) \in Nat /\ DOMAIN SetToSeq(S) = 1 .. Cardinality(S)
      /\ \A i \in 1 .. Cardinality(S) : SetToSeq(S)[i] \in S
  BY SomeOrder
<1>2. IsSequence(f) /\ DOMAIN f = 1 .. Cardinality(S)
  BY <1>1, ListIs
<1>. QED
  BY <1>1, <1>2 DEF GoodList

LEMMA GoodStart == ASSUME NEW db, NEW s, GoodList(db, s) PROVE GoodTodo(db, s)
<1>1. ASSUME s # <<>> PROVE 1 \in DOMAIN s
  BY <1>1, ListTail DEF GoodList
<1>. QED
  BY <1>1 DEF GoodList, GoodTodo

\* What a thread is at, and what it has left.
LEMMA AtHead ==
    ASSUME NEW db, NEW s, GoodTodo(db, s), s # <<>>
    PROVE  /\ GoodChore(db, Head(s)) \/ GoodForget(db, Head(s))
           /\ GoodList(db, Tail(s))
BY ListTail DEF GoodTodo, GoodList

LEMMA ForgetFirst ==
    ASSUME NEW db, NEW k, NEW s, GoodForget(db, k), GoodList(db, s)
    PROVE  GoodTodo(db, <<k>> \o s) /\ Head(<<k>> \o s) = k /\ <<k>> \o s # <<>>
<1>1. IsSequence(<<k>>) /\ DOMAIN <<k>> = {1} /\ <<k>>[1] = k /\ Len(<<k>>) = 1
  BY ListOne
<1>2. IsSequence(<<k>> \o s) /\ s \in Seq(Range(s))
  BY <1>1, ListCat DEF GoodList, IsSequence
<1>3. \A i \in DOMAIN (<<k>> \o s) : i > 1 => i - 1 \in DOMAIN s /\ (<<k>> \o s)[i] = s[i - 1]
  BY <1>1, <1>2, ListCat DEF GoodList
<1>4. <<k>> \o s # <<>> /\ (<<k>> \o s)[1] = k /\ Head(<<k>> \o s) = k
  BY <1>2
<1>. QED
  BY <1>2, <1>3, <1>4 DEF GoodTodo, GoodList
-----------------------------------------------------------------------------
(* What is done with files *)

\* A step that loses nothing.
Loses == ~(DiskInv' /\ Held \subseteq Held')
\* One that, besides, brings nothing that was not there, and puts nothing but saves anywhere.
Tame ==
    /\ Range(disk)' \cup trash' \subseteq Range(disk) \cup trash
    /\ \A p \in DOMAIN disk' : p \in DOMAIN disk \/ p.ext \in SaveExts

LEMMA Untouched == ASSUME DiskInv, UNCHANGED <<disk, trash, purged>> PROVE ~Loses /\ Tame
BY DEF DiskInv, Loses, Tame, Held

LEMMA Discards ==
    ASSUME DiskInv, NEW S \in SUBSET DOMAIN disk, Discard(S), purged' = purged
    PROVE  ~Loses /\ Tame /\ DOMAIN disk' = DOMAIN disk \ S
<1>1. DOMAIN disk' = DOMAIN disk \ S /\ \A p \in DOMAIN disk' : disk'[p] = disk[p]
  BY DEF Discard, Without, Restrict
<1>2. trash' = trash \cup {disk[p] : p \in S}
  BY DEF Discard
<1>3. IsFiniteSet(DOMAIN disk')
  BY <1>1, FS_Difference DEF DiskInv
<1>4. Held \subseteq Held'
  BY <1>1, <1>2 DEF Held, Range
<1>. QED
  BY <1>1, <1>2, <1>3, <1>4 DEF DiskInv, Loses, Tame, Range

LEMMA Erases ==
    ASSUME DiskInv, NEW S, disk' = Without(disk, S), trash' = trash,
           purged' = purged \cup {disk[p] : p \in S \cap DOMAIN disk}
    PROVE  ~Loses /\ Tame
<1>1. DOMAIN disk' = DOMAIN disk \ S /\ \A p \in DOMAIN disk' : disk'[p] = disk[p]
  BY DEF Without, Restrict
<1>2. IsFiniteSet(DOMAIN disk')
  BY <1>1, FS_Difference DEF DiskInv
<1>3. Held \subseteq Held'
  BY <1>1 DEF Held, Range
<1>. QED
  BY <1>1, <1>2, <1>3 DEF DiskInv, Loses, Tame, Range

LEMMA Places ==
    ASSUME DiskInv, NEW q, NEW c, IsPath(q), ~On(q), disk' = Put(disk, q, c), purged' = purged,
           trash' = trash \/ trash' = trash \ {c}
    PROVE  ~Loses /\ DOMAIN disk' = {q} \cup DOMAIN disk /\ Range(disk)' = Range(disk) \cup {c}
<1>1. /\ DOMAIN disk' = {q} \cup DOMAIN disk /\ disk'[q] = c
      /\ \A p \in DOMAIN disk : disk'[p] = disk[p]
  BY DEF Put, On
<1>2. IsFiniteSet({q}) /\ IsFiniteSet(DOMAIN disk)
  BY FS_Singleton DEF DiskInv
<1>5. IsFiniteSet(DOMAIN disk')
  BY <1>1, <1>2, FinUnion
<1>3. Range(disk)' = Range(disk) \cup {c}
  BY <1>1 DEF Range
<1>4. Held \subseteq Held'
  BY <1>3 DEF Held
<1>. QED
  BY <1>1, <1>3, <1>4, <1>5 DEF DiskInv, Loses

\* Some files are written over those that are there, others go, and nothing is replaced but
\* by its own content.
LEMMA Carries ==
    ASSUME DiskInv, NEW S, NEW f, f = [q \in DOMAIN f |-> f[q]], IsFiniteSet(DOMAIN f),
           \A q \in DOMAIN f : IsPath(q) /\ f[q] \in Range(disk) /\ (On(q) /\ q \notin S => f[q] = disk[q]),
           \A s \in S \cap DOMAIN disk : \E q \in DOMAIN f : f[q] = disk[s],
           disk' = Over(f, Without(disk, S)), trash' = trash, purged' = purged
    PROVE  /\ ~Loses /\ Range(disk)' \subseteq Range(disk)
           /\ DOMAIN disk' \subseteq DOMAIN f \cup DOMAIN disk
<1>1. /\ DOMAIN disk' = DOMAIN f \cup (DOMAIN disk \ S)
      /\ \A q \in DOMAIN f : disk'[q] = f[q]
      /\ \A q \in DOMAIN disk \ S : q \notin DOMAIN f => disk'[q] = disk[q]
  BY DEF Over, Without, Restrict
<1>2. IsFiniteSet(DOMAIN disk \ S)
  BY FS_Difference DEF DiskInv
<1>7. IsFiniteSet(DOMAIN disk')
  BY <1>1, <1>2, FinUnion
<1>3. \A q \in DOMAIN disk \ S : disk'[q] = disk[q]
  BY <1>1 DEF On
<1>4. \A q \in DOMAIN disk : \E r \in DOMAIN disk' : disk'[r] = disk[q]
  BY <1>1, <1>3
<1>5. Range(disk) \subseteq Range(disk)' /\ Range(disk)' \subseteq Range(disk)
  BY <1>1, <1>3, <1>4 DEF Range
<1>6. Held \subseteq Held'
  BY <1>5 DEF Held
<1>. QED
  BY <1>1, <1>5, <1>6, <1>7 DEF DiskInv, Loses

LEMMA Moves1 ==
    ASSUME DiskInv, NEW p, NEW q, On(p), IsPath(q), ~On(q), disk' = Moved(p, q), trash' = trash, purged' = purged
    PROVE  ~Loses
<1>. DEFINE f == [r \in {q} |-> disk[p]]
<1>1. p # q /\ disk' = Put(Without(disk, {p}), q, disk[p])
  BY DEF Moved, On
<1>2. /\ DOMAIN disk' = DOMAIN Over(f, Without(disk, {p}))
      /\ \A r \in DOMAIN disk' : disk'[r] = Over(f, Without(disk, {p}))[r]
  BY <1>1 DEF Put, Over
<1>3. disk' = Over(f, Without(disk, {p}))
  BY <1>1, <1>2 DEF Put, Over
<1>4. f = [r \in DOMAIN f |-> f[r]] /\ DOMAIN f = {q} /\ f[q] = disk[p]
  OBVIOUS
<1>5. IsFiniteSet(DOMAIN f) /\ disk[p] \in Range(disk)
  BY <1>4, FS_Singleton DEF Range, On
<1>6. \A s \in {p} \cap DOMAIN disk : \E r \in DOMAIN f : f[r] = disk[s]
  BY <1>4
<1>7. \A r \in DOMAIN f : IsPath(r) /\ f[r] \in Range(disk) /\ (On(r) /\ r \notin {p} => f[r] = disk[r])
  BY <1>4, <1>5
<1>. HIDE DEF f
<1>. QED
  BY <1>3, <1>4, <1>5, <1>6, <1>7, Carries
-----------------------------------------------------------------------------
(* What each step needs *)

LEMMA AtWork ==
    ASSUME KInv, NEW t \in Threads, NEW c, Doing(t, c), c # "forget"
    PROVE  GoodChore(Fault("db"), Now(t)) /\ Now(t).do = c /\ GoodList(Fault("db"), Later(t))
<1>1. GoodTodo(Fault("db"), todo[t]) /\ todo[t] # <<>> /\ Now(t).do = c
  BY DEF KInv, TodoInv, Doing
<1>. QED
  BY <1>1, AtHead DEF Now, Later, GoodForget

LEMMA ForgetAtWork ==
    ASSUME KInv, NEW t \in Threads, Doing(t, "forget")
    PROVE  /\ GoodForget(Fault("db"), Now(t)) /\ GoodList(Fault("db"), Later(t))
           /\ GoodList(Fault("db"), Now(t).next)
<1>1. GoodTodo(Fault("db"), todo[t]) /\ todo[t] # <<>> /\ Now(t).do = "forget"
  BY DEF KInv, TodoInv, Doing
<1>2. ~GoodChore(Fault("db"), Now(t))
  BY <1>1 DEF GoodChore, Returning, Harmless
<1>. QED
  BY <1>1, <1>2, AtHead DEF Now, Later, GoodForget

\* A thread goes on, and puts nothing where the file of another thread could come back.
LEMMA GoesOn ==
    ASSUME KInv, NEW t \in Threads, NEW s, GoodTodo(Fault("db"), s), todo' = [todo EXCEPT ![t] = s],
           tale' = tale, UNCHANGED <<page, checked>>, ~Loses, IsFiniteSet(DOMAIN rows'),
           Fault("db") =>
               /\ Range(disk)' \cup trash' \subseteq Range(disk) \cup trash
               /\ \A u \in Threads \ {t} : Returns(u) => Now(u).at \notin DOMAIN disk'
               /\ s # <<>> => ~(Head(s).do = "forget" /\ Head(s).to # None)
    PROVE  KInv'
<1>1. Fault("db")' = Fault("db")
  BY DEF Fault
<1>2. todo'[t] = s /\ \A u \in Threads \ {t} : todo'[u] = todo[u]
  BY DEF KInv, TodoInv
<1>4. todo' = [u \in Threads |-> todo'[u]]
  BY DEF KInv, TodoInv
<1>5. TodoInv'
  BY <1>1, <1>2, <1>4 DEF KInv, TodoInv
<1>6. PagesInv'
  BY <1>1 DEF KInv, PagesInv
<1>7. PathsInv' /\ tale'.first \subseteq Held'
  BY DEF KInv, PathsInv, Loses
<1>8. ReturnInv'
  <2>1. SUFFICES ASSUME Fault("db") PROVE ReturnInv'
    BY <1>1 DEF ReturnInv
  <2>3. ~Returns(t)'
    BY <1>2, <2>1 DEF Returns, Doing, Now
  <2>4. \A u \in Threads \ {t} : (Returns(u)' <=> Returns(u)) /\ (Returns(u) => Now(u)' = Now(u))
    BY <1>2 DEF Returns, Doing, Now
  <2>. QED
    BY <1>1, <2>1, <2>3, <2>4 DEF KInv, ReturnInv, On
<1>. QED
  BY <1>5, <1>6, <1>7, <1>8 DEF KInv

\* A thread goes on with some good chores.
LEMMA Continues ==
    ASSUME KInv, NEW t \in Threads, NEW s, GoodList(Fault("db"), s), todo' = [todo EXCEPT ![t] = s],
           tale' = tale, UNCHANGED <<page, checked>>, ~Loses, Fault("db") => Tame, IsFiniteSet(DOMAIN rows')
    PROVE  KInv'
<1>1. GoodTodo(Fault("db"), s)
  BY GoodStart
<1>2. ASSUME Fault("db"), s # <<>> PROVE Head(s).do # "forget"
  BY <1>2, AtHead, <1>1, ListTail DEF GoodList, GoodChore, Returning
<1>3. ASSUME Fault("db"), NEW u \in Threads \ {t}, Returns(u) PROVE Now(u).at \notin DOMAIN disk'
  BY <1>3 DEF Tame, On, KInv, ReturnInv
<1>. QED
  BY <1>1, <1>2, <1>3, GoesOn DEF Tame

\* A request starts, or a thread plans, and no file is touched.
LEMMA Plans ==
    ASSUME KInv, NEW t \in Threads, NEW s, GoodList(Fault("db"), s), Start(t, s) \/ Then(t, s), UNCHANGED <<store, dupVars>>
    PROVE  KInv'
<1>1. todo' = [todo EXCEPT ![t] = s] /\ tale' = tale /\ UNCHANGED <<page, checked, disk, trash, rows, purged>>
  BY DEF Start, Then, store, dupVars
<1>. QED
  BY <1>1, Continues, Untouched DEF KInv, PathsInv

LEMMA FreePlans ==
    ASSUME KInv, ~Fault("db"), NEW t \in Threads, NEW s, GoodList(FALSE, s), Start(t, s) \/ Then(t, s),
           UNCHANGED <<store, dupVars>>
    PROVE  KInv'
<1>1. Fault("db") = FALSE
  BY DEF Fault
<1>2. GoodList(Fault("db"), s)
  BY <1>1, Zenon
<1>. QED
  BY <1>2, Plans

\* What is not done where files come back.
LEMMA NotReturning ==
    ASSUME KInv, NEW t \in Threads, NEW c \in Harmless \ Returning, Doing(t, c)
    PROVE  ~Fault("db") /\ GoodChore(FALSE, Now(t)) /\ Now(t).do = c /\ GoodList(FALSE, Later(t))
<1>1. c # "forget"
  BY DEF Harmless, Returning
<1>2. GoodChore(Fault("db"), Now(t)) /\ Now(t).do = c /\ GoodList(Fault("db"), Later(t))
  BY <1>1, AtWork
<1>3. ~Fault("db")
  BY <1>2 DEF GoodChore
<1>4. Fault("db") = FALSE
  BY <1>3 DEF Fault
<1>5. GoodChore(FALSE, Now(t)) /\ GoodList(FALSE, Later(t))
  BY <1>2, <1>4, Zenon
<1>. QED
  BY <1>2, <1>3, <1>5

LEMMA NoAnswer ==
    ASSUME Careful, NEW what, what \notin Answers \cup ScanJobs \cup {"match", "fetch", "import"}, Does(what)
    PROVE  ~Fault("db")
BY DEF Careful, Does

LEMMA FewerRows == ASSUME KInv, NEW S, DeleteRows(S) PROVE IsFiniteSet(DOMAIN rows')
BY FinSub DEF DeleteRows, Without, Restrict, KInv, PathsInv

\* No thread goes on.
LEMMA Waits ==
    ASSUME KInv, todo' = todo \/ todo' = [t \in Threads |-> <<>>], tale' = tale, PagesInv', ~Loses, Fault("db") => Tame,
           IsFiniteSet(DOMAIN rows')
    PROVE  KInv'
<1>1. Fault("db")' = Fault("db")
  BY DEF Fault
<1>2. \A u \in Threads : todo'[u] = todo[u] \/ todo'[u] = <<>>
  OBVIOUS
<1>3. \A u \in Threads : GoodTodo(Fault("db"), todo'[u])
  BY <1>2 DEF KInv, TodoInv, GoodTodo
<1>4. todo' = [u \in Threads |-> todo'[u]]
  BY DEF KInv, TodoInv
<1>5. TodoInv'
  BY <1>1, <1>3, <1>4 DEF TodoInv
<1>7. PathsInv' /\ tale'.first \subseteq Held'
  BY DEF KInv, PathsInv, Loses
<1>8. ReturnInv'
  <2>1. SUFFICES ASSUME Fault("db") PROVE ReturnInv'
    BY <1>1 DEF ReturnInv
  <2>4. \A u \in Threads : Returns(u)' => Returns(u) /\ Now(u)' = Now(u)
    BY <1>2 DEF Returns, Doing, Now
  <2>5. \A p : ~On(p) /\ p.ext \notin SaveExts => ~On(p)'
    BY <2>1 DEF Tame, On
  <2>. QED
    BY <1>1, <2>1, <2>4, <2>5 DEF KInv, ReturnInv, Tame
<1>. QED
  BY <1>5, <1>7, <1>8 DEF KInv
-----------------------------------------------------------------------------
(* The chores of the duplicates *)

LEMMA DiscardGood ==
    ASSUME NEW db, NEW p, db => p.ext \notin SaveExts, NEW next, IsSequence(next),
           \A i \in DOMAIN next : GoodRename(next[i]), db => next = <<>>
    PROVE  \A kept : GoodChore(db, Chore("discard", p, None, kept, next))
BY DEF GoodChore, Chore, Returning, Harmless

LEMMA DiscardingForGood ==
    ASSUME NEW db, NEW S, Discardable(db, S), NEW kept
    PROVE  GoodList(db, DiscardingFor(kept, S))
<1>1. DiscardingFor(kept, S) = [i \in DOMAIN SetToSeq(S) |-> Chore("discard", SetToSeq(S)[i], None, kept, <<>>)]
  BY DEF DiscardingFor, Each
<1>2. \A i \in DOMAIN SetToSeq(S) : SetToSeq(S)[i] \in S => GoodChore(db, DiscardingFor(kept, S)[i])
  <2>1. SUFFICES ASSUME NEW i \in DOMAIN SetToSeq(S), SetToSeq(S)[i] \in S
                 PROVE  GoodChore(db, Chore("discard", SetToSeq(S)[i], None, kept, <<>>))
    BY <1>1
  <2>. QED
    BY <2>1, DiscardGood, ListNone DEF Discardable
<1>3. DiscardingFor(kept, S) = [i \in DOMAIN SetToSeq(S) |-> DiscardingFor(kept, S)[i]]
  BY <1>1
<1>. QED
  BY <1>2, <1>3, GoodEach DEF Discardable

LEMMA DiscardingGood == ASSUME NEW db, NEW S, Discardable(db, S) PROVE GoodList(db, Discarding(S))
BY DiscardingForGood DEF Discarding

LEMMA KeepKeeps == ASSUME KInv, NEW t \in Threads, Keep(t), UNCHANGED dupVars PROVE KInv'
<1>1. GoodChore(Fault("db"), Now(t)) /\ Now(t).do = "keep" /\ GoodList(Fault("db"), Later(t))
  BY AtWork DEF Keep
<1>2. GoodList(Fault("db"), DiscardingFor({Now(t).at}, Now(t).of) \o Later(t))
  BY <1>1, DiscardingForGood, GoodCat DEF GoodChore
<1>. DEFINE s == IF On(Now(t).at) THEN DiscardingFor({Now(t).at}, Now(t).of) \o Later(t) ELSE Later(t)
<1>3. GoodList(Fault("db"), s)
  BY <1>1, <1>2
<1>4. todo' = [todo EXCEPT ![t] = s] /\ tale' = tale /\ UNCHANGED <<disk, trash, rows, purged, page, checked>>
  BY DEF Keep, Then, store, dupVars
<1>. HIDE DEF s
<1>. QED
  BY <1>3, <1>4, Continues, Untouched DEF KInv, PathsInv

\* A file that is discarded goes on with the data of its sheet, once its row is gone.
LEMMA DataDiscardable ==
    ASSUME KInv, NEW p, On(p)
    PROVE  Discardable(Fault("db"), {d \in DataOf(p) : On(d)})
<1>1. IsFiniteSet({d \in DataOf(p) : On(d)})
  <2>1. {d \in DataOf(p) : On(d)} \subseteq DOMAIN disk
    BY DEF On
  <2>. QED
    BY <2>1, FinSub DEF KInv, PathsInv, DiskInv
<1>2. ASSUME Fault("db"), NEW d \in DataOf(p) PROVE d.ext \notin SaveExts
  <2>1. disk[p] \in DOMAIN Facts
    BY <1>2 DEF KInv, ReturnInv, Range, On
  <2>2. CASE p.ext \in {"cue", "gdi"}
    <3>1. PICK e \in Facts[disk[p]].data : d = At(p.dir, e.stem, e.ext)
      BY <1>2, <2>2 DEF DataOf, FactsAt
    <3>. QED
      BY <2>1, <3>1, FactsAssumption DEF At, FactsAssumption
  <2>3. CASE p.ext = "ccd"
    BY <1>2, <2>3 DEF DataOf, At, SaveExts
  <2>4. CASE p.ext \notin {"cue", "gdi", "ccd"}
    BY <1>2, <2>4 DEF DataOf
  <2>. QED
    BY <2>2, <2>3, <2>4
<1>. QED
  BY <1>1, <1>2 DEF Discardable

LEMMA RenamesGood ==
    ASSUME NEW db, NEW s, IsSequence(s), \A i \in DOMAIN s : GoodRename(s[i]), db => s = <<>>
    PROVE  GoodList(db, s)
<1>1. CASE db
  BY <1>1, GoodNone
<1>2. CASE ~db
  BY <1>2 DEF GoodList, GoodChore, GoodRename, Harmless
<1>. QED
  BY <1>1, <1>2

LEMMA DiscardFileKeeps == ASSUME KInv, NEW t \in Threads, DiscardFile(t), UNCHANGED dupVars PROVE KInv'
<1>0. PICK p : p = Now(t).at
  OBVIOUS
<1>. DEFINE db == Fault("db")
            next == Discarding({d \in DataOf(p) : On(d)}) \o Now(t).next
            k == Chore("forget", p, disk[p], {}, next)
<1>1. GoodChore(db, Now(t)) /\ Now(t).do = "discard" /\ GoodList(db, Later(t))
  BY AtWork DEF DiscardFile
<1>2. /\ On(p) /\ Discard({p}) /\ todo' = [todo EXCEPT ![t] = <<k>> \o Later(t)]
      /\ tale' = tale /\ UNCHANGED <<rows, purged, page, checked>>
  BY <1>0 DEF DiscardFile, Then, dupVars
<1>3. GoodList(db, next)
  BY <1>0, <1>1, <1>2, DataDiscardable, DiscardingGood, RenamesGood, GoodCat DEF GoodChore
<1>4. GoodForget(db, k) /\ k.do = "forget" /\ k.at = p
  BY <1>2, <1>3 DEF GoodForget, Chore, KInv, PathsInv, DiskInv, On
<1>. HIDE DEF next, k
<1>5. /\ GoodTodo(db, <<k>> \o Later(t)) /\ Head(<<k>> \o Later(t)) = k /\ <<k>> \o Later(t) # <<>>
  BY <1>1, <1>4, ForgetFirst
<1>6. ~Loses /\ Tame /\ DOMAIN disk' = DOMAIN disk \ {p}
  BY <1>2, Discards DEF KInv, PathsInv, On
<1>7. /\ todo'[t] = <<k>> \o Later(t) /\ \A u \in Threads \ {t} : todo'[u] = todo[u]
      /\ todo' = [u \in Threads |-> todo'[u]]
  BY <1>2 DEF KInv, TodoInv
<1>8. Fault("db")' = Fault("db")
  BY <1>2 DEF Fault
<1>9. TodoInv'
  BY <1>5, <1>7, <1>8 DEF KInv, TodoInv
<1>10. PagesInv' /\ PathsInv' /\ tale'.first \subseteq Held'
  BY <1>2, <1>6, <1>8 DEF KInv, PagesInv, PathsInv, Loses
<1>11. ReturnInv'
  <2>1. SUFFICES ASSUME Fault("db") PROVE ReturnInv'
    BY <1>8 DEF ReturnInv
  <2>2. Now(t)' = k /\ Doing(t, "forget")'
    BY <1>4, <1>5, <1>7 DEF Now, Doing
  <2>3. p.ext \notin SaveExts /\ ~On(p)'
    BY <1>0, <1>1, <1>6, <2>1 DEF GoodChore, On
  <2>4. \A u \in Threads \ {t} : (Returns(u)' <=> Returns(u)) /\ (Returns(u) => Now(u)' = Now(u))
    BY <1>7 DEF Returns, Doing, Now
  <2>5. \A q : ~On(q) => ~On(q)'
    BY <1>6 DEF On
  <2>6. \A u \in Threads \ {t} : Returns(u) => Now(u).at # p
    BY <1>2, <2>1 DEF KInv, ReturnInv
  <2>7. Range(disk)' \cup trash' \subseteq DOMAIN Facts
    BY <1>6, <2>1 DEF KInv, ReturnInv, Tame
  <2>8. ASSUME NEW u \in Threads, Returns(u)'
        PROVE  (~On(Now(u).at) /\ Now(u).at.ext \notin SaveExts)'
    <3>1. CASE u = t
      BY <1>4, <2>2, <2>3, <3>1 DEF On
    <3>2. CASE u # t
      BY <2>1, <2>4, <2>5, <2>8, <3>2 DEF KInv, ReturnInv, On
    <3>. QED
      BY <3>1, <3>2
  <2>9. ASSUME NEW u \in Threads, NEW v \in Threads \ {u}, Returns(u)', Returns(v)'
        PROVE  (Now(u).at # Now(v).at)'
    BY <1>4, <2>1, <2>2, <2>4, <2>6, <2>9 DEF KInv, ReturnInv
  <2>. QED
    BY <2>7, <2>8, <2>9 DEF ReturnInv, On
<1>. QED
  BY <1>9, <1>10, <1>11 DEF KInv

LEMMA DiscardOnDeviceKeeps == ASSUME KInv, NEW t \in Threads, DiscardOnDevice(t), UNCHANGED dupVars PROVE KInv'
<1>1. GoodChore(Fault("db"), Now(t)) /\ Now(t).do = "discard" /\ GoodList(Fault("db"), Later(t))
  BY AtWork DEF DiscardOnDevice
<1>2. GoodList(Fault("db"), Now(t).next \o Later(t))
  BY <1>1, RenamesGood, GoodCat DEF GoodChore
<1>3. tale' = tale /\ UNCHANGED <<trash, page, checked>>
  BY DEF DiscardOnDevice, Then, dupVars
<1>4. CASE UNCHANGED <<disk, rows, purged>> /\ todo' = [todo EXCEPT ![t] = Later(t)]
  BY <1>1, <1>3, <1>4, Continues, Untouched DEF KInv, PathsInv
<1>5. CASE /\ disk' = Without(disk, {Now(t).at}) /\ DeleteRows({Now(t).at})
           /\ purged' = purged \cup {disk[q] : q \in {Now(t).at} \cap DOMAIN disk}
           /\ todo' = [todo EXCEPT ![t] = Now(t).next \o Later(t)]
  <2>1. IsFiniteSet(DOMAIN rows')
    BY <1>5, FinSub DEF DeleteRows, Without, Restrict, KInv, PathsInv
  <2>2. ~Loses /\ Tame
    BY <1>3, <1>5, Erases DEF KInv, PathsInv
  <2>. QED
    BY <1>2, <1>3, <1>5, <2>1, <2>2, Continues
<1>. QED
  BY <1>4, <1>5 DEF DiscardOnDevice, Then

LEMMA DiscardGoneKeeps == ASSUME KInv, NEW t \in Threads, DiscardGone(t), UNCHANGED dupVars PROVE KInv'
<1>1. GoodChore(Fault("db"), Now(t)) /\ Now(t).do = "discard" /\ GoodList(Fault("db"), Later(t))
  BY AtWork DEF DiscardGone
<1>2. GoodList(Fault("db"), Now(t).next \o Later(t))
  BY <1>1, RenamesGood, GoodCat DEF GoodChore
<1>3. /\ DeleteRows({Now(t).at}) /\ todo' = [todo EXCEPT ![t] = Now(t).next \o Later(t)]
      /\ tale' = tale /\ UNCHANGED <<disk, trash, purged, page, checked>>
  BY DEF DiscardGone, Then, dupVars
<1>. QED
  BY <1>2, <1>3, Continues, Untouched, FewerRows DEF KInv, PathsInv

LEMMA DiscardFailsKeeps == ASSUME KInv, NEW t \in Threads, DiscardFails(t), UNCHANGED dupVars PROVE KInv'
BY AtWork, Plans DEF DiscardFails

LEMMA ForgetKeeps == ASSUME KInv, NEW t \in Threads, Forget(t), UNCHANGED dupVars PROVE KInv'
<1>1. GoodList(Fault("db"), Now(t).next \o Later(t))
  BY ForgetAtWork, GoodCat DEF Forget
<1>2. /\ DeleteRows({Now(t).at}) /\ todo' = [todo EXCEPT ![t] = Now(t).next \o Later(t)]
      /\ tale' = tale /\ UNCHANGED <<disk, trash, purged, page, checked>>
  BY DEF Forget, Then, dupVars
<1>. QED
  BY <1>1, <1>2, Continues, Untouched, FewerRows DEF KInv, PathsInv

LEMMA ForgetFailsKeeps == ASSUME KInv, NEW t \in Threads, ForgetFails(t), UNCHANGED dupVars PROVE KInv'
<1>0. PICK p, c : p = Now(t).at /\ c = Now(t).to
  OBVIOUS
<1>1. /\ Doing(t, "forget") /\ Fault("db") /\ todo' = [todo EXCEPT ![t] = Later(t)] /\ tale' = tale
      /\ UNCHANGED <<rows, purged, page, checked>>
  BY DEF ForgetFails, Then, dupVars
<1>2. GoodForget(Fault("db"), Now(t)) /\ GoodList(Fault("db"), Later(t))
  BY <1>1, ForgetAtWork
<1>3. CASE c \notin trash
  <2>1. UNCHANGED <<disk, trash>>
    BY <1>0, <1>3 DEF ForgetFails
  <2>. QED
    BY <1>1, <1>2, <2>1, Continues, Untouched DEF KInv, PathsInv
<1>4. CASE c \in trash
  <2>1. disk' = Put(disk, p, c) /\ trash' = trash \ {c}
    BY <1>0, <1>4 DEF ForgetFails
  <2>2. c # None /\ Returns(t) /\ IsPath(p)
    BY <1>0, <1>1, <1>2, <1>4, FactsAssumption DEF KInv, ReturnInv, FactsAssumption, Returns, GoodForget
  <2>3. ~On(p) /\ \A u \in Threads \ {t} : Returns(u) => ~On(Now(u).at) /\ Now(u).at # p
    BY <1>0, <1>1, <2>2 DEF KInv, ReturnInv
  <2>4. ~Loses /\ DOMAIN disk' = {p} \cup DOMAIN disk /\ Range(disk)' = Range(disk) \cup {c}
    BY <1>1, <2>1, <2>2, <2>3, Places DEF KInv, PathsInv
  <2>5. GoodTodo(Fault("db"), Later(t)) /\ (Later(t) # <<>> => Head(Later(t)).do # "forget")
    BY <1>1, <1>2, GoodStart, ListTail DEF GoodList, GoodChore, Returning
  <2>6. Range(disk)' \cup trash' \subseteq Range(disk) \cup trash
    BY <1>4, <2>1, <2>4
  <2>7. \A u \in Threads \ {t} : Returns(u) => Now(u).at \notin DOMAIN disk'
    BY <2>3, <2>4 DEF On
  <2>. QED
    BY <1>1, <2>4, <2>5, <2>6, <2>7, GoesOn DEF KInv, PathsInv
<1>. QED
  BY <1>3, <1>4

LEMMA DropKeeps == ASSUME KInv, NEW t \in Threads, Drop(t), UNCHANGED dupVars PROVE KInv'
<1>0. PICK p : p = Now(t).at
  OBVIOUS
<1>. DEFINE k == Chore("forget", p, None, {}, <<>>)
<1>1. /\ IF On(p) THEN Discard({p}) ELSE UNCHANGED <<disk, trash>>
      /\ todo' = [todo EXCEPT ![t] = <<k>> \o Later(t)] /\ tale' = tale
      /\ UNCHANGED <<rows, purged, page, checked>>
  BY <1>0 DEF Drop, Then, dupVars
<1>2. GoodForget(Fault("db"), k) /\ k.to = None
  BY GoodNone DEF GoodForget, Chore
<1>3. GoodList(Fault("db"), Later(t))
  BY AtWork DEF Drop
<1>. HIDE DEF k
<1>4. GoodTodo(Fault("db"), <<k>> \o Later(t)) /\ Head(<<k>> \o Later(t)) = k
  BY <1>2, <1>3, ForgetFirst
<1>5. ~Loses /\ Tame
  BY <1>1, Discards, Untouched DEF KInv, PathsInv, On
<1>6. ASSUME Fault("db"), NEW u \in Threads \ {t}, Returns(u) PROVE Now(u).at \notin DOMAIN disk'
  BY <1>5, <1>6 DEF Tame, On, KInv, ReturnInv
<1>. QED
  BY <1>1, <1>2, <1>4, <1>5, <1>6, GoesOn DEF Tame, KInv, PathsInv

\* Of the saves of a ROM there is one, and one that bears another name.
LEMMA OneSave ==
    ASSUME DiskInv, NEW p
    PROVE  /\ \A x, y \in SavesAt(p) : x = y
           /\ SavesAt(p) \subseteq DOMAIN disk /\ IsFiniteSet(SavesAt(p))
<1>1. \A x \in SavesAt(p) : x = At(p.dir, p.stem, "srm")
  BY DEF DiskInv, IsPath, SavesAt, SaveExts
<1>2. SavesAt(p) \subseteq DOMAIN disk
  BY DEF SavesAt
<1>. QED
  BY <1>1, <1>2, FinSub DEF DiskInv

LEMMA CarriedSaves ==
    ASSUME DiskInv, NEW p, NEW q, NEW S, \A s \in S : \E x \in SavesAt(p) : s = Carried(x, q)
    PROVE  /\ IsFiniteSet(S) /\ \A s, r \in S : s = r
           /\ \A s \in S : IsPath(s) /\ s.ext \in SaveExts
<1>1. \A x \in SavesAt(p) : Carried(x, q) = At(q.dir, q.stem, "srm")
  BY DEF SavesAt, Carried, SaveExts
<1>2. S \subseteq {At(q.dir, q.stem, "srm")} /\ IsFiniteSet({At(q.dir, q.stem, "srm")})
  BY <1>1, FS_Singleton
<1>3. IsPath(At(q.dir, q.stem, "srm")) /\ At(q.dir, q.stem, "srm").ext \in SaveExts
  BY DEF IsPath, At, SaveExts
<1>. QED
  BY <1>2, <1>3, FinSub

\* A loser whose saves are carried replaces nothing but what they hold.
LEMMA LoserCarries ==
    ASSUME KInv, NEW p, NEW keep, ~Clash(keep, p), UNCHANGED <<trash, purged>>,
           disk' = Over([s \in {Carried(x, keep) : x \in SavesAt(p)} |->
                            disk[CHOOSE x \in SavesAt(p) : Carried(x, keep) = s]], Without(disk, SavesAt(p)))
    PROVE  ~Loses /\ Tame
<1>0. PICK S, f : S = {Carried(x, keep) : x \in SavesAt(p)}
                  /\ f = [s \in S |-> disk[CHOOSE x \in SavesAt(p) : Carried(x, keep) = s]]
  OBVIOUS
<1>11. \A s \in S : \E x \in SavesAt(p) : s = Carried(x, keep)
  BY <1>0
<1>1. IsFiniteSet(S) /\ \A s \in S : IsPath(s) /\ s.ext \in SaveExts
  BY <1>11, CarriedSaves DEF KInv, PathsInv
<1>2. \A x, y \in SavesAt(p) : x = y
  BY OneSave DEF KInv, PathsInv
<1>3. SavesAt(p) \subseteq DOMAIN disk
  BY OneSave DEF KInv, PathsInv
<1>4. ASSUME NEW x \in SavesAt(p) PROVE f[Carried(x, keep)] = disk[x] /\ disk[x] \in Range(disk)
  <2>1. (CHOOSE y \in SavesAt(p) : Carried(y, keep) = Carried(x, keep)) = x
    BY <1>2
  <2>. QED
    BY <1>0, <1>3, <2>1 DEF Range
<1>5. \A x \in SavesAt(p) : On(Carried(x, keep)) => disk[Carried(x, keep)] = disk[x]
  BY DEF Clash
<1>6. f = [q \in DOMAIN f |-> f[q]] /\ DOMAIN f = S
  BY <1>0
<1>7. disk' = Over(f, Without(disk, SavesAt(p)))
  BY <1>0
<1>8. \A q \in DOMAIN f :
        IsPath(q) /\ f[q] \in Range(disk) /\ (On(q) /\ q \notin SavesAt(p) => f[q] = disk[q])
  BY <1>1, <1>4, <1>5, <1>6, <1>11
<1>9. \A s \in SavesAt(p) \cap DOMAIN disk : \E q \in DOMAIN f : f[q] = disk[s]
  BY <1>0, <1>4, <1>6
<1>10. /\ ~Loses /\ Range(disk)' \subseteq Range(disk)
       /\ DOMAIN disk' \subseteq DOMAIN f \cup DOMAIN disk
  BY <1>1, <1>6, <1>7, <1>8, <1>9, Carries DEF KInv, PathsInv
<1>. QED
  BY <1>1, <1>6, <1>10 DEF Tame

LEMMA LoserKeeps == ASSUME KInv, NEW t \in Threads, NEW p \in Roms, Loser(t, p), UNCHANGED dupVars PROVE KInv'
<1>1. PICK fate \in Fates(Now(t).at, p, Now(t).to) :
        /\ disk' = IF fate = "carried"
                   THEN Over([s \in {Carried(x, Now(t).at) : x \in SavesAt(p)} |->
                                 disk[CHOOSE x \in SavesAt(p) : Carried(x, Now(t).at) = s]], Without(disk, SavesAt(p)))
                   ELSE disk
        /\ Then(t, <<[Now(t) EXCEPT !.of = @ \ {p}, !.next = IF fate = "stays" THEN @ ELSE Append(@, p)]>> \o Later(t))
  BY DEF Loser
<1>0. PICK now : now = Now(t)
  OBVIOUS
<1>2. GoodChore(Fault("db"), now) /\ now.do = "cluster" /\ GoodList(Fault("db"), Later(t)) /\ p \in now.of
  BY <1>0, AtWork DEF Loser
<1>3. UNCHANGED <<trash, rows, purged, page, checked>>
  BY DEF Loser, dupVars
<1>4. PICK k : k = [now EXCEPT !.of = @ \ {p}, !.next = IF fate = "stays" THEN @ ELSE Append(@, p)]
  OBVIOUS
<1>5. {"do", "at", "to", "of", "next"} \subseteq DOMAIN now
  BY <1>2 DEF GoodChore
<1>6. /\ DOMAIN k = DOMAIN now /\ k.do = "cluster" /\ k.of = now.of \ {p}
      /\ k.next = IF fate = "stays" THEN now.next ELSE Append(now.next, p)
  BY <1>2, <1>4, <1>5
<1>7. IsSequence(now.next) /\ \A i \in DOMAIN now.next : Fault("db") => now.next[i].ext \notin SaveExts
  BY <1>2 DEF GoodChore
<1>8. IsSequence(k.next) /\ \A i \in DOMAIN k.next : Fault("db") => k.next[i].ext \notin SaveExts
  <2>1. CASE fate = "stays"
    BY <1>6, <1>7, <2>1
  <2>2. CASE fate # "stays"
    <3>. DEFINE s == now.next
                S == Range(s) \cup {p}
    <3>1. s \in Seq(S) /\ k.next = Append(s, p)
      BY <1>6, <1>7, <2>2 DEF IsSequence
    <3>2. /\ Append(s, p) \in Seq(S) /\ Len(Append(s, p)) = Len(s) + 1 /\ Len(s) \in Nat /\ DOMAIN s = 1 .. Len(s)
          /\ \A i \in 1 .. Len(s) : Append(s, p)[i] = s[i]
          /\ Append(s, p)[Len(s) + 1] = p
      BY <3>1
    <3>3. IsSequence(k.next) /\ DOMAIN k.next = 1 .. Len(s) + 1
      BY <3>1, <3>2, ListSeq
    <3>4. p.ext \notin SaveExts
      BY DEF Roms
    <3>. HIDE DEF s
    <3>5. ASSUME NEW i \in DOMAIN k.next, Fault("db") PROVE k.next[i].ext \notin SaveExts
      <4>1. i = Len(s) + 1 \/ i \in 1 .. Len(s)
        BY <3>2, <3>3
      <4>2. s = now.next
        BY DEF s
      <4>. QED
        BY <1>7, <3>1, <3>2, <3>4, <3>5, <4>1, <4>2
    <3>. QED
      BY <3>3, <3>5
  <2>. QED
    BY <2>1, <2>2
<1>9. Discardable(Fault("db"), now.of \ {p})
  BY <1>2, FinSub DEF GoodChore, Discardable
<1>10. GoodChore(Fault("db"), k)
  BY <1>2, <1>5, <1>6, <1>8, <1>9 DEF GoodChore, Returning, Harmless
<1>11. GoodList(Fault("db"), <<k>> \o Later(t))
  BY <1>2, <1>10, GoodOne, GoodCat
<1>12. ~Loses /\ Tame
  <2>1. CASE fate = "carried"
    <3>1. ~Clash(Now(t).at, p)
      BY <1>1, <2>1 DEF Fates
    <3>. QED
      BY <1>1, <1>3, <2>1, <3>1, LoserCarries
  <2>2. CASE fate # "carried"
    BY <1>1, <1>3, <2>2, Untouched DEF KInv, PathsInv
  <2>. QED
    BY <2>1, <2>2
<1>13. todo' = [todo EXCEPT ![t] = <<k>> \o Later(t)] /\ tale' = tale
  BY <1>0, <1>1, <1>4 DEF Then
<1>. QED
  BY <1>3, <1>11, <1>12, <1>13, Continues DEF KInv, PathsInv

LEMMA LosersDoneKeeps == ASSUME KInv, NEW t \in Threads, LosersDone(t), UNCHANGED dupVars PROVE KInv'
<1>1. GoodChore(Fault("db"), Now(t)) /\ Now(t).do = "cluster" /\ GoodList(Fault("db"), Later(t))
  BY AtWork DEF LosersDone
<1>. DEFINE k == Chore("keep", Now(t).at, None, Range(Now(t).next), <<>>)
<1>2. Discardable(Fault("db"), Range(Now(t).next))
  BY <1>1, ListRange DEF GoodChore, Discardable, Range
<1>3. GoodChore(Fault("db"), k)
  BY <1>2 DEF GoodChore, Chore, Returning, Harmless
<1>. HIDE DEF k
<1>4. GoodList(Fault("db"), <<k>> \o Later(t))
  BY <1>1, <1>3, GoodOne, GoodCat
<1>5. PICK s : s = IF Now(t).next = <<>> THEN Later(t) ELSE <<k>> \o Later(t)
  OBVIOUS
<1>6. GoodList(Fault("db"), s) /\ Then(t, s) /\ UNCHANGED store
  BY <1>1, <1>4, <1>5 DEF LosersDone, k
<1>. QED
  BY <1>6, Plans

LEMMA TargetFree == \A p \in Moving : p \in DOMAIN rows /\ IsPath(Target(p)) /\ Target(p).ext \notin SaveExts
<1>1. SUFFICES ASSUME NEW p \in Moving PROVE p \in DOMAIN rows /\ IsPath(Target(p)) /\ Target(p).ext \notin SaveExts
  OBVIOUS
<1>2. p \in Roms /\ Target(p) # p
  BY DEF Moving, Known
<1>3. ~IsVariant(p)
  BY <1>2 DEF Target
<1>4. PICK d, s : Target(p) = At(d, s, p.ext)
  BY <1>3 DEF Target
<1>. QED
  BY <1>2, <1>4 DEF Roms, IsPath, At

LEMMA PlanConflictsKeeps == ASSUME KInv, NEW t \in Threads, PlanConflicts(t), UNCHANGED dupVars PROVE KInv'
<1>1. "conflicts" \in Harmless \ Returning
  BY DEF Harmless, Returning
<1>2. ~Fault("db") /\ GoodList(FALSE, Later(t))
  BY <1>1, NotReturning DEF PlanConflicts
<1>. DEFINE S == {p \in OnDisk : ~Discs(p)}
            T == {b \in ByTarget : \A p \in b : ~Discs(p)}
            r == [i \in DOMAIN SetToSeq(S) |-> Chore("disk", SetToSeq(S)[i], Target(SetToSeq(S)[i]), {}, <<>>)]
            s == [i \in DOMAIN SetToSeq(T) |->
                     Chore("collision", None, Target(CHOOSE p \in SetToSeq(T)[i] : TRUE), SetToSeq(T)[i], <<>>)]
<1>3. Then(t, r \o s \o Later(t)) /\ UNCHANGED store
  BY DEF PlanConflicts, Each
<1>4. IsFiniteSet(DOMAIN rows) /\ Moving \subseteq DOMAIN rows
  BY TargetFree DEF KInv, PathsInv
<1>5. IsFiniteSet(Moving \ OnDisk) /\ Moving \ OnDisk \subseteq Moving
  BY <1>4, FinSub
<1>6. S \subseteq Moving /\ IsFiniteSet(S)
  BY <1>4, FinSub DEF OnDisk
<1>7. ByTarget \subseteq {{q \in Moving \ OnDisk : [x \in Moving \ OnDisk |-> Target(x)][q] = [x \in Moving \ OnDisk |-> Target(x)][p]}
                             : p \in Moving \ OnDisk}
  BY DEF ByTarget, Several, Buckets
<1>8. PICK B, g : B = Moving \ OnDisk /\ g = [x \in B |-> Target(x)]
  OBVIOUS
<1>9. PICK h : h = [p \in B |-> {q \in B : g[q] = g[p]}]
  OBVIOUS
<1>10. ByTarget \subseteq {h[p] : p \in B}
  BY <1>7, <1>8, <1>9
<1>16. IsFiniteSet({h[p] : p \in B})
  BY <1>5, <1>8, Image
<1>11. IsFiniteSet(T)
  <2>1. T \subseteq {h[p] : p \in B}
    BY <1>10
  <2>. QED
    BY <1>16, <2>1, FinSub
<1>12. \A b \in T : b \subseteq Moving /\ b # {}
  BY <1>5, <1>8, <1>9, <1>10
<1>13. GoodList(FALSE, r)
  <2>1. ASSUME NEW i \in DOMAIN SetToSeq(S), SetToSeq(S)[i] \in S PROVE GoodChore(FALSE, r[i])
    BY <1>6, <2>1, TargetFree DEF GoodChore, Chore, Harmless, Returning
  <2>2. r = [i \in DOMAIN SetToSeq(S) |-> r[i]]
    OBVIOUS
  <2>. HIDE DEF r, S
  <2>. QED
    BY <1>6, <2>1, <2>2, GoodEach
<1>14. GoodList(FALSE, s)
  <2>1. ASSUME NEW i \in DOMAIN SetToSeq(T), SetToSeq(T)[i] \in T PROVE GoodChore(FALSE, s[i])
    <3>1. PICK b : b = SetToSeq(T)[i]
      OBVIOUS
    <3>2. PICK q \in Moving : q = CHOOSE p \in b : TRUE
      BY <1>12, <2>1, <3>1
    <3>3. s[i] = Chore("collision", None, Target(q), b, <<>>)
      BY <3>1, <3>2
    <3>4. Discardable(FALSE, b)
      BY <1>4, <1>12, <2>1, <3>1, FinSub DEF Discardable
    <3>. QED
      BY <3>3, <3>4, TargetFree DEF GoodChore, Chore, Harmless, Returning
  <2>2. s = [i \in DOMAIN SetToSeq(T) |-> s[i]]
    OBVIOUS
  <2>. HIDE DEF s, T
  <2>. QED
    BY <1>11, <2>1, <2>2, GoodEach
<1>. HIDE DEF r, s
<1>15. GoodList(FALSE, r \o s \o Later(t))
  BY <1>2, <1>13, <1>14, GoodCat
<1>. QED
  BY <1>2, <1>3, <1>15, FreePlans

LEMMA RenamingGood ==
    ASSUME NEW p, NEW q, NEW S, IsPath(q), q.ext \notin SaveExts
    PROVE  IsSequence(Renaming(p, q, S)) /\ (\A i \in DOMAIN Renaming(p, q, S) : GoodRename(Renaming(p, q, S)[i]))
           /\ GoodList(FALSE, Renaming(p, q, S))
<1>1. GoodRename(Chore("rename", p, q, S, <<>>))
  BY DEF GoodRename, Chore
<1>2. IsSequence(Renaming(p, q, S)) /\ \A i \in DOMAIN Renaming(p, q, S) : GoodRename(Renaming(p, q, S)[i])
  BY <1>1, ListOne DEF Renaming
<1>. QED
  BY <1>2, RenamesGood

LEMMA DiskConflictKeeps == ASSUME KInv, NEW t \in Threads, DiskConflict(t), UNCHANGED dupVars PROVE KInv'
<1>1. "disk" \in Harmless \ Returning
  BY DEF Harmless, Returning
<1>2. ~Fault("db") /\ GoodList(FALSE, Later(t)) /\ GoodChore(FALSE, Now(t)) /\ Now(t).do = "disk"
  BY <1>1, NotReturning DEF DiskConflict
<1>3. PICK p, q : p = Now(t).at /\ q = Now(t).to
  OBVIOUS
<1>4. IsPath(q) /\ q.ext \notin SaveExts
  BY <1>2, <1>3 DEF GoodChore
<1>5. GoodList(FALSE, <<Chore("discard", q, None, {}, Renaming(p, q, {}))>>)
  <2>1. GoodChore(FALSE, Chore("discard", q, None, {}, Renaming(p, q, {})))
    BY <1>4, RenamingGood, DiscardGood
  <2>. QED
    BY <2>1, GoodOne
<1>6. GoodList(FALSE, Discarding({p}))
  BY DiscardingGood, FS_Singleton DEF Discardable
<1>7. PICK s : s = IF ~On(p) \/ (RaAt(p) <= 0 /\ RaAt(q) <= 0) THEN <<>>
                   ELSE IF RaAt(q) < RaAt(p) THEN <<Chore("discard", q, None, {}, Renaming(p, q, {}))>>
                   ELSE Discarding({p})
  OBVIOUS
<1>8. GoodList(FALSE, s)
  BY <1>5, <1>6, <1>7, GoodNone
<1>9. GoodList(FALSE, s \o Later(t))
  BY <1>2, <1>8, GoodCat
<1>10. Then(t, s \o Later(t)) /\ UNCHANGED store
  BY <1>3, <1>7 DEF DiskConflict
<1>. QED
  BY <1>2, <1>9, <1>10, FreePlans

LEMMA CollisionKeeps == ASSUME KInv, NEW t \in Threads, Collision(t), UNCHANGED dupVars PROVE KInv'
<1>1. "collision" \in Harmless \ Returning
  BY DEF Harmless, Returning
<1>2. ~Fault("db") /\ GoodList(FALSE, Later(t)) /\ GoodChore(FALSE, Now(t)) /\ Now(t).do = "collision"
  BY <1>1, NotReturning DEF Collision
<1>3. PICK some, q : some = {p \in Now(t).of : On(p)} /\ q = Now(t).to
  OBVIOUS
<1>4. IsPath(q) /\ q.ext \notin SaveExts /\ IsFiniteSet(some)
  BY <1>2, <1>3, FinSub DEF GoodChore, Discardable
<1>5. CASE Then(t, Later(t))
  BY <1>2, <1>5, FreePlans DEF Collision
<1>6. ASSUME NEW p, Then(t, Discarding(some \ {p}) \o Renaming(p, q, {p}) \o Later(t)) PROVE KInv'
  <2>1. GoodList(FALSE, Discarding(some \ {p}))
    BY <1>4, FinSub, DiscardingGood DEF Discardable
  <2>2. GoodList(FALSE, Renaming(p, q, {p}))
    BY <1>4, RenamingGood
  <2>3. GoodList(FALSE, Discarding(some \ {p}) \o Renaming(p, q, {p}) \o Later(t))
    BY <1>2, <2>1, <2>2, GoodCat
  <2>. QED
    BY <1>2, <1>6, <2>3, FreePlans DEF Collision
<1>. QED
  BY <1>3, <1>5, <1>6 DEF Collision

\* Outside of where files come back a thread goes on when nothing is lost.
LEMMA FreeGoes ==
    ASSUME KInv, ~Fault("db"), NEW t \in Threads, NEW s, GoodList(FALSE, s), Then(t, s), UNCHANGED dupVars,
           ~Loses, IsFiniteSet(DOMAIN rows')
    PROVE  KInv'
<1>1. Fault("db") = FALSE
  BY DEF Fault
<1>2. GoodList(Fault("db"), s)
  BY <1>1, Zenon
<1>3. todo' = [todo EXCEPT ![t] = s] /\ tale' = tale /\ UNCHANGED <<page, checked>>
  BY DEF Then, dupVars
<1>. QED
  BY <1>2, <1>3, Continues

\* The saves in the way of those of a ROM, and the files once all of them have moved.
InTheWay(p, q) == {s \in {Carried(x, q) : x \in SavesAt(p)} : On(s)} \ SavesAt(p)
Renamed(p, q, old) ==
    Over([s \in {Carried(x, q) : x \in SavesAt(p)} |-> disk[CHOOSE x \in SavesAt(p) : Carried(x, q) = s]],
         Over([b \in {BakOf(s, q) : s \in old} |-> disk[CHOOSE s \in old : BakOf(s, q) = b]],
              Put(Without(disk, SavesAt(p) \cup {p}), q, disk[p])))

\* A ROM takes its saves along, and a save that is in the way gets another name.
LEMMA RenameCarries ==
    ASSUME KInv, NEW p, NEW q, On(p), p # q, ~On(q), IsPath(q), q.ext \notin SaveExts,
           NEW old, old = InTheWay(p, q), \A s \in old : FreeBaks(s, q) # {}, UNCHANGED <<trash, purged>>,
           disk' = Renamed(p, q, old)
    PROVE  ~Loses
<1>1. PICK C, B, f1, f2 :
        /\ C = {Carried(x, q) : x \in SavesAt(p)}
        /\ f1 = [s \in C |-> disk[CHOOSE x \in SavesAt(p) : Carried(x, q) = s]]
        /\ B = {BakOf(s, q) : s \in old}
        /\ f2 = [b \in B |-> disk[CHOOSE s \in old : BakOf(s, q) = b]]
  OBVIOUS
<1>2. PICK f3, f : f3 = [x \in {q} |-> disk[p]] /\ f = Over(f1, Over(f2, f3))
  OBVIOUS
<1>3. PICK S : S = SavesAt(p) \cup {p} \cup old
  OBVIOUS
<1>4. DiskInv /\ IsFiniteSet(DOMAIN disk) /\ \A x \in DOMAIN disk : IsPath(x)
  BY DEF KInv, PathsInv, DiskInv
<1>5. SavesAt(p) \subseteq DOMAIN disk /\ \A x, y \in SavesAt(p) : x = y
  BY <1>4, OneSave
<1>6. \A s \in C : \E x \in SavesAt(p) : s = Carried(x, q)
  BY <1>1
<1>7. IsFiniteSet(C) /\ (\A s, r \in C : s = r) /\ \A s \in C : IsPath(s) /\ s.ext \in SaveExts
  BY <1>4, <1>6, CarriedSaves
<1>8. old \subseteq C /\ old \subseteq DOMAIN disk
  BY <1>1 DEF InTheWay, On
<1>9. ASSUME NEW s \in old
      PROVE  IsPath(BakOf(s, q)) /\ BakOf(s, q).ext \notin SaveExts /\ ~On(BakOf(s, q)) /\ BakOf(s, q) # q
  <2>1. BakOf(s, q) \in FreeBaks(s, q)
    BY <1>9 DEF BakOf
  <2>2. PICK x \in BakExts : BakOf(s, q) = At(s.dir, s.stem, x) /\ ~On(BakOf(s, q)) /\ BakOf(s, q) # q
    BY <2>1 DEF FreeBaks
  <2>. QED
    BY <2>2 DEF BakExts, SaveExts, IsPath, At
<1>10. \A b \in B : \E s \in old : b = BakOf(s, q)
  BY <1>1
<1>11. IsFiniteSet(B)
  <2>1. CASE B = {}
    BY <2>1, FS_EmptySet
  <2>2. CASE B # {}
    <3>1. PICK b \in B : TRUE
      BY <2>2
    <3>2. B \subseteq {b}
      BY <1>7, <1>8, <1>10, <3>1
    <3>. QED
      BY <3>2, FinSub, FS_Singleton
  <2>. QED
    BY <2>1, <2>2
<1>12. DOMAIN f1 = C /\ DOMAIN f2 = B /\ DOMAIN f3 = {q} /\ f3[q] = disk[p]
  BY <1>1, <1>2
<1>13. ASSUME NEW x \in SavesAt(p) PROVE Carried(x, q) \in C /\ f1[Carried(x, q)] = disk[x]
  <2>1. (CHOOSE y \in SavesAt(p) : Carried(y, q) = Carried(x, q)) = x
    BY <1>5
  <2>. QED
    BY <1>1, <2>1
<1>14. ASSUME NEW s \in old PROVE BakOf(s, q) \in B /\ f2[BakOf(s, q)] = disk[s]
  <2>1. (CHOOSE r \in old : BakOf(r, q) = BakOf(s, q)) = s
    BY <1>7, <1>8
  <2>. QED
    BY <1>1, <2>1
<1>15. /\ DOMAIN f = C \cup B \cup {q} /\ f = [x \in DOMAIN f |-> f[x]]
       /\ \A s \in C : f[s] = f1[s]
       /\ \A b \in B : b \notin C => f[b] = f2[b]
       /\ q \notin C \cup B => f[q] = disk[p]
  BY <1>2, <1>12 DEF Over
<1>16. q \notin C \cup B /\ B \cap C = {}
  BY <1>7, <1>9, <1>10
<1>17. IsFiniteSet(DOMAIN f)
  <2>1. IsFiniteSet({q}) /\ IsFiniteSet(C \cup B)
    BY <1>7, <1>11, FinUnion, FS_Singleton
  <2>. QED
    BY <1>15, <2>1, FinUnion
<1>18. \A x \in DOMAIN f : IsPath(x) /\ f[x] \in Range(disk) /\ (On(x) /\ x \notin S => f[x] = disk[x])
  <2>1. ASSUME NEW x \in C PROVE IsPath(x) /\ f[x] \in Range(disk) /\ (On(x) => x \in S)
    <3>1. PICK y \in SavesAt(p) : x = Carried(y, q)
      BY <1>6
    <3>2. On(x) => x \in S
      BY <1>1, <1>3 DEF InTheWay, On
    <3>. QED
      BY <1>5, <1>7, <1>13, <1>15, <3>1, <3>2 DEF Range
  <2>2. ASSUME NEW x \in B PROVE IsPath(x) /\ f[x] \in Range(disk) /\ ~On(x)
    <3>1. PICK s \in old : x = BakOf(s, q)
      BY <1>10
    <3>. QED
      BY <1>8, <1>9, <1>14, <1>15, <1>16, <3>1 DEF Range
  <2>3. IsPath(q) /\ f[q] \in Range(disk) /\ ~On(q)
    BY <1>15, <1>16 DEF Range, On
  <2>. QED
    BY <1>15, <2>1, <2>2, <2>3
<1>19. \A s \in S \cap DOMAIN disk : \E x \in DOMAIN f : f[x] = disk[s]
  BY <1>3, <1>13, <1>14, <1>15, <1>16
<1>20. disk' = Over(f, Without(disk, S))
  <2>1. PICK g, h : g = Put(Without(disk, SavesAt(p) \cup {p}), q, disk[p]) /\ h = Over(f1, Over(f2, g))
    OBVIOUS
  <2>2. disk' = h
    BY <1>1, <2>1 DEF Renamed
  <2>3. /\ DOMAIN g = {q} \cup (DOMAIN disk \ (SavesAt(p) \cup {p})) /\ g[q] = disk[p]
        /\ \A x \in DOMAIN disk \ (SavesAt(p) \cup {p}) : x # q => g[x] = disk[x]
    BY <2>1 DEF Put, Without, Restrict
  <2>4. /\ DOMAIN h = C \cup B \cup DOMAIN g /\ h = [x \in DOMAIN h |-> h[x]]
        /\ \A s \in C : h[s] = f1[s]
        /\ \A b \in B : b \notin C => h[b] = f2[b]
        /\ \A x \in DOMAIN g : x \notin C \cup B => h[x] = g[x]
    BY <1>12, <2>1 DEF Over
  <2>5. PICK k : k = Over(f, Without(disk, S))
    OBVIOUS
  <2>6. /\ DOMAIN k = DOMAIN f \cup (DOMAIN disk \ S) /\ k = [x \in DOMAIN k |-> k[x]]
        /\ \A x \in DOMAIN f : k[x] = f[x]
        /\ \A x \in DOMAIN disk \ S : x \notin DOMAIN f => k[x] = disk[x]
    BY <2>5 DEF Over, Without, Restrict
  <2>7. DOMAIN h = DOMAIN k
    BY <1>3, <1>8, <1>15, <2>3, <2>4, <2>6
  <2>8. \A x \in DOMAIN h : h[x] = k[x]
    BY <1>3, <1>8, <1>15, <1>16, <2>3, <2>4, <2>6
  <2>. QED
    BY <2>2, <2>4, <2>5, <2>6, <2>7, <2>8
<1>. QED
  BY <1>4, <1>15, <1>17, <1>18, <1>19, <1>20, Carries

LEMMA RenameKeeps == ASSUME KInv, NEW t \in Threads, Rename(t), UNCHANGED dupVars PROVE KInv'
<1>1. "rename" \in Harmless \ Returning
  BY DEF Harmless, Returning
<1>2. ~Fault("db") /\ GoodList(FALSE, Later(t)) /\ GoodChore(FALSE, Now(t)) /\ Now(t).do = "rename"
  BY <1>1, NotReturning DEF Rename
<1>3. PICK p, q : p = Now(t).at /\ q = Now(t).to
  OBVIOUS
<1>4. PICK s \in {<<>>, Later(t)} : Then(t, s)
  BY DEF Rename
<1>5. GoodList(FALSE, s)
  BY <1>2, <1>4, GoodNone
<1>6. IsFiniteSet(DOMAIN rows')
  <2>1. rows' = rows \/ rows' = RowMoved(p, q)
    BY <1>3 DEF Rename
  <2>2. DOMAIN RowMoved(p, q) \subseteq {q} \cup DOMAIN rows
    BY DEF RowMoved, Put, Without, Restrict
  <2>3. IsFiniteSet({q} \cup DOMAIN rows)
    BY FinUnion, FS_Singleton DEF KInv, PathsInv
  <2>. QED
    BY <2>1, <2>2, <2>3, FinSub DEF KInv, PathsInv
<1>7. UNCHANGED <<trash, purged>>
  BY DEF Rename
<1>8. ~Loses
  <2>1. CASE UNCHANGED disk
    BY <1>7, <2>1, Untouched DEF KInv, PathsInv
  <2>2. CASE ~UNCHANGED disk
    <3>1. PICK old : old = InTheWay(p, q)
      OBVIOUS
    <3>2. On(p) /\ p # q /\ ~On(q)
      BY <1>3, <2>2 DEF Rename
    <3>3. (\A r \in old : FreeBaks(r, q) # {}) /\ disk' = Renamed(p, q, old)
      BY <1>3, <2>2, <3>1 DEF Rename, InTheWay, Renamed
    <3>4. IsPath(q) /\ q.ext \notin SaveExts
      BY <1>2, <1>3 DEF GoodChore, GoodRename
    <3>. QED
      BY <1>7, <3>1, <3>2, <3>3, <3>4, RenameCarries
  <2>. QED
    BY <2>1, <2>2
<1>. QED
  BY <1>2, <1>4, <1>5, <1>6, <1>8, FreeGoes
-----------------------------------------------------------------------------
(* The queue of the page is a finite set of groups of rows *)

LEMMA ShaIn == ASSUME NEW ps PROVE /\ \A b \in Several(Buckets(ps, Sha)) : b \subseteq ps
                                   /\ IsFiniteSet(ps) => IsFiniteSet(Several(Buckets(ps, Sha)))
<1>1. PICK k : k = [p \in ps |-> Sha(p)]
  OBVIOUS
<1>2. PICK h : h = [p \in ps |-> {q \in ps : k[q] = k[p]}]
  OBVIOUS
<1>3. Several(Buckets(ps, Sha)) \subseteq {h[p] : p \in ps}
  BY <1>1, <1>2 DEF Several, Buckets
<1>4. IsFiniteSet(ps) => IsFiniteSet({h[p] : p \in ps})
  BY Image
<1>. QED
  BY <1>2, <1>3, <1>4, FinSub

LEMMA LinksInRoms == \A b \in UNION Range(Found) : b \subseteq Roms
<1>1. Candidates \subseteq Roms /\ Originals \subseteq Roms /\ Moving \subseteq Roms
  BY DEF Candidates, Originals, Moving, Known
<1>2. \A b \in BySha : b \subseteq Roms
  BY <1>1 DEF BySha, Several, Buckets, Known
<1>3. \A b \in ByTitle : b \subseteq Roms
  BY <1>1 DEF ByTitle, Several, Buckets, Known
<1>4. \A b \in ByFormat : b \subseteq Roms
  BY <1>1 DEF ByFormat, Buckets
<1>5. \A b \in ByRegion : b \subseteq Roms
  BY <1>1 DEF ByRegion, Buckets, Known
<1>6. \A b \in ByRerelease : b \subseteq Roms
  BY <1>1 DEF ByRerelease, Several, Buckets
<1>7. \A b \in ByDisc : b \subseteq Roms
  BY <1>1 DEF ByDisc, Several, Buckets, Known
<1>8. \A b \in ByRaw : b \subseteq Roms
  BY <1>1 DEF ByRaw, Several, Buckets, Known
<1>9. \A b \in ByHeader : b \subseteq Roms
  BY DEF ByHeader, Several, Buckets, Known
<1>10. \A b \in ByTarget : b \subseteq Roms
  BY <1>1 DEF ByTarget, Several, Buckets
<1>11. Range(Found) \subseteq {BySha, ByTitle, ByFormat, ByRegion, ByRerelease, ByDisc, ByRaw, ByHeader, ByTarget}
  BY DEF Found, Range
<1>. QED
  BY <1>2, <1>3, <1>4, <1>5, <1>6, <1>7, <1>8, <1>9, <1>10, <1>11

LEMMA JoinedIn ==
    ASSUME NEW R, NEW ps, ps \subseteq R, NEW links, \A b \in links : b \subseteq R
    PROVE  Joined(ps, links) \subseteq R
BY DEF Joined

LEMMA ClustersIn ==
    ASSUME KInv
    PROVE  IsFiniteSet(Clusters(Found)) /\ IsFiniteSet(Roms) /\ \A C \in Clusters(Found) : C \subseteq Roms
<1>1. IsFiniteSet(Roms)
  BY FinSub DEF Roms, KInv, PathsInv
<1>2. PICK L : L = UNION Range(Found)
  OBVIOUS
<1>3. PICK h : h = [p \in Roms |-> Joined(Joined(Joined({p}, L), L), L)]
  OBVIOUS
<1>4. Clusters(Found) = {h[p] : p \in Roms}
  BY <1>2, <1>3 DEF Clusters, Chains
<1>5. ASSUME NEW p \in Roms PROVE h[p] \subseteq Roms
  <2>1. Joined({p}, L) \subseteq Roms
    BY <1>2, LinksInRoms, JoinedIn
  <2>2. Joined(Joined({p}, L), L) \subseteq Roms
    BY <1>2, <2>1, LinksInRoms, JoinedIn
  <2>3. Joined(Joined(Joined({p}, L), L), L) \subseteq Roms
    BY <1>2, <2>2, LinksInRoms, JoinedIn
  <2>. QED
    BY <1>3, <2>3
<1>6. IsFiniteSet(Clusters(Found))
  BY <1>1, <1>4, Image
<1>. QED
  BY <1>1, <1>4, <1>5, <1>6

LEMMA GroupsIn ==
    ASSUME NEW C, IsFiniteSet(C), NEW found
    PROVE  /\ IsFiniteSet(GroupsOf(C, found))
           /\ \A g \in GroupsOf(C, found) : "entries" \in DOMAIN g /\ g.entries \subseteq C
<1>1. IsFiniteSet(Known(C, Sha)) /\ Known(C, Sha) \subseteq C
  BY FinSub DEF Known
<1>2. PICK B : B = Several(Buckets(Known(C, Sha), Sha))
  OBVIOUS
<1>3. IsFiniteSet(B) /\ \A b \in B : b \subseteq C
  BY <1>1, <1>2, ShaIn
<1>4. PICK h : h = [b \in B |-> <<b, {"sha1"} \cup OfPlan(b, found), Sha(CHOOSE p \in b : TRUE)>>]
  OBVIOUS
<1>5. PICK K : K = Competing(C, found)
  OBVIOUS
<1>6. K = {h[b] : b \in B} \/ K = {<<C, Reasons(C, found), None>>}
  BY <1>2, <1>4, <1>5 DEF Competing
<1>7. IsFiniteSet({h[b] : b \in B})
  BY <1>3, Image
<1>16. IsFiniteSet({<<C, Reasons(C, found), None>>})
  BY FS_Singleton
<1>8. IsFiniteSet(K)
  BY <1>6, <1>7, <1>16
<1>9. \A c \in K : c[1] \subseteq C
  BY <1>3, <1>4, <1>6
<1>10. PICK M : M = {x \in K : x[2] # {}}
  OBVIOUS
<1>11. PICK m : m = [c \in M |-> Group(c[1], c[2], c[3])]
  OBVIOUS
<1>12. GroupsOf(C, found) = {m[c] : c \in M}
  BY <1>5, <1>10, <1>11 DEF GroupsOf
<1>13. IsFiniteSet(M)
  BY <1>8, <1>10, FinSub
<1>14. \A c \in M : "entries" \in DOMAIN m[c] /\ m[c].entries = c[1]
  BY <1>11 DEF Group
<1>15. IsFiniteSet(GroupsOf(C, found))
  BY <1>12, <1>13, Image
<1>. QED
  BY <1>9, <1>10, <1>12, <1>14, <1>15

LEMMA QueueIn ==
    ASSUME KInv
    PROVE  /\ IsFiniteSet(Queue) /\ IsFiniteSet(Roms)
           /\ \A g \in Queue : "entries" \in DOMAIN g /\ g.entries \subseteq Roms
<1>1. IsFiniteSet(Clusters(Found)) /\ IsFiniteSet(Roms) /\ \A C \in Clusters(Found) : C \subseteq Roms
  BY ClustersIn
<1>2. ASSUME NEW C \in Clusters(Found)
      PROVE  /\ IsFiniteSet(GroupsOf(C, Found))
             /\ \A g \in GroupsOf(C, Found) : "entries" \in DOMAIN g /\ g.entries \subseteq Roms
  <2>1. IsFiniteSet(C) /\ C \subseteq Roms
    BY <1>1, FinSub
  <2>. QED
    BY <2>1, GroupsIn
<1>3. PICK h : h = [C \in Clusters(Found) |-> GroupsOf(C, Found)]
  OBVIOUS
<1>4. PICK U : U = {h[C] : C \in Clusters(Found)}
  OBVIOUS
<1>5. IsFiniteSet(U)
  BY <1>1, <1>4, Image
<1>6. \A T \in U : IsFiniteSet(T) /\ \A g \in T : "entries" \in DOMAIN g /\ g.entries \subseteq Roms
  BY <1>2, <1>3, <1>4
<1>7. IsFiniteSet(UNION U)
  BY <1>5, <1>6, FS_UNION
<1>8. Queue \subseteq UNION U
  BY <1>3, <1>4 DEF Queue, QueueOf
<1>. QED
  BY <1>1, <1>6, <1>7, <1>8, FinSub

LEMMA RomsDiscardable == ASSUME KInv, NEW db, NEW S, S \subseteq Roms PROVE Discardable(db, S)
<1>1. IsFiniteSet(S)
  BY QueueIn, FinSub
<1>. QED
  BY <1>1 DEF Discardable, Roms
-----------------------------------------------------------------------------
(* The requests of the duplicates *)

LEMMA OpenQueueKeeps == ASSUME KInv, OpenQueue(Queue) PROVE KInv'
<1>1. page' = Queue /\ UNCHANGED <<disk, trash, rows, purged, tale, todo, checked>>
  BY DEF OpenQueue, store, work
<1>2. Fault("db")' = Fault("db")
  BY <1>1 DEF Fault
<1>3. PagesInv'
  BY <1>1, <1>2, QueueIn, RomsDiscardable DEF PagesInv, KInv
<1>. QED
  BY <1>1, <1>3, Waits, Untouched DEF KInv, PathsInv

LEMMA ExcludeKeeps == ASSUME KInv, Exclude \/ Include PROVE KInv'
<1>1. UNCHANGED <<disk, trash, rows, purged, tale, todo, page, checked>>
  BY DEF Exclude, Include, store, work
<1>2. Fault("db")' = Fault("db")
  BY <1>1 DEF Fault
<1>3. PagesInv'
  BY <1>1, <1>2 DEF PagesInv, KInv
<1>. QED
  BY <1>1, <1>3, Waits, Untouched DEF KInv, PathsInv

LEMMA CheckSupportKeeps == ASSUME KInv, CheckSupport PROVE KInv'
<1>1. /\ checked' = {p \in Roms : ~Supported(p)} /\ UNCHANGED <<disk, trash, rows, purged, tale, todo, page>>
  BY DEF CheckSupport, store, work
<1>2. Fault("db")' = Fault("db")
  BY <1>1 DEF Fault
<1>3. Discardable(Fault("db"), checked')
  BY <1>1, RomsDiscardable
<1>4. PagesInv'
  BY <1>1, <1>2, <1>3 DEF PagesInv, KInv
<1>. QED
  BY <1>1, <1>4, Waits, Untouched DEF KInv, PathsInv

LEMMA KeepGood ==
    ASSUME NEW db, NEW g, NEW p, Discardable(db, g.entries)
    PROVE  GoodChore(db, KeepChore(g, p))
<1>1. Discardable(db, g.entries \ {p})
  BY FinSub DEF Discardable
<1>. QED
  BY <1>1 DEF GoodChore, KeepChore, Chore, Returning, Harmless

LEMMA ResolveKeeps == ASSUME KInv, NEW t \in Threads, Resolve(t) PROVE KInv'
<1>1. PICK g, p, losers :
        /\ g \in page /\ losers \subseteq g.entries
        /\ Start(t, <<KeepChore([g EXCEPT !.entries = losers], p)>>)
  <2>1. PICK g \in page : \E p \in IF Does("choose") THEN g.entries ELSE {g.best} :
             LET losers == {q \in g.entries \ {p} : g.key[1][1] = {"psx"} => Verified(p, q)} IN
             losers # {} /\ Start(t, <<KeepChore([g EXCEPT !.entries = losers], p)>>)
    BY DEF Resolve
  <2>2. PICK p : Start(t, <<KeepChore([g EXCEPT !.entries = {q \in g.entries \ {p} : g.key[1][1] = {"psx"} => Verified(p, q)}], p)>>)
    BY <2>1
  <2>. QED
    BY <2>2
<1>2. PICK h : h = [g EXCEPT !.entries = losers]
  OBVIOUS
<1>3. "entries" \in DOMAIN g /\ Discardable(Fault("db"), g.entries)
  BY <1>1 DEF KInv, PagesInv
<1>4. h.entries = losers
  BY <1>2, <1>3
<1>5. Discardable(Fault("db"), h.entries)
  BY <1>1, <1>3, <1>4, FinSub DEF Discardable
<1>6. GoodList(Fault("db"), <<KeepChore(h, p)>>)
  BY <1>5, KeepGood, GoodOne
<1>7. UNCHANGED <<store, dupVars>>
  BY DEF Resolve
<1>. QED
  BY <1>1, <1>2, <1>6, <1>7, Plans

LEMMA ConflictsGood == GoodList(FALSE, ConflictsChore)
<1>1. GoodChore(FALSE, Chore("conflicts", None, None, {}, <<>>))
  BY DEF GoodChore, Chore, Harmless, Returning
<1>. QED
  BY <1>1, GoodOne DEF ConflictsChore

LEMMA ApplyConflictsKeeps == ASSUME Careful, KInv, NEW t \in Threads, ApplyConflicts(t) PROVE KInv'
<1>1. ~Fault("db")
  BY NoAnswer DEF ApplyConflicts, Answers, ScanJobs
<1>. QED
  BY <1>1, ConflictsGood, FreePlans DEF ApplyConflicts

LEMMA ApplyAllKeeps == ASSUME Careful, KInv, NEW t \in Threads, ApplyAll(t, Queue) PROVE KInv'
<1>1. ~Fault("db")
  BY NoAnswer DEF ApplyAll, Answers, ScanJobs
<1>2. PICK G : G = {g \in Queue : ~InPlan(g) /\ Cardinality(g.entries) > 1}
  OBVIOUS
<1>. DEFINE r == [i \in DOMAIN SetToSeq(G) |-> KeepChore(SetToSeq(G)[i], SetToSeq(G)[i].best)]
<1>3. IsFiniteSet(G) /\ \A g \in G : Discardable(FALSE, g.entries)
  BY <1>2, QueueIn, FinSub, RomsDiscardable
<1>4. r = [i \in DOMAIN SetToSeq(G) |-> r[i]]
  OBVIOUS
<1>5. \A i \in DOMAIN SetToSeq(G) : SetToSeq(G)[i] \in G => GoodChore(FALSE, r[i])
  BY <1>3, KeepGood
<1>6. PICK s \in {<<>>, ConflictsChore} : Start(t, r \o s) /\ UNCHANGED <<store, dupVars>>
  BY <1>2 DEF ApplyAll, Each
<1>. HIDE DEF r
<1>7. GoodList(FALSE, r) /\ GoodList(FALSE, s)
  BY <1>3, <1>4, <1>5, <1>6, GoodEach, GoodNone, ConflictsGood
<1>. QED
  BY <1>1, <1>6, <1>7, GoodCat, FreePlans

\* What a command does with its plans.
LEMMA CommandKeeps ==
    ASSUME KInv, NEW t \in Threads, NEW plans, IsFiniteSet(plans), \A x \in plans : x.losers \subseteq Roms,
           NEW carry \in BOOLEAN, ByCommand(t, plans, carry)
    PROVE  KInv'
<1>1. PICK d : /\ Start(t, [i \in DOMAIN SetToSeq(plans) |->
                              Chore("cluster", SetToSeq(plans)[i].keep, d, SetToSeq(plans)[i].losers, <<>>)])
               /\ UNCHANGED <<store, dupVars>>
  BY DEF ByCommand, Each
<1>. DEFINE r == [i \in DOMAIN SetToSeq(plans) |->
                     Chore("cluster", SetToSeq(plans)[i].keep, d, SetToSeq(plans)[i].losers, <<>>)]
<1>2. Start(t, r)
  BY <1>1
<1>3. ASSUME NEW i \in DOMAIN SetToSeq(plans), SetToSeq(plans)[i] \in plans PROVE GoodChore(Fault("db"), r[i])
  <2>1. Discardable(Fault("db"), SetToSeq(plans)[i].losers)
    BY <1>3, RomsDiscardable
  <2>. QED
    BY <2>1, ListNone DEF GoodChore, Chore, Returning, Harmless
<1>4. r = [i \in DOMAIN SetToSeq(plans) |-> r[i]]
  OBVIOUS
<1>. HIDE DEF r
<1>5. GoodList(Fault("db"), r)
  BY <1>3, <1>4, GoodEach
<1>. QED
  BY <1>1, <1>2, <1>5, Plans

LEMMA ContentPlanIn ==
    ASSUME NEW g, IsFiniteSet(g.entries)
    PROVE  IsFiniteSet(ContentPlan(g)) /\ \A x \in ContentPlan(g) : x.losers \subseteq g.entries
<1>1. PICK K : K = Known(Eligible(g), ContentId)
  OBVIOUS
<1>12. PICK k : k = [p \in K |-> ContentId(p)]
  OBVIOUS
<1>2. IsFiniteSet(K) /\ K \subseteq g.entries
  BY <1>1, FinSub DEF Known, Eligible
<1>3. PICK h : h = [p \in K |-> {q \in K : k[q] = k[p]}]
  OBVIOUS
<1>4. PICK B : B = Several(Buckets(K, ContentId))
  OBVIOUS
<1>5. B \subseteq {h[p] : p \in K}
  BY <1>3, <1>4, <1>12 DEF Several, Buckets
<1>6. IsFiniteSet({h[p] : p \in K})
  BY <1>2, Image
<1>7. IsFiniteSet(B) /\ \A b \in B : b \subseteq g.entries
  BY <1>2, <1>3, <1>5, <1>6, FinSub
<1>8. PICK m : m = [b \in B |-> [keep |-> FirstOf(b, g), losers |-> b \ {FirstOf(b, g)}]]
  OBVIOUS
<1>9. ContentPlan(g) = {m[b] : b \in B}
  BY <1>1, <1>4, <1>8 DEF ContentPlan
<1>10. IsFiniteSet({m[b] : b \in B})
  BY <1>7, Image
<1>11. \A b \in B : m[b].losers \subseteq g.entries
  BY <1>7, <1>8
<1>. QED
  BY <1>9, <1>10, <1>11

LEMMA VariantPlanIn ==
    ASSUME NEW g, IsFiniteSet(g.entries)
    PROVE  IsFiniteSet(VariantPlan(g)) /\ \A x \in VariantPlan(g) : x.losers \subseteq g.entries
<1>. DEFINE named == {p \in Eligible(g) : Tag(p).kind # "hack"}
            final == {p \in named : Tag(p).kind # "pre"}
            older(p) == \E q \in final : /\ Tag(q).base = Tag(p).base /\ Tag(q).kind = Tag(p).kind
                                         /\ Tag(q).region = Tag(p).region /\ Tag(q).rev > Tag(p).rev
            latest == {p \in final : ~older(p)}
            ranked == {p \in latest : Tag(p).region \in DOMAIN Rank}
            worse(p) == \E q \in ranked : /\ Tag(q).base = Tag(p).base
                                          /\ Rank[Tag(q).region] < Rank[Tag(p).region]
            of(base, ps) == {p \in ps : Tag(p).base = base}
            best(base) == {p \in of(base, ranked) : ~worse(p)}
            among(base) == IF best(base) # {} THEN best(base) ELSE of(base, latest)
            losers(base) == of(base, named \ latest) \cup {p \in of(base, ranked) : worse(p)}
            some == {q \in final : losers(Tag(q).base) # {}}
            plan(b) == [keep |-> FirstOf(among(b), g), losers |-> losers(b)]
<1>1. VariantPlan(g) = {plan(b) : b \in {Tag(p).base : p \in some}}
  BY DEF VariantPlan
<1>2. named \subseteq g.entries /\ latest \subseteq named /\ ranked \subseteq named /\ some \subseteq g.entries
  BY DEF Eligible
<1>3. \A b : losers(b) \subseteq g.entries
  BY <1>2
<1>. HIDE DEF named, latest, ranked, worse, best, among, losers, some
<1>4. PICK e : e = [p \in some |-> Tag(p).base]
  OBVIOUS
<1>5. PICK B : B = {e[p] : p \in some}
  OBVIOUS
<1>6. IsFiniteSet(some)
  BY <1>2, FinSub
<1>7. IsFiniteSet(B) /\ B = {Tag(p).base : p \in some}
  BY <1>4, <1>5, <1>6, Image
<1>8. PICK m : m = [b \in B |-> plan(b)]
  OBVIOUS
<1>9. VariantPlan(g) = {m[b] : b \in B}
  BY <1>1, <1>7, <1>8
<1>10. IsFiniteSet({m[b] : b \in B})
  BY <1>7, Image
<1>11. \A b \in B : m[b].losers \subseteq g.entries
  BY <1>3, <1>8
<1>. QED
  BY <1>9, <1>10, <1>11

LEMMA PlansIn ==
    ASSUME KInv, NEW f, f = [g \in Queue |-> f[g]],
           \A g \in Queue : IsFiniteSet(f[g]) /\ \A x \in f[g] : x.losers \subseteq g.entries
    PROVE  IsFiniteSet(UNION {f[g] : g \in Queue}) /\ \A x \in UNION {f[g] : g \in Queue} : x.losers \subseteq Roms
<1>1. IsFiniteSet(Queue) /\ \A g \in Queue : g.entries \subseteq Roms
  BY QueueIn
<1>2. PICK U : U = {f[g] : g \in Queue}
  OBVIOUS
<1>3. IsFiniteSet(U)
  BY <1>1, <1>2, Image
<1>4. \A T \in U : IsFiniteSet(T) /\ \A x \in T : x.losers \subseteq Roms
  BY <1>1, <1>2
<1>5. IsFiniteSet(UNION U)
  BY <1>3, <1>4, FS_UNION
<1>. QED
  BY <1>2, <1>4, <1>5

LEMMA ByContentKeeps == ASSUME KInv, NEW t \in Threads, ByContent(t, Queue) \/ ByVariant(t, Queue) PROVE KInv'
<1>1. \A g \in Queue : IsFiniteSet(g.entries)
  BY QueueIn, FinSub
<1>2. CASE ByContent(t, Queue)
  <2>1. PICK f : f = [g \in Queue |-> ContentPlan(g)]
    OBVIOUS
  <2>2. PICK plans : plans = UNION {f[g] : g \in Queue}
    OBVIOUS
  <2>3. \A g \in Queue : IsFiniteSet(f[g]) /\ \A x \in f[g] : x.losers \subseteq g.entries
    BY <1>1, <2>1, ContentPlanIn
  <2>4. f = [g \in Queue |-> f[g]]
    BY <2>1
  <2>5. IsFiniteSet(plans) /\ \A x \in plans : x.losers \subseteq Roms
    BY <2>2, <2>3, <2>4, PlansIn
  <2>6. plans = UNION {ContentPlan(g) : g \in Queue}
    BY <2>1, <2>2
  <2>7. ByCommand(t, plans, TRUE)
    BY <1>2, <2>6 DEF ByContent
  <2>. QED
    BY <2>5, <2>7, CommandKeeps
<1>3. CASE ByVariant(t, Queue)
  <2>1. PICK f : f = [g \in Queue |-> VariantPlan(g)]
    OBVIOUS
  <2>2. PICK plans : plans = UNION {f[g] : g \in Queue}
    OBVIOUS
  <2>3. \A g \in Queue : IsFiniteSet(f[g]) /\ \A x \in f[g] : x.losers \subseteq g.entries
    BY <1>1, <2>1, VariantPlanIn
  <2>4. f = [g \in Queue |-> f[g]]
    BY <2>1
  <2>5. IsFiniteSet(plans) /\ \A x \in plans : x.losers \subseteq Roms
    BY <2>2, <2>3, <2>4, PlansIn
  <2>6. plans = UNION {VariantPlan(g) : g \in Queue}
    BY <2>1, <2>2
  <2>7. ByCommand(t, plans, FALSE)
    BY <1>3, <2>6 DEF ByVariant
  <2>. QED
    BY <2>5, <2>7, CommandKeeps
<1>. QED
  BY <1>2, <1>3

LEMMA DroppingGood == ASSUME NEW db, NEW S, IsFiniteSet(S) PROVE GoodList(db, Dropping(S))
<1>1. Dropping(S) = [i \in DOMAIN SetToSeq(S) |-> Chore("drop", SetToSeq(S)[i], None, {}, <<>>)]
  BY DEF Dropping, Each
<1>2. \A i \in DOMAIN SetToSeq(S) : GoodChore(db, Dropping(S)[i])
  BY <1>1 DEF GoodChore, Chore, Returning, Harmless
<1>3. Dropping(S) = [i \in DOMAIN SetToSeq(S) |-> Dropping(S)[i]]
  BY <1>1
<1>. QED
  BY <1>2, <1>3, GoodEach

LEMMA DeletesKeep ==
    ASSUME KInv, NEW t \in Threads, DeleteAll(t) \/ Delete(t) \/ DiscardUnsupported(t)
    PROVE  KInv'
<1>1. CASE DeleteAll(t)
  <2>1. PICK S : S = UNION {AllButFirst(b) : b \in ShaGroups}
    OBVIOUS
  <2>2. \A b \in ShaGroups : b \subseteq Roms
    BY DEF ShaGroups, Several, Buckets, Known
  <2>3. S \subseteq Roms
    BY <2>1, <2>2 DEF AllButFirst
  <2>4. IsFiniteSet(S)
    BY <2>3, QueueIn, FinSub
  <2>5. Start(t, Dropping(S)) /\ UNCHANGED <<store, dupVars>>
    BY <1>1, <2>1 DEF DeleteAll
  <2>. QED
    BY <2>4, <2>5, DroppingGood, Plans
<1>2. CASE Delete(t)
  <2>1. PICK p : Start(t, Dropping({p})) /\ UNCHANGED <<store, dupVars>>
    BY <1>2 DEF Delete
  <2>. QED
    BY <2>1, DroppingGood, FS_Singleton, Plans
<1>3. CASE DiscardUnsupported(t)
  <2>1. GoodList(Fault("db"), Discarding(checked))
    BY DiscardingGood DEF KInv, PagesInv
  <2>. QED
    BY <1>3, <2>1, Plans DEF DiscardUnsupported
<1>. QED
  BY <1>1, <1>2, <1>3

LEMMA DuplicatesKeep == ASSUME Careful, KInv, DuplicatesStep PROVE KInv'
<1>1. CASE WithQueue(Queue)
  BY <1>1, OpenQueueKeeps, ApplyAllKeeps, ByContentKeeps DEF WithQueue
<1>2. CASE Exclude \/ Include \/ CheckSupport
  BY <1>2, ExcludeKeeps, CheckSupportKeeps
<1>3. ASSUME NEW t \in Threads, Resolve(t) \/ ApplyConflicts(t) \/ DeleteAll(t) \/ Delete(t) \/ DiscardUnsupported(t)
      PROVE  KInv'
  BY <1>3, ResolveKeeps, ApplyConflictsKeeps, DeletesKeep
<1>4. ASSUME NEW t \in Threads, DuplicatesChore(t), UNCHANGED dupVars PROVE KInv'
  <2>1. CASE Keep(t) \/ DiscardFile(t) \/ DiscardOnDevice(t) \/ DiscardGone(t) \/ DiscardFails(t)
    BY <1>4, <2>1, KeepKeeps, DiscardFileKeeps, DiscardOnDeviceKeeps, DiscardGoneKeeps, DiscardFailsKeeps
  <2>2. CASE Forget(t) \/ ForgetFails(t) \/ Drop(t) \/ (\E p \in Roms : Loser(t, p)) \/ LosersDone(t)
    BY <1>4, <2>2, ForgetKeeps, ForgetFailsKeeps, DropKeeps, LoserKeeps, LosersDoneKeeps
  <2>3. CASE PlanConflicts(t) \/ DiskConflict(t) \/ Collision(t) \/ Rename(t)
    BY <1>4, <2>3, PlanConflictsKeeps, DiskConflictKeeps, CollisionKeeps, RenameKeeps
  <2>. QED
    BY <1>4, <2>1, <2>2, <2>3 DEF DuplicatesChore
<1>. QED
  BY <1>1, <1>2, <1>3, <1>4 DEF DuplicatesStep
-----------------------------------------------------------------------------
(* The doctor *)

LEMMA FreeWaits ==
    ASSUME KInv, ~Fault("db"), UNCHANGED <<work, dupVars>>, ~Loses, IsFiniteSet(DOMAIN rows')
    PROVE  KInv'
<1>1. todo' = todo /\ tale' = tale /\ UNCHANGED <<page, checked>>
  BY DEF work, dupVars
<1>2. Fault("db")' = Fault("db")
  BY <1>1 DEF Fault
<1>3. PagesInv'
  BY <1>1, <1>2 DEF PagesInv, KInv
<1>. QED
  BY <1>1, <1>3, Waits

LEMMA WithdrawGood == ASSUME NEW p PROVE GoodChore(FALSE, Fix("withdraw", p, None, {}))
BY DEF GoodChore, Fix, Harmless, Returning

LEMMA BringGood == ASSUME NEW p, NEW q, IsPath(q) PROVE GoodChore(FALSE, Fix("bring", p, q, {}))
BY DEF GoodChore, Fix, Harmless, Returning

LEMMA SheetGood == ASSUME NEW p, NEW c, IsPath(p) PROVE GoodChore(FALSE, Fix("sheet0", p, c, {}))
BY DEF GoodChore, Fix, Harmless, Returning

LEMMA RebuildGood ==
    ASSUME NEW g, IsFiniteSet(g), \A p \in g : IsPath(p)
    PROVE  GoodChore(FALSE, Fix("rebuild", None, None, g))
BY DEF GoodChore, Fix, Harmless, Returning, Discardable

LEMMA PruneKeeps == ASSUME Careful, KInv, NEW t \in Threads, PruneIncomplete(t), UNCHANGED dupVars PROVE KInv'
<1>1. ~Fault("db")
  BY NoAnswer DEF PruneIncomplete, Answers, ScanJobs
<1>2. PICK S : S = ToRemove
  OBVIOUS
<1>3. S \subseteq DOMAIN disk
  <2>1. BrokenCues \subseteq DOMAIN disk /\ BrokenLists \subseteq DOMAIN disk /\ BadChds \subseteq DOMAIN disk
    BY DEF BrokenCues, SheetsOf, BrokenLists, BadChds
  <2>2. \A c : Holds(c) \subseteq DOMAIN disk
    BY DEF Holds
  <2>3. OrphanTracks \subseteq DOMAIN disk
    BY DEF OrphanTracks, TrackGroups, Strays
  <2>4. ASSUME NEW p, p \in ToRemove, p \notin DOMAIN disk PROVE FALSE
    <3>1. p \notin BrokenLists \cup OrphanTracks \cup BadChds
      BY <2>1, <2>3, <2>4
    <3>2. PICK c \in BrokenCues : p \in {c} \cup Holds(c)
      BY <2>4, <3>1 DEF ToRemove
    <3>. QED
      BY <2>1, <2>2, <2>4, <3>2
  <2>. QED
    BY <1>2, <2>4
<1>4. IsFiniteSet(S)
  BY <1>3, FinSub DEF KInv, PathsInv, DiskInv
<1>. DEFINE r == [i \in DOMAIN SetToSeq(S) |-> Fix("withdraw", SetToSeq(S)[i], None, {})]
<1>5. Start(t, r) /\ UNCHANGED <<store, dupVars>>
  BY <1>2 DEF PruneIncomplete, Each
<1>6. ASSUME NEW i \in DOMAIN SetToSeq(S) PROVE GoodChore(FALSE, r[i])
  <2>1. r[i] = Fix("withdraw", SetToSeq(S)[i], None, {})
    BY <1>6
  <2>. HIDE DEF r
  <2>. QED
    BY <2>1, WithdrawGood
<1>7. r = [i \in DOMAIN SetToSeq(S) |-> r[i]]
  OBVIOUS
<1>. HIDE DEF r
<1>8. GoodList(FALSE, r)
  BY <1>4, <1>6, <1>7, GoodEach
<1>. QED
  BY <1>1, <1>5, <1>8, FreePlans

LEMMA WithdrawKeeps == ASSUME KInv, NEW t \in Threads, Withdraw(t), UNCHANGED dupVars PROVE KInv'
<1>1. "withdraw" \in Harmless \ Returning
  BY DEF Harmless, Returning
<1>2. ~Fault("db") /\ GoodList(FALSE, Later(t))
  BY <1>1, NotReturning DEF Withdraw
<1>3. CASE On(Now(t).at)
  <2>1. Discard({Now(t).at}) /\ UNCHANGED <<rows, purged>> /\ Then(t, Later(t))
    BY <1>3 DEF Withdraw
  <2>2. ~Loses
    BY <1>3, <2>1, Discards DEF KInv, PathsInv, On
  <2>. QED
    BY <1>2, <2>1, <2>2, FreeGoes DEF KInv, PathsInv
<1>4. CASE ~On(Now(t).at)
  BY <1>2, <1>4, GoodNone, FreePlans DEF Withdraw
<1>. QED
  BY <1>3, <1>4

LEMMA MovesIn == ASSUME KInv PROVE IsFiniteSet(Moves) /\ \A m \in Moves : IsPath(m[2])
<1>1. IsFiniteSet(DOMAIN disk) /\ \A p \in DOMAIN disk : IsPath(p)
  BY DEF KInv, PathsInv, DiskInv
<1>7. PICK D : D = DOMAIN disk
  OBVIOUS
<1>2. PICK P : P = D \X D
  OBVIOUS
<1>3. IsFiniteSet(P)
  BY <1>1, <1>2, <1>7, FS_Product
<1>4. PICK h : h = [x \in P |-> <<x[2], At(x[1].dir, x[2].stem, x[2].ext)>>]
  OBVIOUS
<1>5. IsFiniteSet({h[x] : x \in P})
  BY <1>3, Image
<1>6. ASSUME NEW m \in Moves PROVE m \in {h[x] : x \in P} /\ IsPath(m[2])
  <2>1. PICK w \in Wanted : m = <<CHOOSE p \in Namesakes(w[2]) : TRUE, InFolder(w[1], w[2])>>
    BY <1>6 DEF Moves
  <2>2. PICK c, r : c = w[1] /\ r = w[2]
    OBVIOUS
  <2>3. c \in DOMAIN disk /\ Recoverable(c) /\ r \in Missing(c)
    BY <2>1, <2>2 DEF Wanted, BrokenCues, SheetsOf
  <2>4. Namesakes(r) # {}
    BY <2>3 DEF Recoverable
  <2>5. PICK p : p = CHOOSE q \in Namesakes(r) : TRUE
    OBVIOUS
  <2>6. p \in DOMAIN disk /\ p.stem = r.stem /\ p.ext = r.ext
    BY <2>4, <2>5 DEF Namesakes
  <2>7. m = <<p, At(c.dir, p.stem, p.ext)>>
    BY <2>1, <2>2, <2>5, <2>6 DEF InFolder
  <2>8. PICK x \in P : x[1] = c /\ x[2] = p
    <3>1. <<c, p>> \in D \X D /\ <<c, p>>[1] = c /\ <<c, p>>[2] = p
      BY <1>7, <2>3, <2>6
    <3>. QED
      BY <1>2, <3>1
  <2>9. h[x] = m
    BY <1>4, <2>7, <2>8
  <2>. QED
    BY <2>7, <2>8, <2>9 DEF IsPath, At
<1>. QED
  BY <1>5, <1>6, FinSub

LEMMA TrackGroupsIn ==
    ASSUME KInv
    PROVE  IsFiniteSet(TrackGroups) /\ \A g \in TrackGroups : IsFiniteSet(g) /\ \A p \in g : IsPath(p)
<1>1. IsFiniteSet(DOMAIN disk) /\ \A p \in DOMAIN disk : IsPath(p)
  BY DEF KInv, PathsInv, DiskInv
<1>2. IsFiniteSet(Strays) /\ Strays \subseteq DOMAIN disk
  BY <1>1, FinSub DEF Strays
<1>3. PICK h : h = [p \in Strays |-> {q \in Strays : Tags[q.stem].base = Tags[p.stem].base}]
  OBVIOUS
<1>4. TrackGroups = {h[p] : p \in Strays}
  BY <1>3 DEF TrackGroups
<1>5. IsFiniteSet({h[p] : p \in Strays})
  BY <1>2, Image
<1>6. \A p \in Strays : h[p] \subseteq Strays
  BY <1>3
<1>7. \A g \in TrackGroups : g \subseteq Strays
  BY <1>4, <1>6
<1>. QED
  BY <1>1, <1>2, <1>4, <1>5, <1>7, FinSub

LEMMA RepairKeeps == ASSUME Careful, KInv, NEW t \in Threads, RepairIncomplete(t), UNCHANGED dupVars PROVE KInv'
<1>1. ~Fault("db")
  BY NoAnswer DEF RepairIncomplete, Answers, ScanJobs
<1>2. PICK S, G : S = Moves /\ G = {g \in TrackGroups : Rebuildable(g) /\ \A p \in g : Folder[p.dir] = "psx"}
  OBVIOUS
<1>. DEFINE r == [i \in DOMAIN SetToSeq(S) |-> Fix("bring", SetToSeq(S)[i][1], SetToSeq(S)[i][2], {})]
            s == [i \in DOMAIN SetToSeq(G) |-> Fix("rebuild", None, None, SetToSeq(G)[i])]
<1>3. Start(t, r \o s) /\ UNCHANGED <<store, dupVars>>
  BY <1>2 DEF RepairIncomplete, Each
<1>4. IsFiniteSet(S) /\ \A m \in S : IsPath(m[2])
  BY <1>2, MovesIn
<1>5. IsFiniteSet(G) /\ \A g \in G : IsFiniteSet(g) /\ \A p \in g : IsPath(p)
  BY <1>2, TrackGroupsIn, FinSub
<1>6. ASSUME NEW i \in DOMAIN SetToSeq(S), SetToSeq(S)[i] \in S PROVE GoodChore(FALSE, r[i])
  <2>1. r[i] = Fix("bring", SetToSeq(S)[i][1], SetToSeq(S)[i][2], {})
    BY <1>6
  <2>2. IsPath(SetToSeq(S)[i][2])
    BY <1>4, <1>6
  <2>. HIDE DEF r
  <2>. QED
    BY <2>1, <2>2, BringGood
<1>7. ASSUME NEW i \in DOMAIN SetToSeq(G), SetToSeq(G)[i] \in G PROVE GoodChore(FALSE, s[i])
  <2>1. s[i] = Fix("rebuild", None, None, SetToSeq(G)[i])
    BY <1>7
  <2>2. PICK g \in G : g = SetToSeq(G)[i]
    BY <1>7
  <2>. HIDE DEF s
  <2>. QED
    BY <1>5, <2>1, <2>2, RebuildGood
<1>8. r = [i \in DOMAIN SetToSeq(S) |-> r[i]] /\ s = [i \in DOMAIN SetToSeq(G) |-> s[i]]
  OBVIOUS
<1>. HIDE DEF r, s
<1>9. GoodList(FALSE, r)
  BY <1>4, <1>6, <1>8, GoodEach
<1>10. GoodList(FALSE, s)
  BY <1>5, <1>7, <1>8, GoodEach
<1>. QED
  BY <1>1, <1>3, <1>9, <1>10, GoodCat, FreePlans

LEMMA BringKeeps == ASSUME KInv, NEW t \in Threads, Bring(t), UNCHANGED dupVars PROVE KInv'
<1>1. "bring" \in Harmless \ Returning
  BY DEF Harmless, Returning
<1>2. ~Fault("db") /\ GoodList(FALSE, Later(t)) /\ GoodChore(FALSE, Now(t)) /\ Now(t).do = "bring"
  BY <1>1, NotReturning DEF Bring
<1>3. CASE On(Now(t).at) /\ ~On(Now(t).to)
  <2>1. disk' = Moved(Now(t).at, Now(t).to) /\ UNCHANGED <<trash, rows, purged>> /\ Then(t, Later(t))
    BY <1>3 DEF Bring
  <2>2. ~Loses
    BY <1>2, <1>3, <2>1, Moves1 DEF KInv, PathsInv, GoodChore
  <2>. QED
    BY <1>2, <2>1, <2>2, FreeGoes DEF KInv, PathsInv
<1>4. CASE ~(On(Now(t).at) /\ ~On(Now(t).to))
  BY <1>2, <1>4, GoodNone, FreePlans DEF Bring
<1>. QED
  BY <1>3, <1>4

LEMMA RebuildKeeps == ASSUME KInv, NEW t \in Threads, RebuildSet(t), UNCHANGED dupVars PROVE KInv'
<1>1. "rebuild" \in Harmless \ Returning
  BY DEF Harmless, Returning
<1>2. ~Fault("db") /\ GoodList(FALSE, Later(t)) /\ GoodChore(FALSE, Now(t)) /\ Now(t).do = "rebuild"
  BY <1>1, NotReturning DEF RebuildSet
<1>3. IsFiniteSet(Now(t).of) /\ \A p \in Now(t).of : IsPath(p)
  BY <1>2 DEF GoodChore, Discardable
<1>4. CASE Then(t, <<>>) \/ Then(t, Later(t))
  BY <1>2, <1>4, GoodNone, FreePlans DEF RebuildSet
<1>5. ASSUME NEW home, NEW name,
             Then(t, Each({p \in Now(t).of : p.dir # home}, LAMBDA p : Fix("bring", p, [p EXCEPT !.dir = home], {}))
                      \o <<Fix("sheet0", At(home, name, "cue"), Rebuilt[name], {})>> \o Later(t))
      PROVE  KInv'
  <2>1. PICK S : S = {p \in Now(t).of : p.dir # home}
    OBVIOUS
  <2>. DEFINE r == [i \in DOMAIN SetToSeq(S) |-> Fix("bring", SetToSeq(S)[i], [SetToSeq(S)[i] EXCEPT !.dir = home], {})]
              s == <<Fix("sheet0", At(home, name, "cue"), Rebuilt[name], {})>>
  <2>2. Then(t, r \o s \o Later(t))
    BY <1>5, <2>1 DEF Each
  <2>3. IsFiniteSet(S) /\ \A p \in S : IsPath(p)
    BY <1>3, <2>1, FinSub
  <2>4. \A p \in S : IsPath([p EXCEPT !.dir = home])
    BY <2>3 DEF IsPath, At
  <2>5. ASSUME NEW i \in DOMAIN SetToSeq(S), SetToSeq(S)[i] \in S PROVE GoodChore(FALSE, r[i])
    <3>1. PICK p \in S : p = SetToSeq(S)[i]
      BY <2>5
    <3>2. r[i] = Fix("bring", p, [p EXCEPT !.dir = home], {})
      BY <2>5, <3>1
    <3>. HIDE DEF r
    <3>. QED
      BY <2>4, <3>2, BringGood
  <2>6. r = [i \in DOMAIN SetToSeq(S) |-> r[i]]
    OBVIOUS
  <2>7. IsPath(At(home, name, "cue"))
    BY DEF IsPath, At
  <2>8. GoodList(FALSE, s)
    <3>1. GoodChore(FALSE, Fix("sheet0", At(home, name, "cue"), Rebuilt[name], {}))
      BY <2>7, SheetGood
    <3>. QED
      BY <3>1, GoodOne
  <2>. HIDE DEF r, s
  <2>9. GoodList(FALSE, r)
    BY <2>3, <2>5, <2>6, GoodEach
  <2>10. GoodList(FALSE, r \o s \o Later(t))
    BY <1>2, <2>8, <2>9, GoodCat
  <2>. QED
    BY <1>2, <2>2, <2>10, FreePlans DEF RebuildSet
<1>. QED
  BY <1>4, <1>5 DEF RebuildSet

LEMMA WriteCueKeeps == ASSUME KInv, NEW t \in Threads, WriteCue(t), UNCHANGED dupVars PROVE KInv'
<1>1. "sheet0" \in Harmless \ Returning
  BY DEF Harmless, Returning
<1>2. ~Fault("db") /\ GoodList(FALSE, Later(t)) /\ GoodChore(FALSE, Now(t)) /\ Now(t).do = "sheet0"
  BY <1>1, NotReturning DEF WriteCue
<1>3. CASE ~On(Now(t).at)
  <2>1. disk' = Put(disk, Now(t).at, Now(t).to) /\ UNCHANGED <<trash, rows, purged>> /\ Then(t, Later(t))
    BY <1>3 DEF WriteCue
  <2>2. ~Loses
    BY <1>2, <1>3, <2>1, Places DEF KInv, PathsInv, GoodChore
  <2>. QED
    BY <1>2, <2>1, <2>2, FreeGoes DEF KInv, PathsInv
<1>4. CASE On(Now(t).at)
  BY <1>2, <1>4, GoodNone, FreePlans DEF WriteCue
<1>. QED
  BY <1>3, <1>4

LEMMA ByHandKeeps ==
    ASSUME Careful, KInv, AdoptSave \/ ArchiveSave \/ DeleteSave \/ MoveRom \/ JunkDelete, UNCHANGED dupVars
    PROVE  KInv'
<1>1. ~Fault("db")
  BY NoAnswer DEF AdoptSave, ArchiveSave, DeleteSave, MoveRom, JunkDelete, Answers, ScanJobs
<1>2. UNCHANGED <<work, dupVars>> /\ rows' = rows
  BY DEF AdoptSave, ArchiveSave, DeleteSave, MoveRom, JunkDelete
<1>3. DiskInv /\ IsFiniteSet(DOMAIN rows)
  BY DEF KInv, PathsInv
<1>4. \A d, s, x : IsPath(At(d, s, x))
  BY DEF IsPath, At
<1>5. ~Loses
  <2>1. CASE AdoptSave
    <3>1. PICK s, g : On(s) /\ ~On(At(g.dir, g.stem, s.ext)) /\ disk' = Moved(s, At(g.dir, g.stem, s.ext))
      BY <2>1 DEF AdoptSave, On
    <3>. QED
      BY <1>3, <1>4, <2>1, <3>1, Moves1 DEF AdoptSave, On
  <2>2. CASE ArchiveSave
    <3>1. PICK s, stem : On(s) /\ ~On(At("huerfanos", stem, s.ext)) /\ disk' = Moved(s, At("huerfanos", stem, s.ext))
      BY <2>2 DEF ArchiveSave, On
    <3>. QED
      BY <1>3, <1>4, <2>2, <3>1, Moves1 DEF ArchiveSave, On
  <2>3. CASE DeleteSave
    <3>1. PICK s \in DOMAIN disk : disk' = Without(disk, {s}) /\ purged' = purged \cup {disk[s]} /\ trash' = trash
      BY <2>3 DEF DeleteSave
    <3>2. purged' = purged \cup {disk[p] : p \in {s} \cap DOMAIN disk}
      BY <3>1
    <3>. QED
      BY <1>3, <3>1, <3>2, Erases
  <2>4. CASE MoveRom
    <3>1. PICK p, d : On(p) /\ ~On([p EXCEPT !.dir = d]) /\ disk' = Moved(p, [p EXCEPT !.dir = d])
      BY <2>4 DEF MoveRom
    <3>2. IsPath([p EXCEPT !.dir = d])
      BY <1>3, <3>1 DEF DiskInv, IsPath, At, On
    <3>. QED
      BY <1>3, <2>4, <3>1, <3>2, Moves1 DEF MoveRom
  <2>5. CASE JunkDelete
    <3>1. PICK p \in DOMAIN disk : Discard({p})
      BY <2>5 DEF JunkDelete
    <3>. QED
      BY <1>3, <2>5, <3>1, Discards DEF JunkDelete
  <2>. QED
    BY <2>1, <2>2, <2>3, <2>4, <2>5
<1>. QED
  BY <1>1, <1>2, <1>3, <1>5, FreeWaits

LEMMA DoctorKeeps == ASSUME Careful, KInv, DoctorStep, UNCHANGED dupVars PROVE KInv'
BY PruneKeeps, WithdrawKeeps, RepairKeeps, BringKeeps, RebuildKeeps, WriteCueKeeps, ByHandKeeps DEF DoctorStep
-----------------------------------------------------------------------------
(* The organiser *)

LEMMA ErrandGood ==
    ASSUME NEW do \in {"place", "shelve", "record", "flat", "bios"}, NEW p, NEW q, NEW b, IsFiniteSet(b)
    PROVE  GoodChore(FALSE, Errand(do, p, q, b))
BY DEF GoodChore, Errand, Harmless, Returning

LEMMA MoveGood ==
    ASSUME NEW do \in {"tidy", "relocate"}, NEW p, NEW q, IsPath(q)
    PROVE  GoodChore(FALSE, Errand(do, p, q, {}))
BY DEF GoodChore, Errand, Harmless, Returning

LEMMA WithBatch ==
    ASSUME NEW k, GoodChore(FALSE, k), NEW b, IsFiniteSet(b)
    PROVE  GoodChore(FALSE, [k EXCEPT !.batch = b])
<1>1. PICK m : m = [k EXCEPT !.batch = b]
  OBVIOUS
<1>2. DOMAIN m = DOMAIN k /\ \A x \in DOMAIN k : x # "batch" => m[x] = k[x]
  BY <1>1
<1>3. "batch" \in DOMAIN k => m.batch = b
  BY <1>1
<1>4. m.do = k.do /\ m.at = k.at
  BY <1>2 DEF GoodChore
<1>5. /\ "of" \in DOMAIN k => m.of = k.of
      /\ "to" \in DOMAIN k => m.to = k.to
      /\ "next" \in DOMAIN k => m.next = k.next
  BY <1>2
<1>6. GoodChore(FALSE, m)
  BY <1>2, <1>3, <1>4, <1>5 DEF GoodChore, GoodRename
<1>. QED
  BY <1>1, <1>6

LEMMA AllWithBatch ==
    ASSUME NEW s, GoodList(FALSE, s), NEW b, IsFiniteSet(b)
    PROVE  GoodList(FALSE, [i \in DOMAIN s |-> [s[i] EXCEPT !.batch = b]])
<1>. DEFINE r == [i \in DOMAIN s |-> [s[i] EXCEPT !.batch = b]]
<1>1. s \in Seq(Range(s)) /\ Len(s) \in Nat /\ DOMAIN s = 1 .. Len(s)
  BY DEF GoodList, IsSequence
<1>2. r = [i \in 1 .. Len(s) |-> r[i]]
  BY <1>1
<1>3. ASSUME NEW i \in 1 .. Len(s) PROVE GoodChore(FALSE, r[i])
  <2>1. PICK k : k = s[i] /\ GoodChore(FALSE, k)
    BY <1>1 DEF GoodList
  <2>2. r[i] = [k EXCEPT !.batch = b]
    BY <1>1, <2>1
  <2>3. GoodChore(FALSE, [k EXCEPT !.batch = b])
    BY <2>1, WithBatch
  <2>. QED
    BY <2>2, <2>3, Zenon
<1>. HIDE DEF r
<1>4. GoodList(FALSE, r)
  BY <1>1, <1>2, <1>3, ListIs DEF GoodList
<1>. QED
  BY <1>4 DEF r

LEMMA TidyingGood ==
    ASSUME NEW target, IsFiniteSet(DOMAIN target), \A p \in DOMAIN target : IsPath(target[p])
    PROVE  GoodList(FALSE, Tidying(target))
<1>1. PICK S : S = {p \in DOMAIN target : target[p] # p}
  OBVIOUS
<1>. DEFINE r == [i \in DOMAIN SetToSeq(S) |-> Errand("tidy", SetToSeq(S)[i], target[SetToSeq(S)[i]], {})]
<1>2. Tidying(target) = r
  BY <1>1 DEF Tidying, Each
<1>3. IsFiniteSet(S) /\ \A p \in S : IsPath(target[p])
  BY <1>1, FinSub
<1>4. ASSUME NEW i \in DOMAIN SetToSeq(S), SetToSeq(S)[i] \in S PROVE GoodChore(FALSE, r[i])
  <2>1. PICK p \in S : p = SetToSeq(S)[i]
    BY <1>4
  <2>2. r[i] = Errand("tidy", p, target[p], {})
    BY <1>4, <2>1
  <2>. HIDE DEF r
  <2>. QED
    BY <1>3, <2>2, MoveGood
<1>5. r = [i \in DOMAIN SetToSeq(S) |-> r[i]]
  OBVIOUS
<1>. HIDE DEF r
<1>. QED
  BY <1>2, <1>3, <1>4, <1>5, GoodEach

LEMMA OrganizeKeeps == ASSUME Careful, KInv, NEW t \in Threads, OrganizeLibrary(t), UNCHANGED dupVars PROVE KInv'
<1>1. ~Fault("db")
  BY NoAnswer DEF OrganizeLibrary, Answers, ScanJobs
<1>2. PICK S, N : S = {p \in DOMAIN rows : Known1(rows[p].platform)} /\ N = {<<p.stem, rows[p].platform>> : p \in S}
  OBVIOUS
<1>. DEFINE r == [i \in DOMAIN SetToSeq(S) |-> Errand("place", SetToSeq(S)[i], rows[SetToSeq(S)[i]].platform, {})]
            s == <<Errand("record", None, None, {}), Errand("flat", None, N, {}), Errand("bios", None, None, {})>>
<1>3. Start(t, r \o s) /\ UNCHANGED <<store, dupVars>>
  BY <1>2 DEF OrganizeLibrary, Each
<1>4. IsFiniteSet(S)
  BY <1>2, FinSub DEF KInv, PathsInv
<1>5. IsFiniteSet({})
  BY FS_EmptySet
<1>6. ASSUME NEW i \in DOMAIN SetToSeq(S), SetToSeq(S)[i] \in S PROVE GoodChore(FALSE, r[i])
  <2>1. r[i] = Errand("place", SetToSeq(S)[i], rows[SetToSeq(S)[i]].platform, {})
    BY <1>6
  <2>. HIDE DEF r
  <2>. QED
    BY <1>5, <2>1, ErrandGood
<1>7. r = [i \in DOMAIN SetToSeq(S) |-> r[i]]
  OBVIOUS
<1>8. GoodList(FALSE, s)
  <2>1. PICK a, b, c : a = Errand("record", None, None, {}) /\ b = Errand("flat", None, N, {}) /\ c = Errand("bios", None, None, {})
    OBVIOUS
  <2>2. GoodChore(FALSE, a) /\ GoodChore(FALSE, b) /\ GoodChore(FALSE, c)
    BY <1>5, <2>1, ErrandGood
  <2>3. s = <<a, b, c>>
    BY <2>1
  <2>. HIDE DEF s
  <2>4. s \in Seq({a, b, c}) /\ Len(s) = 3 /\ s[1] = a /\ s[2] = b /\ s[3] = c
    BY <2>3
  <2>5. IsSequence(s) /\ DOMAIN s = 1 .. 3
    BY <2>4, ListSeq
  <2>. QED
    <3>1. \A i \in 1 .. 3 : s[i] = a \/ s[i] = b \/ s[i] = c
      BY <2>4
    <3>. QED
      BY <2>2, <2>5, <3>1 DEF GoodList
<1>. HIDE DEF r, s
<1>9. GoodList(FALSE, r)
  BY <1>4, <1>6, <1>7, GoodEach
<1>. QED
  BY <1>1, <1>3, <1>8, <1>9, GoodCat, FreePlans

LEMMA PlaceKeeps == ASSUME KInv, NEW t \in Threads, Place(t), UNCHANGED dupVars PROVE KInv'
<1>1. "place" \in Harmless \ Returning
  BY DEF Harmless, Returning
<1>2. ~Fault("db") /\ GoodList(FALSE, Later(t)) /\ GoodChore(FALSE, Now(t)) /\ Now(t).do = "place"
  BY <1>1, NotReturning DEF Place
<1>3. PICK p, q, b : p = Now(t).at /\ q = HomeAt(p, Now(t).to) /\ b = Now(t).batch
  OBVIOUS
<1>4. IsFiniteSet(b) /\ IsFiniteSet(b \cup {<<p, q>>})
  BY <1>2, <1>3, FS_AddElement DEF GoodChore
<1>5. ASSUME NEW c, IsFiniteSet(c)
      PROVE  GoodList(FALSE, <<Errand("shelve", p, Now(t).to, c)>> \o [i \in DOMAIN Later(t) |-> [Later(t)[i] EXCEPT !.batch = c]])
  <2>1. PICK s, e : s = Later(t) /\ e = Errand("shelve", p, Now(t).to, c)
    OBVIOUS
  <2>2. GoodChore(FALSE, e) /\ GoodList(FALSE, s)
    BY <1>2, <1>5, <2>1, ErrandGood
  <2>3. GoodList(FALSE, <<e>>)
    BY <2>2, GoodOne
  <2>4. GoodList(FALSE, [i \in DOMAIN s |-> [s[i] EXCEPT !.batch = c]])
    BY <1>5, <2>2, AllWithBatch
  <2>5. GoodList(FALSE, <<e>> \o [i \in DOMAIN s |-> [s[i] EXCEPT !.batch = c]])
    BY <2>3, <2>4, GoodCat
  <2>. QED
    BY <2>1, <2>5, Zenon
<1>6. CASE ~On(p)
  BY <1>2, <1>3, <1>6, FreePlans DEF Place
<1>7. CASE On(p) /\ On(q)
  <2>1. Then(t, <<Errand("shelve", p, Now(t).to, b)>> \o [i \in DOMAIN Later(t) |-> [Later(t)[i] EXCEPT !.batch = b]])
        /\ UNCHANGED store
    BY <1>3, <1>7 DEF Place
  <2>. QED
    BY <1>2, <1>4, <1>5, <2>1, FreePlans
<1>8. CASE On(p) /\ ~On(q)
  <2>1. PICK c \in {b, b \cup {<<p, q>>}} :
          Then(t, <<Errand("shelve", p, Now(t).to, c)>> \o [i \in DOMAIN Later(t) |-> [Later(t)[i] EXCEPT !.batch = c]])
    BY <1>3, <1>8 DEF Place
  <2>2. disk' = Moved(p, q) /\ UNCHANGED <<trash, rows, purged>>
    BY <1>3, <1>8 DEF Place
  <2>3. IsPath(q)
    BY <1>3 DEF HomeAt, IsPath, At
  <2>4. ~Loses
    BY <1>8, <2>2, <2>3, Moves1 DEF KInv, PathsInv
  <2>5. GoodList(FALSE, <<Errand("shelve", p, Now(t).to, c)>> \o [i \in DOMAIN Later(t) |-> [Later(t)[i] EXCEPT !.batch = c]])
    BY <1>4, <1>5
  <2>. QED
    BY <1>2, <2>1, <2>2, <2>4, <2>5, FreeGoes DEF KInv, PathsInv
<1>. QED
  BY <1>6, <1>7, <1>8

LEMMA ShelveKeeps == ASSUME KInv, NEW t \in Threads, Shelve(t), UNCHANGED dupVars PROVE KInv'
<1>1. "shelve" \in Harmless \ Returning
  BY DEF Harmless, Returning
<1>2. ~Fault("db") /\ GoodList(FALSE, Later(t))
  BY <1>1, NotReturning DEF Shelve
<1>3. PICK p, d : p = Now(t).at /\ d = Now(t).to
  OBVIOUS
<1>4. PICK S : S = {s \in SavesAt(p) : ~On(SaveHome(s, d))}
  OBVIOUS
<1>5. PICK h : h = [s \in S |-> SaveHome(s, d)]
  OBVIOUS
<1>6. PICK T : T = {h[s] : s \in S}
  OBVIOUS
<1>7. {SaveHome(s, d) : s \in S} = T
  BY <1>5, <1>6
<1>8. PICK f : f = [q \in T |-> disk[CHOOSE s \in S : SaveHome(s, d) = q]]
  OBVIOUS
<1>9. disk' = Over(f, Without(disk, S)) /\ UNCHANGED <<trash, rows, purged>> /\ Then(t, Later(t))
  BY <1>3, <1>4, <1>7, <1>8 DEF Shelve
<1>10. /\ \A x, y \in SavesAt(p) : x = y
       /\ SavesAt(p) \subseteq DOMAIN disk /\ IsFiniteSet(SavesAt(p))
  BY OneSave DEF KInv, PathsInv
<1>11. IsFiniteSet(S) /\ S \subseteq DOMAIN disk /\ \A x, y \in S : x = y
  BY <1>4, <1>10, FinSub
<1>12. IsFiniteSet(T)
  BY <1>6, <1>11, Image
<1>13. ASSUME NEW s \in S PROVE h[s] \in T /\ f[h[s]] = disk[s] /\ disk[s] \in Range(disk) /\ IsPath(h[s]) /\ ~On(h[s])
  <2>1. h[s] = SaveHome(s, d) /\ h[s] \in T
    BY <1>5, <1>6
  <2>2. (CHOOSE y \in S : SaveHome(y, d) = h[s]) = s
    BY <1>11, <2>1
  <2>3. IsPath(h[s])
    BY <2>1 DEF SaveHome, IsPath, At
  <2>4. ~On(h[s])
    BY <1>4, <2>1
  <2>. QED
    BY <1>8, <1>11, <2>1, <2>2, <2>3, <2>4 DEF Range
<1>14. f = [q \in DOMAIN f |-> f[q]] /\ DOMAIN f = T
  BY <1>8
<1>15. \A q \in DOMAIN f : IsPath(q) /\ f[q] \in Range(disk) /\ (On(q) /\ q \notin S => f[q] = disk[q])
  BY <1>6, <1>13, <1>14
<1>16. \A s \in S \cap DOMAIN disk : \E q \in DOMAIN f : f[q] = disk[s]
  BY <1>13, <1>14
<1>17. ~Loses
  BY <1>9, <1>12, <1>14, <1>15, <1>16, Carries DEF KInv, PathsInv
<1>. QED
  BY <1>2, <1>9, <1>17, FreeGoes DEF KInv, PathsInv

LEMMA RecordKeeps == ASSUME KInv, NEW t \in Threads, Record(t), UNCHANGED dupVars PROVE KInv'
<1>1. "record" \in Harmless \ Returning
  BY DEF Harmless, Returning
<1>2. ~Fault("db") /\ GoodList(FALSE, Later(t)) /\ GoodChore(FALSE, Now(t)) /\ Now(t).do = "record"
  BY <1>1, NotReturning DEF Record
<1>3. PICK b : b = Now(t).batch /\ IsFiniteSet(b)
  BY <1>2 DEF GoodChore
<1>4. rows' = Sees(b) /\ UNCHANGED <<disk, trash, purged>>
      /\ Then(t, [i \in DOMAIN Later(t) |-> [Later(t)[i] EXCEPT !.batch = {}]])
  BY <1>3 DEF Record
<1>5. PICK N, D : N = {m[2] : m \in b} /\ D = {m[2] : m \in {x \in b : Has(x[1])}}
  OBVIOUS
<1>6. IsFiniteSet(D)
  <2>1. PICK h : h = [m \in b |-> m[2]]
    OBVIOUS
  <2>2. IsFiniteSet({h[m] : m \in b})
    BY <1>3, Image
  <2>3. D \subseteq {h[m] : m \in b}
    BY <1>5, <2>1
  <2>. QED
    BY <2>2, <2>3, FinSub
<1>7. PICK G : G = {m[1] : m \in b}
  OBVIOUS
<1>8. DOMAIN Sees(b) = (DOMAIN rows \ G) \cup D
  BY <1>5, <1>7 DEF Sees
<1>9. IsFiniteSet(DOMAIN rows')
  BY <1>4, <1>6, <1>8, FinUnion, FinSub DEF KInv, PathsInv
<1>10. ~Loses
  BY <1>4, Untouched DEF KInv, PathsInv
<1>11. IsFiniteSet({})
  BY FS_EmptySet
<1>12. GoodList(FALSE, [i \in DOMAIN Later(t) |-> [Later(t)[i] EXCEPT !.batch = {}]])
  <2>1. PICK s : s = Later(t) /\ GoodList(FALSE, s)
    BY <1>2
  <2>2. GoodList(FALSE, [i \in DOMAIN s |-> [s[i] EXCEPT !.batch = {}]])
    BY <1>11, <2>1, AllWithBatch
  <2>. QED
    BY <2>1, <2>2, Zenon
<1>. QED
  BY <1>2, <1>4, <1>9, <1>10, <1>12, FreeGoes

\* What goes to its place: the targets of some files that are there.
LEMMA HomesGood ==
    ASSUME KInv, NEW target, DOMAIN target \subseteq DOMAIN disk, \A p \in DOMAIN target : IsPath(target[p])
    PROVE  GoodList(FALSE, Tidying(target))
BY TidyingGood, FinSub DEF KInv, PathsInv, DiskInv

LEMMA FlatKeeps == ASSUME KInv, NEW t \in Threads, FlatSaves(t), UNCHANGED dupVars PROVE KInv'
<1>1. "flat" \in Harmless \ Returning
  BY DEF Harmless, Returning
<1>2. ~Fault("db") /\ GoodList(FALSE, Later(t))
  BY <1>1, NotReturning DEF FlatSaves
<1>3. PICK S, target :
        /\ S \subseteq DOMAIN disk
        /\ target = [s \in S |-> SaveHome(s, (CHOOSE r \in Now(t).to : r[1] = s.stem)[2])]
        /\ Then(t, Tidying(target) \o Later(t)) /\ UNCHANGED store
  <2>1. PICK S : S = {s \in DOMAIN disk : s.dir = "saves" /\ s.ext \in SaveExts /\ \E r \in Now(t).to : r[1] = s.stem}
    OBVIOUS
  <2>2. PICK target : target = [s \in S |-> SaveHome(s, (CHOOSE r \in Now(t).to : r[1] = s.stem)[2])]
    OBVIOUS
  <2>3. Then(t, Tidying(target) \o Later(t)) /\ UNCHANGED store
    BY <2>1, <2>2 DEF FlatSaves
  <2>. QED
    BY <2>1, <2>2, <2>3
<1>4. DOMAIN target \subseteq DOMAIN disk /\ \A p \in DOMAIN target : IsPath(target[p])
  BY <1>3 DEF SaveHome, IsPath, At
<1>5. GoodList(FALSE, Tidying(target))
  BY <1>4, HomesGood
<1>. QED
  BY <1>2, <1>3, <1>5, GoodCat, FreePlans

LEMMA BiosKeeps == ASSUME KInv, NEW t \in Threads, Bioses(t), UNCHANGED dupVars PROVE KInv'
<1>1. "bios" \in Harmless \ Returning
  BY DEF Harmless, Returning
<1>2. ~Fault("db") /\ GoodList(FALSE, Later(t))
  BY <1>1, NotReturning DEF Bioses
<1>3. PICK S : S = {x \in DOMAIN disk : x.ext = "bin" /\ x.stem \in BiosStems /\ ~Has(x)}
  OBVIOUS
<1>4. PICK target : target = [p \in S |-> [p EXCEPT !.dir = "bios"]]
  OBVIOUS
<1>5. Then(t, Tidying(target) \o Later(t)) /\ UNCHANGED store
  BY <1>3, <1>4 DEF Bioses
<1>6. DOMAIN target \subseteq DOMAIN disk
  BY <1>3, <1>4
<1>7. \A p \in DOMAIN target : IsPath(target[p])
  <2>1. \A p \in S : IsPath(p)
    BY <1>3 DEF KInv, PathsInv, DiskInv
  <2>. QED
    BY <1>4, <2>1 DEF IsPath, At
<1>8. GoodList(FALSE, Tidying(target))
  BY <1>6, <1>7, HomesGood
<1>. QED
  BY <1>2, <1>5, <1>8, GoodCat, FreePlans

LEMMA TidyKeeps == ASSUME KInv, NEW t \in Threads, Tidy(t), UNCHANGED dupVars PROVE KInv'
<1>1. "tidy" \in Harmless \ Returning
  BY DEF Harmless, Returning
<1>2. ~Fault("db") /\ GoodList(FALSE, Later(t)) /\ GoodChore(FALSE, Now(t)) /\ Now(t).do = "tidy"
  BY <1>1, NotReturning DEF Tidy
<1>3. CASE On(Now(t).at) /\ ~On(Now(t).to)
  <2>1. disk' = Moved(Now(t).at, Now(t).to) /\ UNCHANGED <<trash, rows, purged>> /\ Then(t, Later(t))
    BY <1>3 DEF Tidy
  <2>2. ~Loses
    BY <1>2, <1>3, <2>1, Moves1 DEF KInv, PathsInv, GoodChore
  <2>. QED
    BY <1>2, <2>1, <2>2, FreeGoes DEF KInv, PathsInv
<1>4. CASE ~(On(Now(t).at) /\ ~On(Now(t).to))
  BY <1>2, <1>4, FreePlans DEF Tidy
<1>. QED
  BY <1>3, <1>4

LEMMA MigrateKeeps == ASSUME Careful, KInv, NEW t \in Threads, MigrateSaves(t), UNCHANGED dupVars PROVE KInv'
<1>1. ~Fault("db")
  BY NoAnswer DEF MigrateSaves, Answers, ScanJobs
<1>2. PICK S : S = {p \in DOMAIN disk : p.dir \notin {"saves", "bios"} \cup UNION {Range(Shelf[x]) : x \in DOMAIN Shelf}}
  OBVIOUS
<1>3. PICK target : target = [p \in S |-> Migrated(p)]
  OBVIOUS
<1>4. Start(t, Tidying(target)) /\ UNCHANGED store
  BY <1>2, <1>3 DEF MigrateSaves
<1>5. S \subseteq DOMAIN disk
  BY <1>2
<1>6. DOMAIN target \subseteq DOMAIN disk /\ \A p \in DOMAIN target : IsPath(target[p])
  BY <1>3, <1>5 DEF Migrated, IsPath, At
<1>7. GoodList(FALSE, Tidying(target))
  BY <1>6, HomesGood
<1>. QED
  BY <1>1, <1>4, <1>7, FreePlans

LEMMA MisplacedKeeps == ASSUME Careful, KInv, NEW t \in Threads, RelocateMisplaced(t), UNCHANGED dupVars PROVE KInv'
<1>1. ~Fault("db")
  BY NoAnswer DEF RelocateMisplaced, Answers, ScanJobs
<1>2. PICK S : S = Misplaced
  OBVIOUS
<1>. DEFINE r == [i \in DOMAIN SetToSeq(S) |->
                     Errand("relocate", SetToSeq(S)[i], HomeAt(SetToSeq(S)[i], TruePlatform(SetToSeq(S)[i])), {})]
<1>3. Start(t, r) /\ UNCHANGED store
  BY <1>2 DEF RelocateMisplaced, Each
<1>4. S \subseteq DOMAIN disk
  BY <1>2 DEF Misplaced
<1>5. IsFiniteSet(S)
  BY <1>4, FinSub DEF KInv, PathsInv, DiskInv
<1>6. ASSUME NEW i \in DOMAIN SetToSeq(S), SetToSeq(S)[i] \in S PROVE GoodChore(FALSE, r[i])
  <2>1. PICK p, q : p = SetToSeq(S)[i] /\ q = HomeAt(p, TruePlatform(p))
    OBVIOUS
  <2>2. r[i] = Errand("relocate", p, q, {})
    BY <1>6, <2>1
  <2>3. IsPath(q)
    BY <2>1 DEF HomeAt, IsPath, At
  <2>. HIDE DEF r
  <2>. QED
    BY <2>2, <2>3, MoveGood
<1>7. r = [i \in DOMAIN SetToSeq(S) |-> r[i]]
  OBVIOUS
<1>. HIDE DEF r
<1>8. GoodList(FALSE, r)
  BY <1>5, <1>6, <1>7, GoodEach
<1>. QED
  BY <1>1, <1>3, <1>8, FreePlans

LEMMA RelocateKeeps == ASSUME KInv, NEW t \in Threads, Relocate(t), UNCHANGED dupVars PROVE KInv'
<1>1. "relocate" \in Harmless \ Returning
  BY DEF Harmless, Returning
<1>2. ~Fault("db") /\ GoodList(FALSE, Later(t)) /\ GoodChore(FALSE, Now(t)) /\ Now(t).do = "relocate"
  BY <1>1, NotReturning DEF Relocate
<1>3. PICK p, q : p = Now(t).at /\ q = Now(t).to /\ IsPath(q)
  BY <1>2 DEF GoodChore
<1>4. rows' = rows /\ purged' = purged
  BY DEF Relocate
<1>5. CASE On(q) /\ SameContent(p, q)
  <2>1. Discard({p}) /\ Then(t, Later(t))
    BY <1>3, <1>5 DEF Relocate
  <2>2. ~Loses
    BY <1>4, <1>5, <2>1, Discards DEF KInv, PathsInv, SameContent, On
  <2>. QED
    BY <1>2, <1>4, <2>1, <2>2, FreeGoes DEF KInv, PathsInv
<1>6. CASE ~On(q) /\ On(p)
  <2>1. disk' = Moved(p, q) /\ trash' = trash /\ Then(t, Later(t))
    BY <1>3, <1>6 DEF Relocate
  <2>2. ~Loses
    BY <1>3, <1>4, <1>6, <2>1, Moves1 DEF KInv, PathsInv
  <2>. QED
    BY <1>2, <1>4, <2>1, <2>2, FreeGoes DEF KInv, PathsInv
<1>7. CASE (On(q) /\ ~SameContent(p, q)) \/ (~On(q) /\ ~On(p))
  <2>1. UNCHANGED <<disk, trash>> /\ (Then(t, Later(t)) \/ Then(t, <<>>))
    BY <1>3, <1>7 DEF Relocate
  <2>2. ~Loses
    BY <1>4, <2>1, Untouched DEF KInv, PathsInv
  <2>. QED
    BY <1>2, <1>4, <2>1, <2>2, GoodNone, FreeGoes DEF KInv, PathsInv
<1>. QED
  BY <1>5, <1>6, <1>7

LEMMA OrganizerKeeps == ASSUME Careful, KInv, OrganizerStep, UNCHANGED dupVars PROVE KInv'
<1>1. ASSUME FixPlatforms PROVE KInv'
  <2>1. ~Fault("db")
    BY <1>1, NoAnswer DEF FixPlatforms, Answers, ScanJobs
  <2>2. DOMAIN rows' = DOMAIN rows /\ UNCHANGED <<disk, trash, purged, work>>
    BY <1>1 DEF FixPlatforms
  <2>3. ~Loses
    BY <2>2, Untouched DEF KInv, PathsInv
  <2>. QED
    BY <2>1, <2>2, <2>3, FreeWaits DEF KInv, PathsInv
<1>. QED
  BY <1>1, OrganizeKeeps, PlaceKeeps, ShelveKeeps, RecordKeeps, FlatKeeps, BiosKeeps, TidyKeeps, MigrateKeeps,
     MisplacedKeeps, RelocateKeeps DEF OrganizerStep
-----------------------------------------------------------------------------
(* The sheets and the playlists *)

LEMMA NoChore ==
    ASSUME KInv, NEW t \in Threads, NEW c, c \notin Harmless \cup {"forget"}, Doing(t, c)
    PROVE  FALSE
BY AtWork DEF GoodChore, Harmless, Returning

LEMMA TaskGood == ASSUME NEW p, NEW del PROVE GoodChore(FALSE, Task("sheet", p, del))
BY DEF GoodChore, Task, Harmless, Returning

LEMMA CuesKeep == ASSUME Careful, KInv, NEW t \in Threads, GenerateCues(t), UNCHANGED dupVars PROVE KInv'
<1>1. ~Fault("db")
  BY NoAnswer DEF GenerateCues, Answers, ScanJobs
<1>2. PICK S : S = {p \in Unclaimed : disk[p] \in DOMAIN SheetFor /\ ~On(AsExt(p, "cue"))}
  OBVIOUS
<1>. DEFINE r == [i \in DOMAIN SetToSeq(S) |-> Task("sheet", SetToSeq(S)[i], FALSE)]
<1>3. Start(t, r) /\ UNCHANGED store
  BY <1>2 DEF GenerateCues, TasksOf, Each
<1>4. S \subseteq DOMAIN disk
  BY <1>2 DEF Unclaimed
<1>5. IsFiniteSet(S)
  BY <1>4, FinSub DEF KInv, PathsInv, DiskInv
<1>6. ASSUME NEW i \in DOMAIN SetToSeq(S), SetToSeq(S)[i] \in S PROVE GoodChore(FALSE, r[i])
  <2>1. r[i] = Task("sheet", SetToSeq(S)[i], FALSE)
    BY <1>6
  <2>. HIDE DEF r
  <2>. QED
    BY <2>1, TaskGood
<1>7. r = [i \in DOMAIN SetToSeq(S) |-> r[i]]
  OBVIOUS
<1>. HIDE DEF r
<1>8. GoodList(FALSE, r)
  BY <1>5, <1>6, <1>7, GoodEach
<1>. QED
  BY <1>1, <1>3, <1>8, FreePlans

LEMMA WriteSheetKeeps == ASSUME KInv, NEW t \in Threads, WriteSheet(t), UNCHANGED dupVars PROVE KInv'
<1>1. "sheet" \in Harmless \ Returning
  BY DEF Harmless, Returning
<1>2. ~Fault("db") /\ GoodList(FALSE, Later(t))
  BY <1>1, NotReturning DEF WriteSheet
<1>3. PICK p, q : p = Now(t).at /\ q = AsExt(p, "cue")
  OBVIOUS
<1>4. CASE On(p) /\ ~On(q)
  <2>1. PICK c : c = SheetFor[disk[p]]
    OBVIOUS
  <2>2. disk' = Put(disk, q, c) /\ UNCHANGED <<trash, rows, purged>> /\ Then(t, Later(t))
    BY <1>3, <1>4, <2>1 DEF WriteSheet, Writes, Source
  <2>3. IsPath(q)
    BY <1>3, <1>4 DEF KInv, PathsInv, DiskInv, IsPath, At, AsExt, On
  <2>4. ~Loses
    BY <1>4, <2>2, <2>3, Places DEF KInv, PathsInv
  <2>. QED
    BY <1>2, <2>2, <2>4, FreeGoes DEF KInv, PathsInv
<1>5. CASE ~(On(p) /\ ~On(q))
  BY <1>2, <1>3, <1>5, FreePlans DEF WriteSheet, Source
<1>. QED
  BY <1>4, <1>5

LEMMA ListsKeep == ASSUME Careful, KInv, GenerateM3u, UNCHANGED dupVars PROVE KInv'
<1>1. ~Fault("db")
  BY NoAnswer DEF GenerateM3u, Answers, ScanJobs
<1>2. PICK q, c : IsPath(q) /\ ~On(q) /\ disk' = Put(disk, q, c) /\ UNCHANGED <<trash, rows, purged, work>>
  <2>1. PICK g \in Groups : ~On(Playlist(g)) /\ Writes(Playlist(g), ListOf[{<<p.stem, p.ext>> : p \in g}])
    BY DEF GenerateM3u
  <2>2. PICK q, c : q = Playlist(g) /\ c = ListOf[{<<p.stem, p.ext>> : p \in g}]
    OBVIOUS
  <2>3. IsPath(q)
    BY <2>2 DEF Playlist, IsPath, At
  <2>4. ~On(q) /\ disk' = Put(disk, q, c) /\ UNCHANGED <<trash, rows, purged>>
    BY <2>1, <2>2 DEF Writes
  <2>. QED
    BY <2>3, <2>4 DEF GenerateM3u
<1>3. ~Loses
  BY <1>2, Places DEF KInv, PathsInv
<1>. QED
  BY <1>1, <1>2, <1>3, FreeWaits DEF KInv, PathsInv

LEMMA NoStart ==
    ASSUME Careful, NEW t, NEW del,
           \/ ConvertChd(t, del) \/ ConvertOthers(t, del) \/ Extract(t, del) \/ CleanRedundant(t)
           \/ CleanupCueBin(t) \/ CleanupZips(t)
    PROVE  FALSE
BY DEF Careful, Converting, Does, ConvertChd, ConvertOthers, Extract, CleanRedundant, CleanupCueBin, CleanupZips

LEMMA NoConversion ==
    ASSUME KInv, NEW t \in Threads,
           \/ Bare(t) \/ Unlink(t) \/ ChdThere(t) \/ ChdMissing(t) \/ ChdGone(t) \/ Stage(t) \/ ChdmanOpens(t)
           \/ Chdman(t) \/ VerifyChd(t) \/ Clean(t) \/ CueBin(t) \/ CancelJob(t) \/ OtherOpens(t) \/ OtherEnds(t)
           \/ Unzip(t) \/ MemberOpens(t) \/ MemberEnds(t) \/ Toss(t)
    PROVE  FALSE
<1>1. PICK c \in {"bare", "unlink", "chd", "open", "chdman", "verify", "clean", "cueBin", "other", "swap", "zip",
                  "member", "fill", "toss"} : Doing(t, c)
  BY DEF Bare, Unlink, ChdThere, ChdMissing, ChdGone, Stage, ChdmanOpens, Chdman, VerifyChd, Clean, CueBin, CancelJob,
         OtherOpens, OtherEnds, Unzip, MemberOpens, MemberEnds, Toss, Doing
<1>2. c \notin Harmless \cup {"forget"}
  BY DEF Harmless, Returning
<1>. QED
  BY <1>1, <1>2, NoChore

LEMMA ConvertersKeep == ASSUME Careful, KInv, ConvertersStep, UNCHANGED dupVars PROVE KInv'
BY NoStart, NoConversion, CuesKeep, WriteSheetKeeps, ListsKeep DEF ConvertersStep
-----------------------------------------------------------------------------
(* The scanner, the user and the trash *)

LEMMA ScannerKeepsFiles ==
    ASSUME ScannerNext
    PROVE  UNCHANGED <<disk, trash, purged, rows, todo, tale, edits>> \/ edits' = edits + 1
<1>1. ASSUME NEW kind, NEW low, StartScan(kind) \/ StartAdb \/ StartMatch(low) \/ StartFetch
      PROVE  UNCHANGED <<disk, trash, purged, rows, todo, tale, edits>>
  BY <1>1 DEF StartScan, StartAdb, StartMatch, StartFetch, tree
<1>2. ASSUME NEW p, WalkPast(p) \/ WalkHold(p) \/ WalkQuick(p) \/ WalkSave(p) \/ MatchOne(p)
      PROVE  UNCHANGED <<disk, trash, purged, rows, todo, tale, edits>>
  BY <1>2 DEF WalkPast, WalkHold, WalkQuick, WalkSave, MatchOne, ScanStep, MatchStep, still, work, tree
<1>3. CASE Flush \/ EndScan \/ Prune \/ CancelScan \/ ScanLocked \/ HashSha \/ HashMd5 \/ Store \/ EndAdb
  BY <1>3 DEF Flush, EndScan, Prune, CancelScan, ScanLocked, HashSha, HashMd5, Store, EndAdb, ScanStep, still, work, tree
<1>4. CASE EndMatch \/ CancelMatch \/ MatchLocked \/ FetchBody \/ FetchCheck \/ EndFetch \/ Crash
  BY <1>4 DEF EndMatch, CancelMatch, MatchLocked, FetchBody, FetchCheck, EndFetch, Crash, MatchStep, FetchStep, still, work, tree
<1>5. ASSUME NEW d, FetchSkip(d) \/ FetchOpen(d) \/ FetchXml(d) \/ Expire(d) \/ ImportDat(d) \/ ImportArcade(d)
      PROVE  UNCHANGED <<disk, trash, purged, rows, todo, tale, edits>>
  BY <1>5 DEF FetchSkip, FetchOpen, FetchXml, Expire, ImportDat, ImportArcade, FetchStep, still, work, tree
<1>6. ASSUME NEW p, NEW f, Edit(f) \/ Rename1(p, f.at) \/ Erase(p) PROVE edits' = edits + 1
  BY <1>6 DEF Edit, Rename1, Erase
<1>. QED
  BY <1>1, <1>2, <1>3, <1>4, <1>5, <1>6 DEF ScannerNext

\* Nothing is at work but what works on tables of its own.
LEMMA NoThreadKeeps ==
    ASSUME KInv, todo' = todo \/ todo' = [t \in Threads |-> <<>>], tale' = tale, UNCHANGED dupVars, ~Loses, Tame,
           IsFiniteSet(DOMAIN rows')
    PROVE  KInv'
<1>1. Fault("db")' = Fault("db") /\ UNCHANGED <<page, checked>>
  BY DEF Fault, dupVars
<1>2. PagesInv'
  BY <1>1 DEF PagesInv, KInv
<1>. QED
  BY <1>2, Waits

LEMMA VanishKeeps == ASSUME KInv, Vanish PROVE KInv'
<1>1. PICK p \in DOMAIN disk : disk' = Without(disk, {p}) /\ purged' = purged \cup {disk[p]}
  BY DEF Vanish
<1>2. /\ purged' = purged \cup {disk[q] : q \in {p} \cap DOMAIN disk}
      /\ UNCHANGED <<trash, rows, todo, tale, dupVars>>
  BY <1>1 DEF Vanish, work
<1>3. ~Loses /\ Tame
  BY <1>1, <1>2, Erases DEF KInv, PathsInv
<1>. QED
  BY <1>2, <1>3, NoThreadKeeps DEF KInv, PathsInv

LEMMA PurgeKeeps == ASSUME KInv, PurgeTrash, UNCHANGED <<work, dupVars>> PROVE KInv'
<1>1. PICK old : old \subseteq trash /\ trash' = trash \ old /\ purged' = purged \cup old /\ UNCHANGED <<disk, rows>>
  BY DEF PurgeTrash
<1>2. ~Loses /\ Tame
  BY <1>1 DEF Loses, Tame, Held, KInv, PathsInv, DiskInv
<1>3. todo' = todo /\ tale' = tale
  BY DEF work
<1>. QED
  BY <1>1, <1>2, <1>3, NoThreadKeeps DEF KInv, PathsInv

LEMMA StopKeeps == ASSUME KInv, Stop, UNCHANGED dupVars PROVE KInv'
<1>1. UNCHANGED <<disk, trash, purged, rows, tale>> /\ todo' = [t \in Threads |-> <<>>]
  BY DEF Stop, store
<1>2. ~Loses /\ Tame
  BY <1>1, Untouched DEF KInv, PathsInv
<1>. QED
  BY <1>1, <1>2, NoThreadKeeps DEF KInv, PathsInv

LEMMA KeepsOn ==
    ASSUME IInv, KeepInv, Next
    PROVE  KeepInv'
<1>1. tale' = tale /\ (Careful' <=> Careful)
  BY TaleStays DEF Careful, Fault
<1>2. SUFFICES ASSUME Careful, edits' = 0 PROVE KInv'
  BY <1>1 DEF KeepInv
<1>3. edits \in Nat
  BY DEF IInv, RowsInv
<1>4. CASE ScannerNext /\ UNCHANGED dupVars
  <2>1. UNCHANGED <<disk, trash, purged, rows, todo, tale, edits>>
    BY <1>2, <1>3, <1>4, ScannerKeepsFiles
  <2>2. KInv
    BY <1>2, <2>1 DEF KeepInv
  <2>3. ~Loses /\ Tame
    BY <2>1, <2>2, Untouched DEF KInv, PathsInv
  <2>. QED
    BY <1>4, <2>1, <2>2, <2>3, NoThreadKeeps DEF KInv, PathsInv
<1>5. CASE UNCHANGED scanVars
  <2>1. edits' = edits
    BY <1>5 DEF scanVars
  <2>2. KInv
    BY <1>2, <2>1 DEF KeepInv
  <2>3. CASE DuplicatesStep \/ (Stop /\ UNCHANGED dupVars) \/ (PurgeTrash /\ UNCHANGED <<work, dupVars>>) \/ Vanish
    BY <1>2, <2>2, <2>3, DuplicatesKeep, StopKeeps, PurgeKeeps, VanishKeeps
  <2>4. CASE (ConvertersStep \/ DoctorStep \/ OrganizerStep) /\ UNCHANGED dupVars
    BY <1>2, <2>2, <2>4, ConvertersKeep, DoctorKeeps, OrganizerKeeps
  <2>. QED
    BY <1>4, <2>3, <2>4 DEF Next
<1>. QED
  BY <1>4, <1>5 DEF Next

LEMMA StaysSo == ASSUME KeepInv, UNCHANGED <<store, work, dupVars, scanVars>> PROVE KeepInv'
<1>1. UNCHANGED <<disk, trash, purged, rows, todo, tale, edits, dupVars>>
  BY DEF store, work, scanVars
<1>2. Careful' <=> Careful
  BY <1>1 DEF Careful, Fault
<1>3. SUFFICES ASSUME Careful, edits = 0 PROVE KInv'
  BY <1>1, <1>2 DEF KeepInv
<1>4. KInv
  BY <1>3 DEF KeepInv
<1>5. ~Loses /\ Tame
  BY <1>1, <1>4, Untouched DEF KInv, PathsInv
<1>. QED
  BY <1>1, <1>4, <1>5, NoThreadKeeps DEF KInv, PathsInv

LEMMA AtFirst == Init => KeepInv
<1>. SUFFICES ASSUME Init PROVE KInv
  BY DEF KeepInv
<1>1. PICK s \in Stories : Begin(s)
  BY DEF Init
<1>2. /\ IsFiniteSet(s.files) /\ \A f \in s.files : IsPath(f.at) /\ f.has \in DOMAIN Facts
      /\ \A f, g \in s.files : f.at = g.at => f = g
  BY FilesAssumption DEF IsPath
<1>3. PICK h : h = [f \in s.files |-> f.at]
  OBVIOUS
<1>4. PICK T : T = {h[f] : f \in s.files}
  OBVIOUS
<1>5. IsFiniteSet(T) /\ {f.at : f \in s.files} = T
  BY <1>2, <1>3, <1>4, Image
<1>6. disk = [p \in T |-> (CHOOSE f \in s.files : f.at = p).has] /\ tale.first = {f.has : f \in s.files}
  BY <1>1, <1>5 DEF Begin
<1>7. ASSUME NEW f \in s.files PROVE f.at \in DOMAIN disk /\ disk[f.at] = f.has
  <2>1. f.at \in T
    BY <1>3, <1>4
  <2>2. (CHOOSE g \in s.files : g.at = f.at) = f
    BY <1>2
  <2>. QED
    BY <1>6, <2>1, <2>2
<1>8. \A p \in DOMAIN disk : \E f \in s.files : f.at = p
  BY <1>3, <1>4, <1>6
<1>9. DiskInv
  BY <1>2, <1>5, <1>6, <1>8 DEF DiskInv
<1>10. DOMAIN rows \subseteq DOMAIN disk
  <2>1. PICK R : R = {f.at : f \in {g \in s.files : g.platform # None}} /\ DOMAIN rows = R
    BY <1>1 DEF Begin
  <2>. QED
    BY <1>7, <2>1
<1>11. PathsInv
  BY <1>9, <1>10, FinSub DEF PathsInv, DiskInv
<1>12. Range(disk) \subseteq DOMAIN Facts
  BY <1>2, <1>7, <1>8 DEF Range
<1>13. trash = {} /\ page = {} /\ checked = {} /\ todo = [t \in Threads |-> <<>>]
  BY DEF Init
<1>14. PagesInv
  BY <1>13, FS_EmptySet DEF PagesInv, Discardable
<1>15. TodoInv /\ ReturnInv
  BY <1>12, <1>13 DEF TodoInv, ReturnInv, GoodTodo, Returns, Doing
<1>16. tale.first \subseteq Held
  BY <1>6, <1>7 DEF Held, Range
<1>. QED
  BY <1>11, <1>14, <1>15, <1>16 DEF KInv

LEMMA KeptIs == KeepInv => (Careful => NothingLost)
<1>1. \A C : C \subseteq Within(C)
  BY DEF Within, Opened
<1>2. Held \subseteq Live \cup Discarded \cup purged
  BY <1>1 DEF Held, Live, Discarded
<1>. QED
  BY <1>2 DEF KeepInv, KInv, NothingLost

\* Nothing of the library is ever lost, but for what the user purges or deletes by hand:
\* however many requests of the duplicates page, the doctor and the organiser run at once,
\* whatever they have read before another one moves it, and wherever they are stopped.
THEOREM NothingIsLost == Spec => [](Careful => NothingLost)
<1>1. Init => KeepInv
  BY AtFirst
<1>2. IInv /\ KeepInv /\ [Next]_<<store, work, dupVars, scanVars>> => KeepInv'
  BY KeepsOn, StaysSo
<1>. QED
  BY <1>1, <1>2, KeptIs, Inductive, PTL DEF Spec
-----------------------------------------------------------------------------
(* The catalogues and the titles *)

\* The catalogues are files of lists; the one that is being received is no listing of MAME.
IsFetch(j) == j = [at |-> j.at, todo |-> j.todo, now |-> j.now, seen |-> j.seen]
IsDat(d) == d = [list |-> d.list, fresh |-> d.fresh] /\ IsList(d.list)
DatsInv ==
    /\ IsFetch(fetch) /\ fetch.todo \subseteq DOMAIN tale.sent
    /\ fetch.at \in {"body", "check"} => fetch.now \in DOMAIN tale.sent /\ fetch.now # "listxml"
    /\ IsFiniteSet(DOMAIN dats) /\ \A d \in DOMAIN dats : IsDat(dats[d])
    /\ \A d \in DOMAIN tale.sent : IsList(tale.sent[d])

\* A title that a name may give: the one of an arcade set, or, among the entries that the
\* file could be, the only one, or one with the number of the disc.
OfItsDisc(p, e) == Tags[p.stem].disc # 0 /\ Tags[e.title].disc = Tags[p.stem].disc
Fits(p, title, cat) ==
    /\ title \in {e.title : e \in Could(p, cat)}
    /\ {e.title : e \in Could(p, cat)} = {title} \/ \A e \in Could(p, cat) : OfItsDisc(p, e)
ByItsName(p, title, cat) ==
    \/ p.ext = "zip" /\ title = p.stem
    \/ On(p) \/ TruePlatform(p) # "psx" => Fits(p, title, cat)

\* A title that a hash may give: the one of an entry with the hash the match took of the row.
ByItsHash(title, cat, sha) == \E e \in cat : e.dir # "arcade" /\ e.sha = sha /\ e.title = title
Given(p, row, cat, sha) ==
    IF row.sure = "high" THEN ByItsHash(row.title, cat, sha) ELSE ByItsName(p, row.title, cat)

\* What a transaction has changed of the titles: a scan none, a match to what it has found.
TitlesInv ==
    /\ match.read = {None} \/ IsList(match.read)
    /\ \A p \in DOMAIN match.todo : match.todo[p] = match.took[p]
    /\ lock = "scan" => \A p \in DOMAIN games : draft[p].title = games[p].title
    /\ lock = "match" =>
        /\ match.read # {None}
        /\ \A p \in DOMAIN games :
             draft[p].title \in {games[p].title, None} \/ Given(p, draft[p], match.read, match.took[p])

\* While a match has the database no PlayStation disc comes, goes or is replaced ...
KeepsDiscs ==
    lock = "match" =>
        \A p \in DOMAIN disk \cup DOMAIN disk' :
            TruePlatform(p) = "psx" => On(p) /\ On(p)' /\ disk'[p] = disk[p]
DiscsStay == [][KeepsDiscs]_disk
\* ... and no two titles that a file could have are of the number of its disc.
DiscsTell ==
    lock = "match" =>
        \A p \in {q \in DOMAIN games : On(q)} : \A e, f \in Could(p, match.read) :
            OfItsDisc(p, e) /\ OfItsDisc(p, f) => e.title = f.title

LEMMA NoFetchFields == IsFetch(NoFetch) /\ NoFetch.at = "idle" /\ NoFetch.todo = {}
BY DEF IsFetch, NoFetch

LEMMA PutList ==
    ASSUME NEW d, NEW list, IsList(list), IsFiniteSet(DOMAIN dats), \A x \in DOMAIN dats : IsDat(dats[x]),
           dats' = Put(dats, d, File0(list))
    PROVE  /\ IsFiniteSet(DOMAIN dats') /\ \A x \in DOMAIN dats' : IsDat(dats'[x])
           /\ DOMAIN dats' = {d} \cup DOMAIN dats /\ dats'[d].list = list
           /\ \A x \in DOMAIN dats \ {d} : dats'[x] = dats[x]
<1>1. IsDat(File0(list)) /\ File0(list).list = list
  BY DEF IsDat, File0
<1>2. DOMAIN dats' = {d} \cup DOMAIN dats /\ \A x \in DOMAIN dats' : dats'[x] = IF x = d THEN File0(list) ELSE dats[x]
  BY DEF Put
<1>3. IsFiniteSet({d} \cup DOMAIN dats)
  <2>1. IsFiniteSet({d})
    BY FS_Singleton
  <2>. QED
    BY <2>1, FinUnion
<1>4. IsFiniteSet(DOMAIN dats')
  BY <1>2, <1>3
<1>. QED
  BY <1>1, <1>2, <1>4

LEMMA NoEntry == IsList({})
BY FS_EmptySet DEF IsList

LEMMA BodyList ==
    ASSUME DatsInv, NEW d \in DOMAIN tale.sent, NEW body \in Bodies(d)
    PROVE  IsList(body)
BY NoEntry DEF DatsInv, Bodies

LEMMA FetchBegins ==
    ASSUME DatsInv, tale' = tale, StartFetch \/ EndFetch \/ Crash
    PROVE  DatsInv' /\ dats' = dats
<1>1. PICK n : n = NoFetch
  OBVIOUS
<1>2. IsFetch(n) /\ n.at = "idle" /\ n.todo = {}
  BY <1>1, NoFetchFields
<1>3. CASE EndFetch \/ Crash
  BY <1>1, <1>2, <1>3 DEF EndFetch, Crash, DatsInv
<1>4. CASE StartFetch
  <2>1. fetch' = [n EXCEPT !.at = "fetch", !.todo = DOMAIN tale.sent] /\ dats' = dats
    BY <1>1, <1>4 DEF StartFetch
  <2>2. IsFetch(fetch') /\ fetch'.at = "fetch" /\ fetch'.todo = DOMAIN tale.sent
    BY <1>2, <2>1 DEF IsFetch
  <2>. QED
    BY <2>1, <2>2 DEF DatsInv
<1>. QED
  BY <1>3, <1>4

\* A catalogue with entries has some afterwards, unless it is written in place.
KeepsListing ==
    \A d \in DOMAIN dats :
        dats[d].list # {} => (d \in DOMAIN dats' /\ dats'[d].list # {}) \/ (d # "listxml" /\ InPlace(d))

LEMMA FetchGoes ==
    ASSUME DatsInv, tale' = tale, NEW d \in DOMAIN tale.sent, FetchSkip(d) \/ FetchOpen(d) \/ FetchXml(d) \/ FetchBody \/ FetchCheck
    PROVE  DatsInv' /\ KeepsListing
<1>. USE DEF DatsInv
<1>1. CASE FetchSkip(d)
  <2>1. dats' = dats /\ fetch' = [fetch EXCEPT !.todo = @ \ {d}]
    BY <1>1 DEF FetchSkip
  <2>2. IsFetch(fetch') /\ fetch'.at = fetch.at /\ fetch'.todo = fetch.todo \ {d} /\ fetch'.now = fetch.now
    BY <2>1 DEF IsFetch
  <2>. QED
    BY <2>1, <2>2 DEF KeepsListing
<1>2. CASE FetchOpen(d)
  <2>1. d # "listxml" /\ dats' = Put(dats, d, File0({})) /\ fetch' = [fetch EXCEPT !.at = "body", !.now = d, !.todo = @ \ {d}]
    BY <1>2 DEF FetchOpen
  <2>2. IsFetch(fetch') /\ fetch'.at = "body" /\ fetch'.todo = fetch.todo \ {d} /\ fetch'.now = d
    BY <2>1 DEF IsFetch
  <2>3. /\ IsFiniteSet(DOMAIN dats') /\ \A x \in DOMAIN dats' : IsDat(dats'[x])
        /\ DOMAIN dats' = {d} \cup DOMAIN dats /\ \A x \in DOMAIN dats \ {d} : dats'[x] = dats[x]
    BY <2>1, PutList, NoEntry
  <2>4. d \in DOMAIN dats => InPlace(d)
    BY <1>2, <2>2 DEF InPlace, FetchOpen, Fresh
  <2>5. KeepsListing
    BY <2>1, <2>3, <2>4 DEF KeepsListing
  <2>6. d # "listxml"
    BY <2>1
  <2>. QED
    BY <2>2, <2>3, <2>5, <2>6
<1>3. CASE FetchXml(d)
  <2>1. PICK body \in Bodies(d) : dats' = IF IsListXml(body) THEN Put(dats, d, File0(body)) ELSE dats
    BY <1>3 DEF FetchXml
  <2>2. d = "listxml" /\ fetch' = [fetch EXCEPT !.todo = @ \ {d}]
    BY <1>3 DEF FetchXml
  <2>3. IsFetch(fetch') /\ fetch'.at = fetch.at /\ fetch'.todo = fetch.todo \ {d} /\ fetch'.now = fetch.now
    BY <2>2 DEF IsFetch
  <2>4. CASE IsListXml(body)
    BY <2>1, <2>2, <2>3, <2>4, PutList, BodyList DEF IsListXml, KeepsListing
  <2>. QED
    BY <2>1, <2>3, <2>4 DEF KeepsListing
<1>4. CASE FetchBody
  <2>1. PICK body \in Bodies(fetch.now) : dats' = Put(dats, fetch.now, File0(body))
    BY <1>4 DEF FetchBody
  <2>2. fetch.at = "body" /\ fetch' = [fetch EXCEPT !.at = "check"]
    BY <1>4 DEF FetchBody
  <2>3. IsFetch(fetch') /\ fetch'.at = "check" /\ fetch'.todo = fetch.todo /\ fetch'.now = fetch.now
    BY <2>2 DEF IsFetch
  <2>4. IsList(body) /\ fetch.now # "listxml" /\ fetch.now \in DOMAIN tale.sent
    BY <2>1, <2>2, BodyList
  <2>5. /\ IsFiniteSet(DOMAIN dats') /\ \A x \in DOMAIN dats' : IsDat(dats'[x])
        /\ DOMAIN dats' = {fetch.now} \cup DOMAIN dats /\ \A x \in DOMAIN dats \ {fetch.now} : dats'[x] = dats[x]
    BY <2>1, <2>4, PutList
  <2>. QED
    BY <2>3, <2>4, <2>5 DEF KeepsListing, InPlace
<1>5. CASE FetchCheck
  <2>1. fetch.at = "check" /\ fetch' = [fetch EXCEPT !.at = "fetch", !.now = None]
        /\ dats' \in {dats, Without(dats, {fetch.now})}
    BY <1>5 DEF FetchCheck
  <2>2. IsFetch(fetch') /\ fetch'.at = "fetch" /\ fetch'.todo = fetch.todo
    BY <2>1 DEF IsFetch
  <2>3. DOMAIN dats' \subseteq DOMAIN dats /\ DOMAIN dats \ {fetch.now} \subseteq DOMAIN dats'
        /\ \A x \in DOMAIN dats' : dats'[x] = dats[x]
    BY <2>1 DEF Without, Restrict
  <2>4. IsFiniteSet(DOMAIN dats')
    BY <2>3, FinSub
  <2>5. KeepsListing
    BY <2>1, <2>3 DEF KeepsListing, InPlace
  <2>. QED
    BY <2>1, <2>2, <2>3, <2>4, <2>5
<1>. QED
  BY <1>1, <1>2, <1>3, <1>4, <1>5

LEMMA ListsCome ==
    ASSUME DatsInv, tale' = tale, NEW d \in DOMAIN tale.sent, Expire(d) \/ ImportDat(d) \/ ImportArcade(d)
    PROVE  DatsInv' /\ KeepsListing
<1>. USE DEF DatsInv
<1>1. CASE Expire(d)
  <2>1. d \in DOMAIN dats /\ dats' = [dats EXCEPT ![d].fresh = FALSE] /\ fetch' = fetch
    BY <1>1 DEF Expire, Fresh
  <2>2. DOMAIN dats' = DOMAIN dats /\ \A x \in DOMAIN dats : IsDat(dats'[x]) /\ dats'[x].list = dats[x].list
    <3>1. PICK file : file = dats[d]
      OBVIOUS
    <3>2. PICK old : old = [file EXCEPT !.fresh = FALSE]
      OBVIOUS
    <3>3. IsDat(file)
      BY <2>1, <3>1
    <3>4. file = [list |-> file.list, fresh |-> file.fresh] /\ IsList(file.list)
      BY <3>3 DEF IsDat
    <3>5. old = [list |-> file.list, fresh |-> FALSE]
      BY ONLY <3>2, <3>4
    <3>6. IsDat(old) /\ old.list = file.list
      BY <3>4, <3>5 DEF IsDat
    <3>7. DOMAIN dats' = DOMAIN dats /\ dats'[d] = old /\ \A x \in DOMAIN dats \ {d} : dats'[x] = dats[x]
      BY <2>1, <3>1, <3>2
    <3>. QED
      BY <3>1, <3>6, <3>7
  <2>3. IsFiniteSet(DOMAIN dats')
    BY <2>2
  <2>4. \A x \in DOMAIN dats' : IsDat(dats'[x])
    BY <2>2
  <2>5. KeepsListing
    BY <2>2 DEF KeepsListing
  <2>. QED
    BY <2>1, <2>3, <2>4, <2>5
<1>2. CASE ImportDat(d)
  BY <1>2, PutList, BodyList DEF ImportDat, KeepsListing, InPlace
<1>3. CASE ImportArcade(d)
  BY <1>3, PutList, BodyList DEF ImportArcade, KeepsListing
<1>. QED
  BY <1>1, <1>2, <1>3

LEMMA DatsStep ==
    ASSUME DatsInv, [Next]_<<store, work, dupVars, scanVars>>
    PROVE  DatsInv' /\ KeepsListing
<1>1. tale' = tale
  BY TaleStays DEF work
<1>2. ASSUME UNCHANGED <<dats, fetch>> PROVE DatsInv' /\ KeepsListing
  BY <1>1, <1>2 DEF DatsInv, KeepsListing
<1>3. ASSUME UNCHANGED scanVars PROVE DatsInv' /\ KeepsListing
  BY <1>2, <1>3 DEF scanVars
<1>4. CASE ScannerNext
  <2>1. ASSUME NEW kind, NEW low, StartScan(kind) \/ StartAdb \/ StartMatch(low) PROVE UNCHANGED <<dats, fetch>>
    BY <2>1 DEF StartScan, StartAdb, StartMatch
  <2>2. ASSUME NEW p, WalkPast(p) \/ WalkHold(p) \/ WalkQuick(p) \/ WalkSave(p) \/ MatchOne(p) PROVE UNCHANGED <<dats, fetch>>
    BY <2>2 DEF WalkPast, WalkHold, WalkQuick, WalkSave, MatchOne, ScanStep, MatchStep
  <2>3. CASE Flush \/ EndScan \/ Prune \/ CancelScan \/ ScanLocked \/ HashSha \/ HashMd5 \/ Store \/ EndAdb
    BY <1>2, <2>3 DEF Flush, EndScan, Prune, CancelScan, ScanLocked, HashSha, HashMd5, Store, EndAdb, ScanStep
  <2>4. CASE EndMatch \/ CancelMatch \/ MatchLocked
    BY <1>2, <2>4 DEF EndMatch, CancelMatch, MatchLocked, MatchStep
  <2>5. CASE StartFetch \/ EndFetch \/ Crash
    BY <1>1, <2>5, FetchBegins DEF KeepsListing
  <2>6. ASSUME NEW p, NEW f, Edit(f) \/ Rename1(p, f.at) \/ Erase(p) PROVE UNCHANGED <<dats, fetch>>
    BY <2>6 DEF Edit, Rename1, Erase, jobs
  <2>7. CASE FetchBody \/ FetchCheck
    <3>1. fetch.now \in DOMAIN tale.sent
      BY <2>7 DEF DatsInv, FetchBody, FetchCheck
    <3>. QED
      BY <1>1, <2>7, <3>1, FetchGoes
  <2>. QED
    BY <1>1, <1>2, <1>4, <2>1, <2>2, <2>3, <2>4, <2>5, <2>6, <2>7, FetchGoes, ListsCome DEF ScannerNext
<1>. QED
  BY <1>3, <1>4 DEF Next

LEMMA DatsInit == Init => DatsInv
<1>. SUFFICES ASSUME Init PROVE DatsInv
  OBVIOUS
<1>1. PICK s \in Stories : Begin(s)
  BY DEF Init
<1>2. dats = s.dats /\ tale.sent = s.sent /\ fetch = NoFetch
  BY <1>1 DEF Begin, Init
<1>. QED
  BY <1>2, NoFetchFields, DatsAssumption DEF DatsInv, IsDat

LEMMA DatsOn == Spec => []DatsInv
<1>1. DatsInv /\ [Next]_<<store, work, dupVars, scanVars>> => DatsInv'
  BY DatsStep
<1>. QED
  BY <1>1, DatsInit, PTL DEF Spec

\* No catalogue is lost but to its own download, when it was due, or to what the user imports
\* over it; the listing of MAME not even to these: not to a part of it that came, nor when a
\* download ends half way.
THEOREM ListingStays == Spec => ListingKept
<1>1. ASSUME DatsInv, [Next]_<<store, work, dupVars, scanVars>>
      PROVE  [\A d \in DOMAIN dats :
                dats[d].list # {} =>
                    \/ d \in DOMAIN dats' /\ dats'[d].list # {}
                    \/ d # "listxml" /\ InPlace(d)]_dats
  BY <1>1, DatsStep DEF KeepsListing
<1>. QED
  BY <1>1, DatsOn, PTL DEF Spec, ListingKept

\* A set of natural numbers that is not empty has a least one.
LEMMA LeastOne ==
    ASSUME NEW T, T \subseteq Nat, T # {}
    PROVE  \E m \in T : \A n \in T : m <= n
<1>1. PICK R : R = OpToRel(<, Nat)
  OBVIOUS
<1>2. IsWellFoundedOn(R, Nat)
  BY <1>1, NatLessThanWellFounded
<1>3. \A x, y \in Nat : x < y => <<x, y>> \in R
  BY <1>1 DEF OpToRel
<1>4. PICK m \in T : \A y \in T : ~ (<<y, m>> \in R)
  BY <1>2, WFMin
<1>5. \A n \in T : ~(n < m)
  BY <1>3, <1>4
<1>6. \A a, b \in Nat : ~(b < a) => a <= b
  OBVIOUS
<1>. QED
  BY <1>5, <1>6

LEMMA BestIn ==
    ASSUME NEW es, es # {}, \A e \in es : e.rank \in Nat
    PROVE  Best(es) \in es
<1>1. PICK T : T = {e.rank : e \in es}
  OBVIOUS
<1>2. PICK m \in T : \A n \in T : m <= n
  BY <1>1, LeastOne
<1>3. \E e \in es : \A f \in es : e.rank <= f.rank
  BY <1>1, <1>2
<1>. QED
  BY <1>3 DEF Best

\* The title that a name gives is one that the file could have, and the only one or one
\* with the number of its disc.
LEMMA NameFits ==
    ASSUME NEW p, NEW cat, IsList(cat), NEW found, found = ByName(p, cat), found # None,
           On(p) \/ TruePlatform(p) # "psx"
    PROVE  Fits(p, found.title, cat)
<1>1. PICK hits : hits = {e \in cat : e.dir # "arcade" /\ Bases(e) = Tags[p.stem].base}
  OBVIOUS
<1>2. PICK here : here = OfPlatform(p, hits)
  OBVIOUS
<1>3. PICK told : told = IF Cardinality(here) > 1 THEN OfSerial(p, here) ELSE {}
  OBVIOUS
<1>4. PICK left : left = IF told = {} THEN here ELSE told
  OBVIOUS
<1>5. PICK disc : disc = OfDisc(p, left)
  OBVIOUS
<1>6. /\ here = {e \in hits : TruePlatform(p) \in {None, e.platform}} /\ here # {}
      /\ \/ Cardinality(hits) = 1 /\ found = Named(Best(here), "medium")
         \/ Cardinality(hits) # 1 /\ Cardinality(told) = 1 /\ found = Named(Best(told), "medium")
         \/ Cardinality(hits) # 1 /\ disc # {} /\ found = Named(Best(disc), "low")
         \/ Cardinality(hits) # 1 /\ disc = {} /\ Cardinality(left) = 1 /\ found = Named(Best(left), "low")
  BY <1>1, <1>2, <1>3, <1>4, <1>5 DEF ByName, OfPlatform
<1>7. PICK serial : serial = {e \in here : TruePlatform(p) = "psx" /\ e.serial # None /\ e.serial = Serials[disk[p]]}
  OBVIOUS
<1>8. PICK rest : rest = IF serial # {} THEN serial ELSE here
  OBVIOUS
<1>9. Could(p, cat) = LET d == {e \in rest : OfItsDisc(p, e)} IN IF d # {} THEN d ELSE rest
  BY <1>1, <1>6, <1>7, <1>8 DEF Could, OfItsDisc
<1>10. \A S : S \subseteq cat => IsFiniteSet(S) /\ \A e \in S : e.rank \in Nat
  BY FinSub DEF IsList
<1>11. \A S : S \subseteq cat /\ Cardinality(S) = 1 => \E e : S = {e}
  BY <1>10, FS_Singleton
<1>12. here \subseteq cat /\ told \subseteq cat /\ left \subseteq cat
  BY <1>1, <1>3, <1>4, <1>6 DEF OfSerial
<1>13. Cardinality(here) = 1 \/ Cardinality(here) > 1
  <2>1. IsFiniteSet(here)
    BY <1>10, <1>12
  <2>2. Cardinality(here) \in Nat /\ Cardinality(here) # 0
    BY <1>6, <2>1, FS_CardinalityType, FS_EmptySet
  <2>. QED
    BY <2>2
<1>14. left = rest /\ (told # {} => told = serial)
  <2>1. CASE Cardinality(here) = 1
    <3>1. PICK e : here = {e}
      BY <1>11, <1>12, <2>1
    <3>2. told = {} /\ left = here
      BY <1>3, <1>4, <2>1
    <3>. QED
      BY <1>7, <1>8, <3>1, <3>2
  <2>2. CASE Cardinality(here) > 1
    BY <1>3, <1>4, <1>7, <1>8, <2>2 DEF OfSerial
  <2>. QED
    BY <1>13, <2>1, <2>2
<1>15. disc = {e \in rest : OfItsDisc(p, e)}
  BY <1>5, <1>14 DEF OfDisc, OfItsDisc
<1>16. ASSUME NEW e, NEW sure, Could(p, cat) = {e}, found = Named(Best({e}), sure) PROVE Fits(p, found.title, cat)
  <2>1. e \in cat
    BY <1>8, <1>9, <1>7, <1>12, <1>16
  <2>2. Best({e}) = e
    BY <1>10, <2>1, BestIn
  <2>3. found.title = e.title
    BY <1>16, <2>2 DEF Named
  <2>. QED
    BY <1>16, <2>3 DEF Fits
<1>17. CASE Cardinality(hits) = 1 /\ found = Named(Best(here), "medium")
  <2>1. PICK e : hits = {e}
    BY <1>1, <1>11, <1>17
  <2>2. here = {e}
    BY <1>6, <2>1
  <2>3. rest = {e}
    BY <1>7, <1>8, <2>2
  <2>4. Could(p, cat) = {e}
    BY <1>9, <2>3
  <2>. QED
    BY <1>16, <1>17, <2>2, <2>4
<1>18. CASE Cardinality(told) = 1 /\ found = Named(Best(told), "medium")
  <2>1. PICK e : told = {e}
    BY <1>11, <1>12, <1>18
  <2>2. rest = {e}
    BY <1>8, <1>14, <2>1
  <2>3. Could(p, cat) = {e}
    BY <1>9, <2>2
  <2>. QED
    BY <1>16, <1>18, <2>1, <2>3
<1>19. CASE disc # {} /\ found = Named(Best(disc), "low")
  <2>1. Could(p, cat) = disc
    BY <1>9, <1>15, <1>19
  <2>2. Best(disc) \in disc
    BY <1>10, <1>12, <1>14, <1>15, <1>19, BestIn
  <2>3. found.title = Best(disc).title
    BY <1>19 DEF Named
  <2>4. \A e \in disc : OfItsDisc(p, e)
    BY <1>15
  <2>. QED
    BY <2>1, <2>2, <2>3, <2>4 DEF Fits
<1>20. CASE disc = {} /\ Cardinality(left) = 1 /\ found = Named(Best(left), "low")
  <2>1. PICK e : left = {e}
    BY <1>11, <1>12, <1>20
  <2>2. Could(p, cat) = {e}
    BY <1>9, <1>14, <1>15, <1>20, <2>1
  <2>. QED
    BY <1>16, <1>20, <2>1, <2>2
<1>. QED
  BY <1>6, <1>17, <1>18, <1>19, <1>20

\* What a match finds, by the hash or by the name.
LEMMA MatchFits ==
    ASSUME NEW sha, NEW p, NEW cat, IsList(cat), NEW found, found = MatchOf(sha, p, cat), found # None
    PROVE  IF found.sure = "high" THEN ByItsHash(found.title, cat, sha) ELSE ByItsName(p, found.title, cat)
<1>1. \A e, sure : Named(e, sure).sure = sure /\ Named(e, sure).title = e.title
  BY DEF Named
<1>2. PICK same : same = {e \in cat : e.dir # "arcade" /\ e.sha = sha}
  OBVIOUS
<1>3. CASE same # {}
  <2>1. found = Named(Best(same), "high")
    BY <1>2, <1>3 DEF MatchOf
  <2>2. Best(same) \in same
    <3>1. \A e \in same : e.rank \in Nat
      BY <1>2 DEF IsList
    <3>. QED
      BY <1>3, <3>1, BestIn
  <2>3. PICK e \in same : found = Named(e, "high")
    BY <2>1, <2>2
  <2>4. found.sure = "high" /\ found.title = e.title
    BY <2>3 DEF Named
  <2>. QED
    BY <1>2, <2>3, <2>4 DEF ByItsHash
<1>4. CASE same = {}
  <2>1. found \in {ByName(p, cat), ByStem(p, cat)}
    BY <1>2, <1>4 DEF MatchOf, Either
  <2>2. CASE found = ByStem(p, cat)
    BY <2>2 DEF ByStem, ByItsName
  <2>3. CASE found = ByName(p, cat)
    <3>1. found.sure \in {"medium", "low"}
      BY <1>1, <2>3 DEF ByName
    <3>. QED
      BY <2>3, <3>1, NameFits DEF ByItsName
  <2>. QED
    BY <2>1, <2>2, <2>3
<1>. QED
  BY <1>3, <1>4

LEMMA CatalogueList == ASSUME DatsInv PROVE IsList(Catalogue)
<1>1. PICK f : f = [d \in DOMAIN dats |-> dats[d].list]
  OBVIOUS
<1>2. PICK S : S = {f[d] : d \in DOMAIN dats}
  OBVIOUS
<1>3. IsFiniteSet(S)
  BY <1>2, Image DEF DatsInv
<1>4. S = {dats[d].list : d \in DOMAIN dats} /\ \A l \in S : IsList(l)
  BY <1>1, <1>2 DEF DatsInv, IsDat
<1>5. IsFiniteSet(UNION S)
  BY <1>3, <1>4, FS_UNION DEF IsList
<1>6. None \notin UNION S /\ \A e \in UNION S : e.rank \in Nat
  BY <1>4 DEF IsList
<1>7. Catalogue \subseteq UNION S
  BY <1>4 DEF Catalogue
<1>8. IsFiniteSet(Catalogue)
  BY <1>5, <1>7, FinSub
<1>. QED
  BY <1>6, <1>7, <1>8 DEF IsList

\* A step that commits no match and writes nothing for one gives no row a title.
SameTitles ==
    /\ match'.read \in {match.read, {None}}
    /\ \A p \in DOMAIN match'.todo : match'.todo[p] = match'.took[p]
    /\ lock' = "match" =>
         lock = "match" /\ UNCHANGED <<games, draft>> /\ match'.read = match.read /\ match'.took = match.took
    /\ lock' = "scan" => \A p \in DOMAIN games' : draft'[p].title = games'[p].title
    /\ \A p \in DOMAIN games \cap DOMAIN games' : games'[p].title = games[p].title

LEMMA NoMatchReads == NoMatch.read = {None} /\ DOMAIN NoMatch.todo = {}
BY DEF NoMatch

LEMMA TableTitles ==
    ASSUME IInv, TitlesInv,
           \/ ScanWrite \/ Commit("scan")
           \/ lock = None /\ games' = Restrict(games, DOMAIN games \cap scan.seen) /\ UNCHANGED <<lock, draft>>
           \/ lock' = None /\ UNCHANGED games
    PROVE  /\ lock' = "match" => lock = "match" /\ UNCHANGED <<games, draft>>
           /\ lock' = "scan" => \A p \in DOMAIN games' : draft'[p].title = games'[p].title
           /\ \A p \in DOMAIN games \cap DOMAIN games' : games'[p].title = games[p].title
<1>. USE NoneIsNoJob
<1>1. LockInv /\ DraftInv
  BY DEF IInv
<1>2. CASE UNCHANGED table
  BY <1>2 DEF table, TitlesInv
<1>3. CASE \E g : Write("scan", g) /\ Grows(g) /\ scan.at # "idle"
  BY <1>1, <1>3 DEF Write, Grows, Seen, Table, TitlesInv, DraftInv
<1>4. CASE Commit("scan")
  BY <1>1, <1>4 DEF Commit, table, TitlesInv, DraftInv
<1>5. CASE lock = None /\ games' = Restrict(games, DOMAIN games \cap scan.seen) /\ UNCHANGED <<lock, draft>>
  BY <1>5 DEF Restrict
<1>6. CASE lock' = None /\ UNCHANGED games
  BY <1>6
<1>. QED
  BY <1>2, <1>3, <1>4, <1>5, <1>6 DEF ScanWrite

LEMMA TitleSteps ==
    ASSUME IInv, TitlesInv, ScannerNext
    PROVE  SameTitles \/ (\E p : MatchOne(p)) \/ EndMatch
<1>. USE NoneIsNoJob, NoMatchReads
<1>1. LockInv /\ DraftInv /\ IsMatch(match)
  BY DEF IInv, LockInv
<1>2. ASSUME UNCHANGED match, UNCHANGED table PROVE SameTitles
  BY <1>2, TableTitles DEF SameTitles, ScanWrite, TitlesInv
<1>3. ASSUME NEW kind, StartScan(kind) \/ StartAdb \/ StartFetch PROVE SameTitles
  BY <1>2, <1>3 DEF StartScan, StartAdb, StartFetch
<1>4. ASSUME NEW low, StartMatch(low) PROVE SameTitles
  <2>1. lock # "match" /\ UNCHANGED table
    BY <1>1, <1>4 DEF StartMatch, LockInv
  <2>2. match'.read = {None} /\ match'.todo = match'.took
    <3>1. PICK n : n = NoMatch
      OBVIOUS
    <3>2. n.read = {None} /\ IsMatch(n)
      BY <3>1, NoScanFields
    <3>3. \E t : match' = [n EXCEPT !.at = "match", !.todo = t, !.took = t]
      BY <1>4, <3>1 DEF StartMatch
    <3>. QED
      BY <3>2, <3>3 DEF IsMatch
  <2>. QED
    BY <2>1, <2>2, TableTitles DEF SameTitles, ScanWrite, table
<1>5. ASSUME NEW p, WalkPast(p) \/ WalkHold(p) PROVE SameTitles
  BY <1>2, <1>5 DEF WalkPast, WalkHold, ScanStep
<1>6. ASSUME NEW p, WalkQuick(p) \/ WalkSave(p) \/ Flush \/ Store PROVE SameTitles
  <2>1. UNCHANGED match
    BY <1>6 DEF WalkQuick, WalkSave, Flush, Store, ScanStep
  <2>. QED
    BY <1>6, <2>1, ScanWrites, TableTitles DEF SameTitles, TitlesInv
<1>7. CASE EndScan \/ EndAdb
  BY <1>7, TableTitles DEF EndScan, EndAdb, ScanStep, SameTitles, TitlesInv
<1>8. CASE CancelScan \/ ScanLocked \/ HashSha \/ HashMd5
  BY <1>2, <1>8 DEF CancelScan, ScanLocked, HashSha, HashMd5, ScanStep
<1>9. CASE Prune
  <2>1. UNCHANGED match /\ lock = None /\ UNCHANGED <<lock, draft>>
        /\ (UNCHANGED games \/ games' = Restrict(games, DOMAIN games \cap scan.seen))
    BY <1>9 DEF Prune, ScanStep
  <2>. QED
    BY <2>1, TableTitles DEF SameTitles, TitlesInv
<1>10. CASE CancelMatch
  <2>1. match'.read = match.read /\ match'.todo = match.todo /\ match'.took = match.took /\ UNCHANGED table
    BY <1>1, <1>10 DEF CancelMatch, IsMatch
  <2>. QED
    BY <2>1, TableTitles DEF SameTitles, ScanWrite, TitlesInv
<1>11. CASE MatchLocked
  <2>1. match' = NoMatch /\ lock # "match" /\ UNCHANGED table
    BY <1>11 DEF MatchLocked
  <2>. QED
    BY <2>1, TableTitles DEF SameTitles, ScanWrite, table
<1>12. CASE Crash
  BY <1>12, TableTitles DEF Crash, SameTitles
<1>13. CASE FetchBody \/ FetchCheck \/ EndFetch
  BY <1>2, <1>13 DEF FetchBody, FetchCheck, EndFetch, FetchStep
<1>14. ASSUME NEW d, FetchSkip(d) \/ FetchOpen(d) \/ FetchXml(d) \/ Expire(d) \/ ImportDat(d) \/ ImportArcade(d)
       PROVE  SameTitles
  BY <1>2, <1>14 DEF FetchSkip, FetchOpen, FetchXml, Expire, ImportDat, ImportArcade, FetchStep
<1>15. ASSUME NEW p, NEW f, Edit(f) \/ Erase(p) PROVE SameTitles
  BY <1>2, <1>15 DEF Edit, Erase, jobs
<1>16. ASSUME NEW x, NEW y, Rename1(x, y) PROVE SameTitles
  <2>1. /\ lock = None /\ lock' = None /\ UNCHANGED match /\ y \notin DOMAIN games /\ x \in DOMAIN games
        /\ games' = Put(Without(games, {x}), y, games[x])
    BY <1>16 DEF Rename1, jobs
  <2>2. \A p \in DOMAIN games \cap DOMAIN games' : games'[p] = games[p]
    BY <2>1 DEF Put, Without, Restrict
  <2>. QED
    BY <2>1, <2>2 DEF SameTitles, TitlesInv
<1>. QED
  BY <1>3, <1>4, <1>5, <1>6, <1>7, <1>8, <1>9, <1>10, <1>11, <1>12, <1>13, <1>14, <1>15, <1>16 DEF ScannerNext

LEMMA CouldStill ==
    ASSUME NEW p, NEW cat, disk'[p] = disk[p] \/ TruePlatform(p) # "psx"
    PROVE  Could(p, cat)' = Could(p, cat)
BY DEF Could

LEMMA StillByName ==
    ASSUME lock = "match", [KeepsDiscs]_disk, match'.read = match.read, NEW p, NEW title, ByItsName(p, title, match.read)
    PROVE  ByItsName(p, title, match.read)'
<1>1. PICK cat : cat = match.read
  OBVIOUS
<1>2. SUFFICES ASSUME On(p)' \/ TruePlatform(p) # "psx", ~(p.ext = "zip" /\ title = p.stem)
               PROVE  Fits(p, title, cat)'
  BY <1>1 DEF ByItsName
<1>3. TruePlatform(p) = "psx" => On(p) /\ disk'[p] = disk[p]
  BY <1>2 DEF KeepsDiscs, On
<1>4. Fits(p, title, cat)
  BY <1>1, <1>2, <1>3 DEF ByItsName
<1>5. Could(p, cat)' = Could(p, cat)
  BY <1>3, CouldStill
<1>. QED
  BY <1>4, <1>5 DEF Fits, OfItsDisc

LEMMA MatchOneTitles ==
    ASSUME IInv, DatsInv, TitlesInv, NEW p, MatchOne(p)
    PROVE  TitlesInv'
<1>. USE NoneIsNoJob
<1>1. PICK g : g = Table("match")
  OBVIOUS
<1>2. PICK cat : cat = IF match.read = {None} THEN Catalogue ELSE match.read
  OBVIOUS
<1>3. PICK found : found = MatchOf(match.todo[p], p, cat)
  OBVIOUS
<1>4. /\ match' = [match EXCEPT !.read = cat, !.todo = Without(@, {p})]
      /\ Write("match",
              IF p \notin DOMAIN g THEN g
              ELSE [g EXCEPT ![p].title = IF found = None THEN None ELSE found.title,
                             ![p].sure = IF found = None THEN None ELSE found.sure])
  BY <1>1, <1>2, <1>3 DEF MatchOne
<1>5. LockInv /\ DraftInv /\ RowsInv /\ IsMatch(match)
  BY DEF IInv, LockInv
<1>6. match'.read = cat /\ match'.todo = Without(match.todo, {p}) /\ match'.took = match.took
  BY <1>4, <1>5 DEF IsMatch
<1>7. IsList(cat) /\ cat # {None}
  BY <1>2, CatalogueList DEF TitlesInv, IsList
<1>8. lock' = "match" /\ games' = games /\ lock \in {None, "match"} /\ UNCHANGED disk
  BY <1>4 DEF Write, MatchOne, MatchStep, tree
<1>9. \A q \in DOMAIN g : IsRow(g[q])
  BY <1>1, <1>5 DEF RowsInv, RowOK, Table
<1>10. /\ \A q \in DOMAIN g : draft'[q] = g[q] \/ q = p
       /\ p \in DOMAIN g => draft'[p].title = (IF found = None THEN None ELSE found.title)
                            /\ draft'[p].sure = IF found = None THEN None ELSE found.sure
  <2>1. PICK t : t = IF found = None THEN None ELSE found.title
    OBVIOUS
  <2>2. PICK u : u = IF found = None THEN None ELSE found.sure
    OBVIOUS
  <2>3. CASE p \in DOMAIN g
    <3>1. PICK row : row = g[p]
      OBVIOUS
    <3>2. PICK new : new = [[row EXCEPT !.title = t] EXCEPT !.sure = u]
      OBVIOUS
    <3>3. draft' = [[g EXCEPT ![p].title = t] EXCEPT ![p].sure = u]
      BY <1>4, <2>1, <2>2, <2>3 DEF Write
    <3>4. draft'[p] = new /\ \A q \in DOMAIN g \ {p} : draft'[q] = g[q]
      BY <2>3, <3>1, <3>2, <3>3
    <3>5. IsRow(row)
      BY <1>9, <2>3, <3>1
    <3>6. new.title = t /\ new.sure = u
      BY <3>2, <3>5 DEF IsRow
    <3>. QED
      BY <2>1, <2>2, <3>4, <3>6
  <2>4. CASE p \notin DOMAIN g
    BY <1>4, <2>4 DEF Write
  <2>. QED
    BY <2>3, <2>4
<1>11. DOMAIN g = DOMAIN games
  BY <1>1, <1>5 DEF DraftInv, Table
<1>12. ASSUME NEW q \in DOMAIN games
       PROVE  draft'[q].title \in {games[q].title, None} \/ Given(q, draft'[q], cat, match.took[q])
  <2>1. CASE q = p
    <3>1. match.todo[p] = match.took[p]
      BY DEF TitlesInv, MatchOne
    <3>. QED
      BY <1>3, <1>7, <1>10, <1>11, <2>1, <3>1, MatchFits DEF Given
  <2>2. CASE q # p /\ lock = None
    BY <1>1, <1>10, <1>11, <2>2 DEF Table
  <2>3. CASE q # p /\ lock = "match"
    <3>1. cat = match.read /\ draft'[q] = draft[q]
      BY <1>1, <1>2, <1>10, <1>11, <2>3 DEF Table, TitlesInv
    <3>. QED
      BY <2>3, <3>1 DEF TitlesInv
  <2>. QED
    BY <1>8, <2>1, <2>2, <2>3
<1>13. \A q, t : ByItsName(q, t, cat)' <=> ByItsName(q, t, cat)
  <2>1. \A q : Could(q, cat)' = Could(q, cat)
    BY <1>8, CouldStill
  <2>. QED
    BY <1>8, <2>1 DEF ByItsName, Fits, OfItsDisc, On
<1>14. ASSUME NEW q \in DOMAIN games
       PROVE  draft'[q].title \in {games'[q].title, None} \/ Given(q, draft[q], match.read, match.took[q])'
  <2>1. PICK row : row = draft'[q]
    OBVIOUS
  <2>2. PICK sha : sha = match.took[q]
    OBVIOUS
  <2>3. Given(q, row, cat, sha) => Given(q, row, cat, sha)'
    BY <1>13 DEF Given
  <2>4. Given(q, row, cat, sha)' => Given(q, draft[q], match.read, match.took[q])'
    BY <1>6, <2>1, <2>2
  <2>. QED
    BY <1>8, <1>12, <2>1, <2>2, <2>3, <2>4
<1>15. \A q \in DOMAIN match'.todo : match'.todo[q] = match'.took[q]
  BY <1>6 DEF TitlesInv, Without, Restrict
<1>. QED
  BY <1>6, <1>7, <1>8, <1>14, <1>15 DEF TitlesInv

LEMMA SameTitlesStep ==
    ASSUME TitlesInv, SameTitles, [KeepsDiscs]_disk
    PROVE  TitlesInv'
<1>1. match'.read = {None} \/ IsList(match'.read)
  BY DEF TitlesInv, SameTitles
<1>2. ASSUME lock' = "match"
      PROVE  /\ match'.read # {None}
             /\ \A p \in DOMAIN games' :
                  draft'[p].title \in {games'[p].title, None} \/ Given(p, draft[p], match.read, match.took[p])'
  <2>1. /\ lock = "match" /\ UNCHANGED <<games, draft>> /\ match'.read = match.read /\ match.read # {None}
        /\ match'.took = match.took
        /\ \A p \in DOMAIN games :
             draft[p].title \in {games[p].title, None} \/ Given(p, draft[p], match.read, match.took[p])
    BY <1>2 DEF SameTitles, TitlesInv
  <2>2. ASSUME NEW p \in DOMAIN games, Given(p, draft[p], match.read, match.took[p])
        PROVE  Given(p, draft[p], match.read, match.took[p])'
    <3>1. PICK t : t = draft[p].title
      OBVIOUS
    <3>2. CASE draft[p].sure = "high"
      BY <2>1, <2>2, <3>2 DEF Given
    <3>3. CASE draft[p].sure # "high"
      <4>1. ByItsName(p, t, match.read)'
        BY <2>1, <2>2, <3>1, <3>3, StillByName DEF Given
      <4>2. ByItsName(p, draft[p].title, match.read)'
        BY <2>1, <3>1, <4>1
      <4>. QED
        BY <2>1, <3>3, <4>2 DEF Given
    <3>. QED
      BY <3>2, <3>3
  <2>. QED
    BY <2>1, <2>2
<1>. QED
  BY <1>1, <1>2 DEF TitlesInv, SameTitles

LEMMA EndTitles ==
    ASSUME IInv, TitlesInv, EndMatch, [KeepsDiscs]_disk
    PROVE  TitlesInv'
<1>1. match' = NoMatch /\ Commit("match") /\ (lock = "match" => match.at = "match") /\ disk' = disk
  BY DEF EndMatch, MatchStep, tree, IInv, LockInv
<1>2. CASE lock = "match"
  BY <1>1, <1>2, NoneIsNoJob, NoMatchReads DEF Commit, TitlesInv
<1>3. CASE lock # "match"
  BY <1>1, <1>3, NoMatchReads DEF Commit, table, TitlesInv
<1>. QED
  BY <1>2, <1>3

LEMMA TitlesStep ==
    ASSUME IInv, DatsInv, TitlesInv, [Next]_<<store, work, dupVars, scanVars>>, [KeepsDiscs]_disk
    PROVE  TitlesInv'
<1>1. CASE UNCHANGED scanVars
  BY <1>1, SameTitlesStep DEF SameTitles, TitlesInv, scanVars
<1>2. CASE ScannerNext
  BY <1>2, TitleSteps, SameTitlesStep, EndTitles, MatchOneTitles
<1>. QED
  BY <1>1, <1>2 DEF Next

LEMMA TitlesInit == Init => TitlesInv
BY NoneIsNoJob, NoMatchReads DEF Init, TitlesInv

\* What a name gives is the only title, as no two titles have the number of the disc.
LEMMA TheOnly ==
    ASSUME NEW p, NEW title, NEW cat, Fits(p, title, cat),
           \A e, f \in Could(p, cat) : OfItsDisc(p, e) /\ OfItsDisc(p, f) => e.title = f.title
    PROVE  {e.title : e \in Could(p, cat)} = {title}
<1>1. CASE \A e \in Could(p, cat) : OfItsDisc(p, e)
  BY <1>1 DEF Fits
<1>. QED
  BY <1>1 DEF Fits

LEMMA TitlesGiven ==
    ASSUME IInv, TitlesInv, DiscsTell, [Next]_<<store, work, dupVars, scanVars>>,
           NEW p \in DOMAIN games \cap DOMAIN games', games'[p].title \notin {games[p].title, None},
           On(p)
    PROVE  IF games'[p].sure = "high" THEN ByItsHash(games'[p].title, match.read, match.took[p])
           ELSE \/ p.ext = "zip" /\ games'[p].title = p.stem
                \/ {e.title : e \in Could(p, match.read)} = {games'[p].title}
<1>. USE NoneIsNoJob
<1>1. ScannerNext
  BY DEF Next, scanVars
<1>2. EndMatch
  <2>1. ASSUME NEW q, MatchOne(q) PROVE FALSE
    BY <2>1 DEF MatchOne, Write
  <2>. QED
    BY <1>1, <2>1, TitleSteps DEF SameTitles
<1>3. lock = "match" /\ games' = draft
  BY <1>2 DEF EndMatch, Commit, table
<1>4. Given(p, draft[p], match.read, match.took[p])
  BY <1>3 DEF TitlesInv
<1>5. CASE draft[p].sure = "high"
  BY <1>3, <1>4, <1>5 DEF Given
<1>6. CASE draft[p].sure # "high"
  <2>1. Fits(p, draft[p].title, match.read) \/ (p.ext = "zip" /\ draft[p].title = p.stem)
    BY <1>4, <1>6 DEF Given, ByItsName
  <2>2. \A e, f \in Could(p, match.read) : OfItsDisc(p, e) /\ OfItsDisc(p, f) => e.title = f.title
    BY <1>3 DEF DiscsTell, On
  <2>. QED
    BY <1>3, <1>6, <2>1, <2>2, TheOnly
<1>. QED
  BY <1>5, <1>6

\* A title given by hash is the one of an entry with the hash of the row, as the match took
\* it, and one given by name is the only one that the catalogues have for the file, whatever
\* the table, the catalogues and the library are and whoever works beside the match: if no
\* PlayStation disc changes under it, and the number of a disc belongs to one title.
THEOREM TitlesAreTold == Spec /\ DiscsStay /\ []DiscsTell => OnlyTitle
<1>1. ASSUME IInv, TitlesInv, DiscsTell, [Next]_<<store, work, dupVars, scanVars>>
      PROVE  [\A p \in DOMAIN games \cap DOMAIN games' :
                LET new == games'[p] IN
                new.title \notin {games[p].title, None} /\ On(p) =>
                    IF new.sure = "high"
                    THEN \E e \in match.read : e.dir # "arcade" /\ e.sha = match.took[p] /\ e.title = new.title
                    ELSE \/ p.ext = "zip" /\ new.title = p.stem
                         \/ {e.title : e \in Could(p, match.read)} = {new.title}]_games
  BY <1>1, TitlesGiven DEF ByItsHash
<1>2. IInv /\ DatsInv /\ TitlesInv /\ [Next]_<<store, work, dupVars, scanVars>> /\ [KeepsDiscs]_disk => TitlesInv'
  BY TitlesStep
<1>. QED
  BY <1>1, <1>2, TitlesInit, Inductive, DatsOn, PTL DEF Spec, DiscsStay, OnlyTitle

\* What the jobs match and download_dats promise together.
THEOREM CatalogueIsRight == Spec /\ DiscsStay /\ []DiscsTell => CatalogueHolds
<1>1. CatalogueHolds <=> OnlyTitle /\ ListingKept
  BY DEF CatalogueHolds
<1>. QED
  BY <1>1, TitlesAreTold, ListingStays, PTL
=============================================================================

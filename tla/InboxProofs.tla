----------------------------- MODULE InboxProofs -----------------------------
(***************************************************************************)
(* Proofs about the Inbox, for any drops, archives, catalogues, users and  *)
(* faults, and however the job, the wizard, the watcher and the page are   *)
(* interleaved: a path of the library that holds a file goes on holding    *)
(* one, and a content is lost only where a name that an actor found free   *)
(* was taken before it moved a file there, which no name is while the job  *)
(* works alone.  Then the rows it writes are true as well, and what it     *)
(* discards is kept elsewhere or has lost a conflict.                      *)
(***************************************************************************)
EXTENDS InboxPipeline, TLAPS

IsPath(p) == p = At(p.dir, p.stem, p.ext)

\* A path whose file no phase picks up, in a folder of the library: no junk, a BIOS only
\* among the BIOS, an archive only of the arcade.
Fixed(p) ==
    /\ p.ext # "txt" /\ (p.ext = "bin" => p.dir = "bios")
    /\ Archive(p) => p.dir = "arcade"

\* What is dropped, and what the router takes out of a collection, lands where no phase
\* takes a file out of the library.
NothingStray ==
    /\ \A s \in Stories : \A d \in s.drops : Library(d.at) => Fixed(d.at)
    /\ \A c \in DOMAIN Collection : \A m \in Inner[c] :
          LET p == At(Collection[c], m.stem, m.ext) IN Library(p) => Fixed(p)

\* Where a file may land, and from where one may be taken.
Good(p) == IsPath(p) /\ (NothingStray /\ Library(p) => Fixed(p))
Movable(p) == IsPath(p) /\ ~(NothingStray /\ Library(p) /\ Fixed(p))

\* The path of a row, and of one that waits in the Inbox.
IsRow(p) == IsPath(p) /\ p.ext \in {"rom", "md"}
Incoming(p) == IsRow(p) /\ p.dir \in InboxDir

\* What a phase lists.
IsOp(op) == op = [from |-> op.from, to |-> op.to, left |-> op.left]
Zips == {"zips", "sevenzips"}
ZipOpOK(k, op) ==
    /\ IsPath(op.from) /\ Good(op.to)
    /\ k = "inbox" => op.from.dir \in InboxDir
    /\ NothingStray /\ Library(op.from) => op.from.dir = "arcade"
OpOK(k, at, op) ==
    /\ at \in Zips => ZipOpOK(k, op)
    /\ at \in {"junk", "saves"} => Movable(op.from)
    /\ at = "saves" => op.from.ext = "sav"
    /\ at = "chips" => Good(op.to) /\ \A f \in op.left : Movable(f)
    /\ at = "scan" => IsRow(op.from)
    /\ at \in {"rename", "organize"} => Incoming(op.from) /\ IsRow(op.to)
    /\ at = "rename" => op.to.dir = op.from.dir
    /\ at \notin Zips \cup {"junk", "saves", "chips", "scan", "match", "rename", "organize"} =>
          Movable(op.from) /\ Good(op.to)

\* What an actor holds.
Conflict == {"lose", "swap", "enter", "row"}
HandOK(k, at, h) ==
    /\ h.do \in {"move", "try"} => Movable(h.from) /\ Good(h.to)
    /\ h.do \in {"discard", "tidy"} => Movable(h.from)
    /\ h.do = "extract" => Movable(h.from) /\ \A m \in h.left : Good(Member(h.to, m))
    /\ h.do \in {"pack", "chips"} => Good(h.to) /\ \A f \in h.left : Movable(f)
    /\ h.do \in {"rename", "record", "organize", "dup"} \cup Conflict =>
          Incoming(h.from) /\ IsRow(h.to)
    /\ h.do = "rename" => h.to.dir = h.from.dir
    /\ h.do \in Conflict => k = "page" \/ at = "organize"

IsRun(r) ==
    /\ r = [at |-> r.at, todo |-> r.todo, hand |-> r.hand, spent |-> r.spent,
            delete |-> r.delete, seen |-> r.seen, saw |-> r.saw]
    /\ r.hand = [do |-> r.hand.do, from |-> r.hand.from, to |-> r.hand.to,
                 left |-> r.hand.left]
RunOK(k, r) ==
    /\ IsRun(r) /\ HandOK(k, r.at, r.hand)
    /\ \A op \in r.todo : IsOp(op) /\ OpOK(k, r.at, op)
    /\ \A p \in r.spent : Movable(p)

RunsOK == run = [k \in Actor |-> run[k]] /\ \A k \in Actor : RunOK(k, run[k])
DiskOK == \A p \in DOMAIN disk : Good(p)
RowsOK == \A p \in DOMAIN rows : IsRow(p)
FilledOK == \A p \in filled : Library(p) /\ (NothingStray => Fixed(p))
DropsOK ==
    /\ tale = [came |-> tale.came, drops |-> tale.drops, users |-> tale.users,
               faults |-> tale.faults]
    /\ \A d \in tale.drops : Good(d.at)

StayInv == RunsOK /\ DiskOK /\ RowsOK /\ FilledOK /\ DropsOK /\ (NothingStray => LibraryPathStays)
-----------------------------------------------------------------------------
(* Paths and records *)

LEMMA RunIs ==
    ASSUME RunsOK, NEW k \in Actor
    PROVE  RunOK(k, run[k]) /\ IsRun(run[k]) /\ HandOK(k, run[k].at, run[k].hand)
BY DEF RunsOK, RunOK

\* One actor's state is replaced.
LEMMA ReplaceRun ==
    ASSUME RunsOK, NEW k \in Actor, NEW r, RunOK(k, r), run' = [run EXCEPT ![k] = r]
    PROVE  /\ RunsOK' /\ run'[k] = r
           /\ \A l \in Actor : l # k => run'[l] = run[l]
BY DEF RunsOK, RunOK, IsRun

LEMMA ReplaceHand ==
    ASSUME RunsOK, NEW k \in Actor, NEW h, HandOK(k, run[k].at, h),
           h = [do |-> h.do, from |-> h.from, to |-> h.to, left |-> h.left],
           run' = [run EXCEPT ![k].hand = h]
    PROVE  /\ RunsOK' /\ run'[k].hand = h
           /\ \A l \in Actor : l # k => run'[l] = run[l]
<1>. DEFINE r == [run[k] EXCEPT !.hand = h]
<1>1. RunOK(k, run[k])
  BY RunIs
<1>2. /\ r = [at |-> run[k].at, todo |-> run[k].todo, hand |-> h, spent |-> run[k].spent,
              delete |-> run[k].delete, seen |-> run[k].seen, saw |-> run[k].saw]
  BY <1>1 DEF RunOK, IsRun
<1>3. RunOK(k, r)
  BY <1>1, <1>2 DEF RunOK, IsRun
<1>4. run' = [run EXCEPT ![k] = r]
  BY DEF RunsOK
<1>5. r.hand = h
  BY <1>2
<1>. QED
  BY <1>3, <1>4, <1>5, ReplaceRun

LEMMA DoneKeeps ==
    ASSUME RunsOK, NEW k \in Actor, Done(k)
    PROVE  /\ RunsOK' /\ run'[k].hand = NoHand
           /\ \A l \in Actor : l # k => run'[l] = run[l]
<1>1. HandOK(k, run[k].at, NoHand)
  BY DEF HandOK, NoHand, Conflict
<1>2. /\ run' = [run EXCEPT ![k].hand = NoHand]
      /\ NoHand = [do |-> NoHand.do, from |-> NoHand.from, to |-> NoHand.to, left |-> NoHand.left]
  BY DEF Done, NoHand
<1>. QED
  BY <1>1, <1>2, ReplaceHand

\* A set is packed: the machines that waited for one of its chips wait no longer.
LEMMA PoolStep ==
    ASSUME NEW k \in Actor, DiscardChips(k)
    PROVE  \/ Abort(k)
           \/ /\ \A f \in run[k].hand.left : On(f)
              /\ Discard(run[k].hand.left) /\ UNCHANGED <<rows, purged, sig, runs, tale, seenVars>>
              /\ \E T \in SUBSET run[k].todo :
                    /\ run' = [run EXCEPT ![k].todo = T, ![k].hand = NoHand]
                    /\ \A op \in T : op.left \cap run[k].hand.left = {}
<1>1. PICK T : T = {op \in run[k].todo : op.left \cap run[k].hand.left = {}}
  OBVIOUS
<1>2. T \in SUBSET run[k].todo /\ \A op \in T : op.left \cap run[k].hand.left = {}
  BY <1>1
<1>. QED
  BY <1>1, <1>2 DEF DiscardChips

LEMMA PoolKeeps ==
    ASSUME RunsOK, NEW k \in Actor, NEW T \in SUBSET run[k].todo,
           run' = [run EXCEPT ![k].todo = T, ![k].hand = NoHand]
    PROVE  /\ RunsOK' /\ run'[k].hand = NoHand /\ run'[k].at = run[k].at /\ run'[k].todo = T
           /\ run'[k].spent = run[k].spent /\ run'[k].seen = run[k].seen
           /\ \E r : run' = [run EXCEPT ![k] = r]
           /\ \A l \in Actor : l # k => run'[l] = run[l]
<1>1. RunOK(k, run[k]) /\ IsRun(run[k]) /\ run = [l \in Actor |-> run[l]]
  BY RunIs DEF RunsOK
<1>2. PICK x : x = [run[k] EXCEPT !.todo = T]
  OBVIOUS
<1>3. x = [at |-> run[k].at, todo |-> T, hand |-> run[k].hand, spent |-> run[k].spent,
           delete |-> run[k].delete, seen |-> run[k].seen, saw |-> run[k].saw]
  BY <1>1, <1>2 DEF IsRun
<1>4. PICK r : r = [x EXCEPT !.hand = NoHand]
  OBVIOUS
<1>5. r = [at |-> run[k].at, todo |-> T, hand |-> NoHand, spent |-> run[k].spent,
           delete |-> run[k].delete, seen |-> run[k].seen, saw |-> run[k].saw]
  BY <1>3, <1>4
<1>6. run' = [run EXCEPT ![k] = r]
  BY <1>1, <1>2, <1>4
<1>7. HandOK(k, run[k].at, NoHand)
  BY DEF HandOK, NoHand, Conflict
<1>8. RunOK(k, r)
  BY <1>1, <1>5, <1>7 DEF RunOK, IsRun, NoHand
<1>9. RunsOK' /\ run'[k] = r /\ \A l \in Actor : l # k => run'[l] = run[l]
  BY <1>6, <1>8, ReplaceRun
<1>10. r.hand = NoHand /\ r.at = run[k].at /\ r.todo = T /\ r.spent = run[k].spent /\ r.seen = run[k].seen
  BY <1>5
<1>11. \E new : run' = [run EXCEPT ![k] = new]
  BY <1>6
<1>. QED
  BY <1>9, <1>10, <1>11

\* What is in hand goes on to its next act.
LEMMA ThenKeeps ==
    ASSUME RunsOK, NEW k \in Actor, NEW act, Then(k, act),
           HandOK(k, run[k].at, [do |-> act, from |-> From(k), to |-> To(k),
                                 left |-> run[k].hand.left])
    PROVE  /\ RunsOK' /\ run'[k].hand.do = act /\ run'[k].hand.to = To(k)
           /\ \A l \in Actor : l # k => run'[l] = run[l]
<1>. DEFINE h == [do |-> act, from |-> From(k), to |-> To(k), left |-> run[k].hand.left]
<1>1. IsRun(run[k]) /\ run = [l \in Actor |-> run[l]]
  BY RunIs DEF RunsOK
<1>2. [run[k].hand EXCEPT !.do = act] = h
  BY <1>1 DEF IsRun, From, To
<1>3. run' = [run EXCEPT ![k].hand = h]
  BY <1>1, <1>2 DEF Then, IsRun
<1>4. h = [do |-> h.do, from |-> h.from, to |-> h.to, left |-> h.left]
      /\ h.do = act /\ h.to = To(k)
  OBVIOUS
<1>. QED
  BY <1>3, <1>4, ReplaceHand

LEMMA IdleIsOK == \A k \in Actor : RunOK(k, Idle)
BY DEF RunOK, IsRun, Idle, HandOK, NoHand, Conflict

\* What a step owes to the invariant.
LEMMA StepKeeps ==
    ASSUME StayInv, RunsOK', RowsOK', DropsOK',
           filled' \subseteq filled \cup {p \in DOMAIN disk' : Library(p)},
           cut \subseteq cut',
           \A p \in DOMAIN disk' : Good(p),
           \A p \in DOMAIN disk \ DOMAIN disk' :
              \/ Movable(p) \/ p \in cut'
              \/ \E k \in Actor : run'[k].hand.do = "enter" /\ run'[k].hand.to = p,
           \A k \in Actor :
              run[k].hand.do = "enter" =>
                 \/ run'[k].hand = run[k].hand
                 \/ run[k].hand.to \in cut' \cup DOMAIN disk'
    PROVE  StayInv'
<1>1. DiskOK'
  BY DEF DiskOK
<1>2. FilledOK'
  BY DEF StayInv, FilledOK, Good
<1>3. NothingStray => LibraryPathStays'
  <2>. SUFFICES ASSUME NothingStray, NEW p \in filled, p \notin DOMAIN disk', p \notin cut'
                PROVE  \E k \in Actor : run'[k].hand.do = "enter" /\ run'[k].hand.to = p
    BY DEF LibraryPathStays, On, Holding, To
  <2>1. ~Movable(p)
    BY DEF StayInv, FilledOK, Movable
  <2>2. CASE p \in DOMAIN disk
    BY <2>1, <2>2
  <2>3. CASE p \notin DOMAIN disk
    <3>1. PICK k \in Actor : run[k].hand.do = "enter" /\ run[k].hand.to = p
      BY <2>3 DEF StayInv, LibraryPathStays, On, Holding, To
    <3>. QED
      BY <3>1
  <2>. QED
    BY <2>2, <2>3
<1>. QED
  BY <1>1, <1>2, <1>3 DEF StayInv

\* A step that leaves the files where they are.
LEMMA FilesStay ==
    ASSUME StayInv, RunsOK', RowsOK', tale' = tale, disk' = disk,
           filled' = filled \/ Filling, cut' = cut,
           \A k \in Actor : run[k].hand.do = "enter" => run'[k].hand = run[k].hand
    PROVE  StayInv'
<1>1. \A p \in DOMAIN disk' : Good(p)
  BY DEF StayInv, DiskOK
<1>2. filled' \subseteq filled \cup {p \in DOMAIN disk' : Library(p)}
  BY DEF Filling
<1>3. DropsOK'
  BY DEF StayInv, DropsOK
<1>. QED
  BY <1>1, <1>2, <1>3, StepKeeps

\* Of one actor, who was not about to enter.
LEMMA OneStays ==
    ASSUME StayInv, NEW k \in Actor, RunsOK', RowsOK', tale' = tale, disk' = disk,
           filled' = filled \/ Filling, cut' = cut, ~Holding(k, "enter"),
           \A l \in Actor : l # k => run'[l] = run[l]
    PROVE  StayInv'
BY FilesStay DEF Holding

\* One that moves files, of an actor who was not about to enter.
LEMMA OneActs ==
    ASSUME StayInv, NEW k \in Actor, RunsOK', RowsOK', tale' = tale,
           filled' = filled \/ Filling, cut' = cut, ~Holding(k, "enter"),
           \A l \in Actor : l # k => run'[l] = run[l],
           \A p \in DOMAIN disk' \ DOMAIN disk : Good(p),
           \A p \in DOMAIN disk \ DOMAIN disk' : Movable(p)
    PROVE  StayInv'
<1>1. \A p \in DOMAIN disk' : Good(p)
  BY DEF StayInv, DiskOK
<1>2. DropsOK' /\ filled' \subseteq filled \cup {p \in DOMAIN disk' : Library(p)}
  BY DEF StayInv, DropsOK, Filling
<1>3. \A l \in Actor : run[l].hand.do = "enter" => run'[l].hand = run[l].hand
  BY DEF Holding
<1>. QED
  BY <1>1, <1>2, <1>3, StepKeeps

\* The file system's operations.
LEMMA MovedDomain ==
    ASSUME NEW p, NEW q, p \in DOMAIN disk
    PROVE  /\ DOMAIN Moved(p, q) \subseteq DOMAIN disk \cup {q}
           /\ DOMAIN disk \ {p} \subseteq DOMAIN Moved(p, q)
           /\ q \in DOMAIN Moved(p, q)
BY DEF Moved, Put, Without, Restrict

LEMMA RowMovedKeeps ==
    ASSUME RowsOK, NEW p, NEW q, IsRow(q), rows' = RowMoved(p, q)
    PROVE  RowsOK'
<1>1. DOMAIN Put(Without(rows, {p}), q, rows[p]) = {q} \cup (DOMAIN rows \ {p})
  BY DEF Put, Without, Restrict
<1>2. DOMAIN Without(rows, {q}) = DOMAIN rows \ {q}
  BY DEF Without, Restrict
<1>3. \/ rows' = rows \/ rows' = Without(rows, {q})
      \/ rows' = Put(Without(rows, {p}), q, rows[p])
  BY DEF RowMoved
<1>4. DOMAIN rows' \subseteq DOMAIN rows \cup {q}
  BY <1>1, <1>2, <1>3
<1>. QED
  BY <1>4 DEF RowsOK

LEMMA DeleteRowsKeeps ==
    ASSUME RowsOK, NEW S, DeleteRows(S)
    PROVE  RowsOK'
<1>1. DOMAIN rows' = DOMAIN rows \ S
  BY DEF DeleteRows, Without, Restrict
<1>. QED
  BY <1>1 DEF RowsOK

\* A row's path in any folder, and any place in the Inbox, is a good one.
LEMMA RowIsGood == \A p : IsRow(p) => Good(p)
BY DEF IsRow, Good, Fixed, Archive

LEMMA IncomingIsMovable == \A p : IsPath(p) /\ p.dir \in InboxDir => Movable(p) /\ Good(p)
BY DEF Movable, Good, Library

LEMMA EditedPath ==
    ASSUME NEW p, IsPath(p), NEW x
    PROVE  /\ [p EXCEPT !.dir = x] = At(x, p.stem, p.ext)
           /\ [p EXCEPT !.stem = x] = At(p.dir, x, p.ext)
           /\ [p EXCEPT !.ext = x] = At(p.dir, p.stem, x)
BY DEF IsPath, At

LEMMA AtIs ==
    \A d, s, e : /\ At(d, s, e).dir = d /\ At(d, s, e).stem = s /\ At(d, s, e).ext = e
                 /\ IsPath(At(d, s, e))
BY DEF At, IsPath
-----------------------------------------------------------------------------
(* The lists of the phases *)

LEMMA ZipOpsOK ==
    ASSUME DiskOK, NEW k, NEW ext \in {"zip", "7z"}, NEW op \in ZipOps(k, ext)
    PROVE  IsOp(op) /\ ZipOpOK(k, op)
<1>1. PICK p \in Files(k) : p.ext = ext /\ op = Op(p, At("arcade", p.stem, ext))
  BY DEF ZipOps
<1>2. IsOp(op) /\ op.from = p /\ op.to = At("arcade", p.stem, ext)
  BY <1>1 DEF Op, IsOp
<1>3. Good(p) /\ (k = "inbox" => p.dir \in InboxDir)
  BY <1>1 DEF Files, DiskOK
<1>4. Good(At("arcade", p.stem, ext))
  BY AtIs DEF Good, Fixed, Archive
<1>. QED
  BY <1>1, <1>2, <1>3, <1>4 DEF ZipOpOK, Good, Fixed, Archive

LEMMA MoveOpsOK ==
    ASSUME DiskOK, NEW k,
           NEW op \in RouteOps \cup BiosOps(k) \cup MdOps
    PROVE  IsOp(op) /\ Movable(op.from) /\ Good(op.to)
<1>1. CASE op \in RouteOps
  <2>1. PICK p \in DOMAIN disk, d \in {"arcade", "inbox"} :
           p.dir = "roms" /\ Archive(p) /\ op = Op(p, [p EXCEPT !.dir = d])
    BY <1>1 DEF RouteOps
  <2>2. IsPath(p) /\ [p EXCEPT !.dir = d] = At(d, p.stem, p.ext)
    BY EditedPath DEF DiskOK, Good
  <2>3. Good(At(d, p.stem, p.ext))
    BY <2>1, AtIs DEF Good, Fixed, Archive, Library, InboxDir
  <2>4. Movable(p)
    BY <2>1, <2>2 DEF Movable, Library
  <2>. QED
    BY <2>1, <2>2, <2>3, <2>4 DEF Op, IsOp
<1>2. CASE op \in BiosOps(k)
  <2>1. PICK p \in DOMAIN disk : /\ p.ext = "bin" /\ p.dir \notin {"bios", "processed"}
                                 /\ op = Op(p, At("bios", p.stem, p.ext))
    BY <1>2 DEF BiosOps, Files
  <2>2. IsPath(p)
    BY DEF DiskOK, Good
  <2>3. Good(At("bios", p.stem, p.ext)) /\ Movable(p)
    BY <2>1, <2>2, AtIs DEF Good, Fixed, Archive, Movable
  <2>. QED
    BY <2>1, <2>3 DEF Op, IsOp
<1>3. CASE op \in MdOps
  <2>1. PICK p \in DOMAIN disk : p.dir = "inbox" /\ op = Op(p, At("megadrive", p.stem, "md"))
    BY <1>3 DEF MdOps
  <2>2. IsPath(p)
    BY DEF DiskOK, Good
  <2>3. Good(At("megadrive", p.stem, "md")) /\ Movable(p)
    BY <2>1, <2>2, AtIs DEF Good, Library, Movable, InboxDir
  <2>. QED
    BY <2>1, <2>3 DEF Op, IsOp
<1>. QED
  BY <1>1, <1>2, <1>3

LEMMA ChipOpsOK ==
    ASSUME DiskOK, NEW op \in ChipOps
    PROVE  IsOp(op) /\ Good(op.to) /\ \A f \in op.left : Movable(f)
<1>1. PICK m \in Machine : \E S \in Picks(m) :
         op = [from |-> m, to |-> At("arcade", m.stem, "zip"), left |-> S]
  BY DEF ChipOps
<1>2. Good(At("arcade", m.stem, "zip"))
  BY AtIs DEF Good, Fixed, Archive
<1>3. \A f \in Chips : Movable(f)
  BY IncomingIsMovable DEF Chips, DiskOK, Good, InboxDir
<1>. QED
  BY <1>1, <1>2, <1>3 DEF IsOp, Picks

LEMMA SaveOpsOK ==
    ASSUME DiskOK, NEW op \in SaveOps
    PROVE  IsOp(op) /\ Movable(op.from) /\ op.from.ext = "sav"
<1>1. PICK p \in DOMAIN disk : p.dir = "inbox" /\ p.ext = "sav" /\ op = Op(p, None)
  BY DEF SaveOps
<1>2. Movable(p)
  BY <1>1, IncomingIsMovable DEF DiskOK, Good, InboxDir
<1>. QED
  BY <1>1, <1>2 DEF Op, IsOp

LEMMA RowOpsOK ==
    ASSUME RowsOK, NEW op \in RenameOps \cup OrganizeOps
    PROVE  IsOp(op) /\ Incoming(op.from) /\ IsRow(op.to) /\ (op \in RenameOps => op.to.dir = op.from.dir)
<1>1. CASE op \in RenameOps
  <2>1. PICK p \in DOMAIN rows : p.dir \in InboxDir /\ op = Op(p, Target(p))
    BY <1>1 DEF RenameOps, Pending
  <2>2. Target(p) = At(p.dir, rows[p].title, p.ext) /\ IsRow(p)
    BY EditedPath DEF Target, RowsOK, IsRow
  <2>. QED
    BY <2>1, <2>2, AtIs DEF Op, IsOp, Incoming, IsRow
<1>2. CASE op \notin RenameOps
  <2>1. PICK p \in DOMAIN rows :
           p.dir \in InboxDir /\ op = [from |-> p, to |-> Dest(p), left |-> {rows[p].sha}]
    BY <1>2 DEF OrganizeOps
  <2>2. Dest(p) = At(rows[p].platform, p.stem, p.ext) /\ IsRow(p)
    BY EditedPath DEF Dest, RowsOK, IsRow
  <2>3. IsOp(op) /\ op.from = p /\ op.to = Dest(p)
    BY <2>1 DEF IsOp
  <2>. QED
    BY <1>2, <2>1, <2>2, <2>3, AtIs DEF Incoming, IsRow
<1>. QED
  BY <1>1, <1>2

LEMMA OtherOpsOK ==
    ASSUME DiskOK
    PROVE  /\ \A k : \A op \in ScanOps(k) : IsOp(op) /\ IsRow(op.from)
           /\ \A op \in JunkOps : IsOp(op) /\ Movable(op.from)
           /\ \A op \in MatchOps : IsOp(op)
<1>1. ASSUME NEW k, NEW op \in ScanOps(k) PROVE IsOp(op) /\ IsRow(op.from)
  <2>1. PICK p \in DOMAIN disk : IsRom(p) /\ op = [from |-> p, to |-> None, left |-> {disk[p]}]
    BY DEF ScanOps, Files
  <2>. QED
    BY <2>1 DEF IsOp, IsRow, IsRom, DiskOK, Good
<1>2. ASSUME NEW op \in JunkOps PROVE IsOp(op) /\ Movable(op.from)
  <2>1. PICK p \in DOMAIN disk : p.ext = "txt" /\ op = Op(p, None)
    BY DEF JunkOps
  <2>. QED
    BY <2>1 DEF IsOp, Op, Movable, Fixed, DiskOK, Good
<1>3. ASSUME NEW op \in MatchOps PROVE IsOp(op)
  BY DEF MatchOps, IsOp
<1>. QED
  BY <1>1, <1>2, <1>3

LEMMA ArchiveOpsOK ==
    ASSUME RunsOK, NEW k \in Actor, NEW op \in ArchiveOps(k)
    PROVE  IsOp(op) /\ Movable(op.from) /\ Good(op.to)
<1>1. PICK p \in run[k].spent : op = Op(p, [p EXCEPT !.dir = "processed"])
  BY DEF ArchiveOps
<1>2. Movable(p)
  BY RunIs DEF RunOK
<1>3. [p EXCEPT !.dir = "processed"] = At("processed", p.stem, p.ext)
  BY <1>2, EditedPath DEF Movable
<1>4. Good(At("processed", p.stem, p.ext))
  BY AtIs DEF Good, Library
<1>. QED
  BY <1>1, <1>2, <1>3, <1>4 DEF Op, IsOp

LEMMA ListingOK ==
    ASSUME StayInv, NEW k \in Actor, NEW phase
    PROVE  \A op \in Listing(k, phase) : IsOp(op) /\ OpOK(k, phase, op)
<1>. SUFFICES ASSUME NEW op \in Listing(k, phase) PROVE IsOp(op) /\ OpOK(k, phase, op)
  OBVIOUS
<1>1. DiskOK /\ RowsOK /\ RunsOK
  BY DEF StayInv
<1>2. CASE phase \in Zips
  <2>1. op \in ZipOps(k, "zip") \/ op \in ZipOps(k, "7z")
    BY <1>2 DEF Listing, Zips
  <2>. QED
    BY <1>1, <1>2, <2>1, ZipOpsOK DEF OpOK, Zips
<1>3. CASE phase \in {"route", "bios", "md"}
  <2>1. op \in RouteOps \cup BiosOps(k) \cup MdOps
    BY <1>3 DEF Listing
  <2>. QED
    BY <1>1, <1>3, <2>1, MoveOpsOK DEF OpOK, Zips
<1>4. CASE phase = "chips"
  BY <1>1, <1>4, ChipOpsOK DEF Listing, OpOK, Zips
<1>5. CASE phase = "saves"
  BY <1>1, <1>5, SaveOpsOK DEF Listing, OpOK, Zips
<1>6. CASE phase \in {"rename", "organize"}
  <2>1. op \in RenameOps \cup OrganizeOps /\ (phase = "rename" => op \in RenameOps)
    BY <1>6 DEF Listing
  <2>. QED
    BY <1>1, <1>6, <2>1, RowOpsOK DEF OpOK, Zips
<1>7. CASE phase \in {"scan", "junk", "match"}
  <2>1. \/ phase = "scan" /\ op \in ScanOps(k)
        \/ phase = "junk" /\ op \in JunkOps
        \/ phase = "match" /\ op \in MatchOps
    BY <1>7 DEF Listing
  <2>. QED
    BY <1>1, <2>1, OtherOpsOK DEF OpOK, Zips
<1>8. CASE phase = "plan"
  BY <1>8 DEF Listing
<1>9. CASE phase \notin Zips \cup {"route", "bios", "md", "chips", "saves", "rename", "organize",
                                   "scan", "junk", "match", "plan"}
  <2>1. op \in ArchiveOps(k)
    BY <1>9 DEF Listing, Zips
  <2>. QED
    BY <1>1, <1>9, <2>1, ArchiveOpsOK DEF OpOK, Zips
<1>. QED
  BY <1>2, <1>3, <1>4, <1>5, <1>6, <1>7, <1>8, <1>9
-----------------------------------------------------------------------------
(* The steps of a run *)

NotFiles == <<disk, rows, tale, cut, filled>>

Run(a, t, h, p, d, n, w) ==
    [at |-> a, todo |-> t, hand |-> h, spent |-> p, delete |-> d, seen |-> n, saw |-> w]

LEMMA FreshIsOK ==
    ASSUME StayInv, NEW k \in Actor, NEW phase, NEW delete, NEW saw, NEW r,
           r = Run(phase, Listing(k, phase), NoHand, {}, delete, {}, saw)
    PROVE  RunOK(k, r)
<1>1. /\ r.at = phase /\ r.todo = Listing(k, phase) /\ r.hand = NoHand /\ r.spent = {}
      /\ r.delete = delete /\ r.seen = {} /\ r.saw = saw
  BY DEF Run
<1>2. IsRun(r)
  BY <1>1 DEF IsRun, Run, NoHand
<1>3. HandOK(k, r.at, r.hand)
  BY <1>1 DEF HandOK, NoHand, Conflict
<1>4. \A op \in r.todo : IsOp(op) /\ OpOK(k, r.at, op)
  BY <1>1, ListingOK
<1>. QED
  BY <1>1, <1>2, <1>3, <1>4 DEF RunOK

\* A run that starts, with what its first phase lists.
LEMMA StartIsOK ==
    ASSUME StayInv, NEW k \in Actor, NEW phase, NEW todo, todo = Listing(k, phase),
           NEW delete, NEW saw, NEW r,
           r = [Idle EXCEPT !.at = phase, !.todo = todo, !.delete = delete, !.saw = saw]
    PROVE  RunOK(k, r)
<1>1. PICK x : x = [Idle EXCEPT !.at = phase]
  OBVIOUS
<1>2. PICK y : y = [x EXCEPT !.todo = todo]
  OBVIOUS
<1>3. PICK z : z = [y EXCEPT !.delete = delete]
  OBVIOUS
<1>4. x = Run(phase, {}, NoHand, {}, FALSE, {}, {})
  BY <1>1 DEF Idle, Run
<1>5. y = Run(phase, todo, NoHand, {}, FALSE, {}, {})
  BY <1>2, <1>4 DEF Run
<1>6. z = Run(phase, todo, NoHand, {}, delete, {}, {})
  BY <1>3, <1>5 DEF Run
<1>7. r = [z EXCEPT !.saw = saw]
  BY <1>1, <1>2, <1>3
<1>8. r = Run(phase, todo, NoHand, {}, delete, {}, saw)
  BY <1>6, <1>7 DEF Run
<1>. QED
  BY <1>8, FreshIsOK

LEMMA BeginKeeps ==
    ASSUME StayInv, NEW k \in Actor, ~Holding(k, "enter"), NEW phase, NEW delete,
           Begin(k, phase, delete), UNCHANGED NotFiles
    PROVE  StayInv'
<1>1. PICK r : r = [Idle EXCEPT !.at = phase, !.todo = Listing(k, phase),
                                !.delete = delete, !.saw = unseen]
  OBVIOUS
<1>2. RunOK(k, r)
  BY <1>1, StartIsOK
<1>3. run' = [run EXCEPT ![k] = r]
  BY <1>1 DEF Begin
<1>4. RunsOK' /\ \A l \in Actor : l # k => run'[l] = run[l]
  BY <1>2, <1>3, ReplaceRun DEF StayInv
<1>5. RowsOK'
  BY DEF NotFiles, RowsOK, StayInv
<1>. QED
  BY <1>4, <1>5, OneStays DEF NotFiles

\* An actor between two phases holds nothing of a conflict.
LEMMA NoConflict ==
    ASSUME StayInv, NEW k \in Actor \ {"page"}, run[k].at # "organize"
    PROVE  ~Holding(k, "enter") /\ run[k].hand.do \notin Conflict
BY RunIs DEF StayInv, HandOK, Holding, Conflict

LEMMA StartsKeep ==
    ASSUME StayInv, StartByHand \/ StartRouter \/ StartWizard
    PROVE  StayInv'
<1>1. ASSUME NEW phase, NEW delete, StartInbox(phase, delete) PROVE StayInv'
  <2>1. Begin("inbox", phase, delete) /\ UNCHANGED NotFiles /\ run["inbox"].at = "idle"
    BY <1>1 DEF StartInbox, store, seenVars, NotFiles
  <2>2. "inbox" \in Actor \ {"page"}
    BY DEF Actor, Job
  <2>. QED
    BY <2>1, <2>2, NoConflict, BeginKeeps
<1>2. ASSUME StartWizard PROVE StayInv'
  <2>1. PICK d \in DeleteSource : Begin("setup", "junk", d)
    BY <1>2 DEF StartWizard
  <2>2. UNCHANGED NotFiles /\ run["setup"].at = "idle"
    BY <1>2 DEF StartWizard, store, seenVars, NotFiles
  <2>3. "setup" \in Actor \ {"page"}
    BY DEF Actor, Job
  <2>. QED
    BY <2>1, <2>2, <2>3, NoConflict, BeginKeeps
<1>. QED
  BY <1>1, <1>2 DEF StartByHand, StartRouter

LEMMA AbortKeeps ==
    ASSUME StayInv, NEW k \in Actor, ~Holding(k, "enter"), run' = [run EXCEPT ![k] = Idle],
           UNCHANGED NotFiles
    PROVE  StayInv'
<1>1. RunsOK' /\ \A l \in Actor : l # k => run'[l] = run[l]
  BY IdleIsOK, ReplaceRun DEF StayInv
<1>2. RowsOK'
  BY DEF NotFiles, RowsOK, StayInv
<1>. QED
  BY <1>1, <1>2, OneStays DEF NotFiles

\* A phase gives way to another, with what is in hand.
LEMMA PhaseIs ==
    ASSUME StayInv, NEW k \in Actor, NEW next, NEW todo, NEW seen,
           \A op \in todo : IsOp(op) /\ OpOK(k, next, op),
           run[k].hand.do \in Conflict => k = "page" \/ next = "organize",
           run' = [run EXCEPT ![k] =
                     [at |-> next, todo |-> todo, hand |-> run[k].hand, spent |-> run[k].spent,
                      delete |-> run[k].delete, seen |-> seen, saw |-> run[k].saw]]
    PROVE  RunsOK' /\ \A l \in Actor : run'[l].hand = run[l].hand
<1>. DEFINE r == [at |-> next, todo |-> todo, hand |-> run[k].hand, spent |-> run[k].spent,
                  delete |-> run[k].delete, seen |-> seen, saw |-> run[k].saw]
<1>1. RunOK(k, run[k]) /\ IsRun(run[k])
  BY RunIs DEF StayInv, RunsOK
<1>2. HandOK(k, next, run[k].hand)
  BY <1>1 DEF RunOK, HandOK
<1>3. IsRun(r) /\ r.hand = run[k].hand
  BY <1>1 DEF IsRun
<1>4. RunOK(k, r)
  BY <1>1, <1>2, <1>3 DEF RunOK
<1>5. RunsOK' /\ run'[k] = r /\ \A l \in Actor : l # k => run'[l] = run[l]
  BY <1>4, ReplaceRun DEF StayInv
<1>. QED
  BY <1>3, <1>5

LEMMA StageKeeps ==
    ASSUME StayInv, NEW k \in Actor, NEW next, NEW todo,
           \A op \in todo : IsOp(op) /\ OpOK(k, next, op),
           run[k].hand.do \in Conflict => k = "page" \/ next = "organize",
           run' = [run EXCEPT ![k].at = next, ![k].todo = todo]
    PROVE  RunsOK' /\ \A l \in Actor : run'[l].hand = run[l].hand
<1>1. IsRun(run[k]) /\ run = [l \in Actor |-> run[l]]
  BY RunIs DEF StayInv, RunsOK
<1>2. PICK x : x = [run[k] EXCEPT !.at = next]
  OBVIOUS
<1>3. PICK y : y = [x EXCEPT !.todo = todo]
  OBVIOUS
<1>4. x = Run(next, run[k].todo, run[k].hand, run[k].spent, run[k].delete,
              run[k].seen, run[k].saw)
  BY <1>1, <1>2 DEF IsRun, Run
<1>5. y = Run(next, todo, run[k].hand, run[k].spent, run[k].delete, run[k].seen, run[k].saw)
  BY <1>3, <1>4 DEF Run
<1>6. run' = [run EXCEPT ![k] = y]
  BY <1>1, <1>2, <1>3
<1>. QED
  BY <1>5, <1>6, PhaseIs DEF Run

LEMMA PhaseKeeps ==
    ASSUME StayInv, NEW k \in Actor, NEW next, NEW todo, NEW seen,
           \A op \in todo : IsOp(op) /\ OpOK(k, next, op),
           run[k].hand.do \in Conflict => k = "page" \/ next = "organize",
           run' = [run EXCEPT ![k].at = next, ![k].todo = todo, ![k].seen = seen]
    PROVE  RunsOK' /\ \A l \in Actor : run'[l].hand = run[l].hand
<1>1. IsRun(run[k]) /\ run = [l \in Actor |-> run[l]]
  BY RunIs DEF StayInv, RunsOK
<1>2. PICK x : x = [run[k] EXCEPT !.at = next]
  OBVIOUS
<1>3. PICK y : y = [x EXCEPT !.todo = todo]
  OBVIOUS
<1>4. x = Run(next, run[k].todo, run[k].hand, run[k].spent, run[k].delete,
              run[k].seen, run[k].saw)
  BY <1>1, <1>2 DEF IsRun, Run
<1>5. y = Run(next, todo, run[k].hand, run[k].spent, run[k].delete, run[k].seen, run[k].saw)
  BY <1>3, <1>4 DEF Run
<1>6. run' = [run EXCEPT ![k] = [y EXCEPT !.seen = seen]]
  BY <1>1, <1>2, <1>3
<1>7. [y EXCEPT !.seen = seen]
        = Run(next, todo, run[k].hand, run[k].spent, run[k].delete, seen, run[k].saw)
  BY <1>5 DEF Run
<1>. QED
  BY <1>6, <1>7, PhaseIs DEF Run

LEMMA AdvanceKeeps ==
    ASSUME StayInv, NEW k \in Actor, Advance(k)
    PROVE  StayInv'
<1>1. UNCHANGED NotFiles /\ run[k].hand = NoHand /\ ~Holding(k, "enter")
      /\ run[k].hand.do \notin Conflict
  BY DEF Advance, store, NotFiles, Free, Holding, NoHand, Conflict
<1>2. RowsOK'
  BY <1>1 DEF NotFiles, RowsOK, StayInv
<1>3. CASE run' = [run EXCEPT ![k] = Idle]
  BY <1>1, <1>3, AbortKeeps
<1>4. ASSUME NEW next, NEW seen,
             run' = [run EXCEPT ![k].at = next, ![k].todo = Listing(k, next), ![k].seen = seen]
      PROVE  StayInv'
  <2>1. RunsOK' /\ \A l \in Actor : run'[l].hand = run[l].hand
    BY <1>1, <1>4, ListingOK, PhaseKeeps
  <2>. QED
    BY <1>1, <1>2, <2>1, FilesStay DEF NotFiles
<1>. QED
  BY <1>3, <1>4 DEF Advance

LEMMA IntoDir ==
    ASSUME NEW k, NEW p, IsPath(p)
    PROVE  Into(k, p).dir = IF run[k].at = "route" THEN Collection[disk[p]] ELSE p.dir
<1>1. PICK d : d = IF run[k].at = "route" THEN Collection[disk[p]] ELSE p.dir
  OBVIOUS
<1>2. Into(k, p) = [p EXCEPT !.dir = d]
  BY <1>1 DEF Into
<1>. QED
  BY <1>1, <1>2, EditedPath, AtIs

\* Where the members of an archive land.
LEMMA MembersLand ==
    ASSUME NEW k \in Actor, NEW op, OpOK(k, run[k].at, op),
           run[k].at \in Zips \cup {"route"}, Choice(k, op) = "extract"
    PROVE  /\ Movable(op.from)
           /\ \A m \in Members(k, op) : Good(Member(Into(k, op.from), m))
<1>1. CASE run[k].at = "route"
  <2>1. Movable(op.from) /\ disk[op.from] \in DOMAIN Collection
    BY <1>1 DEF OpOK, Zips, Choice, RouteChoice
  <2>2. Into(k, op.from).dir = Collection[disk[op.from]]
    BY <1>1, <2>1, IntoDir DEF Movable
  <2>3. ASSUME NEW m \in Members(k, op) PROVE Good(Member(Into(k, op.from), m))
    <3>1. /\ disk[op.from] \in DOMAIN Collection /\ m \in Inner[disk[op.from]]
          /\ Member(Into(k, op.from), m) = At(Collection[disk[op.from]], m.stem, m.ext)
      BY <2>1, <2>2 DEF Members, Member
    <3>2. PICK p : p = At(Collection[disk[op.from]], m.stem, m.ext)
      OBVIOUS
    <3>3. NothingStray /\ Library(p) => Fixed(p)
      BY <3>1, <3>2 DEF NothingStray
    <3>. QED
      BY <3>1, <3>2, <3>3, AtIs DEF Good
  <2>. QED
    BY <2>1, <2>3
<1>2. CASE run[k].at \in Zips
  <2>1. ZipOpOK(k, op) /\ Choice(k, op) = ZipChoice(k, op)
    BY <1>2 DEF OpOK, Zips, Choice
  <2>2. op.from.dir # "arcade"
    BY <2>1 DEF ZipChoice
  <2>3. IsPath(op.from) /\ ~(NothingStray /\ Library(op.from))
    BY <2>1, <2>2 DEF ZipOpOK
  <2>4. Into(k, op.from).dir = op.from.dir
    BY <1>2, <2>3, IntoDir DEF Zips
  <2>5. ASSUME NEW m PROVE Good(Member(Into(k, op.from), m))
    BY <2>3, <2>4, AtIs DEF Member, Good, Library
  <2>. QED
    BY <2>3, <2>5 DEF Movable
<1>. QED
  BY <1>1, <1>2

\* What is looked at and not skipped may be done.
Shown(k, op) ==
    LET act == Choice(k, op)
        known == CASE act = "extract" -> [op EXCEPT !.to = Into(k, op.from),
                                                    !.left = Members(k, op)]
                   [] run[k].at = "saves" /\ act = "try" -> [op EXCEPT !.to = SaveTo(op.from)]
                   [] OTHER -> op
    IN  [do |-> act, from |-> known.from, to |-> known.to, left |-> known.left]

LEMMA ShownIs ==
    ASSUME NEW k, NEW op, IsOp(op)
    PROVE  /\ Choice(k, op) = "extract" =>
                Shown(k, op) = [do |-> "extract", from |-> op.from, to |-> Into(k, op.from),
                                left |-> Members(k, op)]
           /\ run[k].at = "saves" /\ Choice(k, op) = "try" =>
                Shown(k, op) = [do |-> "try", from |-> op.from, to |-> SaveTo(op.from),
                                left |-> op.left]
           /\ Choice(k, op) # "extract" /\ ~(run[k].at = "saves" /\ Choice(k, op) = "try") =>
                Shown(k, op) = [do |-> Choice(k, op), from |-> op.from, to |-> op.to,
                                left |-> op.left]
<1>1. CASE Choice(k, op) = "extract"
  <2>1. PICK known : known = [op EXCEPT !.to = Into(k, op.from), !.left = Members(k, op)]
    OBVIOUS
  <2>2. PICK x : x = [op EXCEPT !.to = Into(k, op.from)]
    OBVIOUS
  <2>3. x = [from |-> op.from, to |-> Into(k, op.from), left |-> op.left]
    BY <2>2 DEF IsOp
  <2>4. known = [x EXCEPT !.left = Members(k, op)]
    BY <2>1, <2>2
  <2>5. known = [from |-> op.from, to |-> Into(k, op.from), left |-> Members(k, op)]
    BY <2>3, <2>4
  <2>6. Shown(k, op) = [do |-> "extract", from |-> known.from, to |-> known.to,
                        left |-> known.left]
    BY <1>1, <2>1 DEF Shown
  <2>. QED
    BY <1>1, <2>5, <2>6
<1>2. CASE run[k].at = "saves" /\ Choice(k, op) = "try"
  <2>1. PICK known : known = [op EXCEPT !.to = SaveTo(op.from)]
    OBVIOUS
  <2>2. known = [from |-> op.from, to |-> SaveTo(op.from), left |-> op.left]
    BY <2>1 DEF IsOp
  <2>3. Shown(k, op) = [do |-> "try", from |-> known.from, to |-> known.to,
                        left |-> known.left]
    BY <1>2, <2>1 DEF Shown
  <2>. QED
    BY <1>2, <2>2, <2>3
<1>3. CASE Choice(k, op) # "extract" /\ ~(run[k].at = "saves" /\ Choice(k, op) = "try")
  BY <1>3 DEF Shown
<1>. QED
  BY <1>1, <1>2, <1>3

LEMMA ShownIsOK ==
    ASSUME NEW k \in Actor, NEW op, IsOp(op), OpOK(k, run[k].at, op),
           run[k].at \notin {"scan", "prune", "match"}, Choice(k, op) # "skip"
    PROVE  HandOK(k, run[k].at, Shown(k, op))
<1>. DEFINE at == run[k].at
            act == Choice(k, op)
<1>1. CASE at \in Zips \cup {"route"}
  <2>1. CASE act = "extract"
    BY <1>1, <2>1, MembersLand, ShownIs DEF HandOK, Conflict
  <2>2. CASE act # "extract"
    <3>1. Shown(k, op) = [do |-> act, from |-> op.from, to |-> op.to, left |-> op.left]
      BY <1>1, <2>2, ShownIs DEF Zips
    <3>2. act \in {"move", "try"} /\ (act = "move" => k = "inbox" /\ at \in Zips)
          /\ (act = "try" => at = "route")
      BY <1>1, <2>2 DEF Choice, RouteChoice, ZipChoice, Zips
    <3>3. Movable(op.from) /\ Good(op.to)
      <4>1. CASE at = "route"
        BY <4>1 DEF OpOK, Zips
      <4>2. CASE at \in Zips
        <5>1. ZipOpOK(k, op) /\ k = "inbox"
          BY <3>2, <4>2 DEF OpOK, Zips
        <5>. QED
          BY <5>1, IncomingIsMovable DEF ZipOpOK
      <4>. QED
        BY <1>1, <4>1, <4>2
    <3>. QED
      BY <3>1, <3>2, <3>3 DEF HandOK, Conflict
  <2>. QED
    BY <2>1, <2>2
<1>2. CASE at = "saves"
  <2>1. act = "try"
    BY <1>2 DEF Choice
  <2>2. Movable(op.from) /\ op.from.ext = "sav"
    BY <1>2 DEF OpOK
  <2>3. PICK d : SaveTo(op.from) = At(d, op.from.stem, op.from.ext)
    <3>1. PICK d : d = (CHOOSE p \in RomOf(op.from) : TRUE).dir
      OBVIOUS
    <3>2. SaveTo(op.from) = [op.from EXCEPT !.dir = d]
      BY <3>1 DEF SaveTo
    <3>3. SaveTo(op.from) = At(d, op.from.stem, op.from.ext)
      BY <2>2, <3>2, EditedPath DEF Movable
    <3>. QED
      BY <3>3
  <2>4. Good(SaveTo(op.from))
    BY <2>2, <2>3, AtIs DEF Good, Fixed, Archive
  <2>. QED
    BY <1>2, <2>1, <2>2, <2>4, ShownIs DEF HandOK, Conflict
<1>3. CASE at \notin Zips \cup {"route", "saves"}
  <2>1. act \in {"move", "discard", "pack", "rename", "organize", "dup", "swap", "lose",
                 "tidy", "try"}
    BY <1>3 DEF Choice, BiosChoice, OrganizeChoice, ConflictChoice, ArchiveChoice, Zips
  <2>2. Shown(k, op) = [do |-> act, from |-> op.from, to |-> op.to, left |-> op.left]
    BY <1>3, <2>1, ShownIs
  <2>3. CASE at = "chips"
    <3>1. act = "pack"
      BY <2>3 DEF Choice
    <3>. QED
      BY <2>2, <2>3, <3>1 DEF OpOK, HandOK, Conflict
  <2>4. CASE at = "rename"
    <3>1. act = "rename"
      BY <2>4 DEF Choice
    <3>. QED
      BY <2>2, <2>4, <3>1 DEF OpOK, HandOK, Conflict
  <2>5. CASE at = "organize"
    <3>1. act \in {"organize", "dup", "swap", "lose"}
      BY <2>5 DEF Choice, OrganizeChoice, ConflictChoice
    <3>. QED
      BY <2>2, <2>5, <3>1 DEF OpOK, HandOK, Conflict
  <2>6. CASE at = "junk"
    <3>1. act = "tidy"
      BY <2>6 DEF Choice
    <3>. QED
      BY <2>2, <2>6, <3>1 DEF OpOK, HandOK, Conflict
  <2>7. CASE at \notin {"chips", "rename", "organize", "junk"}
    <3>1. act \in {"move", "discard", "tidy", "try"}
      BY <1>3, <2>7 DEF Choice, BiosChoice, ArchiveChoice, Zips
    <3>2. Movable(op.from) /\ Good(op.to)
      BY <1>3, <2>7 DEF OpOK, Zips
    <3>. QED
      BY <2>2, <3>1, <3>2 DEF HandOK, Conflict
  <2>. QED
    BY <2>3, <2>4, <2>5, <2>6, <2>7
<1>. QED
  BY <1>1, <1>2, <1>3

LEMMA LookKeeps ==
    ASSUME StayInv, NEW k \in Actor, Look(k)
    PROVE  StayInv'
<1>1. UNCHANGED NotFiles /\ run[k].at \notin {"scan", "prune", "match"} /\ ~Holding(k, "enter")
  BY DEF Look, store, NotFiles, Free, Holding, NoHand
<1>2. RowsOK'
  BY <1>1 DEF NotFiles, RowsOK, StayInv
<1>3. PICK op \in run[k].todo :
         run' = [run EXCEPT ![k].todo = @ \ {op},
                            ![k].hand = IF Choice(k, op) = "skip" THEN NoHand ELSE Shown(k, op)]
  BY DEF Look, Hand, Shown
<1>4. PICK h : h = IF Choice(k, op) = "skip" THEN NoHand ELSE Shown(k, op)
  OBVIOUS
<1>5. RunOK(k, run[k]) /\ IsRun(run[k]) /\ run = [l \in Actor |-> run[l]]
  BY RunIs DEF StayInv, RunsOK
<1>6. HandOK(k, run[k].at, h)
  <2>1. CASE Choice(k, op) = "skip"
    BY <1>4, <2>1 DEF HandOK, NoHand, Conflict
  <2>2. CASE Choice(k, op) # "skip"
    BY <1>1, <1>4, <1>5, <2>2, ShownIsOK DEF RunOK
  <2>. QED
    BY <2>1, <2>2
<1>7. h = [do |-> h.do, from |-> h.from, to |-> h.to, left |-> h.left]
  <2>1. IsOp(op)
    BY <1>5 DEF RunOK
  <2>. QED
    BY <1>4, <2>1, ShownIs DEF NoHand
<1>. DEFINE r == [at |-> run[k].at, todo |-> run[k].todo \ {op}, hand |-> h,
                  spent |-> run[k].spent, delete |-> run[k].delete, seen |-> run[k].seen,
                  saw |-> run[k].saw]
<1>8. run' = [run EXCEPT ![k] = r]
  <2>1. PICK todo : todo = run[k].todo \ {op}
    OBVIOUS
  <2>2. run' = [run EXCEPT ![k].todo = todo, ![k].hand = h]
    BY <1>3, <1>4, <2>1
  <2>3. run' = [run EXCEPT ![k] = [run[k] EXCEPT !.todo = todo, !.hand = h]]
    BY <1>5, <2>2
  <2>4. PICK x : x = [run[k] EXCEPT !.todo = todo]
    OBVIOUS
  <2>5. x = [at |-> run[k].at, todo |-> todo, hand |-> run[k].hand, spent |-> run[k].spent,
             delete |-> run[k].delete, seen |-> run[k].seen, saw |-> run[k].saw]
    BY <1>5, <2>4 DEF IsRun
  <2>6. [x EXCEPT !.hand = h] = r
    BY <2>1, <2>5
  <2>. QED
    BY <2>3, <2>4, <2>6
<1>9. RunOK(k, r)
  BY <1>5, <1>6, <1>7 DEF RunOK, IsRun
<1>10. RunsOK' /\ \A l \in Actor : l # k => run'[l] = run[l]
  BY <1>8, <1>9, ReplaceRun DEF StayInv
<1>. QED
  BY <1>1, <1>2, <1>10, OneStays DEF NotFiles
-----------------------------------------------------------------------------
(* What moves files *)

\* Of one actor, with the rows as they are.
LEMMA MovesKeep ==
    ASSUME StayInv, NEW k \in Actor, Move(k) \/ TryMove(k)
    PROVE  StayInv'
<1>1. Movable(From(k)) /\ Good(To(k)) /\ ~Holding(k, "enter")
  BY RunIs DEF StayInv, HandOK, Move, TryMove, Holding, From, To
<1>2. CASE Done(k) /\ Filling /\ UNCHANGED <<rows, tale, cut>>
           /\ (disk' = disk \/ (On(From(k)) /\ disk' = Moved(From(k), To(k))))
  <2>1. RunsOK' /\ \A l \in Actor : l # k => run'[l] = run[l]
    BY <1>2, DoneKeeps DEF StayInv
  <2>2. RowsOK'
    BY <1>2 DEF RowsOK, StayInv
  <2>3. /\ \A p \in DOMAIN disk' \ DOMAIN disk : Good(p)
        /\ \A p \in DOMAIN disk \ DOMAIN disk' : Movable(p)
    BY <1>1, <1>2, MovedDomain DEF On
  <2>. QED
    BY <1>1, <1>2, <2>1, <2>2, <2>3, OneActs
<1>3. CASE Abort(k)
  <2>1. run' = [run EXCEPT ![k] = Idle] /\ UNCHANGED NotFiles
    BY <1>3 DEF Abort, store, NotFiles
  <2>. QED
    BY <1>1, <2>1, AbortKeeps
<1>4. CASE Move(k)
  BY <1>2, <1>3, <1>4 DEF Move
<1>5. CASE TryMove(k)
  <2>1. Done(k) /\ Filling /\ UNCHANGED <<rows, tale, cut>>
    BY <1>5 DEF TryMove
  <2>2. disk' = disk \/ (On(From(k)) /\ disk' = Moved(From(k), To(k)))
    BY <1>5, Zenon DEF TryMove
  <2>. QED
    BY <1>2, <2>1, <2>2
<1>. QED
  BY <1>4, <1>5

LEMMA DiscardDomain ==
    ASSUME NEW S, Discard(S)
    PROVE  DOMAIN disk' = DOMAIN disk \ S
BY DEF Discard, Without, Restrict

LEMMA DiscardOneKeeps ==
    ASSUME StayInv, NEW k \in Actor, DiscardOne(k)
    PROVE  StayInv'
<1>1. Movable(From(k)) /\ ~Holding(k, "enter")
  BY RunIs DEF StayInv, HandOK, DiscardOne, Holding, From
<1>2. CASE Discard({From(k)}) /\ Filling /\ Done(k) /\ UNCHANGED <<rows, tale, cut>>
  <2>1. RunsOK' /\ \A l \in Actor : l # k => run'[l] = run[l]
    BY <1>2, DoneKeeps DEF StayInv
  <2>2. RowsOK'
    BY <1>2 DEF RowsOK, StayInv
  <2>3. DOMAIN disk' = DOMAIN disk \ {From(k)}
    BY <1>2, DiscardDomain
  <2>. QED
    BY <1>1, <1>2, <2>1, <2>2, <2>3, OneActs
<1>3. CASE Abort(k)
  <2>1. run' = [run EXCEPT ![k] = Idle] /\ UNCHANGED NotFiles
    BY <1>3 DEF Abort, store, NotFiles
  <2>. QED
    BY <1>1, <2>1, AbortKeeps
<1>4. CASE Done(k) /\ UNCHANGED NotFiles
  <2>1. RunsOK' /\ \A l \in Actor : l # k => run'[l] = run[l]
    BY <1>4, DoneKeeps DEF StayInv
  <2>2. RowsOK'
    BY <1>4 DEF RowsOK, StayInv, NotFiles
  <2>. QED
    BY <1>1, <1>4, <2>1, <2>2, OneStays DEF NotFiles
<1>5. Done(k) /\ UNCHANGED <<store, sig, runs, tale, seenVars>> => Done(k) /\ UNCHANGED NotFiles
  BY DEF store, seenVars, NotFiles
<1>. QED
  BY <1>2, <1>3, <1>4, <1>5 DEF DiscardOne

LEMMA ExtractKeeps ==
    ASSUME StayInv, NEW k \in Actor, ExtractMember(k)
    PROVE  StayInv'
<1>1. PICK m \in run[k].hand.left :
         /\ disk' = Put(disk, Member(To(k), m), m.content)
         /\ run' = [run EXCEPT ![k].hand.left = @ \ {m}]
  BY DEF ExtractMember
<1>2. Holding(k, "extract") /\ Filling /\ UNCHANGED <<rows, tale, cut>>
  BY DEF ExtractMember
<1>3. RunOK(k, run[k]) /\ IsRun(run[k]) /\ run = [l \in Actor |-> run[l]]
  BY RunIs DEF StayInv, RunsOK
<1>4. PICK h : h = [do |-> "extract", from |-> From(k), to |-> To(k),
                    left |-> run[k].hand.left \ {m}]
  OBVIOUS
<1>5. HandOK(k, run[k].at, run[k].hand)
  BY <1>3 DEF RunOK
<1>6. HandOK(k, run[k].at, h) /\ Good(Member(To(k), m))
  BY <1>2, <1>4, <1>5 DEF HandOK, Holding, From, To, Conflict
<1>7. run' = [run EXCEPT ![k].hand = h]
  <2>1. PICK S : S = run[k].hand.left \ {m}
    OBVIOUS
  <2>2. [run[k].hand EXCEPT !.left = S] = h
    BY <1>2, <1>3, <1>4, <2>1 DEF IsRun, From, To, Holding
  <2>3. run' = [run EXCEPT ![k].hand = [run[k].hand EXCEPT !.left = S]]
    BY <1>1, <1>3, <2>1 DEF IsRun
  <2>. QED
    BY <2>2, <2>3
<1>8. h = [do |-> h.do, from |-> h.from, to |-> h.to, left |-> h.left]
  BY <1>4
<1>9. RunsOK' /\ \A l \in Actor : l # k => run'[l] = run[l]
  BY <1>6, <1>7, <1>8, ReplaceHand DEF StayInv
<1>10. RowsOK' /\ ~Holding(k, "enter") /\ DOMAIN disk' = DOMAIN disk \cup {Member(To(k), m)}
  BY <1>1, <1>2 DEF RowsOK, StayInv, Holding, Put
<1>. QED
  BY <1>2, <1>6, <1>9, <1>10, OneActs

LEMMA ExtractedKeeps ==
    ASSUME StayInv, NEW k \in Actor, Extracted(k)
    PROVE  StayInv'
<1>1. Movable(From(k)) /\ ~Holding(k, "enter")
  BY RunIs DEF StayInv, HandOK, Extracted, Holding, From
<1>2. UNCHANGED <<rows, tale, cut, filled>> /\ RowsOK'
  BY DEF Extracted, seenVars, RowsOK, StayInv
<1>3. CASE Discard({From(k)}) /\ Done(k)
  <2>1. RunsOK' /\ \A l \in Actor : l # k => run'[l] = run[l]
    BY <1>3, DoneKeeps DEF StayInv
  <2>2. DOMAIN disk' = DOMAIN disk \ {From(k)}
    BY <1>3, DiscardDomain
  <2>. QED
    BY <1>1, <1>2, <2>1, <2>2, OneActs
<1>4. CASE /\ run' = [run EXCEPT ![k].hand = NoHand,
                                 ![k].spent = IF k = "inbox" THEN @ \cup {From(k)} ELSE @]
           /\ UNCHANGED <<disk, trash>>
  <2>1. RunOK(k, run[k]) /\ IsRun(run[k]) /\ run = [l \in Actor |-> run[l]]
    BY RunIs DEF StayInv, RunsOK
  <2>2. PICK S : S = IF k = "inbox" THEN run[k].spent \cup {From(k)} ELSE run[k].spent
    OBVIOUS
  <2>. DEFINE r == [at |-> run[k].at, todo |-> run[k].todo, hand |-> NoHand, spent |-> S,
                    delete |-> run[k].delete, seen |-> run[k].seen, saw |-> run[k].saw]
  <2>3. run' = [run EXCEPT ![k] = r]
    <3>1. PICK x : x = [run[k] EXCEPT !.hand = NoHand]
      OBVIOUS
    <3>2. x = [at |-> run[k].at, todo |-> run[k].todo, hand |-> NoHand,
               spent |-> run[k].spent, delete |-> run[k].delete, seen |-> run[k].seen,
               saw |-> run[k].saw]
      BY <2>1, <3>1 DEF IsRun
    <3>3. [x EXCEPT !.spent = S] = r
      BY <3>2
    <3>4. run' = [run EXCEPT ![k] = [x EXCEPT !.spent = S]]
      BY <1>4, <2>1, <2>2, <3>1, <3>2
    <3>. QED
      BY <3>3, <3>4
  <2>4. HandOK(k, r.at, NoHand) /\ IsRun(r) /\ r.hand = NoHand
    BY DEF HandOK, NoHand, Conflict, IsRun
  <2>5. RunOK(k, r)
    BY <1>1, <2>1, <2>2, <2>4 DEF RunOK
  <2>6. RunsOK' /\ \A l \in Actor : l # k => run'[l] = run[l]
    BY <2>3, <2>5, ReplaceRun DEF StayInv
  <2>. QED
    BY <1>1, <1>2, <1>4, <2>6, OneStays
<1>. QED
  BY <1>3, <1>4 DEF Extracted

LEMMA PackKeeps ==
    ASSUME StayInv, NEW k \in Actor, Pack(k)
    PROVE  StayInv'
<1>1. /\ Holding(k, "pack") /\ ~Holding(k, "enter") /\ Good(To(k))
      /\ \A f \in run[k].hand.left : Movable(f)
  BY RunIs DEF StayInv, HandOK, Pack, Holding, To
<1>2. Filling /\ UNCHANGED <<rows, tale, cut>> /\ RowsOK'
  BY DEF Pack, RowsOK, StayInv
<1>3. CASE Then(k, "chips") /\ disk' = Put(disk, To(k), run[k].hand.from.content)
  <2>1. HandOK(k, run[k].at, [do |-> "chips", from |-> From(k), to |-> To(k),
                              left |-> run[k].hand.left])
    BY <1>1 DEF HandOK, Conflict
  <2>2. RunsOK' /\ \A l \in Actor : l # k => run'[l] = run[l]
    BY <1>3, <2>1, ThenKeeps DEF StayInv
  <2>3. DOMAIN disk' = DOMAIN disk \cup {To(k)}
    BY <1>3 DEF Put
  <2>. QED
    BY <1>1, <1>2, <2>2, <2>3, OneActs
<1>4. CASE Done(k) /\ UNCHANGED disk
  <2>1. RunsOK' /\ \A l \in Actor : l # k => run'[l] = run[l]
    BY <1>4, DoneKeeps DEF StayInv
  <2>. QED
    BY <1>1, <1>2, <1>4, <2>1, OneStays
<1>. QED
  BY <1>3, <1>4 DEF Pack

LEMMA DiscardChipsKeeps ==
    ASSUME StayInv, NEW k \in Actor, DiscardChips(k)
    PROVE  StayInv'
<1>1. ~Holding(k, "enter") /\ \A f \in run[k].hand.left : Movable(f)
  BY RunIs DEF StayInv, HandOK, DiscardChips, Holding
<1>2. ASSUME Discard(run[k].hand.left), UNCHANGED <<rows, purged, sig, runs, tale, seenVars>>,
             NEW T \in SUBSET run[k].todo, run' = [run EXCEPT ![k].todo = T, ![k].hand = NoHand]
      PROVE  StayInv'
  <2>1. UNCHANGED <<rows, tale, cut, filled>> /\ RowsOK'
    BY <1>2 DEF seenVars, RowsOK, StayInv
  <2>2. RunsOK' /\ \A l \in Actor : l # k => run'[l] = run[l]
    BY <1>2, PoolKeeps DEF StayInv
  <2>3. DOMAIN disk' = DOMAIN disk \ run[k].hand.left
    BY <1>2, DiscardDomain
  <2>. QED
    BY <1>1, <2>1, <2>2, <2>3, OneActs
<1>3. CASE Abort(k)
  <2>1. run' = [run EXCEPT ![k] = Idle] /\ UNCHANGED NotFiles
    BY <1>3 DEF Abort, store, NotFiles
  <2>. QED
    BY <1>1, <2>1, AbortKeeps
<1>. QED
  BY <1>2, <1>3, PoolStep
-----------------------------------------------------------------------------
(* Scanning, renaming and organizing *)

LEMMA ScanKeeps ==
    ASSUME StayInv, NEW k \in Actor, Scan(k)
    PROVE  StayInv'
<1>1. run[k].at = "scan" /\ RunOK(k, run[k]) /\ IsRun(run[k]) /\ run = [l \in Actor |-> run[l]]
  BY RunIs DEF StayInv, RunsOK, Scan
<1>2. run[k].hand.do \in Conflict => k = "page"
  BY <1>1 DEF RunOK, HandOK
<1>3. PICK todo : todo = {}
  OBVIOUS
<1>4. RunsOK' /\ \A l \in Actor : run'[l].hand = run[l].hand
  <2>1. run' = [run EXCEPT ![k].at = "prune", ![k].todo = todo]
    BY <1>3 DEF Scan
  <2>2. \A op \in todo : IsOp(op) /\ OpOK(k, "prune", op)
    BY <1>3
  <2>. QED
    BY <1>2, <2>1, <2>2, StageKeeps
<1>5. \A p \in DOMAIN rows' : IsRow(p)
  <2>1. PICK found : /\ DOMAIN found = DOMAIN Read(k)
                     /\ rows' = Upserted(found)
    BY DEF Scan
  <2>2. DOMAIN rows' = DOMAIN Read(k) \cup DOMAIN rows
    BY <2>1 DEF Upserted
  <2>3. \A p \in DOMAIN Read(k) : IsRow(p)
    BY <1>1 DEF Read, RunOK, OpOK
  <2>. QED
    BY <2>2, <2>3 DEF StayInv, RowsOK
<1>6. UNCHANGED <<disk, tale, cut, filled>> /\ RowsOK'
  BY <1>5 DEF Scan, seenVars, RowsOK
<1>. QED
  BY <1>4, <1>6, FilesStay

LEMMA PruneKeeps ==
    ASSUME StayInv, NEW k \in Actor, Prune(k)
    PROVE  StayInv'
<1>1. run[k].at = "prune" /\ RunOK(k, run[k])
  BY RunIs DEF StayInv, Prune
<1>2. run[k].hand.do \in Conflict => k = "page"
  BY <1>1 DEF RunOK, HandOK
<1>3. \A op \in MatchOps : IsOp(op) /\ OpOK(k, "match", op)
  BY OtherOpsOK DEF StayInv, OpOK, Zips
<1>4. run' = [run EXCEPT ![k].at = "match", ![k].todo = MatchOps, ![k].seen = {}]
  BY DEF Prune
<1>5. RunsOK' /\ \A l \in Actor : run'[l].hand = run[l].hand
  BY <1>2, <1>3, <1>4, PhaseKeeps
<1>6. UNCHANGED <<disk, tale, cut, filled>> /\ RowsOK'
  BY DeleteRowsKeeps DEF Prune, seenVars, StayInv
<1>. QED
  BY <1>5, <1>6, FilesStay

LEMMA MatchKeeps ==
    ASSUME StayInv, NEW k \in Actor, Match(k)
    PROVE  StayInv'
<1>1. run[k].at = "match" /\ RunOK(k, run[k])
  BY RunIs DEF StayInv, Match
<1>2. run[k].hand.do \in Conflict => k = "page"
  BY <1>1 DEF RunOK, HandOK
<1>3. PICK todo : todo = {}
  OBVIOUS
<1>4. RunsOK' /\ \A l \in Actor : run'[l].hand = run[l].hand
  <2>1. run' = [run EXCEPT ![k].at = "plan", ![k].todo = todo]
    BY <1>3 DEF Match
  <2>2. \A op \in todo : IsOp(op) /\ OpOK(k, "plan", op)
    BY <1>3
  <2>. QED
    BY <1>2, <2>1, <2>2, StageKeeps
<1>5. DOMAIN rows' = DOMAIN rows
  BY DEF Match, Matched
<1>6. UNCHANGED <<disk, tale, cut, filled>> /\ RowsOK'
  BY <1>5 DEF Match, seenVars, StayInv, RowsOK
<1>. QED
  BY <1>4, <1>6, FilesStay

LEMMA OverDomain == \A new, files : DOMAIN Over(new, files) = DOMAIN new \cup DOMAIN files
BY DEF Over

LEMMA BakIsPath ==
    ASSUME NEW s, NEW q, FreeBaks(s, q) # {}
    PROVE  \E x \in BakExts : BakOf(s, q) = At(s.dir, s.stem, x) /\ ~On(BakOf(s, q)) /\ BakOf(s, q) # q
<1>1. BakOf(s, q) \in FreeBaks(s, q)
  BY DEF BakOf
<1>. QED
  BY <1>1 DEF FreeBaks

LEMMA RenameFileKeeps ==
    ASSUME StayInv, NEW k \in Actor, RenameFile(k)
    PROVE  StayInv'
<1>. DEFINE p == From(k)
            q == To(k)
            save == Companion(p)
            place == Companion(q)
            news == {q} \cup IF On(save) THEN {place} \cup {BakOf(place, q) : s \in {place} \cap DOMAIN disk} ELSE {}
<1>1. /\ Holding(k, "rename") /\ Incoming(p) /\ IsRow(q) /\ q.dir = p.dir /\ ~Holding(k, "enter")
      /\ HandOK(k, run[k].at, run[k].hand)
  BY RunIs DEF StayInv, HandOK, RenameFile, Holding, From, To
<1>2. Filling /\ UNCHANGED <<rows, tale, cut>> /\ RowsOK'
  BY DEF RenameFile, RowsOK, StayInv
<1>3. Good(q) /\ Movable(p) /\ Movable(save) /\ Good(place) /\ place.dir = p.dir
  BY <1>1, AtIs, IncomingIsMovable, RowIsGood DEF Incoming, IsRow, Companion
<1>4. CASE /\ Then(k, "record") /\ On(p) /\ (On(save) /\ On(place) => FreeBaks(place, q) # {})
           /\ DOMAIN disk' = news \cup DOMAIN Without(disk, {p, save})
  <2>1. HandOK(k, run[k].at, [do |-> "record", from |-> p, to |-> q, left |-> run[k].hand.left])
    BY <1>1 DEF HandOK, Conflict
  <2>2. RunsOK' /\ \A l \in Actor : l # k => run'[l] = run[l]
    BY <1>4, <2>1, ThenKeeps DEF StayInv
  <2>3. ASSUME On(save), On(place) PROVE Good(BakOf(place, q))
    <3>1. PICK x \in BakExts : BakOf(place, q) = At(place.dir, place.stem, x)
      BY <1>4, <2>3, BakIsPath
    <3>. QED
      BY <1>1, <1>3, <3>1, AtIs, IncomingIsMovable DEF Incoming
  <2>4. \A f \in news : Good(f)
    BY <1>3, <2>3 DEF On
  <2>5. DOMAIN Without(disk, {p, save}) = DOMAIN disk \ {p, save}
    BY DEF Without, Restrict
  <2>. QED
    BY <1>1, <1>2, <1>3, <1>4, <2>2, <2>4, <2>5, OneActs
<1>5. CASE Done(k) /\ UNCHANGED disk
  <2>1. RunsOK' /\ \A l \in Actor : l # k => run'[l] = run[l]
    BY <1>5, DoneKeeps DEF StayInv
  <2>. QED
    BY <1>1, <1>2, <1>5, <2>1, OneStays
<1>6. ASSUME /\ On(p) /\ ~On(q)
             /\ On(save) /\ On(place) => FreeBaks(place, q) # {}
             /\ disk' = Over([f \in news |-> IF f = q THEN disk[p] ELSE IF f = place THEN disk[save] ELSE disk[place]],
                             Without(disk, {p, save}))
             /\ Then(k, "record")
      PROVE  StayInv'
  <2>1. PICK f1, f2 : /\ f1 = [f \in news |-> IF f = q THEN disk[p] ELSE IF f = place THEN disk[save] ELSE disk[place]]
                      /\ f2 = Without(disk, {p, save}) /\ disk' = Over(f1, f2)
    BY <1>6
  <2>2. DOMAIN disk' = news \cup DOMAIN Without(disk, {p, save})
    BY <2>1, OverDomain
  <2>. QED
    BY <1>4, <1>6, <2>2
<1>. QED
  BY <1>5, <1>6 DEF RenameFile

LEMMA RecordRenameKeeps ==
    ASSUME StayInv, NEW k \in Actor, RecordRename(k)
    PROVE  StayInv'
<1>1. IsRow(To(k)) /\ ~Holding(k, "enter")
  BY RunIs DEF StayInv, HandOK, RecordRename, Holding, To
<1>2. RunsOK' /\ \A l \in Actor : l # k => run'[l] = run[l]
  BY DoneKeeps DEF StayInv, RecordRename
<1>3. RowsOK'
  <2>1. CASE rows' = rows
    BY <2>1 DEF RowsOK, StayInv
  <2>2. CASE rows' = RowMoved(From(k), To(k))
    BY <1>1, <2>2, RowMovedKeeps DEF StayInv
  <2>. QED
    BY <2>1, <2>2 DEF RecordRename
<1>4. UNCHANGED <<disk, tale, cut, filled>>
  BY DEF RecordRename, seenVars
<1>. QED
  BY <1>1, <1>2, <1>3, <1>4, OneStays

LEMMA OrganizeFileKeeps ==
    ASSUME StayInv, NEW k \in Actor, OrganizeFile(k)
    PROVE  StayInv'
<1>1. Movable(From(k)) /\ IsRow(To(k)) /\ Good(To(k)) /\ ~Holding(k, "enter")
  BY RunIs, RowIsGood, IncomingIsMovable
  DEF StayInv, HandOK, OrganizeFile, Holding, From, To, Incoming, IsRow
<1>2. RunsOK' /\ \A l \in Actor : l # k => run'[l] = run[l]
  BY DoneKeeps DEF StayInv, OrganizeFile
<1>3. Filling /\ UNCHANGED <<tale, cut>>
  BY DEF OrganizeFile
<1>4. CASE On(From(k)) /\ disk' = Moved(From(k), To(k)) /\ rows' = RowMoved(From(k), To(k))
  <2>1. RowsOK'
    BY <1>1, <1>4, RowMovedKeeps DEF StayInv
  <2>2. /\ \A p \in DOMAIN disk' \ DOMAIN disk : Good(p)
        /\ \A p \in DOMAIN disk \ DOMAIN disk' : Movable(p)
    BY <1>1, <1>4, MovedDomain DEF On
  <2>. QED
    BY <1>1, <1>2, <1>3, <2>1, <2>2, OneActs
<1>5. CASE UNCHANGED <<disk, rows>>
  <2>1. RowsOK'
    BY <1>5 DEF RowsOK, StayInv
  <2>. QED
    BY <1>1, <1>2, <1>3, <1>5, <2>1, OneStays
<1>. QED
  BY <1>4, <1>5 DEF OrganizeFile

LEMMA DropDuplicateKeeps ==
    ASSUME StayInv, NEW k \in Actor, DropDuplicate(k)
    PROVE  StayInv'
<1>1. Movable(From(k)) /\ ~Holding(k, "enter")
  BY RunIs, IncomingIsMovable
  DEF StayInv, HandOK, DropDuplicate, Holding, From, Incoming, IsRow
<1>2. RunsOK' /\ \A l \in Actor : l # k => run'[l] = run[l]
  BY DoneKeeps DEF StayInv, DropDuplicate
<1>3. Filling /\ UNCHANGED <<tale, cut>>
  BY DEF DropDuplicate
<1>4. CASE Discard({From(k)}) /\ DeleteRows({From(k)})
  <2>1. RowsOK'
    BY <1>4, DeleteRowsKeeps DEF StayInv
  <2>2. DOMAIN disk' = DOMAIN disk \ {From(k)}
    BY <1>4, DiscardDomain
  <2>. QED
    BY <1>1, <1>2, <1>3, <2>1, <2>2, OneActs
<1>5. CASE UNCHANGED <<disk, trash, rows>>
  <2>1. RowsOK'
    BY <1>5 DEF RowsOK, StayInv
  <2>. QED
    BY <1>1, <1>2, <1>3, <1>5, <2>1, OneStays
<1>. QED
  BY <1>4, <1>5 DEF DropDuplicate

LEMMA DiscardFileDomain ==
    ASSUME RowsOK, NEW p, DiscardFile(p)
    PROVE  RowsOK' /\ DOMAIN disk \ {p} = DOMAIN disk' \ {p} /\ DOMAIN disk' \subseteq DOMAIN disk
<1>1. RowsOK'
  BY DeleteRowsKeeps DEF DiscardFile
<1>2. CASE Discard({p})
  BY <1>1, <1>2, DiscardDomain
<1>3. CASE UNCHANGED <<disk, trash>>
  BY <1>1, <1>3
<1>. QED
  BY <1>2, <1>3 DEF DiscardFile

LEMMA LoseKeeps ==
    ASSUME StayInv, NEW k \in Actor, Lose(k)
    PROVE  StayInv'
<1>1. Movable(From(k)) /\ ~Holding(k, "enter")
  BY RunIs, IncomingIsMovable
  DEF StayInv, HandOK, Lose, Holding, From, Incoming, IsRow, Conflict
<1>2. RunsOK' /\ \A l \in Actor : l # k => run'[l] = run[l]
  BY DoneKeeps DEF StayInv, Lose
<1>3. Filling /\ UNCHANGED <<tale, cut>>
  BY DEF Lose
<1>4. RowsOK' /\ DOMAIN disk \ {From(k)} = DOMAIN disk' \ {From(k)}
      /\ DOMAIN disk' \subseteq DOMAIN disk
  BY DiscardFileDomain DEF StayInv, Lose
<1>. QED
  BY <1>1, <1>2, <1>3, <1>4, OneActs

\* The library's file is gone, and the source is about to enter.
LEMMA SwapKeeps ==
    ASSUME StayInv, NEW k \in Actor, Swap(k)
    PROVE  StayInv'
<1>1. HandOK(k, run[k].at, run[k].hand) /\ Holding(k, "swap")
  BY RunIs DEF StayInv, Swap
<1>2. HandOK(k, run[k].at, [do |-> "enter", from |-> From(k), to |-> To(k),
                            left |-> run[k].hand.left])
  BY <1>1 DEF HandOK, Conflict, Holding, From, To
<1>3. /\ RunsOK' /\ run'[k].hand.do = "enter" /\ run'[k].hand.to = To(k)
      /\ \A l \in Actor : l # k => run'[l] = run[l]
  BY <1>2, ThenKeeps DEF StayInv, Swap
<1>4. Filling /\ UNCHANGED <<tale, cut>> /\ DropsOK'
  BY DEF Swap, StayInv, DropsOK
<1>5. RowsOK' /\ DOMAIN disk \ {To(k)} = DOMAIN disk' \ {To(k)}
      /\ DOMAIN disk' \subseteq DOMAIN disk
  BY DiscardFileDomain DEF StayInv, Swap
<1>6. \A p \in DOMAIN disk' : Good(p)
  BY <1>5 DEF StayInv, DiskOK
<1>7. \A l \in Actor : run[l].hand.do = "enter" => run'[l].hand = run[l].hand
  BY <1>1, <1>3 DEF Holding
<1>8. \A p \in DOMAIN disk \ DOMAIN disk' :
         \E l \in Actor : run'[l].hand.do = "enter" /\ run'[l].hand.to = p
  BY <1>3, <1>5
<1>. QED
  BY <1>3, <1>4, <1>5, <1>6, <1>7, <1>8, StepKeeps DEF Filling

\* Nothing enters: the path is one of those that a fault has left empty.
LEMMA EnterCut ==
    ASSUME StayInv, NEW k \in Actor, cut' = cut \cup {To(k)}, Done(k), Filling,
           UNCHANGED <<disk, tale, rows>>
    PROVE  StayInv'
<1>1. RunsOK' /\ \A l \in Actor : l # k => run'[l] = run[l]
  BY DoneKeeps DEF StayInv
<1>2. DropsOK' /\ RowsOK' /\ \A p \in DOMAIN disk' : Good(p)
  BY DEF StayInv, DropsOK, RowsOK, DiskOK
<1>3. \A l \in Actor : run[l].hand.do = "enter" =>
         \/ run'[l].hand = run[l].hand
         \/ run[l].hand.to \in cut' \cup DOMAIN disk'
  BY <1>1 DEF To
<1>. QED
  BY <1>1, <1>2, <1>3, StepKeeps DEF Filling

LEMMA EnterKeeps ==
    ASSUME StayInv, NEW k \in Actor, Enter(k)
    PROVE  StayInv'
<1>1. /\ HandOK(k, run[k].at, run[k].hand) /\ Holding(k, "enter")
      /\ Movable(From(k)) /\ IsRow(To(k)) /\ Good(To(k))
  BY RunIs, RowIsGood, IncomingIsMovable
  DEF StayInv, HandOK, Enter, Holding, From, To, Incoming, IsRow, Conflict
<1>2. Filling /\ UNCHANGED <<tale, rows>> /\ DropsOK' /\ RowsOK'
  BY DEF Enter, StayInv, DropsOK, RowsOK
<1>3. CASE On(From(k)) /\ disk' = Moved(From(k), To(k)) /\ Then(k, "row") /\ UNCHANGED cut
  <2>1. HandOK(k, run[k].at, [do |-> "row", from |-> From(k), to |-> To(k),
                              left |-> run[k].hand.left])
    BY <1>1 DEF HandOK, Conflict, Holding, From, To
  <2>2. RunsOK' /\ \A l \in Actor : l # k => run'[l] = run[l]
    BY <1>3, <2>1, ThenKeeps DEF StayInv
  <2>3. /\ \A p \in DOMAIN disk' : Good(p)
        /\ \A p \in DOMAIN disk \ DOMAIN disk' : Movable(p)
        /\ To(k) \in DOMAIN disk'
    BY <1>1, <1>3, MovedDomain DEF On, StayInv, DiskOK
  <2>4. \A l \in Actor : run[l].hand.do = "enter" =>
           \/ run'[l].hand = run[l].hand
           \/ run[l].hand.to \in cut' \cup DOMAIN disk'
    BY <2>2, <2>3 DEF To
  <2>. QED
    BY <1>2, <1>3, <2>2, <2>3, <2>4, StepKeeps DEF Filling
<1>4. CASE cut' = cut \cup {To(k)} /\ Done(k) /\ UNCHANGED disk
  BY <1>2, <1>4, EnterCut
<1>. QED
  BY <1>3, <1>4 DEF Enter

LEMMA EnterRowKeeps ==
    ASSUME StayInv, NEW k \in Actor, EnterRow(k)
    PROVE  StayInv'
<1>1. IsRow(To(k)) /\ ~Holding(k, "enter")
  BY RunIs DEF StayInv, HandOK, EnterRow, Holding, To, Conflict
<1>2. RunsOK' /\ \A l \in Actor : l # k => run'[l] = run[l]
  BY DoneKeeps DEF StayInv, EnterRow
<1>3. RowsOK' /\ UNCHANGED <<disk, tale, cut, filled>>
  BY <1>1, RowMovedKeeps DEF EnterRow, StayInv, seenVars
<1>. QED
  BY <1>1, <1>2, <1>3, OneStays
-----------------------------------------------------------------------------
(* The page, the watcher and the world *)

LEMMA PageKeeps ==
    ASSUME StayInv, PageResolves
    PROVE  StayInv'
<1>1. "page" \in Actor /\ ~Holding("page", "enter")
  BY DEF Actor, PageResolves, Free, Holding, NoHand
<1>2. PICK p \in DOMAIN rows, keep \in {"swap", "lose"} :
         /\ p.dir \in InboxDir
         /\ run' = [run EXCEPT !["page"].hand = [do |-> keep, from |-> p, to |-> Dest(p),
                                                 left |-> {}]]
  BY DEF PageResolves
<1>3. Incoming(p) /\ IsRow(Dest(p))
  <2>1. IsRow(p)
    BY DEF StayInv, RowsOK
  <2>2. Dest(p) = At(rows[p].platform, p.stem, p.ext)
    BY <2>1, EditedPath DEF Dest, IsRow
  <2>. QED
    BY <1>2, <2>1, <2>2, AtIs DEF Incoming, IsRow
<1>4. PICK h : h = [do |-> keep, from |-> p, to |-> Dest(p), left |-> {}]
  OBVIOUS
<1>5. HandOK("page", run["page"].at, h)
      /\ h = [do |-> h.do, from |-> h.from, to |-> h.to, left |-> h.left]
  BY <1>3, <1>4 DEF HandOK, Conflict
<1>6. RunsOK' /\ \A l \in Actor : l # "page" => run'[l] = run[l]
  BY <1>1, <1>2, <1>4, <1>5, ReplaceHand DEF StayInv
<1>7. UNCHANGED <<disk, tale, cut, filled>> /\ RowsOK'
  BY DEF PageResolves, store, seenVars, StayInv, RowsOK
<1>. QED
  BY <1>1, <1>6, <1>7, OneStays

LEMMA WatchKeeps ==
    ASSUME StayInv, Wake \/ Poll \/ WatcherStarts
    PROVE  StayInv'
<1>. DEFINE w == "watcher"
<1>1. w \in Actor \ {"page"} /\ "inbox" \in Actor \ {"page"} /\ w # "inbox"
  BY DEF Actor, Job
<1>2. UNCHANGED <<disk, tale, cut, filled>> /\ RowsOK'
  BY DEF Wake, Poll, WatcherStarts, store, seenVars, StayInv, RowsOK
<1>3. run[w].at # "organize"
  BY DEF Wake, Poll, WatcherStarts
<1>4. ~Holding(w, "enter") /\ run[w].hand.do \notin Conflict
  BY <1>1, <1>3, NoConflict
<1>5. RunOK(w, run[w]) /\ IsRun(run[w]) /\ run = [l \in Actor |-> run[l]]
  BY <1>1, RunIs DEF StayInv, RunsOK
<1>6. CASE Wake
  <2>1. run' = [run EXCEPT ![w].at = "saves", ![w].todo = SaveOps]
    BY <1>6 DEF Wake
  <2>2. \A op \in SaveOps : IsOp(op) /\ OpOK(w, "saves", op)
    BY SaveOpsOK DEF StayInv, OpOK, Zips
  <2>3. RunsOK' /\ \A l \in Actor : run'[l].hand = run[l].hand
    BY <1>1, <1>4, <2>1, <2>2, StageKeeps
  <2>. QED
    BY <1>2, <2>3, FilesStay
<1>7. CASE Poll
  <2>1. PICK a : run' = [run EXCEPT ![w] = [Idle EXCEPT !.at = a]]
    BY <1>7 DEF Poll
  <2>2. PICK r : r = [Idle EXCEPT !.at = a]
    OBVIOUS
  <2>3. r = [at |-> a, todo |-> {}, hand |-> NoHand, spent |-> {}, delete |-> FALSE,
             seen |-> {}, saw |-> {}]
    BY <2>2 DEF Idle
  <2>4. RunOK(w, r)
    BY <2>3 DEF RunOK, IsRun, HandOK, NoHand, Conflict
  <2>5. RunsOK' /\ \A l \in Actor : l # w => run'[l] = run[l]
    BY <1>1, <2>1, <2>2, <2>4, ReplaceRun DEF StayInv
  <2>. QED
    BY <1>1, <1>2, <1>4, <2>5, OneStays
<1>8. CASE WatcherStarts
  <2>1. PICK x : x = [run[w] EXCEPT !.at = "idle"]
    OBVIOUS
  <2>2. x = [at |-> "idle", todo |-> run[w].todo, hand |-> run[w].hand,
             spent |-> run[w].spent, delete |-> run[w].delete, seen |-> run[w].seen,
             saw |-> run[w].saw]
    BY <1>5, <2>1 DEF IsRun
  <2>3. PICK wake : wake = [run EXCEPT ![w] = x]
    OBVIOUS
  <2>4. RunOK(w, x) /\ x.hand = run[w].hand
    <3>1. run[w].at = "start"
      BY <1>8 DEF WatcherStarts
    <3>2. \A op \in run[w].todo : IsOp(op) /\ OpOK(w, "idle", op)
      BY <1>5, <3>1 DEF RunOK, OpOK, Zips
    <3>3. HandOK(w, "idle", run[w].hand)
      BY <1>4, <1>5 DEF RunOK, HandOK
    <3>. QED
      BY <1>5, <2>2, <3>2, <3>3 DEF RunOK, IsRun
  <2>5. /\ wake = [l \in Actor |-> wake[l]] /\ wake[w] = x
        /\ \A l \in Actor : l # w => wake[l] = run[l]
    BY <1>1, <1>5, <2>3
  <2>6. wake = [run EXCEPT ![w].at = "idle"]
    BY <1>1, <1>5, <2>1, <2>3
  <2>7. CASE run' = wake
    <3>1. RunsOK' /\ \A l \in Actor : l # w => run'[l] = run[l]
      BY <1>1, <2>3, <2>4, <2>7, ReplaceRun DEF StayInv
    <3>. QED
      BY <1>1, <1>2, <1>4, <3>1, OneStays
  <2>8. ASSUME NEW d, run["inbox"].at = "idle",
               run' = [wake EXCEPT !["inbox"] =
                          [Idle EXCEPT !.at = "zips", !.todo = ZipOps("inbox", "zip"),
                                       !.delete = d, !.saw = unseen]]
        PROVE  StayInv'
    <3>1. PICK r : r = [Idle EXCEPT !.at = "zips", !.todo = ZipOps("inbox", "zip"),
                                    !.delete = d, !.saw = unseen]
      OBVIOUS
    <3>2. RunOK("inbox", r)
      <4>1. ZipOps("inbox", "zip") = Listing("inbox", "zips")
        BY DEF Listing
      <4>. QED
        BY <1>1, <3>1, <4>1, StartIsOK
    <3>3. /\ run' = [l \in Actor |-> run'[l]] /\ run'["inbox"] = r /\ run'[w] = x
          /\ \A l \in Actor \ {w, "inbox"} : run'[l] = run[l]
      BY <1>1, <2>5, <2>8, <3>1
    <3>4. RunsOK'
      BY <1>1, <2>4, <3>2, <3>3 DEF StayInv, RunsOK
    <3>5. ~Holding("inbox", "enter")
      BY <1>1, <2>8, NoConflict
    <3>6. \A l \in Actor : run[l].hand.do = "enter" => run'[l].hand = run[l].hand
      BY <1>4, <3>3, <3>5 DEF Holding
    <3>. QED
      BY <1>2, <3>4, <3>6, FilesStay
  <2>. QED
    BY <1>8, <2>6, <2>7, <2>8 DEF WatcherStarts
<1>. QED
  BY <1>6, <1>7, <1>8

LEMMA FailKeeps ==
    ASSUME StayInv, NEW k \in Actor, Fail(k)
    PROVE  StayInv'
<1>1. Filling /\ UNCHANGED <<rows, tale>> /\ RowsOK'
  BY DEF Fail, StayInv, RowsOK
<1>2. HandOK(k, run[k].at, run[k].hand)
  BY RunIs DEF StayInv
<1>3. CASE Holding(k, "move") /\ run' = [run EXCEPT ![k] = Idle] /\ UNCHANGED <<disk, cut>>
  <2>1. RunsOK' /\ \A l \in Actor : l # k => run'[l] = run[l]
    BY <1>3, IdleIsOK, ReplaceRun DEF StayInv
  <2>. QED
    BY <1>1, <1>3, <2>1, OneStays DEF Holding
<1>4. CASE run[k].hand.do # "enter" /\ Done(k) /\ UNCHANGED <<disk, cut>>
  <2>1. RunsOK' /\ \A l \in Actor : l # k => run'[l] = run[l]
    BY <1>4, DoneKeeps DEF StayInv
  <2>. QED
    BY <1>1, <1>4, <2>1, OneStays DEF Holding
<1>5. CASE Done(k) /\ cut' = cut \cup {To(k)} /\ UNCHANGED disk
  BY <1>1, <1>5, EnterCut
<1>6. ASSUME Holding(k, "extract"), Done(k), UNCHANGED cut, NEW m \in run[k].hand.left,
             disk' = Put(disk, Member(To(k), m), Torn)
      PROVE  StayInv'
  <2>1. Good(Member(To(k), m)) /\ ~Holding(k, "enter")
    BY <1>2, <1>6 DEF HandOK, Holding, To
  <2>2. RunsOK' /\ \A l \in Actor : l # k => run'[l] = run[l]
    BY <1>6, DoneKeeps DEF StayInv
  <2>3. DOMAIN disk' = DOMAIN disk \cup {Member(To(k), m)}
    BY <1>6 DEF Put
  <2>. QED
    BY <1>1, <1>6, <2>1, <2>2, <2>3, OneActs
<1>7. \/ Holding(k, "move") /\ run' = [run EXCEPT ![k] = Idle] /\ UNCHANGED <<disk, cut>>
      \/ run[k].hand.do # "enter" /\ Done(k) /\ UNCHANGED <<disk, cut>>
      \/ Done(k) /\ cut' = cut \cup {To(k)} /\ UNCHANGED disk
      \/ /\ Holding(k, "extract") /\ Done(k) /\ UNCHANGED cut
         /\ \E m \in run[k].hand.left : disk' = Put(disk, Member(To(k), m), Torn)
  BY DEF Fail, Holding
<1>. QED
  BY <1>3, <1>4, <1>5, <1>6, <1>7

LEMMA ArriveKeeps ==
    ASSUME StayInv, Arrive
    PROVE  StayInv'
<1>1. PICK d \in tale.drops : /\ disk' = Put(disk, d.at, d.has)
                              /\ tale' = [tale EXCEPT !.came = tale.came \cup {d}]
  BY DEF Arrive
<1>2. Filling /\ UNCHANGED <<rows, run, cut>> /\ RowsOK' /\ RunsOK'
  BY DEF Arrive, StayInv, RowsOK, RunsOK, RunOK
<1>3. DropsOK'
  <2>1. PICK c : c = tale.came \cup {d}
    OBVIOUS
  <2>2. tale' = [came |-> c, drops |-> tale.drops, users |-> tale.users, faults |-> tale.faults]
    BY <1>1, <2>1 DEF StayInv, DropsOK
  <2>. QED
    BY <2>2 DEF StayInv, DropsOK
<1>4. Good(d.at) /\ DOMAIN disk' = DOMAIN disk \cup {d.at}
  BY <1>1 DEF StayInv, DropsOK, Put
<1>5. \A p \in DOMAIN disk' : Good(p)
  BY <1>4 DEF StayInv, DiskOK
<1>. QED
  BY <1>2, <1>3, <1>4, <1>5, StepKeeps DEF Filling

\* A path that a conflict has left empty for its winner is one of those cut off.
LEMMA CrashKeeps ==
    ASSUME StayInv, Crash
    PROVE  StayInv'
<1>1. Filling /\ UNCHANGED <<rows, tale>> /\ run' = [k \in Actor |-> Idle]
  BY DEF Crash
<1>2. RowsOK' /\ DropsOK' /\ RunsOK'
  BY <1>1, IdleIsOK DEF StayInv, RowsOK, DropsOK, RunsOK
<1>3. cut \subseteq cut' /\ \A k \in Actor : run[k].hand.do = "enter" => To(k) \in cut'
  BY DEF Crash
<1>4. /\ \A p \in DOMAIN disk' : Good(p)
      /\ \A p \in DOMAIN disk \ DOMAIN disk' : Movable(p)
  <2>1. CASE UNCHANGED disk
    BY <2>1 DEF StayInv, DiskOK
  <2>2. ASSUME NEW k \in Actor, Holding(k, "organize"), On(From(k)),
               disk' = Moved(From(k), To(k))
        PROVE  /\ \A p \in DOMAIN disk' : Good(p)
               /\ \A p \in DOMAIN disk \ DOMAIN disk' : Movable(p)
    <3>1. Movable(From(k)) /\ Good(To(k))
      BY <2>2, RunIs, RowIsGood, IncomingIsMovable
      DEF StayInv, HandOK, Holding, From, To, Incoming, IsRow
    <3>. QED
      BY <2>2, <3>1, MovedDomain DEF On, StayInv, DiskOK
  <2>. QED
    BY <2>1, <2>2 DEF Crash
<1>. QED
  BY <1>1, <1>2, <1>3, <1>4, StepKeeps DEF Filling, To
-----------------------------------------------------------------------------
(* The theorem *)

LEMMA StayInit == ASSUME Init PROVE StayInv
<1>1. PICK s \in Stories :
         tale = [came |-> {}, drops |-> s.drops, users |-> s.users, faults |-> s.faults]
  BY DEF Init
<1>2. DropsOK
  <2>1. \A d \in s.drops : IsPath(d.at) /\ (NothingStray /\ Library(d.at) => Fixed(d.at))
    BY InboxAssumption DEF IsPath, NothingStray
  <2>2. \A d \in s.drops : Good(d.at)
    BY <2>1 DEF Good
  <2>. QED
    BY <1>1, <2>2 DEF DropsOK
<1>3. DOMAIN disk = {} /\ DOMAIN rows = {} /\ filled = {} /\ run = [k \in Actor |-> Idle]
  BY DEF Init
<1>4. RunsOK
  BY <1>3, IdleIsOK DEF RunsOK
<1>. QED
  BY <1>2, <1>3, <1>4 DEF StayInv, DiskOK, RowsOK, FilledOK, LibraryPathStays

LEMMA RunStepKeeps ==
    ASSUME StayInv, NEW k \in Actor, Step(k)
    PROVE  StayInv'
BY AdvanceKeeps, LookKeeps, MovesKeep, DiscardOneKeeps, ExtractKeeps, ExtractedKeeps,
   PackKeeps, DiscardChipsKeeps, ScanKeeps, PruneKeeps, MatchKeeps, RenameFileKeeps,
   RecordRenameKeeps, OrganizeFileKeeps, DropDuplicateKeeps, LoseKeeps, SwapKeeps,
   EnterKeeps, EnterRowKeeps
DEF Step

LEMMA StayNext == ASSUME StayInv, [Next]_vars PROVE StayInv'
<1>1. CASE Next
  <2>1. "watcher" \in Actor
    BY DEF Actor
  <2>. QED
    BY <1>1, <2>1, StartsKeep, PageKeeps, WatchKeeps, RunStepKeeps, FailKeeps, ArriveKeeps,
       CrashKeeps
    DEF Next, Watch
<1>2. CASE UNCHANGED vars
  <2>1. UNCHANGED <<disk, rows, run, tale, cut, filled>>
    BY <1>2 DEF vars, store, seenVars
  <2>2. RunsOK' /\ RowsOK' /\ DropsOK'
    BY <2>1 DEF StayInv, RunsOK, RunOK, RowsOK, DropsOK
  <2>3. \A p \in DOMAIN disk' : Good(p)
    BY <2>1 DEF StayInv, DiskOK
  <2>. QED
    BY <2>1, <2>2, <2>3, StepKeeps
<1>. QED
  BY <1>1, <1>2

\* Whatever is dropped, however the runs, the wizard, the watcher and the page interleave and
\* wherever a step fails or the process dies, a path of the library that has held a file holds
\* one, but for the moment between the discard of a conflict's loser and the entry of its
\* winner, and for the paths where that entry failed (inbox_pipeline.py 193-220).
THEOREM LibraryPathsStay ==
    ASSUME NothingStray
    PROVE  Spec => []LibraryPathStays
<1>1. Init => StayInv
  BY StayInit
<1>2. StayInv /\ [Next]_vars => StayInv'
  BY StayNext
<1>3. StayInv => LibraryPathStays
  BY DEF StayInv
<1>. QED
  BY <1>1, <1>2, <1>3, PTL DEF Spec
-----------------------------------------------------------------------------
(* Nothing is lost *)

\* A name that an actor found free, and is about to move or to write a file to, is taken.
Moving == {"move", "try", "organize", "enter", "pack"}
Clash(k) ==
    /\ run[k].hand.do \in Moving /\ On(To(k))
    /\ (On(From(k)) /\ To(k) # From(k)) \/ Holding(k, "pack")
NoClash == \A k \in Actor : ~Clash(k)

Kept == Range(disk) \cup trash \cup replaced
CameInv == {d.has : d \in tale.came} \subseteq Kept

LEMMA HeldStay ==
    ASSUME \A p \in DOMAIN disk : disk[p] \in Kept',
           trash \subseteq trash', replaced \subseteq replaced'
    PROVE  Kept \subseteq Kept'
BY DEF Kept, Range

LEMMA PutHolds ==
    ASSUME NEW q, NEW c, disk' = Put(disk, q, c)
    PROVE  c \in Range(disk') /\ \A p \in DOMAIN disk : p # q => disk[p] \in Range(disk')
BY DEF Put, Range

LEMMA MovedHolds ==
    ASSUME NEW p, NEW q, On(p), ~On(q) \/ p = q, disk' = Moved(p, q)
    PROVE  \A f \in DOMAIN disk : disk[f] \in Range(disk')
<1>1. CASE p = q
  BY <1>1 DEF Moved, Range
<1>2. CASE p # q
  <2>1. PICK g : g = Without(disk, {p})
    OBVIOUS
  <2>2. DOMAIN g = DOMAIN disk \ {p} /\ \A f \in DOMAIN g : g[f] = disk[f]
    BY <2>1 DEF Without, Restrict
  <2>3. disk' = Put(g, q, disk[p])
    BY <1>2, <2>1 DEF Moved
  <2>4. DOMAIN disk' = {q} \cup DOMAIN g /\ disk'[q] = disk[p] /\ \A f \in DOMAIN g : f # q => disk'[f] = g[f]
    BY <2>3 DEF Put
  <2>5. ASSUME NEW f \in DOMAIN disk PROVE disk[f] \in Range(disk')
    <3>1. CASE f = p
      BY <2>4, <3>1 DEF Range
    <3>2. CASE f # p
      BY <1>2, <2>2, <2>4, <2>5, <3>2 DEF Range, On
    <3>. QED
      BY <3>1, <3>2
  <2>. QED
    BY <2>5
<1>. QED
  BY <1>1, <1>2

LEMMA DiscardHolds ==
    ASSUME NEW S, Discard(S)
    PROVE  trash \subseteq trash' /\ \A f \in DOMAIN disk : disk[f] \in Range(disk') \cup trash'
<1>1. DOMAIN disk' = DOMAIN disk \ S /\ \A f \in DOMAIN disk' : disk'[f] = disk[f]
  BY DEF Discard, Without, Restrict
<1>2. trash' = trash \cup {disk[p] : p \in S}
  BY DEF Discard
<1>. QED
  BY <1>1, <1>2 DEF Range

LEMMA FilesHold == ASSUME disk' = disk, trash' = trash, replaced' = replaced PROVE Kept \subseteq Kept'
BY DEF Kept

LEMMA MoverHolds ==
    ASSUME NoClash, NEW k \in Actor, run[k].hand.do \in Moving, On(From(k)), disk' = Moved(From(k), To(k)),
           trash' = trash, replaced' = replaced
    PROVE  Kept \subseteq Kept'
<1>1. ~On(To(k)) \/ From(k) = To(k)
  BY DEF NoClash, Clash
<1>2. \A f \in DOMAIN disk : disk[f] \in Range(disk')
  BY <1>1, MovedHolds
<1>. QED
  BY <1>2, HeldStay DEF Kept

LEMMA DiscarderHolds ==
    ASSUME NEW S, Discard(S), replaced' = replaced
    PROVE  Kept \subseteq Kept'
BY DiscardHolds, HeldStay DEF Kept

LEMMA MovesHold ==
    ASSUME NoClash, NEW k \in Actor, Move(k) \/ TryMove(k) \/ OrganizeFile(k) \/ Enter(k)
    PROVE  Kept \subseteq Kept'
<1>1. trash' = trash /\ replaced' = replaced /\ run[k].hand.do \in Moving
  BY DEF Move, TryMove, OrganizeFile, Enter, Abort, store, Holding, Moving
<1>2. disk' = disk \/ (On(From(k)) /\ disk' = Moved(From(k), To(k)))
  <2>1. CASE Move(k)
    BY <2>1, Zenon DEF Move, Abort, store
  <2>2. CASE TryMove(k)
    BY <2>2, Zenon DEF TryMove
  <2>3. CASE OrganizeFile(k)
    BY <2>3, Zenon DEF OrganizeFile
  <2>4. CASE Enter(k)
    BY <2>4, Zenon DEF Enter
  <2>. QED
    BY <2>1, <2>2, <2>3, <2>4
<1>. QED
  BY <1>1, <1>2, FilesHold, MoverHolds

LEMMA DiscardsHold ==
    ASSUME NEW k \in Actor,
           DiscardOne(k) \/ Extracted(k) \/ DiscardChips(k) \/ DropDuplicate(k) \/ Lose(k) \/ Swap(k)
    PROVE  Kept \subseteq Kept'
<1>1. replaced' = replaced /\ ((trash' = trash /\ disk' = disk) \/ \E S : Discard(S))
  <2>1. CASE DiscardOne(k)
    BY <2>1 DEF DiscardOne, Abort, store, seenVars
  <2>2. CASE Extracted(k)
    BY <2>2 DEF Extracted, seenVars
  <2>3. CASE DiscardChips(k)
    BY <2>3 DEF DiscardChips, Abort, store, seenVars
  <2>4. CASE DropDuplicate(k)
    BY <2>4 DEF DropDuplicate
  <2>5. CASE Lose(k) \/ Swap(k)
    BY <2>5 DEF Lose, Swap, DiscardFile
  <2>. QED
    BY <2>1, <2>2, <2>3, <2>4, <2>5
<1>. QED
  BY <1>1, FilesHold, DiscarderHolds

\* A member that is extracted over a file that has come meanwhile is one of those replaced.
LEMMA ExtractHolds ==
    ASSUME NEW k \in Actor, ExtractMember(k)
    PROVE  Kept \subseteq Kept'
<1>1. PICK m \in run[k].hand.left :
         /\ disk' = Put(disk, Member(To(k), m), m.content)
         /\ replaced' = IF On(Member(To(k), m)) /\ disk[Member(To(k), m)] # m.content
                        THEN replaced \cup {disk[Member(To(k), m)], m.content} ELSE replaced
  BY DEF ExtractMember
<1>2. PICK q : q = Member(To(k), m)
  OBVIOUS
<1>3. m.content \in Range(disk') /\ \A p \in DOMAIN disk : p # q => disk[p] \in Range(disk')
  BY <1>1, <1>2, PutHolds
<1>4. q \in DOMAIN disk => disk[q] = m.content \/ disk[q] \in replaced'
  BY <1>1, <1>2 DEF On
<1>5. trash' = trash /\ replaced \subseteq replaced'
  BY <1>1 DEF ExtractMember
<1>. QED
  BY <1>3, <1>4, <1>5, HeldStay DEF Kept

LEMMA PackHolds ==
    ASSUME NoClash, NEW k \in Actor, Pack(k)
    PROVE  Kept \subseteq Kept'
<1>1. trash' = trash /\ replaced' = replaced /\ Holding(k, "pack")
  BY DEF Pack
<1>2. CASE disk' = Put(disk, To(k), run[k].hand.from.content)
  <2>1. ~On(To(k))
    BY <1>1 DEF NoClash, Clash, Holding, Moving
  <2>. QED
    BY <1>1, <1>2, <2>1, PutHolds, HeldStay DEF Kept, On
<1>3. CASE disk' = disk
  BY <1>1, <1>3, FilesHold
<1>. QED
  BY <1>2, <1>3 DEF Pack

LEMMA OverIs ==
    \A new, files : /\ \A p \in DOMAIN new : new[p] \in Range(Over(new, files))
                    /\ \A p \in DOMAIN files : p \notin DOMAIN new => files[p] \in Range(Over(new, files))
BY DEF Over, Range

\* A rename moves a save in the way to a name of its own, and replaces nothing.
LEMMA RenameHolds ==
    ASSUME StayInv, NEW k \in Actor, RenameFile(k)
    PROVE  Kept \subseteq Kept'
<1>. DEFINE p == From(k)
            q == To(k)
            save == Companion(p)
            place == Companion(q)
            news == {q} \cup IF On(save) THEN {place} \cup {BakOf(place, q) : s \in {place} \cap DOMAIN disk} ELSE {}
<1>1. trash' = trash /\ replaced' = replaced
  BY DEF RenameFile
<1>2. IsRow(q)
  BY RunIs DEF StayInv, HandOK, RenameFile, Holding, To
<1>3. place # q
  BY <1>2, AtIs DEF IsRow, Companion
<1>4. ASSUME /\ On(p) /\ ~On(q)
             /\ On(save) /\ On(place) => FreeBaks(place, q) # {}
             /\ disk' = Over([f \in news |-> IF f = q THEN disk[p] ELSE IF f = place THEN disk[save] ELSE disk[place]],
                             Without(disk, {p, save}))
      PROVE  \A f \in DOMAIN disk : disk[f] \in Range(disk')
  <2>1. PICK g : g = [f \in news |-> IF f = q THEN disk[p] ELSE IF f = place THEN disk[save] ELSE disk[place]]
    OBVIOUS
  <2>2. PICK h : h = Without(disk, {p, save})
    OBVIOUS
  <2>3. disk' = Over(g, h)
    BY <1>4, <2>1, <2>2
  <2>4. \A f \in DOMAIN h : f \notin news => h[f] \in Range(disk')
    BY <2>1, <2>3, OverIs
  <2>5. DOMAIN h = DOMAIN disk \ {p, save} /\ \A f \in DOMAIN h : h[f] = disk[f]
    BY <2>2 DEF Without, Restrict
  <2>6. \A f \in news : g[f] \in Range(disk')
    BY <2>1, <2>3, OverIs
  <2>7. disk[p] \in Range(disk')
    <3>1. q \in news /\ g[q] = disk[p]
      BY <2>1
    <3>. QED
      BY <2>6, <3>1
  <2>8. CASE ~On(save)
    <3>1. news = {q}
      BY <2>8
    <3>. QED
      BY <1>4, <2>4, <2>5, <2>7, <2>8, <3>1 DEF On
  <2>9. CASE On(save)
    <3>1. place \in news /\ g[place] = disk[save]
      BY <1>3, <2>1, <2>9
    <3>2. disk[save] \in Range(disk')
      BY <2>6, <3>1
    <3>3. CASE ~On(place)
      <4>1. news = {q, place}
        BY <2>9, <3>3 DEF On
      <4>. QED
        BY <1>4, <2>4, <2>5, <2>7, <3>2, <3>3, <4>1 DEF On
    <3>4. CASE On(place)
      <4>1. PICK b : b = BakOf(place, q)
        OBVIOUS
      <4>2. ~On(b) /\ b # q
        BY <1>4, <2>9, <3>4, <4>1, BakIsPath
      <4>3. news = {q, place, b}
        BY <2>9, <3>4, <4>1 DEF On
      <4>4. g[b] = disk[place]
        BY <2>1, <3>4, <4>2, <4>3
      <4>5. disk[place] \in Range(disk')
        BY <2>6, <4>3, <4>4
      <4>. QED
        BY <1>4, <2>4, <2>5, <2>7, <3>2, <4>2, <4>3, <4>5 DEF On
    <3>. QED
      BY <3>3, <3>4
  <2>. QED
    BY <2>8, <2>9
<1>5. disk' = disk \/ \A f \in DOMAIN disk : disk[f] \in Range(disk')
  BY <1>4 DEF RenameFile
<1>. QED
  BY <1>1, <1>5, FilesHold, HeldStay DEF Kept

LEMMA FailHolds ==
    ASSUME NEW k \in Actor, Fail(k)
    PROVE  Kept \subseteq Kept'
<1>1. trash' = trash
  BY DEF Fail
<1>2. CASE UNCHANGED <<disk, replaced>>
  BY <1>1, <1>2, FilesHold
<1>3. ASSUME NEW q, disk' = Put(disk, q, Torn),
             replaced' = IF On(q) THEN replaced \cup {disk[q], Torn} ELSE replaced
      PROVE  Kept \subseteq Kept'
  BY <1>1, <1>3, PutHolds, HeldStay DEF Kept, On
<1>4. \/ UNCHANGED <<disk, replaced>>
      \/ \E m \in run[k].hand.left :
            /\ disk' = Put(disk, Member(To(k), m), Torn)
            /\ replaced' = IF On(Member(To(k), m)) THEN replaced \cup {disk[Member(To(k), m)], Torn} ELSE replaced
  BY DEF Fail
<1>. QED
  BY <1>2, <1>3, <1>4

LEMMA CrashHolds ==
    ASSUME NoClash, Crash
    PROVE  Kept \subseteq Kept'
<1>1. trash' = trash /\ replaced' = replaced
  BY DEF Crash
<1>2. ASSUME NEW k \in Actor, Holding(k, "organize"), On(From(k)), disk' = Moved(From(k), To(k))
      PROVE  Kept \subseteq Kept'
  BY <1>1, <1>2, MoverHolds DEF Holding, Moving
<1>. QED
  BY <1>1, <1>2, FilesHold DEF Crash

LEMMA RunStepHolds ==
    ASSUME StayInv, NoClash, NEW k \in Actor, Step(k)
    PROVE  Kept \subseteq Kept'
<1>1. CASE Advance(k) \/ Look(k) \/ Scan(k) \/ Prune(k) \/ Match(k) \/ RecordRename(k) \/ EnterRow(k)
  <2>1. disk' = disk /\ trash' = trash /\ replaced' = replaced
    BY <1>1 DEF Advance, Look, Scan, Prune, Match, RecordRename, EnterRow, store, seenVars
  <2>. QED
    BY <2>1, FilesHold
<1>. QED
  BY <1>1, MovesHold, DiscardsHold, ExtractHolds, PackHolds, RenameHolds DEF Step

LEMMA CameStays ==
    ASSUME StayInv, NoClash, CameInv, [Next]_vars
    PROVE  CameInv'
<1>1. CASE Arrive
  <2>1. PICK d \in tale.drops : /\ disk' = Put(disk, d.at, d.has)
                                /\ tale' = [tale EXCEPT !.came = @ \cup {d}]
                                /\ replaced' = IF On(d.at) THEN replaced \cup {disk[d.at], d.has} ELSE replaced
    BY <1>1 DEF Arrive
  <2>2. trash' = trash
    BY <1>1 DEF Arrive
  <2>3. Kept \subseteq Kept' /\ d.has \in Kept'
    BY <2>1, <2>2, PutHolds, HeldStay DEF Kept, On
  <2>4. PICK c : c = tale.came \cup {d}
    OBVIOUS
  <2>5. tale'.came = c
    BY <2>1, <2>4 DEF StayInv, DropsOK
  <2>. QED
    BY <2>3, <2>4, <2>5 DEF CameInv
<1>2. CASE ~Arrive
  <2>1. tale' = tale
    BY <1>2 DEF Next, vars, StartByHand, StartRouter, StartWizard, StartInbox, PageResolves, Watch, Wake, Poll, WatcherStarts,
                Fail, Crash, Step, Advance, Look, Move, TryMove, DiscardOne, ExtractMember, Extracted, Pack, DiscardChips,
                Scan, Prune, Match, RenameFile, RecordRename, OrganizeFile, DropDuplicate, Lose, Swap, Enter, EnterRow, Abort
  <2>2. Kept \subseteq Kept'
    <3>1. CASE \E k \in Actor : Step(k) \/ Fail(k)
      BY <3>1, RunStepHolds, FailHolds
    <3>2. CASE Crash
      BY <3>2, CrashHolds
    <3>3. CASE StartByHand \/ StartRouter \/ StartWizard \/ PageResolves \/ Wake \/ Poll \/ WatcherStarts \/ UNCHANGED vars
      <4>1. disk' = disk /\ trash' = trash /\ replaced' = replaced
        BY <3>3 DEF StartByHand, StartRouter, StartWizard, StartInbox, PageResolves, Wake, Poll, WatcherStarts, vars, store, seenVars
      <4>. QED
        BY <4>1, FilesHold
    <3>. QED
      BY <1>2, <3>1, <3>2, <3>3 DEF Next, Watch, Actor
  <2>. QED
    BY <2>1, <2>2 DEF CameInv
<1>. QED
  BY <1>1, <1>2

LEMMA CameInit == ASSUME Init PROVE CameInv
<1>1. PICK s \in Stories :
         tale = [came |-> {}, drops |-> s.drops, users |-> s.users, faults |-> s.faults]
  BY DEF Init
<1>2. tale.came = {}
  BY <1>1
<1>. QED
  BY <1>2 DEF CameInv

LEMMA WithinOf == \A A, B, C, D : A \subseteq B \cup C \cup D => Within(A) \subseteq Within(B) \cup Within(C) \cup Within(D)
<1>1. \A A, B, C, D : A \subseteq B \cup C \cup D => Opened(A) \subseteq Opened(B) \cup Opened(C) \cup Opened(D)
  BY DEF Opened
<1>. QED
  BY <1>1 DEF Within

\* A content that came is lost only where two met: as long as no name that an actor has
\* found free is taken before it moves a file there, every content is on the disk, in the
\* trash, in an archive that is, or was written over by an upload or a second extraction:
\* whoever acts, whatever fails and whenever the process dies.
THEOREM OnlyClashesLose == Spec /\ []NoClash => []NothingLost
<1>1. Init => StayInv /\ CameInv
  BY StayInit, CameInit
<1>2. StayInv /\ [Next]_vars => StayInv'
  BY StayNext
<1>3. StayInv /\ NoClash /\ CameInv /\ [Next]_vars => CameInv'
  BY CameStays
<1>4. CameInv => NothingLost
  BY WithinOf DEF CameInv, NothingLost, Known, Live, Discarded, Kept
<1>. QED
  BY <1>1, <1>2, <1>3, <1>4, PTL DEF Spec
-----------------------------------------------------------------------------
(* The job alone *)

\* Where what is dropped comes, and the places that only the job moves files to.
Landing == {"inbox", "sub", "roms"}
Beyond(p) == p.dir \notin Landing /\ p.ext # "sav"

\* The user starts the job by hand or leaves it to the watcher, saves come some other way,
\* and no platform's folder is one where drops come.
Undisturbed ==
    /\ tale.users \subseteq {"manual"}
    /\ \A d \in tale.drops : d.at.dir \in Landing /\ d.at.ext # "sav"
    /\ \A c \in DOMAIN Inner : \A m \in Inner[c] : m.ext # "sav"
    /\ \A e \in {"rom", "md"} : Platform[e] \notin Landing
    /\ \A x \in DOMAIN Catalog : Catalog[x].platform \notin Landing

\* What the job lists and holds, when nobody else acts.
AloneAt == Zips \cup {"idle", "bios", "md", "chips", "scan", "prune", "match", "plan", "rename",
                      "organize", "archive"}
ListOK(at, op) ==
    /\ at \in Zips => op.from.ext # "sav"
    /\ at \notin {"scan", "match", "rename"} => Beyond(op.to)
JobHandOK(h) ==
    /\ h.do = "extract" => h.from.ext # "sav" /\ \A m \in h.left : m.ext # "sav"
    /\ h.do \in Moving \cup {"swap"} => Beyond(h.to)
JobOK(r) ==
    /\ r.at \in AloneAt /\ JobHandOK(r.hand)
    /\ \A op \in r.todo : ListOK(r.at, op)
    /\ \A p \in r.spent : p.ext # "sav"
OthersIdle ==
    \A k \in Actor \ {"inbox"} :
        /\ run[k].hand = NoHand /\ run[k].todo = {} /\ run[k].at \in {"idle", "start"}
        /\ k = "setup" => run[k].at = "idle"
NoSaves == \A p \in DOMAIN disk : p.ext # "sav"
RowsBeyond == \A p \in DOMAIN rows : rows[p].platform \notin Landing
\* The name that the job found free, and is about to move a file to, still is.
StillFree == run["inbox"].hand.do \in Moving => ~On(To("inbox"))

Alone == JobOK(run["inbox"]) /\ OthersIdle /\ NoSaves /\ RowsBeyond /\ StillFree

LEMMA ListedBeyond ==
    ASSUME StayInv, Alone, NEW phase \in AloneAt
    PROVE  \A op \in Listing("inbox", phase) : ListOK(phase, op)
<1>. SUFFICES ASSUME NEW op \in Listing("inbox", phase) PROVE ListOK(phase, op)
  OBVIOUS
<1>1. CASE phase \in {"scan", "match", "rename"}
  BY <1>1 DEF ListOK, Zips
<1>2. CASE phase \in Zips
  <2>1. op \in ZipOps("inbox", "zip") \/ op \in ZipOps("inbox", "7z")
    BY <1>2 DEF Listing, Zips
  <2>2. PICK ext \in {"zip", "7z"} : op \in ZipOps("inbox", ext)
    BY <2>1
  <2>3. PICK p \in Files("inbox") : p.ext = ext /\ op = Op(p, At("arcade", p.stem, ext))
    BY <2>2 DEF ZipOps
  <2>. QED
    BY <1>2, <2>2, <2>3, AtIs DEF Op, ListOK, Beyond, Landing
<1>3. CASE phase = "bios"
  <2>1. PICK p : p.ext = "bin" /\ op = Op(p, At("bios", p.stem, p.ext))
    BY <1>3 DEF Listing, BiosOps
  <2>. QED
    BY <1>3, <2>1, AtIs DEF Op, ListOK, Beyond, Landing, Zips
<1>4. CASE phase = "md"
  <2>1. PICK p : op = Op(p, At("megadrive", p.stem, "md"))
    BY <1>4 DEF Listing, MdOps
  <2>. QED
    BY <1>4, <2>1, AtIs DEF Op, ListOK, Beyond, Landing, Zips
<1>5. CASE phase = "chips"
  <2>1. PICK m \in Machine : op.to = At("arcade", m.stem, "zip")
    <3>1. PICK m \in Machine : \E S \in Picks(m) :
             op = [from |-> m, to |-> At("arcade", m.stem, "zip"), left |-> S]
      BY <1>5 DEF Listing, ChipOps
    <3>. QED
      BY <3>1
  <2>. QED
    BY <1>5, <2>1, AtIs DEF ListOK, Beyond, Landing, Zips
<1>6. CASE phase = "organize"
  <2>1. PICK p \in DOMAIN rows : op = [from |-> p, to |-> Dest(p), left |-> {rows[p].sha}]
    BY <1>6 DEF Listing, OrganizeOps
  <2>2. IsRow(p) /\ rows[p].platform \notin Landing
    BY DEF StayInv, RowsOK, Alone, RowsBeyond
  <2>3. Dest(p) = At(rows[p].platform, p.stem, p.ext)
    BY <2>2, EditedPath DEF Dest, IsRow
  <2>4. op.to = Dest(p)
    BY <2>1
  <2>. QED
    BY <1>6, <2>2, <2>3, <2>4, AtIs DEF ListOK, Beyond, Zips, IsRow
<1>7. CASE phase \in {"idle", "prune", "archive"}
  <2>1. op \in ArchiveOps("inbox")
    BY <1>7 DEF Listing
  <2>2. PICK p \in run["inbox"].spent : op = Op(p, [p EXCEPT !.dir = "processed"])
    BY <2>1 DEF ArchiveOps
  <2>3. "inbox" \in Actor
    BY DEF Actor, Job
  <2>4. IsPath(p) /\ p.ext # "sav"
    BY <2>3, RunIs DEF StayInv, RunOK, Movable, Alone, JobOK
  <2>5. op.to = At("processed", p.stem, p.ext)
    BY <2>2, <2>4, EditedPath DEF Op
  <2>. QED
    BY <1>7, <2>4, <2>5, AtIs DEF ListOK, Beyond, Landing, Zips
<1>8. CASE phase = "plan"
  BY <1>8 DEF Listing
<1>. QED
  BY <1>1, <1>2, <1>3, <1>4, <1>5, <1>6, <1>7, <1>8 DEF AloneAt

LEMMA FirstOfSome ==
    ASSUME NEW S \in SUBSET (1..13), S # {}
    PROVE  Min(S) \in S /\ \A y \in S : Min(S) =< y
<1>1. \E x \in S : \A y \in S : x =< y
  <2>. SUFFICES ASSUME \A x \in S : \E y \in S : y < x PROVE FALSE
    OBVIOUS
  <2>1. 1 \notin S
    OBVIOUS
  <2>2. 2 \notin S
    BY <2>1
  <2>3. 3 \notin S
    BY <2>1, <2>2
  <2>4. 4 \notin S
    BY <2>1, <2>2, <2>3
  <2>5. 5 \notin S
    BY <2>1, <2>2, <2>3, <2>4
  <2>6. S \subseteq 6..13
    BY <2>1, <2>2, <2>3, <2>4, <2>5
  <2>7. 6 \notin S /\ 7 \notin S
    BY <2>6
  <2>8. S \subseteq 8..13
    BY <2>6, <2>7
  <2>9. 8 \notin S /\ 9 \notin S
    BY <2>8
  <2>10. S \subseteq 10..13
    BY <2>8, <2>9
  <2>11. 10 \notin S /\ 11 \notin S
    BY <2>10
  <2>12. S \subseteq 12..13
    BY <2>10, <2>11
  <2>13. 12 \notin S
    BY <2>12
  <2>14. S \subseteq {13}
    BY <2>12, <2>13
  <2>15. PICK x \in S : TRUE
    OBVIOUS
  <2>. QED
    BY <2>14, <2>15
<1>. QED
  BY <1>1 DEF Min

\* Neither the router nor the saves come next.
LEMMA FollowingIs ==
    ASSUME Alone, run["inbox"].at \notin {"idle", "scan", "prune", "match"}
    PROVE  Following("inbox", run["inbox"].at) \in (AloneAt \ {"idle", "prune"}) \cup {"end"}
<1>. DEFINE phase == run["inbox"].at
            seq == Phases["inbox"]
            now == CHOOSE n \in DOMAIN seq : seq[n] = phase
            later == {n \in DOMAIN seq : n > now /\ (seq[n] = "scan" \/ Listing("inbox", seq[n]) # {})}
<1>1. seq = <<"route", "zips", "sevenzips", "bios", "md", "chips", "saves", "scan", "match",
              "plan", "rename", "organize", "archive">>
  BY DEF Phases
<1>2. DOMAIN seq = 1..13 /\ seq[1] = "route" /\ seq[7] = "saves"
      /\ \A n \in (1..13) \ {1, 7} : seq[n] \in AloneAt \ {"idle", "prune"}
  BY <1>1 DEF AloneAt, Zips
<1>3. phase \in AloneAt
  BY DEF Alone, JobOK
<1>4. \E n \in 1..13 : seq[n] = phase
  <2>1. /\ seq[2] = "zips" /\ seq[3] = "sevenzips" /\ seq[4] = "bios" /\ seq[5] = "md"
        /\ seq[6] = "chips" /\ seq[10] = "plan" /\ seq[11] = "rename" /\ seq[12] = "organize"
        /\ seq[13] = "archive"
    BY <1>1
  <2>. QED
    BY <1>3, <2>1 DEF AloneAt, Zips
<1>5. now \in 1..13
  BY <1>2, <1>4
<1>6. Listing("inbox", "saves") = {}
  BY DEF Listing, SaveOps, Alone, NoSaves
<1>7. later \subseteq (1..13) \ {1, 7}
  <2>. SUFFICES ASSUME NEW n \in later PROVE n \in (1..13) \ {1, 7}
    OBVIOUS
  <2>1. n \in 1..13 /\ n > now /\ (seq[n] = "scan" \/ Listing("inbox", seq[n]) # {})
    BY <1>2
  <2>2. n # 1
    <3>. HIDE DEF now, seq
    <3>. QED
      BY <1>5, <2>1
  <2>3. n # 7
    BY <1>2, <1>6, <2>1
  <2>. QED
    BY <2>1, <2>2, <2>3
<1>8. Following("inbox", phase) = IF later = {} THEN "end" ELSE seq[Min(later)]
  BY DEF Following
<1>9. CASE later # {}
  <2>1. later \in SUBSET (1..13)
    BY <1>7
  <2>2. Min(later) \in later
    BY <1>9, <2>1, FirstOfSome
  <2>. QED
    BY <1>2, <1>7, <1>8, <1>9, <2>2
<1>. QED
  BY <1>8, <1>9

\* What a step of the job owes to the invariant.
LEMMA JobStep ==
    ASSUME StayInv, Alone, NEW r, run' = [run EXCEPT !["inbox"] = r], JobOK(r),
           r.hand.do \in Moving => r.hand.to \notin DOMAIN disk', NoSaves', RowsBeyond'
    PROVE  Alone'
<1>1. "inbox" \in Actor /\ run = [l \in Actor |-> run[l]]
  BY DEF Actor, Job, StayInv, RunsOK
<1>2. run'["inbox"] = r /\ \A k \in Actor \ {"inbox"} : run'[k] = run[k]
  BY <1>1
<1>3. OthersIdle'
  BY <1>2 DEF Alone, OthersIdle
<1>4. StillFree'
  BY <1>2 DEF StillFree, To, On
<1>5. JobOK(run["inbox"])'
  BY <1>2 DEF JobOK, JobHandOK, ListOK
<1>. QED
  BY <1>3, <1>4, <1>5 DEF Alone

LEMMA HandStep ==
    ASSUME StayInv, Alone, NEW h, run' = [run EXCEPT !["inbox"].hand = h], JobHandOK(h),
           h.do \in Moving => h.to \notin DOMAIN disk', NoSaves', RowsBeyond'
    PROVE  Alone'
<1>. DEFINE r == [run["inbox"] EXCEPT !.hand = h]
<1>1. "inbox" \in Actor /\ run = [l \in Actor |-> run[l]] /\ IsRun(run["inbox"])
  BY RunIs DEF Actor, Job, StayInv, RunsOK
<1>2. run' = [run EXCEPT !["inbox"] = r]
  BY <1>1
<1>3. /\ r.hand = h /\ r.at = run["inbox"].at /\ r.todo = run["inbox"].todo
      /\ r.spent = run["inbox"].spent
  BY <1>1 DEF IsRun
<1>4. JobOK(r)
  BY <1>3 DEF Alone, JobOK
<1>. QED
  BY <1>2, <1>3, <1>4, JobStep

LEMMA DoneStep ==
    ASSUME StayInv, Alone, Done("inbox"), NoSaves', RowsBeyond'
    PROVE  Alone'
<1>1. JobHandOK(NoHand) /\ NoHand.do \notin Moving
  BY DEF JobHandOK, NoHand, Moving
<1>. QED
  BY <1>1, HandStep DEF Done

LEMMA AbortStep ==
    ASSUME StayInv, Alone, run' = [run EXCEPT !["inbox"] = Idle], NoSaves', RowsBeyond'
    PROVE  Alone'
<1>1. JobOK(Idle) /\ Idle.hand.do \notin Moving
  BY DEF JobOK, JobHandOK, Idle, NoHand, Moving, AloneAt
<1>. QED
  BY <1>1, JobStep

LEMMA ThenStep ==
    ASSUME StayInv, Alone, NEW act, Then("inbox", act), act # "extract",
           act \in Moving \cup {"swap"} => Beyond(To("inbox")),
           act \in Moving => To("inbox") \notin DOMAIN disk', NoSaves', RowsBeyond'
    PROVE  Alone'
<1>. DEFINE h == [do |-> act, from |-> From("inbox"), to |-> To("inbox"),
                  left |-> run["inbox"].hand.left]
<1>1. "inbox" \in Actor /\ run = [l \in Actor |-> run[l]] /\ IsRun(run["inbox"])
  BY RunIs DEF Actor, Job, StayInv, RunsOK
<1>2. [run["inbox"].hand EXCEPT !.do = act] = h
  BY <1>1 DEF IsRun, From, To
<1>3. run' = [run EXCEPT !["inbox"].hand = h]
  BY <1>1, <1>2 DEF Then, IsRun
<1>4. JobHandOK(h) /\ h.do = act /\ h.to = To("inbox")
  BY DEF JobHandOK
<1>. QED
  BY <1>3, <1>4, HandStep

LEMMA FormStep ==
    ASSUME StayInv, Alone, NEW next \in AloneAt, NEW todo, NEW seen,
           \A op \in todo : ListOK(next, op),
           run' = [run EXCEPT !["inbox"] =
                     Run(next, todo, run["inbox"].hand, run["inbox"].spent,
                         run["inbox"].delete, seen, run["inbox"].saw)],
           disk' = disk, RowsBeyond'
    PROVE  Alone'
<1>. DEFINE r == Run(next, todo, run["inbox"].hand, run["inbox"].spent,
                     run["inbox"].delete, seen, run["inbox"].saw)
<1>1. r.at = next /\ r.todo = todo /\ r.hand = run["inbox"].hand /\ r.spent = run["inbox"].spent
  BY DEF Run
<1>2. JobOK(r)
  BY <1>1 DEF Alone, JobOK
<1>3. r.hand.do \in Moving => r.hand.to \notin DOMAIN disk'
  BY <1>1 DEF Alone, StillFree, To, On
<1>4. NoSaves'
  BY DEF Alone, NoSaves
<1>. QED
  BY <1>2, <1>3, <1>4, JobStep

\* A run that starts.
LEMMA StartStep ==
    ASSUME StayInv, Alone, NEW todo, \A op \in todo : ListOK("zips", op), NEW delete, NEW saw,
           run' = [run EXCEPT !["inbox"] =
                     [Idle EXCEPT !.at = "zips", !.todo = todo, !.delete = delete, !.saw = saw]],
           disk' = disk, rows' = rows
    PROVE  Alone'
<1>1. PICK r : r = [Idle EXCEPT !.at = "zips", !.todo = todo, !.delete = delete, !.saw = saw]
  OBVIOUS
<1>2. r.at = "zips" /\ r.todo = todo /\ r.hand = NoHand /\ r.spent = {}
  BY <1>1 DEF Idle
<1>3. JobOK(r) /\ r.hand.do \notin Moving
  BY <1>2 DEF JobOK, JobHandOK, AloneAt, Zips, NoHand, Moving
<1>4. NoSaves' /\ RowsBeyond'
  BY DEF Alone, NoSaves, RowsBeyond
<1>. QED
  BY <1>1, <1>3, <1>4, JobStep
-----------------------------------------------------------------------------
(* The job's steps *)

LEMMA RowMovedBeyond ==
    ASSUME RowsBeyond, NEW p, NEW q, rows' = RowMoved(p, q)
    PROVE  RowsBeyond'
<1>1. PICK g : g = Without(rows, {p})
  OBVIOUS
<1>2. DOMAIN g \subseteq DOMAIN rows /\ \A f \in DOMAIN g : g[f] = rows[f]
  BY <1>1 DEF Without, Restrict
<1>3. PICK h : h = Without(rows, {q})
  OBVIOUS
<1>4. DOMAIN h \subseteq DOMAIN rows /\ \A f \in DOMAIN h : h[f] = rows[f]
  BY <1>3 DEF Without, Restrict
<1>5. rows' = rows \/ rows' = h \/ (p \in DOMAIN rows /\ rows' = Put(g, q, rows[p]))
  BY <1>1, <1>3 DEF RowMoved, Has
<1>6. CASE p \in DOMAIN rows /\ rows' = Put(g, q, rows[p])
  <2>1. DOMAIN rows' = {q} \cup DOMAIN g /\ \A f \in DOMAIN rows' : rows'[f] = IF f = q THEN rows[p] ELSE g[f]
    BY <1>6 DEF Put
  <2>. QED
    BY <1>2, <1>6, <2>1 DEF RowsBeyond
<1>. QED
  BY <1>4, <1>5, <1>6 DEF RowsBeyond

LEMMA DeleteRowsBeyond ==
    ASSUME RowsBeyond, NEW S, DeleteRows(S)
    PROVE  RowsBeyond'
BY DEF RowsBeyond, DeleteRows, Without, Restrict

LEMMA AdvanceAlone ==
    ASSUME StayInv, Alone, Advance("inbox")
    PROVE  Alone'
<1>. DEFINE i == "inbox"
            next == Following(i, run[i].at)
<1>1. disk' = disk /\ RowsBeyond' /\ NoSaves'
  BY DEF Advance, store, Alone, RowsBeyond, NoSaves
<1>2. next \in AloneAt \cup {"end"}
  BY FollowingIs DEF Advance
<1>3. CASE run' = [run EXCEPT ![i] = Idle]
  BY <1>1, <1>3, AbortStep
<1>4. ASSUME next \in AloneAt, NEW seen, NEW todo, todo = Listing(i, next),
             run' = [run EXCEPT ![i].at = next, ![i].todo = todo, ![i].seen = seen]
      PROVE  Alone'
  <2>1. i \in Actor /\ run = [l \in Actor |-> run[l]] /\ IsRun(run[i])
    BY RunIs DEF Actor, Job, StayInv, RunsOK
  <2>2. PICK n : n = next
    OBVIOUS
  <2>3. PICK x : x = [run[i] EXCEPT !.at = n]
    OBVIOUS
  <2>4. PICK y : y = [x EXCEPT !.todo = todo]
    OBVIOUS
  <2>5. x = Run(n, run[i].todo, run[i].hand, run[i].spent, run[i].delete, run[i].seen, run[i].saw)
    BY <2>1, <2>3 DEF IsRun, Run
  <2>6. y = Run(n, todo, run[i].hand, run[i].spent, run[i].delete, run[i].seen, run[i].saw)
    BY <2>4, <2>5 DEF Run
  <2>7. run' = [run EXCEPT ![i] = [y EXCEPT !.seen = seen]]
    BY <1>4, <2>1, <2>2, <2>3, <2>4
  <2>8. [y EXCEPT !.seen = seen]
          = Run(n, todo, run[i].hand, run[i].spent, run[i].delete, seen, run[i].saw)
    BY <2>6 DEF Run
  <2>9. \A op \in todo : ListOK(n, op)
    BY <1>4, <2>2, ListedBeyond
  <2>. QED
    BY <1>1, <1>4, <2>2, <2>7, <2>8, <2>9, FormStep
<1>. QED
  BY <1>2, <1>3, <1>4 DEF Advance

\* What the job decides to move goes where there was nothing.
LEMMA ChoiceAlone ==
    ASSUME StayInv, Alone, Undisturbed, NEW op \in run["inbox"].todo,
           run["inbox"].at \notin {"scan", "prune", "match"}
    PROVE  LET act == Choice("inbox", op) IN
           /\ act \in Moving => ~On(op.to) /\ Beyond(op.to)
           /\ act = "swap" => Beyond(op.to)
           /\ act = "extract" => /\ op.from.ext # "sav"
                                 /\ \A m \in Members("inbox", op) : m.ext # "sav"
<1>. DEFINE i == "inbox"
            act == Choice(i, op)
<1>1. run[i].at \in AloneAt /\ ListOK(run[i].at, op)
  BY DEF Alone, JobOK
<1>2. CASE run[i].at \in Zips
  <2>1. act = ZipChoice(i, op)
    BY <1>2 DEF Choice, Zips
  <2>2. act \in {"skip", "move", "extract"} /\ (act = "move" => ~On(op.to))
    BY <2>1 DEF ZipChoice
  <2>3. act = "extract" => disk[op.from] \in DOMAIN Inner
    BY <2>1 DEF ZipChoice
  <2>4. act = "extract" => \A m \in Members(i, op) : m.ext # "sav"
    BY <2>3 DEF Members, Undisturbed
  <2>. QED
    BY <1>1, <1>2, <2>2, <2>4 DEF ListOK, Moving, Zips
<1>3. CASE run[i].at = "rename"
  BY <1>3 DEF Choice, Moving
<1>4. CASE run[i].at \in AloneAt \ (Zips \cup {"rename", "scan", "prune", "match"})
  <2>1. Beyond(op.to)
    BY <1>1, <1>4 DEF ListOK
  <2>2. act # "extract" /\ (act \in Moving => ~On(op.to))
    <3>1. CASE run[i].at = "bios"
      BY <3>1 DEF Choice, BiosChoice, Moving
    <3>2. CASE run[i].at \in {"md", "chips"}
      BY <3>2 DEF Choice, Moving
    <3>3. CASE run[i].at = "organize"
      BY <3>3 DEF Choice, OrganizeChoice, ConflictChoice, Moving
    <3>4. CASE run[i].at \in {"idle", "plan", "archive"}
      BY <3>4 DEF Choice, ArchiveChoice, Moving
    <3>. QED
      BY <1>4, <3>1, <3>2, <3>3, <3>4 DEF AloneAt
  <2>. QED
    BY <2>1, <2>2
<1>. QED
  BY <1>1, <1>2, <1>3, <1>4

LEMMA LookAlone ==
    ASSUME StayInv, Alone, Undisturbed, Look("inbox")
    PROVE  Alone'
<1>. DEFINE i == "inbox"
<1>1. disk' = disk /\ RowsBeyond' /\ NoSaves' /\ run[i].at \notin {"scan", "prune", "match"}
  BY DEF Look, store, Alone, RowsBeyond, NoSaves
<1>2. PICK op \in run[i].todo :
         run' = [run EXCEPT ![i].todo = @ \ {op},
                            ![i].hand = IF Choice(i, op) = "skip" THEN NoHand ELSE Shown(i, op)]
  BY DEF Look, Hand, Shown
<1>3. PICK h : h = IF Choice(i, op) = "skip" THEN NoHand ELSE Shown(i, op)
  OBVIOUS
<1>4. i \in Actor /\ run = [l \in Actor |-> run[l]] /\ RunOK(i, run[i]) /\ IsRun(run[i])
  BY RunIs DEF Actor, Job, StayInv, RunsOK
<1>5. JobHandOK(h) /\ (h.do \in Moving => h.to \notin DOMAIN disk')
  <2>1. CASE Choice(i, op) = "skip"
    BY <1>3, <2>1 DEF JobHandOK, NoHand, Moving
  <2>2. CASE Choice(i, op) = "extract"
    <3>1. h.do = "extract" /\ h.from = op.from /\ h.left = Members(i, op)
      BY <1>3, <1>4, <2>2, ShownIs DEF RunOK
    <3>. QED
      BY <1>1, <2>2, <3>1, ChoiceAlone DEF JobHandOK, Moving
  <2>3. CASE Choice(i, op) \notin {"skip", "extract"}
    <3>1. run[i].at # "saves"
      BY DEF Alone, JobOK, AloneAt, Zips
    <3>2. IsOp(op)
      BY <1>4 DEF RunOK
    <3>3. PICK act : act = Choice(i, op)
      OBVIOUS
    <3>4. h = [do |-> act, from |-> op.from, to |-> op.to, left |-> op.left]
      BY <1>3, <2>3, <3>1, <3>2, <3>3, ShownIs
    <3>5. h.do = act /\ h.to = op.to
      BY <3>4
    <3>. QED
      BY <1>1, <2>3, <3>3, <3>5, ChoiceAlone DEF JobHandOK, On
  <2>. QED
    BY <2>1, <2>2, <2>3
<1>6. PICK todo : todo = run[i].todo \ {op}
  OBVIOUS
<1>7. PICK x : x = [run[i] EXCEPT !.todo = todo]
  OBVIOUS
<1>8. x = Run(run[i].at, todo, run[i].hand, run[i].spent, run[i].delete, run[i].seen, run[i].saw)
  BY <1>4, <1>7 DEF IsRun, Run
<1>9. PICK r : r = [x EXCEPT !.hand = h]
  OBVIOUS
<1>10. r.at = run[i].at /\ r.todo = todo /\ r.hand = h /\ r.spent = run[i].spent
  BY <1>8, <1>9 DEF Run
<1>11. run' = [run EXCEPT ![i].todo = todo, ![i].hand = h]
  BY <1>2, <1>3, <1>6
<1>12. run' = [run EXCEPT ![i] = r]
  BY <1>4, <1>7, <1>9, <1>11
<1>13. JobOK(r)
  BY <1>5, <1>6, <1>10 DEF Alone, JobOK
<1>. QED
  BY <1>1, <1>5, <1>10, <1>12, <1>13, JobStep

LEMMA SameFiles == ASSUME Alone, disk' = disk PROVE NoSaves'
BY DEF Alone, NoSaves

LEMMA SameRows == ASSUME Alone, rows' = rows PROVE RowsBeyond'
BY DEF Alone, RowsBeyond

LEMMA MovedNoSave ==
    ASSUME Alone, NEW p, NEW q, On(p), q.ext # "sav", disk' = Moved(p, q)
    PROVE  NoSaves'
BY MovedDomain DEF Alone, NoSaves, On

LEMMA DiscardNoSave ==
    ASSUME Alone, NEW S, Discard(S)
    PROVE  NoSaves'
<1>1. DOMAIN disk' \subseteq DOMAIN disk
  BY DiscardDomain
<1>2. ASSUME NEW p \in DOMAIN disk' PROVE p.ext # "sav"
  BY <1>1 DEF Alone, NoSaves
<1>. QED
  BY <1>2 DEF NoSaves

LEMMA PutNoSave ==
    ASSUME Alone, NEW q, NEW c, q.ext # "sav", disk' = Put(disk, q, c)
    PROVE  NoSaves'
<1>1. DOMAIN disk' = {q} \cup DOMAIN disk
  BY DEF Put
<1>. QED
  BY <1>1 DEF Alone, NoSaves

LEMMA MovesAlone ==
    ASSUME StayInv, Alone, Move("inbox") \/ TryMove("inbox") \/ OrganizeFile("inbox")
    PROVE  Alone'
<1>. DEFINE i == "inbox"
<1>1. To(i).ext # "sav"
  BY DEF Move, TryMove, OrganizeFile, Holding, To, Alone, JobOK, JobHandOK, Moving, Beyond
<1>2. \/ run' = [run EXCEPT ![i] = Idle] /\ disk' = disk /\ rows' = rows
      \/ /\ Done(i) /\ (disk' = disk \/ (On(From(i)) /\ disk' = Moved(From(i), To(i))))
         /\ rows' = rows \/ rows' = RowMoved(From(i), To(i))
  <2>1. CASE Move(i)
    BY <2>1, Zenon DEF Move, Abort, store
  <2>2. CASE TryMove(i)
    BY <2>2, Zenon DEF TryMove
  <2>3. CASE OrganizeFile(i)
    BY <2>3, Zenon DEF OrganizeFile
  <2>. QED
    BY <2>1, <2>2, <2>3
<1>3. NoSaves'
  BY <1>1, <1>2, SameFiles, MovedNoSave
<1>4. RowsBeyond'
  BY <1>2, SameRows, RowMovedBeyond DEF Alone
<1>. QED
  BY <1>2, <1>3, <1>4, AbortStep, DoneStep

LEMMA DiscardsAlone ==
    ASSUME StayInv, Alone,
           DiscardOne("inbox") \/ DropDuplicate("inbox") \/ Lose("inbox")
    PROVE  Alone'
<1>. DEFINE i == "inbox"
<1>1. /\ run' = [run EXCEPT ![i] = Idle] \/ Done(i)
      /\ disk' = disk \/ \E S : Discard(S)
      /\ rows' = rows \/ \E S : DeleteRows(S)
  <2>1. CASE DiscardOne(i)
    BY <2>1 DEF DiscardOne, Abort, store
  <2>3. CASE DropDuplicate(i)
    BY <2>3 DEF DropDuplicate
  <2>4. CASE Lose(i)
    BY <2>4 DEF Lose, DiscardFile
  <2>. QED
    BY <2>1, <2>3, <2>4
<1>2. NoSaves'
  BY <1>1, SameFiles, DiscardNoSave
<1>3. RowsBeyond'
  BY <1>1, SameRows, DeleteRowsBeyond DEF Alone
<1>. QED
  BY <1>1, <1>2, <1>3, AbortStep, DoneStep

LEMMA ChipsAlone ==
    ASSUME StayInv, Alone, DiscardChips("inbox")
    PROVE  Alone'
<1>. DEFINE i == "inbox"
<1>1. i \in Actor /\ RunsOK
  BY DEF Actor, Job, StayInv
<1>2. NoSaves' /\ RowsBeyond'
  BY SameFiles, SameRows, DiscardNoSave DEF Alone, DiscardChips, Abort, store
<1>3. ASSUME NEW T \in SUBSET run[i].todo, run' = [run EXCEPT ![i].todo = T, ![i].hand = NoHand]
      PROVE  Alone'
  <2>1. PICK r : run' = [run EXCEPT ![i] = r]
    BY <1>1, <1>3, PoolKeeps
  <2>2. run'[i] = r
    BY <1>1, <2>1 DEF RunsOK
  <2>3. r.hand = NoHand /\ r.at = run[i].at /\ r.todo = T /\ r.spent = run[i].spent
    BY <1>1, <1>3, <2>2, PoolKeeps
  <2>4. JobOK(r) /\ r.hand.do \notin Moving
    BY <2>3 DEF Alone, JobOK, JobHandOK, NoHand, Moving
  <2>. QED
    BY <1>2, <2>1, <2>4, JobStep
<1>4. CASE Abort(i)
  BY <1>2, <1>4, AbortStep DEF Abort
<1>. QED
  BY <1>1, <1>3, <1>4, PoolStep

LEMMA ExtractAlone ==
    ASSUME StayInv, Alone, ExtractMember("inbox")
    PROVE  Alone'
<1>. DEFINE i == "inbox"
<1>1. PICK m \in run[i].hand.left :
         /\ disk' = Put(disk, Member(To(i), m), m.content)
         /\ run' = [run EXCEPT ![i].hand.left = @ \ {m}]
  BY DEF ExtractMember
<1>2. Holding(i, "extract") /\ rows' = rows
  BY DEF ExtractMember
<1>3. JobHandOK(run[i].hand) /\ i \in Actor /\ run = [l \in Actor |-> run[l]] /\ IsRun(run[i])
  BY RunIs DEF Alone, JobOK, Actor, Job, StayInv, RunsOK
<1>4. m.ext # "sav"
  BY <1>2, <1>3 DEF JobHandOK, Holding
<1>5. NoSaves' /\ RowsBeyond'
  <2>1. Member(To(i), m).ext # "sav"
    BY <1>4, AtIs DEF Member
  <2>. QED
    BY <1>1, <1>2, <2>1, PutNoSave, SameRows
<1>6. PICK left : left = run[i].hand.left \ {m}
  OBVIOUS
<1>7. PICK h : h = [run[i].hand EXCEPT !.left = left]
  OBVIOUS
<1>8. h = [do |-> run[i].hand.do, from |-> run[i].hand.from, to |-> run[i].hand.to, left |-> left]
  BY <1>3, <1>7 DEF IsRun
<1>9. run' = [run EXCEPT ![i].hand = h]
  BY <1>1, <1>3, <1>6, <1>7
<1>10. JobHandOK(h) /\ h.do \notin Moving
  BY <1>2, <1>3, <1>6, <1>8 DEF JobHandOK, Holding, Moving
<1>. QED
  BY <1>5, <1>9, <1>10, HandStep

LEMMA ExtractedAlone ==
    ASSUME StayInv, Alone, Extracted("inbox")
    PROVE  Alone'
<1>. DEFINE i == "inbox"
<1>1. i \in Actor /\ run = [l \in Actor |-> run[l]] /\ IsRun(run[i])
  BY RunIs DEF Actor, Job, StayInv, RunsOK
<1>2. rows' = rows /\ (disk' = disk \/ \E S : Discard(S))
  BY DEF Extracted
<1>3. NoSaves' /\ RowsBeyond'
  BY <1>2, SameFiles, DiscardNoSave, SameRows
<1>4. PICK spent : spent = run[i].spent \cup {From(i)}
  OBVIOUS
<1>5. CASE Done(i)
  BY <1>3, <1>5, DoneStep
<1>6. CASE run' = [run EXCEPT ![i].hand = NoHand, ![i].spent = spent]
  <2>1. PICK x : x = [run[i] EXCEPT !.hand = NoHand]
    OBVIOUS
  <2>2. x = Run(run[i].at, run[i].todo, NoHand, run[i].spent, run[i].delete, run[i].seen, run[i].saw)
    BY <1>1, <2>1 DEF IsRun, Run
  <2>3. PICK r : r = [x EXCEPT !.spent = spent]
    OBVIOUS
  <2>4. r.at = run[i].at /\ r.todo = run[i].todo /\ r.hand = NoHand /\ r.spent = spent
    BY <2>2, <2>3 DEF Run
  <2>5. run' = [run EXCEPT ![i] = r]
    BY <1>1, <1>6, <2>1, <2>3
  <2>6. From(i).ext # "sav"
    BY DEF Extracted, Holding, From, Alone, JobOK, JobHandOK
  <2>7. JobOK(r) /\ r.hand.do \notin Moving
    BY <1>4, <2>4, <2>6 DEF Alone, JobOK, JobHandOK, NoHand, Moving
  <2>. QED
    BY <1>3, <2>5, <2>7, JobStep
<1>7. Done(i) \/ run' = [run EXCEPT ![i].hand = NoHand, ![i].spent = spent]
  <2>1. \/ Done(i)
        \/ run' = [run EXCEPT ![i].hand = NoHand, ![i].spent = run[i].spent \cup {From(i)}]
    BY <1>1 DEF Extracted
  <2>. QED
    BY <1>4, <2>1
<1>. QED
  BY <1>5, <1>6, <1>7

LEMMA PackAlone ==
    ASSUME StayInv, Alone, Pack("inbox")
    PROVE  Alone'
<1>. DEFINE i == "inbox"
<1>1. To(i).ext # "sav" /\ rows' = rows
  BY DEF Pack, Holding, To, Alone, JobOK, JobHandOK, Moving, Beyond
<1>2. CASE disk' = Put(disk, To(i), run[i].hand.from.content) /\ Then(i, "chips")
  BY <1>1, <1>2, PutNoSave, SameRows, ThenStep DEF Moving
<1>3. CASE disk' = disk /\ Done(i)
  BY <1>1, <1>3, SameFiles, SameRows, DoneStep
<1>. QED
  BY <1>2, <1>3 DEF Pack

\* A row read anew has the platform that its extension is detected as.
LEMMA ScanAlone ==
    ASSUME StayInv, Alone, Undisturbed, Scan("inbox")
    PROVE  Alone'
<1>. DEFINE i == "inbox"
<1>1. i \in Actor /\ run = [l \in Actor |-> run[l]] /\ RunOK(i, run[i]) /\ IsRun(run[i])
  BY RunIs DEF Actor, Job, StayInv, RunsOK
<1>2. \A p \in DOMAIN Read(i) : IsRow(p)
  BY <1>1 DEF Scan, Read, RunOK, OpOK
<1>3. PICK found : /\ found = [p \in DOMAIN Read(i) |-> [sha |-> Read(i)[p],
                                                        platform |-> Platform[p.ext]]]
                   /\ rows' = Upserted(found)
  BY DEF Scan
<1>4. \A p \in DOMAIN found : found[p].platform \notin Landing
  BY <1>2, <1>3 DEF Undisturbed, IsRow
<1>5. RowsBeyond'
  <2>1. DOMAIN rows' = DOMAIN found \cup DOMAIN rows
    BY <1>3 DEF Upserted
  <2>2. \A p \in DOMAIN found : rows'[p].platform = found[p].platform
    BY <1>3 DEF Upserted
  <2>3. \A p \in DOMAIN rows \ DOMAIN found : rows'[p] = rows[p]
    BY <1>3 DEF Upserted
  <2>. QED
    BY <1>4, <2>1, <2>2, <2>3 DEF Alone, RowsBeyond
<1>6. PICK todo : todo = {}
  OBVIOUS
<1>7. PICK x : x = [run[i] EXCEPT !.at = "prune"]
  OBVIOUS
<1>8. x = Run("prune", run[i].todo, run[i].hand, run[i].spent, run[i].delete, run[i].seen, run[i].saw)
  BY <1>1, <1>7 DEF IsRun, Run
<1>9. [x EXCEPT !.todo = todo]
        = Run("prune", todo, run[i].hand, run[i].spent, run[i].delete, run[i].seen, run[i].saw)
  BY <1>8 DEF Run
<1>10. run' = [run EXCEPT ![i].at = "prune", ![i].todo = todo]
  BY <1>6 DEF Scan
<1>11. run' = [run EXCEPT ![i] = [x EXCEPT !.todo = todo]]
  BY <1>1, <1>7, <1>10
<1>12. "prune" \in AloneAt /\ disk' = disk /\ \A op \in todo : ListOK("prune", op)
  BY <1>6 DEF AloneAt, Scan
<1>. QED
  BY <1>5, <1>9, <1>11, <1>12, FormStep

LEMMA PruneAlone ==
    ASSUME StayInv, Alone, Prune("inbox")
    PROVE  Alone'
<1>. DEFINE i == "inbox"
<1>1. i \in Actor /\ run = [l \in Actor |-> run[l]] /\ IsRun(run[i])
  BY RunIs DEF Actor, Job, StayInv, RunsOK
<1>2. RowsBeyond' /\ disk' = disk
  BY DeleteRowsBeyond DEF Prune, Alone
<1>3. PICK todo : todo = MatchOps
  OBVIOUS
<1>4. PICK seen : seen = {}
  OBVIOUS
<1>5. PICK x : x = [run[i] EXCEPT !.at = "match"]
  OBVIOUS
<1>6. x = Run("match", run[i].todo, run[i].hand, run[i].spent, run[i].delete, run[i].seen, run[i].saw)
  BY <1>1, <1>5 DEF IsRun, Run
<1>7. PICK y : y = [x EXCEPT !.todo = todo]
  OBVIOUS
<1>8. y = Run("match", todo, run[i].hand, run[i].spent, run[i].delete, run[i].seen, run[i].saw)
  BY <1>6, <1>7 DEF Run
<1>9. [y EXCEPT !.seen = seen]
        = Run("match", todo, run[i].hand, run[i].spent, run[i].delete, seen, run[i].saw)
  BY <1>8 DEF Run
<1>10. run' = [run EXCEPT ![i].at = "match", ![i].todo = todo, ![i].seen = seen]
  BY <1>3, <1>4 DEF Prune
<1>11. run' = [run EXCEPT ![i] = [y EXCEPT !.seen = seen]]
  BY <1>1, <1>5, <1>7, <1>10
<1>12. "match" \in AloneAt /\ \A op \in todo : ListOK("match", op)
  BY DEF AloneAt, ListOK, Zips
<1>. QED
  BY <1>2, <1>9, <1>11, <1>12, FormStep

LEMMA MatchAlone ==
    ASSUME StayInv, Alone, Undisturbed, Match("inbox")
    PROVE  Alone'
<1>. DEFINE i == "inbox"
<1>1. i \in Actor /\ run = [l \in Actor |-> run[l]] /\ IsRun(run[i])
  BY RunIs DEF Actor, Job, StayInv, RunsOK
<1>2. PICK found : /\ rows' = Matched(found)
                   /\ \A p \in DOMAIN found : found[p].platform \notin Landing
  <2>. DEFINE asked == [p \in DOMAIN Read(i) |-> <<Read(i)[p], p.stem>>]
              known == {p \in DOMAIN asked : asked[p] \in DOMAIN Catalog}
              found == [p \in known |-> Catalog[asked[p]]]
  <2>1. rows' = Matched(found)
    BY DEF Match
  <2>2. ASSUME NEW p \in DOMAIN found PROVE found[p].platform \notin Landing
    <3>1. p \in known /\ found[p] = Catalog[asked[p]]
      OBVIOUS
    <3>2. asked[p] \in DOMAIN Catalog
      BY <3>1
    <3>. QED
      BY <3>1, <3>2 DEF Undisturbed
  <2>. QED
    BY <2>1, <2>2
<1>3. RowsBeyond'
  <2>. SUFFICES ASSUME NEW p \in DOMAIN rows' PROVE rows'[p].platform \notin Landing
    BY DEF RowsBeyond
  <2>1. p \in DOMAIN rows
    BY <1>2 DEF Matched
  <2>2. CASE p \notin DOMAIN found
    BY <1>2, <2>1, <2>2 DEF Matched, Alone, RowsBeyond
  <2>3. CASE p \in DOMAIN found
    <3>1. PICK f : f = found[p]
      OBVIOUS
    <3>2. PICK g : g = rows[p]
      OBVIOUS
    <3>3. rows'[p] = [g EXCEPT !.title = f.stem, !.platform = f.platform]
      BY <1>2, <2>1, <2>3, <3>1, <3>2 DEF Matched
    <3>4. rows'[p].platform = f.platform \/ rows'[p].platform = g.platform
      BY <3>3
    <3>. QED
      BY <1>2, <2>1, <2>3, <3>1, <3>2, <3>4 DEF Alone, RowsBeyond
  <2>. QED
    BY <2>2, <2>3
<1>6. PICK todo : todo = {}
  OBVIOUS
<1>7. PICK x : x = [run[i] EXCEPT !.at = "plan"]
  OBVIOUS
<1>8. x = Run("plan", run[i].todo, run[i].hand, run[i].spent, run[i].delete, run[i].seen, run[i].saw)
  BY <1>1, <1>7 DEF IsRun, Run
<1>9. [x EXCEPT !.todo = todo]
        = Run("plan", todo, run[i].hand, run[i].spent, run[i].delete, run[i].seen, run[i].saw)
  BY <1>8 DEF Run
<1>10. run' = [run EXCEPT ![i].at = "plan", ![i].todo = todo]
  BY <1>6 DEF Match
<1>11. run' = [run EXCEPT ![i] = [x EXCEPT !.todo = todo]]
  BY <1>1, <1>7, <1>10
<1>12. "plan" \in AloneAt /\ disk' = disk /\ \A op \in todo : ListOK("plan", op)
  BY <1>6 DEF AloneAt, Match
<1>. QED
  BY <1>3, <1>9, <1>11, <1>12, FormStep

\* Without saves a rename touches the ROM alone.
LEMMA RenamesAlone ==
    ASSUME StayInv, Alone, RenameFile("inbox") \/ RecordRename("inbox") \/ EnterRow("inbox")
    PROVE  Alone'
<1>. DEFINE i == "inbox"
<1>1. CASE RenameFile(i)
  <2>1. IsRow(To(i)) /\ rows' = rows
    BY <1>1, RunIs DEF StayInv, HandOK, RenameFile, Holding, To, Actor, Job
  <2>2. ~On(Companion(From(i)))
    BY AtIs DEF Companion, Alone, NoSaves, On
  <2>3. CASE disk' = disk /\ Done(i)
    BY <2>1, <2>3, SameFiles, SameRows, DoneStep
  <2>4. CASE disk' # disk \/ ~Done(i)
    <3>1. PICK new : /\ DOMAIN new = {To(i)}
                     /\ disk' = Over(new, Without(disk, {From(i), Companion(From(i))}))
                     /\ Then(i, "record")
      BY <1>1, <2>2, <2>4 DEF RenameFile
    <3>2. DOMAIN disk' \subseteq {To(i)} \cup DOMAIN disk
      <4>1. PICK g : g = Without(disk, {From(i), Companion(From(i))})
        OBVIOUS
      <4>2. DOMAIN g \subseteq DOMAIN disk
        BY <4>1 DEF Without, Restrict
      <4>. QED
        BY <3>1, <4>1, <4>2, OverDomain
    <3>3. NoSaves'
      BY <2>1, <3>2 DEF Alone, NoSaves, IsRow
    <3>. QED
      BY <2>1, <3>1, <3>3, SameRows, ThenStep DEF Moving
  <2>. QED
    BY <2>3, <2>4
<1>2. CASE RecordRename(i) \/ EnterRow(i)
  <2>1. disk' = disk /\ Done(i) /\ (rows' = rows \/ rows' = RowMoved(From(i), To(i)))
    BY <1>2 DEF RecordRename, EnterRow
  <2>. QED
    BY <2>1, SameFiles, SameRows, RowMovedBeyond, DoneStep DEF Alone
<1>. QED
  BY <1>1, <1>2

\* The place of the loser is free, and stays so until the winner enters it.
LEMMA SwapAlone ==
    ASSUME StayInv, Alone, Swap("inbox") \/ Enter("inbox")
    PROVE  Alone'
<1>. DEFINE i == "inbox"
<1>1. Beyond(To(i))
  BY DEF Swap, Enter, Holding, To, Alone, JobOK, JobHandOK, Moving
<1>2. CASE Swap(i)
  <2>1. DeleteRows({To(i)}) /\ Then(i, "enter") /\ ((disk' = disk /\ ~On(To(i))) \/ Discard({To(i)}))
    BY <1>2 DEF Swap, DiscardFile
  <2>2. To(i) \notin DOMAIN disk'
    BY <2>1 DEF On, Discard, Without, Restrict
  <2>3. NoSaves' /\ RowsBeyond'
    BY <2>1, SameFiles, DiscardNoSave, DeleteRowsBeyond DEF Alone
  <2>. QED
    BY <1>1, <2>1, <2>2, <2>3, ThenStep
<1>3. CASE Enter(i)
  <2>1. rows' = rows /\ \/ On(From(i)) /\ disk' = Moved(From(i), To(i)) /\ Then(i, "row")
                        \/ disk' = disk /\ Done(i)
    BY <1>3 DEF Enter
  <2>2. NoSaves' /\ RowsBeyond'
    BY <1>1, <2>1, SameFiles, MovedNoSave, SameRows DEF Beyond
  <2>. QED
    BY <2>1, <2>2, ThenStep, DoneStep DEF Moving
<1>. QED
  BY <1>2, <1>3
-----------------------------------------------------------------------------
(* Nobody else *)

LEMMA JobStepAlone ==
    ASSUME StayInv, Alone, Undisturbed, Step("inbox")
    PROVE  Alone'
BY AdvanceAlone, LookAlone, MovesAlone, DiscardsAlone, ChipsAlone, ExtractAlone, ExtractedAlone, PackAlone,
   ScanAlone, PruneAlone, MatchAlone, RenamesAlone, SwapAlone
DEF Step

LEMMA OthersRest ==
    ASSUME Alone, NEW k \in Actor \ {"inbox"}
    PROVE  ~Step(k) /\ ~Fail(k)
<1>1. /\ run[k].hand.do = "none" /\ run[k].todo = {} /\ run[k].at \notin {"scan", "prune", "match"}
      /\ (k \in Job => run[k].at = "idle")
  BY DEF Alone, OthersIdle, NoHand, Job, Actor
<1>2. ~Step(k)
  BY <1>1 DEF Step, Holding, Advance, Look, Move, TryMove, DiscardOne, ExtractMember, Extracted, Pack,
              DiscardChips, Scan, Prune, Match, RenameFile, RecordRename, OrganizeFile, DropDuplicate,
              Lose, Swap, Enter, EnterRow
<1>3. ~Fail(k)
  BY <1>1 DEF Fail, Holding
<1>. QED
  BY <1>2, <1>3

LEMMA WatchAlone ==
    ASSUME StayInv, Alone, Undisturbed,
           StartByHand \/ StartRouter \/ StartWizard \/ PageResolves \/ Wake \/ Poll \/ WatcherStarts
    PROVE  Alone'
<1>. DEFINE i == "inbox"
            w == "watcher"
<1>1. i \in Actor /\ w \in Actor \ {i} /\ run = [l \in Actor |-> run[l]] /\ IsRun(run[w])
  BY RunIs DEF Actor, Job, StayInv, RunsOK
<1>2. disk' = disk /\ rows' = rows
  BY DEF StartByHand, StartRouter, StartWizard, StartInbox, PageResolves, Wake, Poll, WatcherStarts, store
<1>3. NoSaves' /\ RowsBeyond'
  BY <1>2, SameFiles, SameRows
<1>4. SaveOps = {}
  BY DEF SaveOps, Alone, NoSaves
<1>5. ~StartRouter /\ ~StartWizard /\ ~PageResolves /\ ~Wake
  BY <1>4 DEF Undisturbed, StartRouter, StartWizard, PageResolves, Wake
<1>6. \A op \in ZipOps(i, "zip") : ListOK("zips", op)
  <2>1. ZipOps(i, "zip") = Listing(i, "zips") /\ "zips" \in AloneAt
    BY DEF Listing, AloneAt, Zips
  <2>. QED
    BY <2>1, ListedBeyond
<1>7. CASE StartByHand
  <2>1. PICK d : Begin(i, "zips", d)
    BY <1>7 DEF StartByHand, StartInbox
  <2>2. PICK todo : todo = ZipOps(i, "zip")
    OBVIOUS
  <2>3. run' = [run EXCEPT ![i] = [Idle EXCEPT !.at = "zips", !.todo = todo, !.delete = d, !.saw = unseen]]
    BY <2>1, <2>2 DEF Begin, Listing
  <2>. QED
    BY <1>2, <1>6, <2>2, <2>3, StartStep
\* The watcher's thread is idle, or about to start the job.
<1>8. ASSUME NEW x, x.hand = NoHand, x.todo = {}, x.at \in {"idle", "start"},
             run'[w] = x, \A l \in Actor \ {w} : run'[l] = run[l]
      PROVE  Alone'
  <2>1. OthersIdle'
    BY <1>8 DEF Alone, OthersIdle
  <2>2. run'[i] = run[i]
    BY <1>1, <1>8
  <2>3. JobOK(run[i])' /\ StillFree'
    BY <1>2, <2>2 DEF Alone, StillFree, To, On, JobOK, JobHandOK, ListOK
  <2>. QED
    BY <1>3, <2>1, <2>3 DEF Alone
<1>9. CASE Poll
  <2>1. PICK a \in {"idle", "start"} : run' = [run EXCEPT ![w] = [Idle EXCEPT !.at = a]]
    BY <1>9 DEF Poll
  <2>2. PICK x : x = [Idle EXCEPT !.at = a]
    OBVIOUS
  <2>3. x.hand = NoHand /\ x.todo = {} /\ x.at = a
    BY <2>2 DEF Idle
  <2>4. run'[w] = x /\ \A l \in Actor \ {w} : run'[l] = run[l]
    BY <1>1, <2>1, <2>2
  <2>. QED
    BY <1>8, <2>1, <2>3, <2>4
<1>10. CASE WatcherStarts
  <2>1. PICK x : x = [run[w] EXCEPT !.at = "idle"]
    OBVIOUS
  <2>2. x.hand = NoHand /\ x.todo = {} /\ x.at = "idle"
    BY <1>1, <2>1 DEF IsRun, Alone, OthersIdle
  <2>3. PICK wake : wake = [run EXCEPT ![w].at = "idle"]
    OBVIOUS
  <2>4. /\ wake = [l \in Actor |-> wake[l]] /\ wake[w] = x
        /\ \A l \in Actor \ {w} : wake[l] = run[l]
    BY <1>1, <2>1, <2>3
  <2>5. CASE run' = wake
    BY <1>8, <2>2, <2>4, <2>5
  <2>6. ASSUME NEW d,
               run' = [wake EXCEPT ![i] = [Idle EXCEPT !.at = "zips", !.todo = ZipOps(i, "zip"),
                                                       !.delete = d, !.saw = unseen]]
        PROVE  Alone'
    <3>1. PICK r : r = [Idle EXCEPT !.at = "zips", !.todo = ZipOps(i, "zip"), !.delete = d, !.saw = unseen]
      OBVIOUS
    <3>2. r.at = "zips" /\ r.todo = ZipOps(i, "zip") /\ r.hand = NoHand /\ r.spent = {}
      BY <3>1 DEF Idle
    <3>3. run'[i] = r /\ run'[w] = x /\ \A l \in Actor \ {i, w} : run'[l] = run[l]
      BY <1>1, <2>4, <2>6, <3>1
    <3>4. JobOK(r) /\ r.hand.do \notin Moving
      BY <1>6, <3>2 DEF JobOK, JobHandOK, AloneAt, Zips, NoHand, Moving
    <3>5. JobOK(run[i])' /\ StillFree'
      BY <3>3, <3>4 DEF StillFree, JobOK, JobHandOK, ListOK
    <3>6. OthersIdle'
      BY <2>2, <3>3 DEF Alone, OthersIdle
    <3>. QED
      BY <1>3, <3>5, <3>6 DEF Alone
  <2>. QED
    BY <1>10, <2>3, <2>5, <2>6 DEF WatcherStarts
<1>. QED
  BY <1>5, <1>7, <1>9, <1>10

LEMMA FailAlone ==
    ASSUME StayInv, Alone, Fail("inbox")
    PROVE  Alone'
<1>. DEFINE i == "inbox"
<1>1. rows' = rows /\ (run' = [run EXCEPT ![i] = Idle] \/ Done(i))
  BY DEF Fail
<1>2. \/ disk' = disk
      \/ /\ Holding(i, "extract")
         /\ \E m \in run[i].hand.left : disk' = Put(disk, Member(To(i), m), Torn)
  BY DEF Fail
<1>3. ASSUME Holding(i, "extract"), NEW m \in run[i].hand.left, disk' = Put(disk, Member(To(i), m), Torn)
      PROVE  NoSaves'
  <2>1. m.ext # "sav"
    BY <1>3 DEF Alone, JobOK, JobHandOK, Holding
  <2>2. Member(To(i), m).ext # "sav"
    BY <2>1, AtIs DEF Member
  <2>. QED
    BY <1>3, <2>2, PutNoSave
<1>4. NoSaves'
  BY <1>2, <1>3, SameFiles
<1>. QED
  BY <1>1, <1>4, SameRows, AbortStep, DoneStep

\* What comes is no save, and comes to no place that the job moves files to.
LEMMA ArriveAlone ==
    ASSUME StayInv, Alone, Undisturbed, Arrive
    PROVE  Alone'
<1>1. PICK d \in tale.drops : disk' = Put(disk, d.at, d.has)
  BY DEF Arrive
<1>2. run' = run /\ rows' = rows
  BY DEF Arrive
<1>3. d.at.dir \in Landing /\ d.at.ext # "sav"
  BY DEF Undisturbed
<1>4. DOMAIN disk' = {d.at} \cup DOMAIN disk
  BY <1>1 DEF Put
<1>5. StillFree'
  <2>1. CASE run["inbox"].hand.do \in Moving
    <3>1. Beyond(To("inbox")) /\ ~On(To("inbox"))
      BY <2>1 DEF Alone, JobOK, JobHandOK, StillFree, To
    <3>2. To("inbox") # d.at
      BY <1>3, <3>1 DEF Beyond
    <3>. QED
      BY <1>2, <1>4, <3>1, <3>2 DEF StillFree, On, To
  <2>2. CASE run["inbox"].hand.do \notin Moving
    BY <1>2, <2>2 DEF StillFree
  <2>. QED
    BY <2>1, <2>2
<1>6. JobOK(run["inbox"])' /\ OthersIdle'
  BY <1>2 DEF Alone, JobOK, JobHandOK, ListOK, OthersIdle
<1>. QED
  BY <1>1, <1>2, <1>3, <1>5, <1>6, PutNoSave, SameRows DEF Alone

LEMMA CrashAlone ==
    ASSUME StayInv, Alone, Crash
    PROVE  Alone'
<1>1. run' = [k \in Actor |-> Idle] /\ rows' = rows
  BY DEF Crash
<1>2. NoSaves'
  <2>1. ASSUME NEW k \in Actor, Holding(k, "organize"), On(From(k)), disk' = Moved(From(k), To(k))
        PROVE  NoSaves'
    <3>1. IsRow(To(k))
      BY <2>1, RunIs DEF StayInv, HandOK, Holding, To
    <3>. QED
      BY <2>1, <3>1, MovedNoSave DEF IsRow
  <2>. QED
    BY <2>1, SameFiles DEF Crash
<1>3. JobOK(run["inbox"])' /\ StillFree' /\ OthersIdle'
  BY <1>1 DEF Actor, Job, JobOK, JobHandOK, StillFree, OthersIdle, Idle, NoHand, Moving, AloneAt
<1>. QED
  BY <1>1, <1>2, <1>3, SameRows DEF Alone

LEMMA AloneStays ==
    ASSUME StayInv, Alone, Undisturbed, [Next]_vars
    PROVE  Alone'
<1>1. CASE UNCHANGED vars
  BY <1>1 DEF vars, store, Alone, JobOK, JobHandOK, ListOK, OthersIdle, NoSaves, RowsBeyond, StillFree, To, On
<1>2. CASE \E k \in Actor : Step(k) \/ Fail(k)
  BY <1>2, OthersRest, JobStepAlone, FailAlone
<1>3. "watcher" \in Actor
  BY DEF Actor
<1>. QED
  BY <1>1, <1>2, <1>3, WatchAlone, ArriveAlone, CrashAlone DEF Next, Watch

\* The users and the drops of a story are what they are.
LEMMA DropsStay ==
    ASSUME StayInv, [Next]_vars
    PROVE  tale'.users = tale.users /\ tale'.drops = tale.drops
<1>1. CASE Arrive
  <2>1. PICK c : tale' = [tale EXCEPT !.came = c]
    BY <1>1 DEF Arrive
  <2>. QED
    BY <2>1 DEF StayInv, DropsOK
<1>2. CASE ~Arrive
  BY <1>2 DEF Next, vars, StartByHand, StartRouter, StartWizard, StartInbox, PageResolves, Watch, Wake, Poll,
              WatcherStarts, Fail, Crash, Step, Advance, Look, Move, TryMove, DiscardOne, ExtractMember,
              Extracted, Pack, DiscardChips, Scan, Prune, Match, RenameFile, RecordRename, OrganizeFile,
              DropDuplicate, Lose, Swap, Enter, EnterRow, Abort
<1>. QED
  BY <1>1, <1>2

LEMMA TaleStays ==
    ASSUME StayInv, [Next]_vars, Undisturbed'
    PROVE  Undisturbed
BY DropsStay DEF Undisturbed

LEMMA AloneInit == ASSUME Init PROVE Alone
<1>1. run = [k \in Actor |-> Idle] /\ DOMAIN disk = {} /\ DOMAIN rows = {}
  BY DEF Init
<1>2. JobOK(run["inbox"]) /\ StillFree /\ OthersIdle
  BY <1>1 DEF Actor, Job, JobOK, JobHandOK, StillFree, OthersIdle, Idle, NoHand, Moving, AloneAt
<1>. QED
  BY <1>1, <1>2 DEF Alone, NoSaves, RowsBeyond

LEMMA AloneNoClash == ASSUME Alone PROVE NoClash
<1>1. ~Clash("inbox")
  BY DEF Alone, StillFree, Clash
<1>2. ASSUME NEW k \in Actor \ {"inbox"} PROVE ~Clash(k)
  BY DEF Alone, OthersIdle, NoHand, Clash, Moving
<1>. QED
  BY <1>1, <1>2 DEF NoClash

\* The job alone loses nothing: without the page, the wizard and the router, and with saves
\* that come some other way, every content that comes to the Inbox or the root is kept, but
\* for what an upload or a second extraction wrote over, whatever comes while a run is on,
\* whoever starts the runs, whatever fails and whenever the process dies (inbox_pipeline.py
\* 24-38).
THEOREM AloneNothingIsLost == Spec => [](Undisturbed => NothingLost)
<1>. DEFINE Inv == StayInv /\ (Undisturbed => Alone /\ CameInv)
<1>1. Init => Inv
  BY StayInit, CameInit, AloneInit
<1>2. Inv /\ [Next]_vars => Inv'
  <2>. SUFFICES ASSUME Inv, [Next]_vars PROVE Inv'
    OBVIOUS
  <2>1. StayInv'
    BY StayNext
  <2>2. Undisturbed' => Alone' /\ CameInv'
    BY TaleStays, AloneStays, AloneNoClash, CameStays
  <2>. QED
    BY <2>1, <2>2
<1>3. Inv => (Undisturbed => NothingLost)
  BY WithinOf DEF CameInv, NothingLost, Known, Live, Discarded, Kept
<1>. QED
  BY <1>1, <1>2, <1>3, PTL DEF Spec
-----------------------------------------------------------------------------
(* The rows of the job alone *)

\* The folders of the platforms are not those of the Inbox, and None is no content.
Contents == {Torn} \cup {d.has : d \in tale.drops} \cup {m.content : m \in Machine}
            \cup {m.content : m \in UNION {Inner[c] : c \in DOMAIN Inner}}
Apart ==
    /\ \A e \in {"rom", "md"} : Platform[e] \notin InboxDir
    /\ \A x \in DOMAIN Catalog : Catalog[x].platform \notin InboxDir
    /\ None \notin Contents
Real == \A p \in DOMAIN disk : disk[p] # None

\* What the job may be doing in each phase.
Acts(at) ==
    CASE at \in Zips -> {"none", "move", "extract"}
      [] at = "bios" -> {"none", "move", "discard"}
      [] at = "md" -> {"none", "move"}
      [] at = "chips" -> {"none", "pack", "chips"}
      [] at = "rename" -> {"none", "rename", "record"}
      [] at = "organize" -> {"none", "organize", "dup"} \cup Conflict
      [] at = "archive" -> {"none", "tidy", "try"}
      [] OTHER -> {"none"}

\* The names that each phase takes a file from and moves it to.
Zipped(p) == p.dir \in InboxDir /\ Archive(p)
Sorted(at, op) ==
    /\ at \in Zips => Zipped(op.from) /\ Archive(op.to) /\ op.to.dir = "arcade"
    /\ at = "bios" => /\ op.from.ext = "bin" /\ op.from.dir # "bios"
                      /\ op.to.ext = "bin" /\ op.to.dir = "bios"
    /\ at = "md" => /\ op.from.ext = "md" /\ op.from.dir = "inbox"
                    /\ op.to.ext = "md" /\ op.to.dir = "megadrive"
    /\ at = "chips" => /\ op.to.ext = "zip" /\ op.to.dir = "arcade"
                       /\ op.from \in Machine /\ \A f \in op.left : f.ext = "chip"
    /\ at = "rename" => /\ op.from.dir \in InboxDir /\ op.to.dir = op.from.dir
                        /\ op.to.ext = op.from.ext /\ op.to # op.from /\ IsRom(op.from)
    /\ at = "organize" => op.from.dir \in InboxDir /\ op.to.dir \notin InboxDir
    /\ at = "archive" => Zipped(op.from) /\ op.to = [op.from EXCEPT !.dir = "processed"]
HandSorted(r) ==
    /\ r.hand.do \in Acts(r.at)
    /\ r.hand.do \notin {"none", "extract"} => Sorted(r.at, r.hand)
    /\ r.hand.do = "extract" =>
          /\ Zipped(r.hand.from) /\ r.hand.to = r.hand.from
          /\ \A m \in r.hand.left : \E c \in DOMAIN Inner : m \in Inner[c]
JobSorted(r) ==
    /\ HandSorted(r)
    /\ \A op \in r.todo : Sorted(r.at, op)
    /\ \A p \in r.spent : Zipped(p)
    /\ r.at \in {"idle", "plan"} => r.todo = {}
RowsSorted == \A p \in DOMAIN rows : rows[p].platform \notin InboxDir /\ (p.dir \in InboxDir => IsRom(p))

\* The row of a path tells its content.
TellsOf(p, q) == rows[p].sha = disk[q] \/ disk[q] \in replaced
Right(p) == On(p) /\ TellsOf(p, p)

\* The phases after the scan, and the file that is parted from its row.
Scanned == {"match", "plan", "rename", "organize"}
Parted(r, p) == r.hand.do \in {"record", "row"} /\ p = r.hand.from
Unread(r, p) == p.dir \in InboxDir /\ (r.at \notin Scanned \/ Parted(r, p))
RowsRight == \A p \in DOMAIN rows : Right(p) \/ Unread(run["inbox"], p)

SeenRight(r) ==
    /\ r.at \in {"scan", "prune"} => \A p \in r.seen : On(p) /\ p.dir \in InboxDir
    /\ r.at = "scan" =>
         /\ \A op \in r.todo :
              /\ On(op.from) /\ op.from.dir \in InboxDir /\ IsRom(op.from)
              /\ op.left = {The(op.left)} /\ The(op.left) # None
              /\ (The(op.left) = disk[op.from] \/ disk[op.from] \in replaced)
         /\ \A op, other \in r.todo : op.from = other.from => op = other
         /\ \A p \in r.seen \cap DOMAIN rows : Right(p) \/ \E op \in r.todo : op.from = p
    /\ r.at = "prune" => \A p \in r.seen \cap DOMAIN rows : Right(p)

\* Between the move of a file and its row, the new name has the file and no row.
MidMove(r) ==
    r.hand.do \in {"record", "row"} =>
        /\ On(r.hand.to) /\ ~Has(r.hand.to)
        /\ Has(r.hand.from) => TellsOf(r.hand.from, r.hand.to)

RowsInv ==
    /\ JobSorted(run["inbox"]) /\ RowsSorted /\ RowsRight
    /\ SeenRight(run["inbox"]) /\ MidMove(run["inbox"])
-----------------------------------------------------------------------------
(* What the operations of the store do *)

LEMMA MovedIs ==
    ASSUME NEW p, NEW q, On(p), p # q, disk' = Moved(p, q)
    PROVE  /\ DOMAIN disk' = (DOMAIN disk \ {p}) \cup {q} /\ disk'[q] = disk[p]
           /\ \A f \in DOMAIN disk \ {p, q} : disk'[f] = disk[f]
BY DEF Moved, Put, Without, Restrict

LEMMA RowMovedIs ==
    ASSUME NEW p, NEW q, p # q, ~Has(q), rows' = RowMoved(p, q)
    PROVE  /\ Has(p) => /\ DOMAIN rows' = (DOMAIN rows \ {p}) \cup {q} /\ rows'[q] = rows[p]
                        /\ \A f \in DOMAIN rows \ {p} : rows'[f] = rows[f]
           /\ ~Has(p) => DOMAIN rows' = DOMAIN rows /\ \A f \in DOMAIN rows : rows'[f] = rows[f]
<1>1. CASE Has(p)
  BY <1>1 DEF RowMoved, Put, Without, Restrict, Has
<1>2. CASE ~Has(p)
  BY <1>2 DEF RowMoved, Without, Restrict, Has
<1>. QED
  BY <1>1, <1>2

LEMMA DeletedIs ==
    ASSUME NEW S, DeleteRows(S)
    PROVE  DOMAIN rows' = DOMAIN rows \ S /\ \A f \in DOMAIN rows' : rows'[f] = rows[f]
BY DEF DeleteRows, Without, Restrict

LEMMA DiscardedIs ==
    ASSUME NEW S, Discard(S)
    PROVE  /\ DOMAIN disk' = DOMAIN disk \ S /\ \A f \in DOMAIN disk' : disk'[f] = disk[f]
           /\ trash' = trash \cup {disk[p] : p \in S}
BY DEF Discard, Without, Restrict

LEMMA PutIs ==
    ASSUME NEW q, NEW c, disk' = Put(disk, q, c)
    PROVE  /\ DOMAIN disk' = {q} \cup DOMAIN disk /\ disk'[q] = c
           /\ \A f \in DOMAIN disk \ {q} : disk'[f] = disk[f]
BY DEF Put

\* What becomes of the job.
LEMMA JobIs ==
    ASSUME StayInv
    PROVE  /\ "inbox" \in Actor /\ run = [l \in Actor |-> run[l]]
           /\ IsRun(run["inbox"]) /\ RunOK("inbox", run["inbox"])
BY RunIs DEF Actor, Job, StayInv, RunsOK

LEMMA JobHand ==
    ASSUME StayInv, NEW h, run' = [run EXCEPT !["inbox"].hand = h]
    PROVE  /\ run'["inbox"].hand = h /\ run'["inbox"].at = run["inbox"].at
           /\ run'["inbox"].todo = run["inbox"].todo /\ run'["inbox"].spent = run["inbox"].spent
           /\ run'["inbox"].seen = run["inbox"].seen
<1>1. PICK r : r = [run["inbox"] EXCEPT !.hand = h]
  OBVIOUS
<1>2. r = Run(run["inbox"].at, run["inbox"].todo, h, run["inbox"].spent, run["inbox"].delete,
              run["inbox"].seen, run["inbox"].saw)
  BY <1>1, JobIs DEF IsRun, Run
<1>3. run'["inbox"] = r
  BY <1>1, JobIs
<1>. QED
  BY <1>2, <1>3 DEF Run

LEMMA JobIdle ==
    ASSUME StayInv, run' = [run EXCEPT !["inbox"] = Idle] \/ run' = [k \in Actor |-> Idle]
    PROVE  /\ run'["inbox"].at = "idle" /\ run'["inbox"].hand = NoHand
           /\ run'["inbox"].todo = {} /\ run'["inbox"].spent = {} /\ run'["inbox"].seen = {}
BY JobIs DEF Idle

LEMMA JobThen ==
    ASSUME StayInv, NEW act, Then("inbox", act)
    PROVE  \E h : /\ run' = [run EXCEPT !["inbox"].hand = h] /\ h.do = act
                  /\ h.from = From("inbox") /\ h.to = To("inbox") /\ h.left = run["inbox"].hand.left
<1>1. PICK h : h = [run["inbox"].hand EXCEPT !.do = act]
  OBVIOUS
<1>2. /\ h.do = act /\ h.from = From("inbox") /\ h.to = To("inbox")
      /\ h.left = run["inbox"].hand.left
  BY <1>1, JobIs DEF IsRun, From, To
<1>3. run' = [run EXCEPT !["inbox"].hand = h]
  BY <1>1, JobIs DEF Then, IsRun
<1>. QED
  BY <1>2, <1>3

\* What a step of the job owes to the invariant, when it only changes what is in hand.
LEMMA HandRows ==
    ASSUME StayInv, RowsInv, run["inbox"].at \notin {"scan", "prune"},
           NEW h, run' = [run EXCEPT !["inbox"].hand = h],
           h.do \in Acts(run["inbox"].at),
           h.do \notin {"none", "extract"} => Sorted(run["inbox"].at, h),
           h.do = "extract" => /\ Zipped(h.from) /\ h.to = h.from
                               /\ \A m \in h.left : \E c \in DOMAIN Inner : m \in Inner[c],
           h.do \in {"record", "row"} =>
               /\ h.to \in DOMAIN disk' /\ h.to \notin DOMAIN rows'
               /\ h.from \in DOMAIN rows' => rows'[h.from].sha = disk'[h.to] \/ disk'[h.to] \in replaced',
           RowsSorted', RowsRight'
    PROVE  RowsInv'
<1>1. /\ run'["inbox"].hand = h /\ run'["inbox"].at = run["inbox"].at
      /\ run'["inbox"].todo = run["inbox"].todo /\ run'["inbox"].spent = run["inbox"].spent
  BY JobHand
<1>2. JobSorted(run["inbox"])'
  BY <1>1 DEF RowsInv, JobSorted, HandSorted, Sorted, Acts, Zipped, Archive, IsRom, Zips
<1>3. SeenRight(run["inbox"])'
  BY <1>1 DEF SeenRight
<1>4. MidMove(run["inbox"])'
  BY <1>1 DEF MidMove, On, Has, TellsOf
<1>. QED
  BY <1>2, <1>3, <1>4 DEF RowsInv

\* Of what may be in hand, and of nothing in hand.
LEMMA ActsAt ==
    ASSUME NEW at
    PROVE  /\ "none" \in Acts(at)
           /\ "move" \in Acts(at) => at \in Zips \cup {"bios", "md"}
           /\ "extract" \in Acts(at) => at \in Zips
           /\ "try" \in Acts(at) \/ "tidy" \in Acts(at) => at = "archive"
           /\ "discard" \in Acts(at) => at = "bios"
           /\ "pack" \in Acts(at) \/ "chips" \in Acts(at) => at = "chips"
           /\ "rename" \in Acts(at) \/ "record" \in Acts(at) => at = "rename"
           /\ (\E act \in {"organize", "dup"} \cup Conflict : act \in Acts(at)) => at = "organize"
BY DEF Acts, Zips, Conflict

LEMMA Busy ==
    ASSUME RowsInv, run["inbox"].hand.do # "none"
    PROVE  /\ run["inbox"].hand.do \in Acts(run["inbox"].at)
           /\ run["inbox"].at \in Zips \cup {"bios", "md", "chips", "rename", "organize", "archive"}
           /\ run["inbox"].at \notin {"scan", "prune", "match", "plan", "idle"}
BY DEF RowsInv, JobSorted, HandSorted, Acts, Zips

LEMMA DoneRows ==
    ASSUME StayInv, RowsInv, run["inbox"].hand.do # "none",
           Done("inbox") \/ run' = [run EXCEPT !["inbox"] = Idle],
           RowsSorted', RowsRight'
    PROVE  RowsInv'
<1>1. CASE Done("inbox")
  <2>1. PICK h : h = NoHand
    OBVIOUS
  <2>2. h.do = "none" /\ run' = [run EXCEPT !["inbox"].hand = h]
    BY <1>1, <2>1 DEF Done, NoHand
  <2>3. run["inbox"].at \notin {"scan", "prune"} /\ h.do \in Acts(run["inbox"].at)
    BY <2>2, Busy, ActsAt
  <2>. QED
    BY <2>2, <2>3, HandRows
<1>2. CASE run' = [run EXCEPT !["inbox"] = Idle]
  BY <1>2, JobIdle DEF RowsInv, JobSorted, HandSorted, Acts, Zips, SeenRight, MidMove, NoHand
<1>. QED
  BY <1>1, <1>2

LEMMA SameRowsSorted == ASSUME RowsInv, rows' = rows PROVE RowsSorted'
BY DEF RowsInv, RowsSorted, IsRom

\* Before the scan, only the rows outside the Inbox are spoken of.
LEMMA AsideRight ==
    ASSUME RowsInv, RowsOK, rows' = rows, replaced \subseteq replaced',
           run'["inbox"].at \notin Scanned,
           \A p \in DOMAIN disk : IsRow(p) /\ p.dir \notin InboxDir =>
               p \in DOMAIN disk' /\ (disk'[p] = disk[p] \/ disk'[p] \in replaced')
    PROVE  RowsRight'
<1>. SUFFICES ASSUME NEW p \in DOMAIN rows, p.dir \notin InboxDir PROVE Right(p)'
  BY DEF RowsRight, Unread
<1>1. Right(p) /\ IsRow(p)
  BY DEF RowsInv, RowsRight, Unread, RowsOK
<1>. QED
  BY <1>1 DEF Right, On, TellsOf
-----------------------------------------------------------------------------
(* The lists and the looks of the job alone *)

LEMMA ListedSorted ==
    ASSUME StayInv, Alone, RowsInv, NEW phase \in AloneAt
    PROVE  \A op \in Listing("inbox", phase) : Sorted(phase, op)
<1>. SUFFICES ASSUME NEW op \in Listing("inbox", phase) PROVE Sorted(phase, op)
  OBVIOUS
<1>1. CASE phase \in {"idle", "scan", "prune", "match", "plan"}
  BY <1>1 DEF Sorted, Zips
<1>2. CASE phase \in Zips
  <2>1. PICK ext \in {"zip", "7z"} : op \in ZipOps("inbox", ext)
    BY <1>2 DEF Listing, Zips
  <2>2. PICK p \in Files("inbox") : p.ext = ext /\ op = Op(p, At("arcade", p.stem, ext))
    BY <2>1 DEF ZipOps
  <2>3. p.dir \in InboxDir /\ op.from = p /\ op.to = At("arcade", p.stem, ext)
    BY <2>2 DEF Files, Op
  <2>. QED
    BY <1>2, <2>1, <2>2, <2>3, AtIs DEF Sorted, Zips, Zipped, Archive
<1>3. CASE phase = "bios"
  <2>1. PICK p \in Files("inbox") : /\ p.ext = "bin" /\ p.dir # "bios"
                                     /\ op = Op(p, At("bios", p.stem, p.ext))
    BY <1>3 DEF Listing, BiosOps
  <2>2. op.from = p /\ op.to = At("bios", p.stem, p.ext)
    BY <2>1 DEF Op
  <2>. QED
    BY <1>3, <2>1, <2>2, AtIs DEF Sorted, Zips
<1>4. CASE phase = "md"
  <2>1. PICK p \in DOMAIN disk : /\ p.ext = "md" /\ p.dir = "inbox"
                                 /\ op = Op(p, At("megadrive", p.stem, "md"))
    BY <1>4 DEF Listing, MdOps
  <2>2. op.from = p /\ op.to = At("megadrive", p.stem, "md")
    BY <2>1 DEF Op
  <2>. QED
    BY <1>4, <2>1, <2>2, AtIs DEF Sorted, Zips
<1>5. CASE phase = "chips"
  <2>1. PICK m \in Machine : \E S \in Picks(m) :
           op = [from |-> m, to |-> At("arcade", m.stem, "zip"), left |-> S]
    BY <1>5 DEF Listing, ChipOps
  <2>2. op.from = m /\ op.to = At("arcade", m.stem, "zip") /\ \A f \in op.left : f.ext = "chip"
    BY <2>1 DEF Picks, Chips
  <2>. QED
    BY <1>5, <2>2, AtIs DEF Sorted, Zips
<1>6. CASE phase = "rename"
  <2>1. PICK p \in Pending : p.dir \in InboxDir /\ op = Op(p, Target(p))
    BY <1>6 DEF Listing, RenameOps
  <2>2. p \in DOMAIN rows /\ Target(p) # p
    BY <2>1 DEF Pending
  <2>3. IsPath(p) /\ IsRom(p)
    BY <2>1, <2>2 DEF StayInv, RowsOK, IsRow, RowsInv, RowsSorted
  <2>4. Target(p) = At(p.dir, rows[p].title, p.ext)
    BY <2>3, EditedPath DEF Target
  <2>5. op.from = p /\ op.to = Target(p)
    BY <2>1 DEF Op
  <2>. QED
    BY <1>6, <2>1, <2>2, <2>3, <2>4, <2>5, AtIs DEF Sorted, Zips
<1>7. CASE phase = "organize"
  <2>1. PICK p \in DOMAIN rows : /\ p.dir \in InboxDir
                                 /\ op = [from |-> p, to |-> Dest(p), left |-> {rows[p].sha}]
    BY <1>7 DEF Listing, OrganizeOps
  <2>2. IsPath(p) /\ rows[p].platform \notin InboxDir
    BY DEF StayInv, RowsOK, IsRow, RowsInv, RowsSorted
  <2>3. Dest(p) = At(rows[p].platform, p.stem, p.ext)
    BY <2>2, EditedPath DEF Dest
  <2>4. op.from = p /\ op.to = Dest(p)
    BY <2>1
  <2>. QED
    BY <1>7, <2>1, <2>2, <2>3, <2>4, AtIs DEF Sorted, Zips
<1>8. CASE phase = "archive"
  <2>1. PICK p \in run["inbox"].spent : op = Op(p, [p EXCEPT !.dir = "processed"])
    BY <1>8 DEF Listing, ArchiveOps
  <2>2. Zipped(p)
    BY DEF RowsInv, JobSorted
  <2>3. op.from = p /\ op.to = [p EXCEPT !.dir = "processed"]
    BY <2>1 DEF Op
  <2>. QED
    BY <1>8, <2>2, <2>3 DEF Sorted, Zips
<1>. QED
  BY <1>1, <1>2, <1>3, <1>4, <1>5, <1>6, <1>7, <1>8 DEF AloneAt

\* The scan comes before what goes by its rows.
LEMMA ScanFirst ==
    ASSUME Alone, run["inbox"].at \notin {"idle", "scan", "prune", "match"},
           Following("inbox", run["inbox"].at) \in Scanned
    PROVE  run["inbox"].at \in Scanned
<1>. DEFINE phase == run["inbox"].at
            seq == Phases["inbox"]
            now == CHOOSE n \in DOMAIN seq : seq[n] = phase
            later == {n \in DOMAIN seq : n > now /\ (seq[n] = "scan" \/ Listing("inbox", seq[n]) # {})}
<1>. SUFFICES ASSUME phase \notin Scanned PROVE FALSE
  OBVIOUS
<1>1. seq = <<"route", "zips", "sevenzips", "bios", "md", "chips", "saves", "scan", "match",
              "plan", "rename", "organize", "archive">>
  BY DEF Phases
<1>2. /\ DOMAIN seq = 1..13 /\ seq[1] = "route" /\ seq[2] = "zips" /\ seq[3] = "sevenzips" /\ seq[4] = "bios"
      /\ seq[5] = "md" /\ seq[6] = "chips" /\ seq[7] = "saves" /\ seq[8] = "scan"
      /\ seq[9] = "match" /\ seq[10] = "plan" /\ seq[11] = "rename" /\ seq[12] = "organize"
      /\ seq[13] = "archive"
  BY <1>1
<1>3. phase \in Zips \cup {"bios", "md", "chips", "archive"}
  BY DEF Alone, JobOK, AloneAt, Scanned
<1>4. \E n \in 1..13 : seq[n] = phase
  BY <1>2, <1>3 DEF Zips
<1>5. now \in 1..13 /\ seq[now] = phase
  BY <1>2, <1>4
<1>6. now \in 2..6 \/ now = 13
  <2>1. PICK n : n = now
    OBVIOUS
  <2>2. n \in 1..13 /\ seq[n] = phase
    BY <1>5, <2>1
  <2>3. n # 1 /\ n # 7 /\ n # 8 /\ n # 9 /\ n # 10 /\ n # 11 /\ n # 12
    BY <1>2, <1>3, <2>2 DEF Zips
  <2>. QED
    BY <2>1, <2>2, <2>3
<1>7. later \in SUBSET (1..13)
  BY <1>2
<1>8. Following("inbox", phase) = IF later = {} THEN "end" ELSE seq[Min(later)]
  BY DEF Following
<1>9. later # {}
  BY <1>8 DEF Scanned
<1>10. PICK least : least = Min(later)
  OBVIOUS
<1>11. least \in later /\ \A n \in later : least =< n
  BY <1>7, <1>9, <1>10, FirstOfSome
<1>12. CASE now = 13
  <2>. HIDE DEF now, seq
  <2>. QED
    BY <1>2, <1>7, <1>11, <1>12
<1>13. CASE now \in 2..6
  <2>1. 8 \in later
    <3>. HIDE DEF now, seq
    <3>. QED
      BY <1>2, <1>13
  <2>2. least \in 1..8
    BY <1>7, <1>11, <2>1
  <2>3. seq[least] \notin Scanned
    <3>. HIDE DEF seq
    <3>. QED
      BY <1>2, <2>2 DEF Scanned
  <2>. QED
    BY <1>8, <1>9, <1>10, <2>3
<1>. QED
  BY <1>6, <1>12, <1>13

LEMMA JobForm ==
    ASSUME StayInv, NEW n, NEW todo, NEW seen,
           run' = [run EXCEPT !["inbox"].at = n, !["inbox"].todo = todo, !["inbox"].seen = seen]
    PROVE  /\ run'["inbox"].at = n /\ run'["inbox"].todo = todo /\ run'["inbox"].seen = seen
           /\ run'["inbox"].hand = run["inbox"].hand /\ run'["inbox"].spent = run["inbox"].spent
<1>1. PICK x : x = [run["inbox"] EXCEPT !.at = n]
  OBVIOUS
<1>2. PICK y : y = [x EXCEPT !.todo = todo]
  OBVIOUS
<1>3. PICK z : z = [y EXCEPT !.seen = seen]
  OBVIOUS
<1>4. x = Run(n, run["inbox"].todo, run["inbox"].hand, run["inbox"].spent, run["inbox"].delete,
              run["inbox"].seen, run["inbox"].saw)
  BY <1>1, JobIs DEF IsRun, Run
<1>5. y = Run(n, todo, run["inbox"].hand, run["inbox"].spent, run["inbox"].delete,
              run["inbox"].seen, run["inbox"].saw)
  BY <1>2, <1>4 DEF Run
<1>6. z = Run(n, todo, run["inbox"].hand, run["inbox"].spent, run["inbox"].delete, seen, run["inbox"].saw)
  BY <1>3, <1>5 DEF Run
<1>7. run'["inbox"] = z
  BY <1>1, <1>2, <1>3, JobIs
<1>. QED
  BY <1>6, <1>7 DEF Run

LEMMA TheIs == \A c : The({c}) = c
BY DEF The

LEMMA AdvanceRows ==
    ASSUME StayInv, Alone, RowsInv, Real, Advance("inbox")
    PROVE  RowsInv'
<1>. DEFINE i == "inbox"
            next == Following(i, run[i].at)
<1>1. /\ disk' = disk /\ rows' = rows /\ replaced' = replaced /\ run[i].hand = NoHand
      /\ run[i].at \notin {"idle", "scan", "prune", "match"}
  BY DEF Advance, store, Free
<1>2. RowsSorted'
  BY <1>1, SameRowsSorted
<1>3. CASE run' = [run EXCEPT ![i] = Idle]
  <2>1. run'[i].at = "idle" /\ run'[i].hand = NoHand /\ run'[i].todo = {} /\ run'[i].spent = {}
    BY <1>3, JobIdle
  <2>2. RowsRight'
    BY <1>1, <2>1, AsideRight DEF Scanned, StayInv
  <2>. QED
    BY <1>2, <2>1, <2>2 DEF RowsInv, JobSorted, HandSorted, Acts, Zips, SeenRight, MidMove, NoHand
<1>4. ASSUME next \in AloneAt, NEW seen, NEW todo, todo = Listing(i, next),
             seen = IF next = "scan" THEN Files(i) ELSE {},
             run' = [run EXCEPT ![i].at = next, ![i].todo = todo, ![i].seen = seen]
      PROVE  RowsInv'
  <2>1. PICK n : n = next
    OBVIOUS
  <2>2. /\ run'[i].at = n /\ run'[i].todo = todo /\ run'[i].seen = seen
        /\ run'[i].hand = NoHand /\ run'[i].spent = run[i].spent
    BY <1>1, <1>4, <2>1, JobForm
  <2>3. \A op \in todo : Sorted(n, op)
    BY <1>4, <2>1, ListedSorted
  <2>4. JobSorted(run[i])'
    <3>1. n \in {"idle", "plan"} => todo = {}
      BY <1>1, <1>4, <2>1, FollowingIs DEF Listing
    <3>. QED
      BY <2>2, <2>3, <3>1, ActsAt DEF RowsInv, JobSorted, HandSorted, NoHand, Sorted, Zipped, Archive, IsRom, Zips
  <2>5. RowsRight'
    <3>1. CASE n \notin Scanned
      BY <1>1, <2>2, <3>1, AsideRight DEF StayInv
    <3>2. CASE n \in Scanned
      <4>1. run[i].at \in Scanned
        BY <1>1, <2>1, <3>2, ScanFirst
      <4>2. \A p \in DOMAIN rows : Right(p)
        BY <1>1, <4>1 DEF RowsInv, RowsRight, Unread, Parted, NoHand
      <4>. QED
        BY <1>1, <4>2 DEF RowsRight, Right, On, TellsOf
    <3>. QED
      BY <3>1, <3>2
  <2>6. SeenRight(run[i])'
    <3>1. n # "prune"
      BY <1>1, <1>4, <2>1, FollowingIs
    <3>2. CASE n = "scan"
      <4>1. todo = ScanOps(i) /\ seen = Files(i)
        BY <1>4, <2>1, <3>2 DEF Listing
      <4>2. \A p \in seen : p \in DOMAIN disk /\ p.dir \in InboxDir
        BY <4>1 DEF Files
      <4>3. ASSUME NEW op \in todo
            PROVE  /\ op = [from |-> op.from, to |-> None, left |-> {disk[op.from]}]
                   /\ op.from \in DOMAIN disk /\ op.from.dir \in InboxDir /\ IsRom(op.from)
                   /\ op.left = {disk[op.from]}
        <5>1. PICK p \in Files(i) : IsRom(p) /\ op = [from |-> p, to |-> None, left |-> {disk[p]}]
          BY <4>1 DEF ScanOps
        <5>. QED
          BY <5>1 DEF Files
      <4>4. ASSUME NEW p \in seen \cap DOMAIN rows
            PROVE  Right(p) \/ \E op \in todo : op.from = p
        <5>1. IsRom(p) /\ On(p)
          BY <4>2 DEF RowsInv, RowsSorted, On
        <5>2. CASE rows[p].sha = disk[p]
          BY <5>1, <5>2 DEF Right, TellsOf
        <5>3. CASE rows[p].sha # disk[p]
          <6>1. [from |-> p, to |-> None, left |-> {disk[p]}] \in todo
            BY <4>1, <5>1, <5>3 DEF ScanOps
          <6>. QED
            BY <6>1
        <5>. QED
          BY <5>2, <5>3
      <4>5. \A op, other \in todo : op.from = other.from => op = other
        BY <4>3
      <4>6. \A op \in todo : op.left = {The(op.left)} /\ The(op.left) = disk[op.from] /\ disk[op.from] # None
        BY <4>3, TheIs DEF Real
      <4>. QED
        BY <1>1, <2>2, <3>2, <4>2, <4>3, <4>4, <4>5, <4>6 DEF SeenRight, On, IsRom, Right, TellsOf
    <3>. QED
      BY <2>2, <3>1, <3>2 DEF SeenRight
  <2>7. MidMove(run[i])'
    BY <2>2 DEF MidMove, NoHand
  <2>. QED
    BY <1>2, <2>4, <2>5, <2>6, <2>7 DEF RowsInv
<1>5. next \in AloneAt \cup {"end"}
  BY <1>1, FollowingIs
<1>. QED
  BY <1>3, <1>4, <1>5 DEF Advance

\* What a look decides is among what its phase does.
LEMMA ChoiceSorted ==
    ASSUME StayInv, Alone, RowsInv, NEW op \in run["inbox"].todo,
           run["inbox"].at \notin {"scan", "prune", "match"}
    PROVE  /\ Choice("inbox", op) \in Acts(run["inbox"].at) \cup {"skip"}
           /\ Choice("inbox", op) \notin {"record", "row"}
<1>. DEFINE i == "inbox"
            act == Choice(i, op)
<1>1. run[i].at \in AloneAt
  BY DEF Alone, JobOK
<1>2. run[i].at \notin {"idle", "plan"}
  BY DEF RowsInv, JobSorted
<1>3. CASE run[i].at \in Zips
  BY <1>3 DEF Choice, ZipChoice, Zips, Acts
<1>4. CASE run[i].at = "bios"
  BY <1>4 DEF Choice, BiosChoice, Acts, Zips
<1>5. CASE run[i].at \in {"md", "chips", "rename"}
  BY <1>5 DEF Choice, Acts, Zips
<1>6. CASE run[i].at = "organize"
  BY <1>6 DEF Choice, OrganizeChoice, ConflictChoice, Acts, Zips, Conflict
<1>7. CASE run[i].at = "archive"
  BY <1>7 DEF Choice, ArchiveChoice, Acts, Zips
<1>. QED
  BY <1>1, <1>2, <1>3, <1>4, <1>5, <1>6, <1>7 DEF AloneAt

LEMMA LookIs ==
    ASSUME StayInv, Alone, Look("inbox")
    PROVE  \E op \in run["inbox"].todo :
              LET act == Choice("inbox", op)
                  h == run'["inbox"].hand IN
              /\ run'["inbox"].at = run["inbox"].at /\ run'["inbox"].todo = run["inbox"].todo \ {op}
              /\ run'["inbox"].spent = run["inbox"].spent /\ run'["inbox"].seen = run["inbox"].seen
              /\ act = "skip" => h = NoHand
              /\ act # "skip" => h.do = act /\ h.from = op.from
              /\ act = "extract" => h.to = Into("inbox", op.from) /\ h.left = Members("inbox", op)
              /\ act \notin {"skip", "extract"} => h.to = op.to /\ h.left = op.left
              /\ skipped' = IF act = "extract" THEN skipped \cup Taken("inbox", op) ELSE skipped
<1>. DEFINE i == "inbox"
<1>1. PICK op \in run[i].todo :
         /\ run' = [run EXCEPT ![i].todo = @ \ {op},
                               ![i].hand = IF Choice(i, op) = "skip" THEN NoHand ELSE Shown(i, op)]
         /\ skipped' = IF Choice(i, op) = "extract" THEN skipped \cup Taken(i, op) ELSE skipped
  BY DEF Look, Hand, Shown
<1>2. PICK h : h = IF Choice(i, op) = "skip" THEN NoHand ELSE Shown(i, op)
  OBVIOUS
<1>3. PICK todo : todo = run[i].todo \ {op}
  OBVIOUS
<1>4. PICK x : x = [run[i] EXCEPT !.todo = todo]
  OBVIOUS
<1>5. x = Run(run[i].at, todo, run[i].hand, run[i].spent, run[i].delete, run[i].seen, run[i].saw)
  BY <1>4, JobIs DEF IsRun, Run
<1>6. PICK r : r = [x EXCEPT !.hand = h]
  OBVIOUS
<1>7. r = Run(run[i].at, todo, h, run[i].spent, run[i].delete, run[i].seen, run[i].saw)
  BY <1>5, <1>6 DEF Run
<1>8. run' = [run EXCEPT ![i].todo = todo, ![i].hand = h]
  BY <1>1, <1>2, <1>3
<1>9. run'[i] = r
  BY <1>4, <1>6, <1>8, JobIs
<1>10. /\ run'[i].at = run[i].at /\ run'[i].todo = todo /\ run'[i].spent = run[i].spent
       /\ run'[i].seen = run[i].seen /\ run'[i].hand = h
  BY <1>7, <1>9 DEF Run
<1>11. IsOp(op) /\ run[i].at # "saves"
  BY JobIs DEF RunOK, Alone, JobOK, AloneAt, Zips
<1>12. PICK act : act = Choice(i, op)
  OBVIOUS
<1>13. act # "skip" => h = Shown(i, op)
  BY <1>2, <1>12
<1>14. /\ act = "extract" => h = [do |-> "extract", from |-> op.from, to |-> Into(i, op.from),
                                  left |-> Members(i, op)]
       /\ act \notin {"skip", "extract"} => h = [do |-> act, from |-> op.from, to |-> op.to, left |-> op.left]
  BY <1>11, <1>12, <1>13, ShownIs
<1>15. /\ act = "extract" => h.do = act /\ h.from = op.from /\ h.to = Into(i, op.from) /\ h.left = Members(i, op)
       /\ act \notin {"skip", "extract"} => h.do = act /\ h.from = op.from /\ h.to = op.to /\ h.left = op.left
  BY <1>14
<1>. QED
  BY <1>1, <1>2, <1>3, <1>10, <1>12, <1>15

LEMMA LookRows ==
    ASSUME StayInv, Alone, RowsInv, Look("inbox")
    PROVE  RowsInv'
<1>. DEFINE i == "inbox"
<1>1. /\ disk' = disk /\ rows' = rows /\ replaced' = replaced /\ run[i].hand = NoHand
      /\ run[i].at \notin {"scan", "prune", "match"}
  BY DEF Look, store, Free
<1>2. PICK op \in run[i].todo :
         /\ run'[i].at = run[i].at /\ run'[i].todo = run[i].todo \ {op} /\ run'[i].spent = run[i].spent
         /\ Choice(i, op) = "skip" => run'[i].hand = NoHand
         /\ Choice(i, op) # "skip" => run'[i].hand.do = Choice(i, op) /\ run'[i].hand.from = op.from
         /\ Choice(i, op) = "extract" => run'[i].hand.to = Into(i, op.from) /\ run'[i].hand.left = Members(i, op)
         /\ Choice(i, op) \notin {"skip", "extract"} =>
                run'[i].hand.to = op.to /\ run'[i].hand.left = op.left
  BY LookIs
<1>3. /\ Choice(i, op) \in Acts(run[i].at) \cup {"skip"} /\ Choice(i, op) \notin {"record", "row"}
  BY <1>1, ChoiceSorted
<1>4. Sorted(run[i].at, op)
  BY DEF RowsInv, JobSorted
<1>5. PICK act : act = Choice(i, op)
  OBVIOUS
<1>6. PICK at : at = run[i].at
  OBVIOUS
<1>7. HandSorted(run'[i])
  <2>1. CASE act = "skip"
    BY <1>2, <1>5, <2>1, ActsAt DEF HandSorted, NoHand
  <2>2. CASE act = "extract"
    <3>1. at \in Zips
      BY <1>3, <1>5, <1>6, <2>2, ActsAt
    <3>2. Zipped(op.from) /\ IsPath(op.from) /\ at # "route"
      BY <1>4, <1>6, <3>1, JobIs DEF Sorted, RunOK, OpOK, ZipOpOK, Zips
    <3>3. Into(i, op.from) = op.from
      BY <1>6, <3>2 DEF Into, IsPath, At
    <3>4. \A m \in Members(i, op) : m \in Inner[disk[op.from]]
      BY DEF Members
    <3>5. disk[op.from] \in DOMAIN Inner
      BY <1>5, <1>6, <2>2, <3>1 DEF Choice, ZipChoice, Zips
    <3>. QED
      BY <1>2, <1>3, <1>5, <2>2, <3>2, <3>3, <3>4, <3>5 DEF HandSorted
  <2>3. CASE act \notin {"skip", "extract"}
    <3>1. Sorted(run'[i].at, run'[i].hand)
      BY <1>2, <1>4, <1>5, <2>3 DEF Sorted
    <3>. QED
      BY <1>2, <1>3, <1>5, <2>3, <3>1 DEF HandSorted
  <2>. QED
    BY <2>1, <2>2, <2>3
<1>8. JobSorted(run[i])'
  BY <1>2, <1>7 DEF RowsInv, JobSorted, HandSorted, Sorted, Zipped, Archive, IsRom
<1>9. RowsSorted'
  BY <1>1, SameRowsSorted
<1>10. run'[i].hand.do \notin {"record", "row"}
  BY <1>2, <1>3, <1>5 DEF NoHand
<1>11. RowsRight' /\ SeenRight(run[i])' /\ MidMove(run[i])'
  <2>1. \A p \in DOMAIN rows : Right(p) \/ (p.dir \in InboxDir /\ run[i].at \notin Scanned)
    BY <1>1 DEF RowsInv, RowsRight, Unread, Parted, NoHand
  <2>2. RowsRight'
    BY <1>1, <1>2, <2>1 DEF RowsRight, Unread, Right, On, TellsOf
  <2>. QED
    BY <1>1, <1>2, <1>10, <2>2 DEF SeenRight, MidMove
<1>. QED
  BY <1>8, <1>9, <1>11 DEF RowsInv

\* The steps that touch no row, nor a file that may have one.
LEMMA AsideRows ==
    ASSUME StayInv, Alone, RowsInv,
           Move("inbox") \/ TryMove("inbox") \/ DiscardOne("inbox") \/ Pack("inbox")
    PROVE  RowsInv'
<1>. DEFINE i == "inbox"
            h == run[i].hand
<1>1. /\ rows' = rows /\ replaced' = replaced
      /\ h.do \in {"move", "try", "discard", "tidy", "pack"}
  BY DEF Move, TryMove, DiscardOne, Pack, Holding, Abort, store, seenVars
<1>2. Sorted(run[i].at, h) /\ run[i].at \in Zips \cup {"bios", "md", "chips", "archive"}
  BY <1>1, Busy, ActsAt DEF RowsInv, JobSorted, HandSorted
<1>3. RowsSorted'
  BY <1>1, SameRowsSorted
<1>4. run'[i].at \notin Scanned
  <2>1. \/ run' = [run EXCEPT ![i] = Idle] \/ Done(i) \/ Then(i, "chips")
    BY DEF Move, TryMove, DiscardOne, Pack, Abort
  <2>2. run'[i].at \in {"idle", run[i].at}
    <3>1. CASE run' = [run EXCEPT ![i] = Idle]
      BY <3>1, JobIdle
    <3>2. CASE Done(i)
      BY <3>2, JobHand DEF Done
    <3>3. CASE Then(i, "chips")
      BY <3>3, JobThen, JobHand
    <3>. QED
      BY <2>1, <3>1, <3>2, <3>3
  <2>. QED
    BY <1>2, <2>2 DEF Scanned, Zips
<1>5. ASSUME NEW p \in DOMAIN disk, IsRow(p), p.dir \notin InboxDir
      PROVE  p \in DOMAIN disk' /\ disk'[p] = disk[p]
  <2>1. p.ext \in {"rom", "md"}
    BY <1>5 DEF IsRow
  <2>2. CASE disk' = disk
    BY <2>2
  <2>3. CASE disk' = Moved(From(i), To(i)) /\ On(From(i)) /\ (Move(i) \/ TryMove(i))
    <3>1. h.do \in {"move", "try"} /\ run[i].at \in Zips \cup {"bios", "md", "archive"}
      BY <2>3, Busy, ActsAt DEF Move, TryMove, Holding
    <3>2. p # From(i) /\ p # To(i) /\ From(i) # To(i)
      <4>1. CASE run[i].at \in Zips
        BY <1>2, <1>5, <2>1, <4>1 DEF Sorted, Zipped, Archive, From, To, InboxDir
      <4>2. CASE run[i].at = "bios"
        BY <1>2, <1>5, <2>1, <4>2 DEF Sorted, From, To
      <4>3. CASE run[i].at = "md"
        BY <1>2, <1>5, <2>1, <4>3 DEF Sorted, From, To, InboxDir
      <4>4. CASE run[i].at = "archive"
        <5>1. Zipped(From(i)) /\ To(i) = [From(i) EXCEPT !.dir = "processed"] /\ Movable(From(i))
          BY <1>2, <3>1, <4>4, JobIs DEF Sorted, From, To, RunOK, HandOK
        <5>2. To(i) = At("processed", From(i).stem, From(i).ext)
          BY <5>1, EditedPath DEF Movable
        <5>. QED
          BY <2>1, <5>1, <5>2, AtIs DEF Zipped, Archive, InboxDir
      <4>. QED
        BY <3>1, <4>1, <4>2, <4>3, <4>4
    <3>3. /\ DOMAIN disk' = (DOMAIN disk \ {From(i)}) \cup {To(i)}
          /\ \A f \in DOMAIN disk \ {From(i), To(i)} : disk'[f] = disk[f]
      BY <2>3, <3>2, MovedIs
    <3>. QED
      BY <3>2, <3>3
  <2>4. CASE Discard({From(i)}) /\ DiscardOne(i)
    <3>1. h.do \in {"discard", "tidy"} /\ run[i].at \in {"bios", "archive"}
      BY <2>4, Busy, ActsAt DEF DiscardOne
    <3>2. p # From(i)
      BY <1>2, <2>1, <3>1 DEF Sorted, Zipped, Archive, From
    <3>3. DOMAIN disk' = DOMAIN disk \ {From(i)} /\ \A f \in DOMAIN disk' : disk'[f] = disk[f]
      BY <2>4, DiscardedIs
    <3>. QED
      BY <3>2, <3>3
  <2>5. CASE disk' = Put(disk, To(i), h.from.content) /\ Pack(i)
    <3>1. run[i].at = "chips"
      BY <2>5, Busy, ActsAt DEF Pack, Holding
    <3>2. p # To(i)
      BY <1>2, <2>1, <3>1 DEF Sorted, To
    <3>3. /\ DOMAIN disk' = {To(i)} \cup DOMAIN disk
          /\ \A f \in DOMAIN disk \ {To(i)} : disk'[f] = disk[f]
      BY <2>5, PutIs
    <3>. QED
      BY <3>2, <3>3
  <2>. QED
    <3>1. CASE Move(i)
      BY <2>2, <2>3, <3>1, Zenon DEF Move, Abort, store
    <3>2. CASE TryMove(i)
      BY <2>2, <2>3, <3>2, Zenon DEF TryMove
    <3>3. CASE DiscardOne(i)
      BY <2>2, <2>4, <3>3, Zenon DEF DiscardOne, Abort, store
    <3>4. CASE Pack(i)
      BY <2>2, <2>5, <3>4, Zenon DEF Pack
    <3>. QED
      BY <3>1, <3>2, <3>3, <3>4
<1>6. RowsRight'
  BY <1>1, <1>4, <1>5, AsideRight DEF StayInv
<1>7. CASE Pack(i) /\ Then(i, "chips")
  <2>1. PICK g : /\ run' = [run EXCEPT ![i].hand = g] /\ g.do = "chips"
                 /\ g.from = From(i) /\ g.to = To(i) /\ g.left = h.left
    BY <1>7, JobThen
  <2>2. run[i].at = "chips"
    BY <1>7, Busy, ActsAt DEF Pack, Holding
  <2>3. Sorted(run[i].at, g) /\ "chips" \in Acts("chips")
    BY <1>2, <2>1 DEF Sorted, From, To, Acts, Zips
  <2>. QED
    BY <1>3, <1>6, <2>1, <2>2, <2>3, HandRows
<1>8. CASE run' = [run EXCEPT ![i] = Idle] \/ Done(i)
  BY <1>1, <1>3, <1>6, <1>8, DoneRows
<1>. QED
  BY <1>7, <1>8 DEF Move, TryMove, DiscardOne, Pack, Abort

LEMMA ChipsRows ==
    ASSUME StayInv, Alone, RowsInv, DiscardChips("inbox")
    PROVE  RowsInv'
<1>. DEFINE i == "inbox"
            h == run[i].hand
<1>1. rows' = rows /\ replaced' = replaced /\ h.do = "chips"
  BY DEF DiscardChips, Holding, Abort, store, seenVars
<1>2. run[i].at = "chips" /\ Sorted("chips", h)
  BY <1>1, Busy, ActsAt DEF RowsInv, JobSorted, HandSorted
<1>3. RowsSorted' /\ i \in Actor /\ RunsOK
  BY <1>1, SameRowsSorted, JobIs DEF StayInv
<1>4. ASSUME Discard(h.left), NEW T \in SUBSET run[i].todo,
             run' = [run EXCEPT ![i].todo = T, ![i].hand = NoHand]
      PROVE  RowsInv'
  <2>1. run'[i].hand = NoHand /\ run'[i].at = "chips" /\ run'[i].todo = T /\ run'[i].spent = run[i].spent
    BY <1>2, <1>3, <1>4, PoolKeeps
  <2>2. JobSorted(run[i])'
    BY <1>2, <2>1 DEF RowsInv, JobSorted, HandSorted, Sorted, Acts, Zipped, Archive, IsRom, Zips, NoHand
  <2>3. SeenRight(run[i])' /\ MidMove(run[i])'
    BY <2>1 DEF SeenRight, MidMove, NoHand
  <2>4. ASSUME NEW p \in DOMAIN disk, IsRow(p) PROVE p \in DOMAIN disk' /\ disk'[p] = disk[p]
    <3>1. p \notin h.left
      BY <1>2, <2>4 DEF Sorted, IsRow
    <3>. QED
      BY <1>4, <3>1, DiscardedIs
  <2>5. RowsRight'
    BY <1>1, <2>1, <2>4, AsideRight DEF StayInv, Scanned
  <2>. QED
    BY <1>3, <2>2, <2>3, <2>5 DEF RowsInv
<1>5. CASE Abort(i)
  <2>1. run' = [run EXCEPT ![i] = Idle] /\ disk' = disk
    BY <1>5 DEF Abort, store
  <2>2. RowsRight'
    BY <1>1, <2>1, JobIdle, AsideRight DEF StayInv, Scanned
  <2>. QED
    BY <1>1, <1>3, <2>1, <2>2, DoneRows
<1>. QED
  BY <1>3, <1>4, <1>5, PoolStep

LEMMA ExtractingIs ==
    ASSUME StayInv, RowsInv, run["inbox"].hand.do = "extract"
    PROVE  /\ run["inbox"].at \in Zips /\ Zipped(From("inbox")) /\ To("inbox") = From("inbox")
           /\ "extract" \in Acts(run["inbox"].at)
           /\ \A m \in run["inbox"].hand.left : \E c \in DOMAIN Inner : m \in Inner[c]
BY Busy, ActsAt DEF RowsInv, JobSorted, HandSorted, From, To

LEMMA ExtractRows ==
    ASSUME StayInv, Alone, RowsInv, ExtractMember("inbox")
    PROVE  RowsInv'
<1>. DEFINE i == "inbox"
<1>1. PICK m \in run[i].hand.left :
         /\ disk' = Put(disk, Member(To(i), m), m.content)
         /\ run' = [run EXCEPT ![i].hand.left = @ \ {m}]
  BY DEF ExtractMember
<1>2. run[i].hand.do = "extract" /\ rows' = rows /\ replaced \subseteq replaced'
  BY DEF ExtractMember, Holding
<1>3. /\ run[i].at \in Zips /\ Zipped(From(i)) /\ To(i) = From(i) /\ "extract" \in Acts(run[i].at)
      /\ \A x \in run[i].hand.left : \E c \in DOMAIN Inner : x \in Inner[c]
  BY <1>2, ExtractingIs
<1>4. PICK h : h = [run[i].hand EXCEPT !.left = run[i].hand.left \ {m}]
  OBVIOUS
<1>5. h.do = "extract" /\ h.from = From(i) /\ h.to = From(i) /\ h.left = run[i].hand.left \ {m}
  BY <1>2, <1>3, <1>4, JobIs DEF IsRun, From, To
<1>6. run' = [run EXCEPT ![i].hand = h]
  BY <1>1, <1>4, JobIs
<1>7. Member(To(i), m).dir \in InboxDir
  BY <1>3, AtIs DEF Member, Zipped
<1>8. run'[i].at \notin Scanned
  BY <1>3, <1>6, JobHand DEF Scanned, Zips
<1>9. RowsRight'
  <2>1. /\ DOMAIN disk' = {Member(To(i), m)} \cup DOMAIN disk
        /\ \A f \in DOMAIN disk \ {Member(To(i), m)} : disk'[f] = disk[f]
    BY <1>1, PutIs
  <2>. QED
    BY <1>2, <1>7, <1>8, <2>1, AsideRight DEF StayInv
<1>10. run[i].at \notin {"scan", "prune"}
  BY <1>3 DEF Zips
<1>. QED
  BY <1>2, <1>3, <1>5, <1>6, <1>9, <1>10, HandRows, SameRowsSorted

LEMMA ExtractedIs ==
    ASSUME StayInv, RowsInv, Extracted("inbox")
    PROVE  /\ disk' = disk /\ trash' = trash /\ rows' = rows /\ tale' = tale /\ UNCHANGED seenVars
           /\ run["inbox"].at \in Zips /\ run["inbox"].hand.do = "extract"
           /\ run["inbox"].hand.left = {} \/ ~On(From("inbox"))
           /\ run'["inbox"].hand = NoHand /\ run'["inbox"].at = run["inbox"].at
           /\ run'["inbox"].todo = run["inbox"].todo /\ run'["inbox"].seen = run["inbox"].seen
           /\ run'["inbox"].spent = run["inbox"].spent \cup {From("inbox")}
<1>. DEFINE i == "inbox"
<1>1. run[i].hand.do = "extract" /\ run[i].at \in Zips
  BY ExtractingIs DEF Extracted, Holding
<1>2. PICK spent : spent = run[i].spent \cup {From(i)}
  OBVIOUS
<1>3. run' = [run EXCEPT ![i].hand = NoHand, ![i].spent = spent] /\ disk' = disk /\ trash' = trash
  <2>1. run[i].at # "route"
    BY <1>1 DEF Zips
  <2>2. run' = [run EXCEPT ![i].hand = NoHand, ![i].spent = run[i].spent \cup {From(i)}]
        /\ disk' = disk /\ trash' = trash
    BY <2>1, JobIs DEF Extracted
  <2>. QED
    BY <1>2, <2>2
<1>4. PICK x : x = [run[i] EXCEPT !.hand = NoHand]
  OBVIOUS
<1>5. x = Run(run[i].at, run[i].todo, NoHand, run[i].spent, run[i].delete, run[i].seen, run[i].saw)
  BY <1>4, JobIs DEF IsRun, Run
<1>6. PICK r : r = [x EXCEPT !.spent = spent]
  OBVIOUS
<1>7. r = Run(run[i].at, run[i].todo, NoHand, spent, run[i].delete, run[i].seen, run[i].saw)
  BY <1>5, <1>6 DEF Run
<1>8. run'[i] = r
  BY <1>3, <1>4, <1>6, JobIs
<1>9. /\ run'[i].hand = NoHand /\ run'[i].at = run[i].at /\ run'[i].todo = run[i].todo
      /\ run'[i].seen = run[i].seen /\ run'[i].spent = spent
  BY <1>7, <1>8 DEF Run
<1>10. rows' = rows /\ tale' = tale /\ UNCHANGED seenVars /\ (run[i].hand.left = {} \/ ~On(From(i)))
  BY DEF Extracted
<1>. QED
  BY <1>1, <1>2, <1>3, <1>9, <1>10

LEMMA ExtractedRows ==
    ASSUME StayInv, Alone, RowsInv, Extracted("inbox")
    PROVE  RowsInv'
<1>. DEFINE i == "inbox"
<1>1. /\ disk' = disk /\ rows' = rows /\ replaced' = replaced /\ run[i].at \in Zips
      /\ run'[i].hand = NoHand /\ run'[i].at = run[i].at /\ run'[i].todo = run[i].todo
      /\ run'[i].spent = run[i].spent \cup {From(i)} /\ run[i].hand.do = "extract"
  BY ExtractedIs DEF seenVars
<1>2. Zipped(From(i))
  BY <1>1, ExtractingIs
<1>3. JobSorted(run[i])'
  BY <1>1, <1>2, ActsAt DEF RowsInv, JobSorted, HandSorted, NoHand, Sorted, Zipped, Archive, IsRom
<1>4. RowsRight'
  BY <1>1, AsideRight DEF StayInv, Scanned, Zips
<1>5. SeenRight(run[i])' /\ MidMove(run[i])'
  BY <1>1 DEF SeenRight, MidMove, NoHand, Zips
<1>. QED
  BY <1>1, <1>3, <1>4, <1>5, SameRowsSorted DEF RowsInv

LEMMA JobPhase ==
    ASSUME StayInv, NEW n, NEW todo, run' = [run EXCEPT !["inbox"].at = n, !["inbox"].todo = todo]
    PROVE  /\ run'["inbox"].at = n /\ run'["inbox"].todo = todo /\ run'["inbox"].seen = run["inbox"].seen
           /\ run'["inbox"].hand = run["inbox"].hand /\ run'["inbox"].spent = run["inbox"].spent
<1>1. PICK x : x = [run["inbox"] EXCEPT !.at = n]
  OBVIOUS
<1>2. PICK y : y = [x EXCEPT !.todo = todo]
  OBVIOUS
<1>3. x = Run(n, run["inbox"].todo, run["inbox"].hand, run["inbox"].spent, run["inbox"].delete,
              run["inbox"].seen, run["inbox"].saw)
  BY <1>1, JobIs DEF IsRun, Run
<1>4. y = Run(n, todo, run["inbox"].hand, run["inbox"].spent, run["inbox"].delete,
              run["inbox"].seen, run["inbox"].saw)
  BY <1>2, <1>3 DEF Run
<1>5. run'["inbox"] = y
  BY <1>1, <1>2, JobIs
<1>. QED
  BY <1>4, <1>5 DEF Run

\* The scan: what it read is what is there, or was replaced since.
LEMMA ScanRows ==
    ASSUME StayInv, Alone, RowsInv, Apart, Scan("inbox")
    PROVE  RowsInv'
<1>. DEFINE i == "inbox"
<1>1. /\ run[i].at = "scan" /\ disk' = disk /\ replaced' = replaced
      /\ run' = [run EXCEPT ![i].at = "prune", ![i].todo = {}]
  BY DEF Scan, seenVars
<1>2. run[i].hand.do = "none"
  BY <1>1, Busy
<1>3. PICK found : /\ found = [p \in DOMAIN Read(i) |-> [sha |-> Read(i)[p], platform |-> Platform[p.ext]]]
                   /\ rows' = Upserted(found)
  BY DEF Scan
<1>4. DOMAIN found = {op.from : op \in run[i].todo}
  BY <1>3 DEF Read
<1>5. ASSUME NEW p \in DOMAIN found
      PROVE  /\ On(p) /\ p.dir \in InboxDir /\ IsRom(p) /\ IsRow(p)
             /\ found[p].sha # None /\ (found[p].sha = disk[p] \/ disk[p] \in replaced)
             /\ found[p].platform \notin InboxDir
  <2>1. PICK op \in run[i].todo : op.from = p
    BY <1>4
  <2>2. {o \in run[i].todo : o.from = p} = {op}
    BY <1>1, <2>1 DEF RowsInv, SeenRight
  <2>3. UNION {o.left : o \in {x \in run[i].todo : x.from = p}} = op.left
    BY <2>2
  <2>4. Read(i)[p] = The(op.left)
    BY <2>1, <2>3 DEF Read
  <2>5. /\ On(p) /\ p.dir \in InboxDir /\ IsRom(p)
        /\ The(op.left) # None /\ (The(op.left) = disk[p] \/ disk[p] \in replaced)
    BY <1>1, <2>1 DEF RowsInv, SeenRight
  <2>6. found[p].sha = Read(i)[p] /\ found[p].platform = Platform[p.ext]
    BY <1>3
  <2>7. IsRow(p)
    BY <1>1, <2>1, JobIs DEF RunOK, OpOK
  <2>. QED
    BY <2>4, <2>5, <2>6, <2>7 DEF Apart, IsRow
<1>6. /\ DOMAIN rows' = DOMAIN found \cup DOMAIN rows
      /\ \A p \in DOMAIN rows \ DOMAIN found : rows'[p] = rows[p]
      /\ \A p \in DOMAIN found : rows'[p].platform = found[p].platform
  BY <1>3 DEF Upserted
<1>7. ASSUME NEW p \in DOMAIN found
      PROVE  rows'[p].sha = disk[p] \/ disk[p] \in replaced
  <2>1. rows'[p].sha = IF Has(p) /\ found[p].sha = None THEN rows[p].sha ELSE found[p].sha
    BY <1>3 DEF Upserted
  <2>. QED
    BY <1>5, <2>1
<1>8. RowsSorted'
  BY <1>5, <1>6 DEF RowsInv, RowsSorted, IsRom
<1>9. run'[i].at = "prune" /\ run'[i].todo = {} /\ run'[i].hand.do = "none"
      /\ run'[i].seen = run[i].seen /\ run'[i].spent = run[i].spent
  BY <1>1, <1>2, JobPhase
<1>10. JobSorted(run[i])'
  BY <1>9 DEF RowsInv, JobSorted, HandSorted, Acts, Zips, Zipped, Archive
<1>11. ASSUME NEW p \in DOMAIN rows', p \in DOMAIN found \/ Right(p)
       PROVE  Right(p)'
  <2>1. CASE p \in DOMAIN found
    BY <1>1, <1>5, <1>7, <2>1 DEF Right, On, TellsOf
  <2>2. CASE p \notin DOMAIN found
    BY <1>1, <1>6, <1>11, <2>2 DEF Right, On, TellsOf
  <2>. QED
    BY <2>1, <2>2
<1>12. RowsRight'
  <2>. SUFFICES ASSUME NEW p \in DOMAIN rows', p.dir \notin InboxDir PROVE Right(p)'
    BY <1>9 DEF RowsRight, Unread, Scanned
  <2>1. p \in DOMAIN rows /\ p \notin DOMAIN found
    BY <1>5, <1>6
  <2>. QED
    BY <1>11, <2>1 DEF RowsInv, RowsRight, Unread
<1>13. SeenRight(run[i])'
  <2>1. \A p \in run[i].seen : On(p) /\ p.dir \in InboxDir
    BY <1>1 DEF RowsInv, SeenRight
  <2>2. ASSUME NEW p \in run[i].seen, p \in DOMAIN rows' PROVE Right(p)'
    <3>1. p \notin DOMAIN found => Right(p)
      BY <1>1, <1>4, <1>6, <2>2 DEF RowsInv, SeenRight
    <3>. QED
      BY <1>11, <2>2, <3>1
  <2>. QED
    BY <1>1, <1>9, <2>1, <2>2 DEF SeenRight, On
<1>. QED
  BY <1>8, <1>9, <1>10, <1>12, <1>13 DEF RowsInv, MidMove

LEMMA PruneRows ==
    ASSUME StayInv, Alone, RowsInv, Prune("inbox")
    PROVE  RowsInv'
<1>. DEFINE i == "inbox"
            gone == {p \in DOMAIN rows : p.dir \in InboxDir /\ p \notin run[i].seen}
<1>1. /\ run[i].at = "prune" /\ disk' = disk /\ replaced' = replaced /\ DeleteRows(gone)
      /\ run' = [run EXCEPT ![i].at = "match", ![i].todo = MatchOps, ![i].seen = {}]
  BY DEF Prune, seenVars
<1>2. run[i].hand.do = "none"
  BY <1>1, Busy
<1>3. DOMAIN rows' = DOMAIN rows \ gone /\ \A f \in DOMAIN rows' : rows'[f] = rows[f]
  BY <1>1, DeletedIs
<1>4. PICK todo : todo = MatchOps
  OBVIOUS
<1>5. /\ run'[i].at = "match" /\ run'[i].hand = run[i].hand /\ run'[i].spent = run[i].spent
  BY <1>1, <1>4, JobForm
<1>6. JobSorted(run[i])'
  BY <1>2, <1>5 DEF RowsInv, JobSorted, HandSorted, Acts, Zips, Zipped, Archive, Sorted
<1>7. \A p \in DOMAIN rows' : Right(p)
  BY <1>1, <1>3 DEF RowsInv, RowsRight, Unread, SeenRight
<1>8. RowsRight'
  BY <1>1, <1>3, <1>7 DEF RowsRight, Right, On, TellsOf
<1>9. RowsSorted'
  BY <1>3 DEF RowsInv, RowsSorted, IsRom
<1>. QED
  BY <1>2, <1>5, <1>6, <1>8, <1>9 DEF RowsInv, SeenRight, MidMove

LEMMA MatchRows ==
    ASSUME StayInv, Alone, RowsInv, Apart, Match("inbox")
    PROVE  RowsInv'
<1>. DEFINE i == "inbox"
<1>1. /\ run[i].at = "match" /\ disk' = disk /\ replaced' = replaced
      /\ run' = [run EXCEPT ![i].at = "plan", ![i].todo = {}]
  BY DEF Match, seenVars
<1>2. run[i].hand.do = "none"
  BY <1>1, Busy
<1>3. PICK found : /\ rows' = Matched(found)
                   /\ \A p \in DOMAIN found : found[p].platform \notin InboxDir
  <2>. DEFINE asked == [p \in DOMAIN Read(i) |-> <<Read(i)[p], p.stem>>]
              known == {p \in DOMAIN asked : asked[p] \in DOMAIN Catalog}
              found == [p \in known |-> Catalog[asked[p]]]
  <2>1. rows' = Matched(found)
    BY DEF Match
  <2>2. ASSUME NEW p \in DOMAIN found PROVE found[p].platform \notin InboxDir
    <3>1. p \in known /\ found[p] = Catalog[asked[p]]
      OBVIOUS
    <3>2. asked[p] \in DOMAIN Catalog
      BY <3>1
    <3>. QED
      BY <3>1, <3>2 DEF Apart
  <2>. QED
    BY <2>1, <2>2
<1>4. DOMAIN rows' = DOMAIN rows
  BY <1>3 DEF Matched
<1>5. ASSUME NEW p \in DOMAIN rows
      PROVE  rows'[p].sha = rows[p].sha /\ rows'[p].platform \notin InboxDir
  <2>1. rows[p].platform \notin InboxDir
    BY DEF RowsInv, RowsSorted
  <2>2. CASE p \notin DOMAIN found
    BY <1>3, <2>1, <2>2 DEF Matched
  <2>3. CASE p \in DOMAIN found
    <3>1. PICK f : f = found[p]
      OBVIOUS
    <3>2. PICK g : g = rows[p]
      OBVIOUS
    <3>3. rows'[p] = [g EXCEPT !.title = f.stem, !.platform = f.platform]
      BY <1>3, <2>3, <3>1, <3>2 DEF Matched
    <3>4. rows'[p].sha = g.sha /\ (rows'[p].platform = f.platform \/ rows'[p].platform = g.platform)
      BY <3>3
    <3>. QED
      BY <1>3, <2>1, <2>3, <3>1, <3>2, <3>4
  <2>. QED
    BY <2>2, <2>3
<1>6. /\ run'[i].at = "plan" /\ run'[i].todo = {} /\ run'[i].hand = run[i].hand
      /\ run'[i].spent = run[i].spent
  BY <1>1, JobPhase
<1>7. JobSorted(run[i])'
  BY <1>2, <1>6 DEF RowsInv, JobSorted, HandSorted, Acts, Zips, Zipped, Archive, Sorted
<1>8. \A p \in DOMAIN rows : Right(p)
  BY <1>1, <1>2 DEF RowsInv, RowsRight, Unread, Scanned, Parted
<1>9. RowsRight'
  BY <1>1, <1>4, <1>5, <1>8 DEF RowsRight, Right, On, TellsOf
<1>10. RowsSorted'
  BY <1>4, <1>5 DEF RowsInv, RowsSorted, IsRom
<1>. QED
  BY <1>2, <1>6, <1>7, <1>9, <1>10 DEF RowsInv, SeenRight, MidMove
-----------------------------------------------------------------------------
(* Renaming and organizing alone *)

\* Every row is right that is not parted from its file.
LEMMA AllRight ==
    ASSUME RowsInv, run["inbox"].hand.do \in {"rename", "record", "organize", "dup"} \cup Conflict
    PROVE  /\ \A p \in DOMAIN rows : Right(p) \/ (run["inbox"].hand.do \in {"record", "row"} /\ p = From("inbox"))
           /\ run["inbox"].at \in {"rename", "organize"} /\ Sorted(run["inbox"].at, run["inbox"].hand)
           /\ run["inbox"].hand.do \in Acts(run["inbox"].at)
           /\ run["inbox"].hand.do \in {"rename", "record"} <=> run["inbox"].at = "rename"
<1>1. /\ run["inbox"].hand.do \in Acts(run["inbox"].at) /\ Sorted(run["inbox"].at, run["inbox"].hand)
  BY DEF RowsInv, JobSorted, HandSorted, Conflict
<1>2. /\ run["inbox"].at \in {"rename", "organize"}
      /\ run["inbox"].hand.do \in {"rename", "record"} <=> run["inbox"].at = "rename"
  BY <1>1, ActsAt DEF Conflict, Zips
<1>. QED
  BY <1>1, <1>2 DEF RowsInv, RowsRight, Unread, Parted, Scanned, From

LEMMA RightStays ==
    ASSUME NEW p, Right(p), p \in DOMAIN disk', disk'[p] = disk[p] \/ disk'[p] \in replaced',
           replaced \subseteq replaced', rows'[p].sha = rows[p].sha
    PROVE  Right(p)'
BY DEF Right, On, TellsOf

\* A file at its new name, before its row.
LEMMA RenameRows ==
    ASSUME StayInv, Alone, RowsInv, RenameFile("inbox")
    PROVE  RowsInv'
<1>. DEFINE i == "inbox"
            p == From(i)
            q == To(i)
<1>1. run[i].hand.do = "rename" /\ rows' = rows /\ replaced' = replaced
  BY DEF RenameFile, Holding
<1>2. /\ \A f \in DOMAIN rows : Right(f)
      /\ run[i].at = "rename" /\ Sorted("rename", run[i].hand)
  BY <1>1, AllRight
<1>3. p # q
  BY <1>2 DEF Sorted, From, To
<1>4. CASE disk' = disk /\ Done(i)
  <2>1. RowsRight'
    BY <1>1, <1>2, <1>4 DEF RowsRight, Right, On, TellsOf
  <2>. QED
    BY <1>1, <1>4, <2>1, DoneRows, SameRowsSorted
<1>5. CASE disk' # disk \/ ~Done(i)
  <2>1. ~On(Companion(p))
    BY AtIs DEF Companion, Alone, NoSaves, On
  <2>2. PICK new : /\ new = [f \in {q} |-> IF f = q THEN disk[p]
                                           ELSE IF f = Companion(q) THEN disk[Companion(p)] ELSE disk[Companion(q)]]
                   /\ disk' = Over(new, Without(disk, {p, Companion(p)}))
                   /\ On(p) /\ ~On(q) /\ Then(i, "record")
    BY <1>5, <2>1 DEF RenameFile
  <2>3. DOMAIN new = {q} /\ new[q] = disk[p]
    BY <2>2
  <2>4. PICK g : g = Without(disk, {p, Companion(p)})
    OBVIOUS
  <2>5. DOMAIN g = DOMAIN disk \ {p} /\ \A f \in DOMAIN g : g[f] = disk[f]
    BY <2>1, <2>4 DEF Without, Restrict, On
  <2>6. /\ DOMAIN disk' = {q} \cup (DOMAIN disk \ {p}) /\ disk'[q] = disk[p]
        /\ \A f \in DOMAIN disk \ {p, q} : disk'[f] = disk[f]
    BY <2>2, <2>3, <2>4, <2>5 DEF Over
  <2>7. ~Has(q)
    BY <1>2, <2>2 DEF Right, Has
  <2>8. PICK h : /\ run' = [run EXCEPT ![i].hand = h] /\ h.do = "record"
                 /\ h.from = p /\ h.to = q /\ h.left = run[i].hand.left
    BY <2>2, JobThen
  <2>9. run'[i].hand = h /\ run'[i].at = "rename"
    BY <1>2, <2>8, JobHand
  <2>10. ASSUME NEW f \in DOMAIN rows, f # p PROVE Right(f)'
    <3>1. Right(f) /\ f # q /\ f \in DOMAIN disk
      BY <1>2, <2>7 DEF Has, Right, On
    <3>. QED
      BY <1>1, <2>6, <2>10, <3>1, RightStays
  <2>11. RowsRight'
    <3>1. p.dir \in InboxDir
      BY <1>2 DEF Sorted, From
    <3>. QED
      BY <1>1, <2>8, <2>9, <2>10, <3>1 DEF RowsRight, Unread, Parted
  <2>12. Has(p) => rows[p].sha = disk'[q] \/ disk'[q] \in replaced'
    BY <1>1, <1>2, <2>6 DEF Right, TellsOf, Has
  <2>13. Sorted("rename", h)
    BY <1>2, <2>8 DEF Sorted, From, To
  <2>14. h.to \in DOMAIN disk' /\ h.to \notin DOMAIN rows'
    BY <1>1, <2>6, <2>7, <2>8 DEF Has
  <2>15. h.from \in DOMAIN rows' => rows'[h.from].sha = disk'[h.to] \/ disk'[h.to] \in replaced'
    BY <1>1, <2>8, <2>12 DEF Has
  <2>16. "record" \in Acts("rename") /\ run[i].at \notin {"scan", "prune"}
    BY <1>2 DEF Acts, Zips
  <2>. QED
    BY <1>1, <1>2, <2>8, <2>11, <2>13, <2>14, <2>15, <2>16, HandRows, SameRowsSorted
<1>. QED
  BY <1>4, <1>5

LEMMA MovedRowSorted ==
    ASSUME RowsInv, NEW p, NEW q, p # q, ~Has(q), rows' = RowMoved(p, q), q.dir \in InboxDir => IsRom(q)
    PROVE  RowsSorted'
<1>1. RowsSorted
  BY DEF RowsInv
<1>2. CASE Has(p)
  <2>1. /\ DOMAIN rows' = (DOMAIN rows \ {p}) \cup {q} /\ rows'[q] = rows[p]
        /\ \A f \in DOMAIN rows \ {p} : rows'[f] = rows[f]
    BY <1>2, RowMovedIs
  <2>. QED
    BY <1>1, <1>2, <2>1 DEF RowsSorted, Has, IsRom
<1>3. CASE ~Has(p)
  <2>1. DOMAIN rows' = DOMAIN rows /\ \A f \in DOMAIN rows : rows'[f] = rows[f]
    BY <1>3, RowMovedIs
  <2>. QED
    BY <1>1, <2>1 DEF RowsSorted, IsRom
<1>. QED
  BY <1>2, <1>3

\* The row follows its file, and every row is right again.
LEMMA FollowRows ==
    ASSUME StayInv, Alone, RowsInv, RecordRename("inbox") \/ EnterRow("inbox")
    PROVE  RowsInv'
<1>. DEFINE i == "inbox"
            p == From(i)
            q == To(i)
<1>1. /\ run[i].hand.do \in {"record", "row"} /\ disk' = disk /\ replaced' = replaced /\ Done(i)
      /\ ~Has(q) => rows' = RowMoved(p, q)
  BY DEF RecordRename, EnterRow, Holding, seenVars
<1>2. /\ \A f \in DOMAIN rows : f # p => Right(f)
      /\ Sorted(run[i].at, run[i].hand) /\ run[i].at \in {"rename", "organize"}
  BY <1>1, AllRight DEF Conflict
<1>3. p # q /\ (q.dir \in InboxDir => IsRom(q))
  BY <1>2 DEF Sorted, From, To, IsRom
<1>4. On(q) /\ ~Has(q) /\ (Has(p) => TellsOf(p, q))
  BY <1>1 DEF RowsInv, MidMove, From, To
<1>5. RowsSorted'
  BY <1>1, <1>3, <1>4, MovedRowSorted
<1>6. ASSUME NEW f \in DOMAIN rows' PROVE Right(f)'
  <2>1. CASE Has(p)
    <3>1. /\ DOMAIN rows' = (DOMAIN rows \ {p}) \cup {q} /\ rows'[q] = rows[p]
          /\ \A g \in DOMAIN rows \ {p} : rows'[g] = rows[g]
      BY <1>1, <1>3, <1>4, <2>1, RowMovedIs
    <3>2. CASE f = q
      BY <1>1, <1>4, <2>1, <3>1, <3>2 DEF Right, On, TellsOf
    <3>3. CASE f # q
      BY <1>1, <1>2, <1>6, <3>1, <3>3 DEF Right, On, TellsOf
    <3>. QED
      BY <3>2, <3>3
  <2>2. CASE ~Has(p)
    <3>1. DOMAIN rows' = DOMAIN rows /\ \A g \in DOMAIN rows : rows'[g] = rows[g]
      BY <1>1, <1>3, <1>4, <2>2, RowMovedIs
    <3>. QED
      BY <1>1, <1>2, <1>6, <2>2, <3>1 DEF Right, On, TellsOf, Has
  <2>. QED
    BY <2>1, <2>2
<1>7. RowsRight'
  BY <1>6 DEF RowsRight
<1>8. run[i].hand.do # "none"
  BY <1>1
<1>. QED
  BY <1>1, <1>5, <1>7, <1>8, DoneRows

LEMMA OrganizeRows ==
    ASSUME StayInv, Alone, RowsInv, OrganizeFile("inbox")
    PROVE  RowsInv'
<1>. DEFINE i == "inbox"
            p == From(i)
            q == To(i)
<1>1. run[i].hand.do = "organize" /\ replaced' = replaced /\ Done(i)
  BY DEF OrganizeFile, Holding
<1>2. /\ \A f \in DOMAIN rows : Right(f)
      /\ Sorted("organize", run[i].hand)
  BY <1>1, AllRight
<1>3. p # q /\ q.dir \notin InboxDir
  BY <1>2 DEF Sorted, From, To, Zips
<1>4. ~On(q)
  BY <1>1 DEF Alone, StillFree, Moving, To
<1>5. ~Has(q)
  BY <1>2, <1>4 DEF Right, Has
<1>6. CASE disk' = disk /\ rows' = rows
  <2>1. RowsRight'
    BY <1>1, <1>2, <1>6 DEF RowsRight, Right, On, TellsOf
  <2>. QED
    BY <1>1, <1>6, <2>1, DoneRows, SameRowsSorted
<1>7. CASE On(p) /\ disk' = Moved(p, q) /\ rows' = RowMoved(p, q)
  <2>1. /\ DOMAIN disk' = (DOMAIN disk \ {p}) \cup {q} /\ disk'[q] = disk[p]
        /\ \A f \in DOMAIN disk \ {p, q} : disk'[f] = disk[f]
    BY <1>3, <1>7, MovedIs
  <2>2. RowsSorted'
    BY <1>3, <1>5, <1>7, MovedRowSorted
  <2>3. ASSUME NEW f \in DOMAIN rows' PROVE Right(f)'
    <3>1. CASE Has(p)
      <4>1. /\ DOMAIN rows' = (DOMAIN rows \ {p}) \cup {q} /\ rows'[q] = rows[p]
            /\ \A g \in DOMAIN rows \ {p} : rows'[g] = rows[g]
        BY <1>3, <1>5, <1>7, <3>1, RowMovedIs
      <4>2. CASE f = q
        BY <1>1, <1>2, <2>1, <3>1, <4>1, <4>2 DEF Right, On, TellsOf, Has
      <4>3. CASE f # q
        <5>1. f \in DOMAIN rows /\ f # p /\ Right(f) /\ rows'[f] = rows[f]
          BY <1>2, <1>3, <2>3, <4>1, <4>3
        <5>2. f \in DOMAIN disk' /\ disk'[f] = disk[f]
          BY <2>1, <4>3, <5>1 DEF Right, On
        <5>. QED
          BY <1>1, <5>1, <5>2, RightStays
      <4>. QED
        BY <4>2, <4>3
    <3>2. CASE ~Has(p)
      <4>1. DOMAIN rows' = DOMAIN rows /\ \A g \in DOMAIN rows : rows'[g] = rows[g]
        BY <1>3, <1>5, <1>7, <3>2, RowMovedIs
      <4>2. f \in DOMAIN rows /\ f # p /\ f # q /\ Right(f) /\ rows'[f] = rows[f]
        BY <1>2, <1>5, <2>3, <3>2, <4>1 DEF Has
      <4>3. f \in DOMAIN disk' /\ disk'[f] = disk[f]
        BY <2>1, <4>2 DEF Right, On
      <4>. QED
        BY <1>1, <4>2, <4>3, RightStays
    <3>. QED
      BY <3>1, <3>2
  <2>4. RowsRight'
    BY <2>3 DEF RowsRight
  <2>. QED
    BY <1>1, <2>2, <2>4, DoneRows
<1>. QED
  BY <1>6, <1>7 DEF OrganizeFile

\* A row goes with its file.
LEMMA WithRow ==
    ASSUME NEW x, \A f \in DOMAIN rows : Right(f), replaced' = replaced,
           \/ disk' = disk /\ (rows' = rows \/ (~On(x) /\ DeleteRows({x})))
           \/ Discard({x}) /\ DeleteRows({x})
    PROVE  \A f \in DOMAIN rows' : Right(f)' /\ f \in DOMAIN rows /\ rows'[f] = rows[f]
<1>1. CASE disk' = disk /\ rows' = rows
  BY <1>1 DEF Right, On, TellsOf
<1>2. CASE disk' = disk /\ DeleteRows({x})
  <2>1. \A f \in DOMAIN rows' : f \in DOMAIN rows /\ rows'[f] = rows[f]
    BY <1>2, DeletedIs
  <2>. QED
    BY <1>2, <2>1 DEF Right, On, TellsOf
<1>3. CASE Discard({x}) /\ DeleteRows({x})
  <2>1. \A f \in DOMAIN rows' : f \in DOMAIN rows /\ f # x /\ rows'[f] = rows[f]
    BY <1>3, DeletedIs
  <2>2. DOMAIN disk' = DOMAIN disk \ {x} /\ \A f \in DOMAIN disk' : disk'[f] = disk[f]
    BY <1>3, DiscardedIs
  <2>. QED
    BY <2>1, <2>2 DEF Right, On, TellsOf
<1>. QED
  BY <1>1, <1>2, <1>3

LEMMA DropRows ==
    ASSUME StayInv, Alone, RowsInv, DropDuplicate("inbox") \/ Lose("inbox") \/ Swap("inbox")
    PROVE  RowsInv'
<1>. DEFINE i == "inbox"
<1>1. run[i].hand.do \in {"dup", "lose", "swap"} /\ replaced' = replaced
  BY DEF DropDuplicate, Lose, Swap, Holding
<1>2. /\ \A f \in DOMAIN rows : Right(f)
      /\ Sorted("organize", run[i].hand) /\ run[i].at = "organize"
  BY <1>1, AllRight DEF Conflict
<1>3. \E x : \/ disk' = disk /\ (rows' = rows \/ (~On(x) /\ DeleteRows({x})))
             \/ Discard({x}) /\ DeleteRows({x})
  <2>1. CASE DropDuplicate(i)
    BY <2>1, Zenon DEF DropDuplicate
  <2>2. CASE Lose(i)
    BY <2>2, Zenon DEF Lose, DiscardFile
  <2>3. CASE Swap(i)
    BY <2>3, Zenon DEF Swap, DiscardFile
  <2>. QED
    BY <2>1, <2>2, <2>3
<1>4. \A f \in DOMAIN rows' : Right(f)' /\ f \in DOMAIN rows /\ rows'[f] = rows[f]
  BY <1>1, <1>2, <1>3, WithRow
<1>5. RowsRight' /\ RowsSorted'
  BY <1>4 DEF RowsRight, RowsSorted, RowsInv, IsRom
<1>6. CASE Done(i)
  BY <1>1, <1>5, <1>6, DoneRows
<1>7. CASE Then(i, "enter")
  <2>1. PICK h : /\ run' = [run EXCEPT ![i].hand = h] /\ h.do = "enter"
                 /\ h.from = From(i) /\ h.to = To(i) /\ h.left = run[i].hand.left
    BY <1>7, JobThen
  <2>2. Sorted("organize", h) /\ "enter" \in Acts("organize")
    BY <1>2, <2>1 DEF Sorted, From, To, Acts, Zips, Conflict
  <2>. QED
    BY <1>2, <1>5, <2>1, <2>2, HandRows
<1>. QED
  BY <1>6, <1>7 DEF DropDuplicate, Lose, Swap

\* The source is in its place, its row is not.
LEMMA EnterRows ==
    ASSUME StayInv, Alone, RowsInv, Enter("inbox")
    PROVE  RowsInv'
<1>. DEFINE i == "inbox"
            p == From(i)
            q == To(i)
<1>1. run[i].hand.do = "enter" /\ rows' = rows /\ replaced' = replaced
  BY DEF Enter, Holding
<1>2. /\ \A f \in DOMAIN rows : Right(f)
      /\ run[i].at = "organize" /\ Sorted("organize", run[i].hand)
  BY <1>1, AllRight DEF Conflict
<1>3. p # q /\ p.dir \in InboxDir
  BY <1>2 DEF Sorted, From, To, Zips
<1>4. ~On(q) /\ ~Has(q)
  BY <1>1, <1>2 DEF Alone, StillFree, Moving, To, Right, Has
<1>5. CASE disk' = disk /\ Done(i)
  <2>1. RowsRight'
    BY <1>1, <1>2, <1>5 DEF RowsRight, Right, On, TellsOf
  <2>. QED
    BY <1>1, <1>5, <2>1, DoneRows, SameRowsSorted
<1>6. CASE On(p) /\ disk' = Moved(p, q) /\ Then(i, "row")
  <2>1. /\ DOMAIN disk' = (DOMAIN disk \ {p}) \cup {q} /\ disk'[q] = disk[p]
        /\ \A f \in DOMAIN disk \ {p, q} : disk'[f] = disk[f]
    BY <1>3, <1>6, MovedIs
  <2>2. PICK h : /\ run' = [run EXCEPT ![i].hand = h] /\ h.do = "row"
                 /\ h.from = p /\ h.to = q /\ h.left = run[i].hand.left
    BY <1>6, JobThen
  <2>3. run'[i].hand = h /\ run'[i].at = "organize"
    BY <1>2, <2>2, JobHand
  <2>4. ASSUME NEW f \in DOMAIN rows, f # p PROVE Right(f)'
    <3>1. Right(f) /\ f # q /\ f \in DOMAIN disk
      BY <1>2, <1>4 DEF Has, Right, On
    <3>. QED
      BY <1>1, <2>1, <2>4, <3>1, RightStays
  <2>5. RowsRight'
    BY <1>1, <1>3, <2>2, <2>3, <2>4 DEF RowsRight, Unread, Parted
  <2>6. Has(p) => rows[p].sha = disk'[q] \/ disk'[q] \in replaced'
    BY <1>1, <1>2, <2>1 DEF Right, TellsOf, Has
  <2>7. Sorted("organize", h)
    BY <1>2, <2>2 DEF Sorted, From, To, Zips
  <2>8. h.to \in DOMAIN disk' /\ h.to \notin DOMAIN rows'
    BY <1>1, <1>4, <2>1, <2>2 DEF Has
  <2>9. h.from \in DOMAIN rows' => rows'[h.from].sha = disk'[h.to] \/ disk'[h.to] \in replaced'
    BY <1>1, <2>2, <2>6 DEF Has
  <2>10. "row" \in Acts("organize") /\ run[i].at \notin {"scan", "prune"}
    BY <1>2 DEF Acts, Zips, Conflict
  <2>. QED
    BY <1>1, <1>2, <2>2, <2>5, <2>7, <2>8, <2>9, <2>10, HandRows, SameRowsSorted
<1>. QED
  BY <1>5, <1>6 DEF Enter

\* No file of the library is written over by what fails.
LEMMA FailRows ==
    ASSUME StayInv, Alone, RowsInv, Fail("inbox")
    PROVE  RowsInv'
<1>. DEFINE i == "inbox"
<1>1. rows' = rows
  BY DEF Fail
<1>2. \/ UNCHANGED <<disk, replaced>> /\ run[i].hand.do \notin {"none", "record", "row"}
      \/ /\ run[i].hand.do = "extract"
         /\ \E m \in run[i].hand.left :
              /\ disk' = Put(disk, Member(To(i), m), Torn)
              /\ replaced' = IF On(Member(To(i), m)) THEN replaced \cup {disk[Member(To(i), m)], Torn}
                             ELSE replaced
  BY Zenon DEF Fail, Holding
<1>3. Done(i) \/ run' = [run EXCEPT ![i] = Idle]
  BY Zenon DEF Fail
<1>4. CASE UNCHANGED <<disk, replaced>> /\ run[i].hand.do \notin {"none", "record", "row"}
  <2>1. run'[i].at \in {"idle", run[i].at}
    <3>1. CASE Done(i)
      BY <3>1, JobHand DEF Done
    <3>. QED
      BY <1>3, <3>1, JobIdle
  <2>2. \A p \in DOMAIN rows : Right(p) \/ (p.dir \in InboxDir /\ run[i].at \notin Scanned)
    BY <1>4 DEF RowsInv, RowsRight, Unread, Parted
  <2>3. run'[i].at \notin Scanned \/ run'[i].at = run[i].at
    BY <2>1 DEF Scanned
  <2>4. RowsRight'
    BY <1>1, <1>4, <2>2, <2>3 DEF RowsRight, Unread, Right, On, TellsOf
  <2>. QED
    BY <1>1, <1>3, <1>4, <2>4, DoneRows, SameRowsSorted
<1>5. ASSUME run[i].hand.do = "extract", NEW m \in run[i].hand.left,
             disk' = Put(disk, Member(To(i), m), Torn),
             replaced' = IF On(Member(To(i), m)) THEN replaced \cup {disk[Member(To(i), m)], Torn}
                         ELSE replaced
      PROVE  RowsInv'
  <2>1. run[i].at \in Zips /\ To(i).dir \in InboxDir
    BY <1>5, ExtractingIs DEF Zipped
  <2>2. Member(To(i), m).dir \in InboxDir
    BY <2>1, AtIs DEF Member
  <2>3. run'[i].at \in {"idle", run[i].at}
    <3>1. CASE Done(i)
      BY <3>1, JobHand DEF Done
    <3>. QED
      BY <1>3, <3>1, JobIdle
  <2>4. run'[i].at \notin Scanned
    BY <2>1, <2>3 DEF Scanned, Zips
  <2>5. \A p \in DOMAIN disk : p.dir \notin InboxDir => p \in DOMAIN disk' /\ disk'[p] = disk[p]
    BY <1>5, <2>2, PutIs
  <2>6. replaced \subseteq replaced'
    BY <1>5
  <2>7. RowsRight'
    BY <1>1, <2>4, <2>5, <2>6, AsideRight DEF StayInv
  <2>. QED
    BY <1>1, <1>3, <1>5, <2>7, DoneRows, SameRowsSorted
<1>. QED
  BY <1>2, <1>4, <1>5
-----------------------------------------------------------------------------
(* What comes, and what is started *)

LEMMA CrashRows ==
    ASSUME StayInv, Alone, RowsInv, Crash
    PROVE  RowsInv'
<1>. DEFINE i == "inbox"
            p == From(i)
            q == To(i)
<1>1. rows' = rows /\ replaced' = replaced /\ run' = [k \in Actor |-> Idle]
  BY DEF Crash
<1>2. /\ run'[i].at = "idle" /\ run'[i].hand = NoHand /\ run'[i].todo = {} /\ run'[i].spent = {}
  BY <1>1, JobIdle
<1>3. disk' = disk \/ (run[i].hand.do = "organize" /\ On(p) /\ disk' = Moved(p, q))
  BY DEF Crash, Holding, Alone, OthersIdle, NoHand
<1>4. ASSUME NEW f \in DOMAIN rows, f.dir \notin InboxDir
      PROVE  f \in DOMAIN disk' /\ disk'[f] = disk[f]
  <2>1. f \in DOMAIN disk
    BY <1>4 DEF RowsInv, RowsRight, Unread, Right, On
  <2>2. CASE run[i].hand.do = "organize" /\ On(p) /\ disk' = Moved(p, q)
    <3>1. Sorted("organize", run[i].hand)
      BY <2>2, AllRight
    <3>2. p.dir \in InboxDir /\ p # q
      BY <3>1 DEF Sorted, From, To, Zips
    <3>3. ~On(q)
      BY <2>2 DEF Alone, StillFree, Moving, To
    <3>4. /\ DOMAIN disk' = (DOMAIN disk \ {p}) \cup {q}
          /\ \A g \in DOMAIN disk \ {p, q} : disk'[g] = disk[g]
      BY <2>2, <3>2, MovedIs
    <3>5. f # p /\ f # q
      BY <1>4, <2>1, <3>2, <3>3 DEF On
    <3>. QED
      BY <2>1, <3>4, <3>5
  <2>. QED
    BY <1>3, <2>1, <2>2
<1>5. RowsRight'
  <2>. SUFFICES ASSUME NEW f \in DOMAIN rows, f.dir \notin InboxDir PROVE Right(f)'
    BY <1>1, <1>2 DEF RowsRight, Unread, Scanned
  <2>1. Right(f)
    BY DEF RowsInv, RowsRight, Unread
  <2>. QED
    BY <1>1, <1>4, <2>1, RightStays
<1>. QED
  BY <1>1, <1>2, <1>5, SameRowsSorted DEF RowsInv, JobSorted, HandSorted, Acts, Zips, SeenRight, MidMove, NoHand

\* What comes over a file is an upload that replaced it.
LEMMA ArriveRows ==
    ASSUME StayInv, Alone, RowsInv, Arrive
    PROVE  RowsInv'
<1>. DEFINE i == "inbox"
<1>1. PICK d \in tale.drops :
         /\ disk' = Put(disk, d.at, d.has)
         /\ replaced' = IF On(d.at) THEN replaced \cup {disk[d.at], d.has} ELSE replaced
  BY DEF Arrive
<1>2. rows' = rows /\ run' = run
  BY DEF Arrive
<1>3. ASSUME NEW f \in DOMAIN disk
      PROVE  f \in DOMAIN disk' /\ (disk'[f] = disk[f] \/ disk'[f] \in replaced')
  <2>1. /\ DOMAIN disk' = {d.at} \cup DOMAIN disk /\ disk'[d.at] = d.has
        /\ \A g \in DOMAIN disk \ {d.at} : disk'[g] = disk[g]
    BY <1>1, PutIs
  <2>. QED
    BY <1>1, <2>1 DEF On
<1>4. replaced \subseteq replaced'
  BY <1>1
<1>5. \A f \in DOMAIN rows : Right(f) => Right(f)'
  BY <1>2, <1>3, <1>4, RightStays DEF Right, On
<1>6. RowsRight'
  BY <1>2, <1>5 DEF RowsInv, RowsRight, Unread, Parted
<1>7. JobSorted(run[i])' /\ RowsSorted'
  BY <1>2 DEF RowsInv, JobSorted, HandSorted, RowsSorted, Sorted, Zipped, Archive, IsRom
<1>8. MidMove(run[i])'
  BY <1>2, <1>3, <1>4 DEF RowsInv, MidMove, On, Has, TellsOf
<1>9. SeenRight(run[i])'
  <2>1. ASSUME run[i].at = "scan", NEW op \in run[i].todo
        PROVE  On(op.from)' /\ (The(op.left) = disk'[op.from] \/ disk'[op.from] \in replaced')
    <3>1. On(op.from) /\ (The(op.left) = disk[op.from] \/ disk[op.from] \in replaced)
      BY <2>1 DEF RowsInv, SeenRight
    <3>. QED
      BY <1>3, <1>4, <3>1 DEF On
  <2>2. \A f \in run[i].seen : run[i].at \in {"scan", "prune"} => On(f)' /\ f.dir \in InboxDir
    BY <1>3 DEF RowsInv, SeenRight, On
  <2>. QED
    BY <1>2, <1>5, <2>1, <2>2 DEF RowsInv, SeenRight, IsRom
<1>. QED
  BY <1>6, <1>7, <1>8, <1>9 DEF RowsInv

\* A run starts with the archives.
LEMMA StartIs ==
    ASSUME StayInv, Alone, Undisturbed,
           StartByHand \/ StartRouter \/ StartWizard \/ PageResolves \/ Wake \/ Poll \/ WatcherStarts
    PROVE  /\ disk' = disk /\ rows' = rows /\ tale' = tale /\ UNCHANGED <<losers, skipped, replaced>>
           /\ \/ run'["inbox"] = run["inbox"]
              \/ /\ run'["inbox"].at = "zips" /\ run'["inbox"].todo = ZipOps("inbox", "zip")
                 /\ run'["inbox"].hand = NoHand /\ run'["inbox"].spent = {}
<1>. DEFINE i == "inbox"
            w == "watcher"
<1>1. /\ disk' = disk /\ rows' = rows /\ tale' = tale /\ UNCHANGED <<losers, skipped, replaced>>
  BY DEF StartByHand, StartRouter, StartWizard, StartInbox, PageResolves, Wake, Poll, WatcherStarts, store, seenVars
<1>2. SaveOps = {}
  BY DEF SaveOps, Alone, NoSaves
<1>3. StartByHand \/ Poll \/ WatcherStarts
  BY <1>2 DEF Undisturbed, StartRouter, StartWizard, PageResolves, Wake
<1>4. i \in Actor /\ w \in Actor /\ i # w /\ run = [l \in Actor |-> run[l]]
  BY JobIs DEF Actor, Job
<1>5. run'[i] = run[i] \/ \E d : run'[i] = [Idle EXCEPT !.at = "zips", !.todo = ZipOps(i, "zip"), !.delete = d, !.saw = unseen]
  <2>1. CASE StartByHand
    BY <1>4, <2>1 DEF StartByHand, StartInbox, Begin, Listing
  <2>2. CASE Poll
    <3>1. PICK x : run' = [run EXCEPT ![w] = x]
      BY <2>2 DEF Poll
    <3>. QED
      BY <1>4, <3>1
  <2>3. CASE WatcherStarts
    <3>1. PICK wake : wake = [run EXCEPT ![w].at = "idle"]
      OBVIOUS
    <3>2. wake = [l \in Actor |-> wake[l]] /\ wake[i] = run[i]
      BY <1>4, <3>1
    <3>3. \/ run' = wake
          \/ \E d : run' = [wake EXCEPT ![i] = [Idle EXCEPT !.at = "zips", !.todo = ZipOps(i, "zip"),
                                                            !.delete = d, !.saw = unseen]]
      BY <2>3, <3>1 DEF WatcherStarts
    <3>. QED
      BY <1>4, <3>2, <3>3
  <2>. QED
    BY <1>3, <2>1, <2>2, <2>3
<1>6. ASSUME NEW d, run'[i] = [Idle EXCEPT !.at = "zips", !.todo = ZipOps(i, "zip"), !.delete = d, !.saw = unseen]
      PROVE  /\ run'[i].at = "zips" /\ run'[i].todo = ZipOps(i, "zip") /\ run'[i].hand = NoHand /\ run'[i].spent = {}
  <2>1. PICK todo : todo = ZipOps(i, "zip")
    OBVIOUS
  <2>2. run'[i] = [Idle EXCEPT !.at = "zips", !.todo = todo, !.delete = d, !.saw = unseen]
    BY <1>6, <2>1
  <2>3. run'[i].at = "zips" /\ run'[i].todo = todo /\ run'[i].hand = NoHand /\ run'[i].spent = {}
    BY <2>2 DEF Idle
  <2>. QED
    BY <2>1, <2>3
<1>. QED
  BY <1>1, <1>5, <1>6

\* That is before the scan.
LEMMA StartRows ==
    ASSUME StayInv, Alone, RowsInv, Undisturbed,
           StartByHand \/ StartRouter \/ StartWizard \/ PageResolves \/ Wake \/ Poll \/ WatcherStarts
    PROVE  RowsInv'
<1>. DEFINE i == "inbox"
<1>1. disk' = disk /\ rows' = rows /\ replaced' = replaced
  BY StartIs
<1>2. \/ run'[i] = run[i]
      \/ /\ run'[i].at = "zips" /\ run'[i].todo = ZipOps(i, "zip")
         /\ run'[i].hand = NoHand /\ run'[i].spent = {}
  BY StartIs
<1>3. CASE run'[i] = run[i]
  BY <1>1, <1>3 DEF RowsInv, JobSorted, HandSorted, RowsSorted, Sorted, Zipped, Archive, IsRom, RowsRight, Right,
     Unread, Parted, On, Has, TellsOf, SeenRight, MidMove
<1>4. ASSUME run'[i].at = "zips", NEW todo, todo = ZipOps(i, "zip"), run'[i].todo = todo,
             run'[i].hand = NoHand, run'[i].spent = {}
      PROVE  RowsInv'
  <2>1. \A op \in todo : Sorted("zips", op)
    <3>1. todo = Listing(i, "zips") /\ "zips" \in AloneAt
      BY <1>4 DEF Listing, AloneAt, Zips
    <3>. QED
      BY <3>1, ListedSorted
  <2>2. JobSorted(run[i])'
    BY <1>4, <2>1, ActsAt DEF JobSorted, HandSorted, NoHand, Sorted, Zipped, Archive, Zips
  <2>3. RowsRight'
    BY <1>1, <1>4, AsideRight DEF Scanned, StayInv
  <2>. QED
    BY <1>1, <1>4, <2>2, <2>3, SameRowsSorted DEF RowsInv, SeenRight, MidMove, NoHand
<1>. QED
  BY <1>2, <1>3, <1>4

LEMMA RowsInit == ASSUME Init PROVE RowsInv /\ Real
<1>1. run = [k \in Actor |-> Idle] /\ DOMAIN disk = {} /\ DOMAIN rows = {}
  BY DEF Init
<1>2. /\ run["inbox"].at = "idle" /\ run["inbox"].hand = NoHand
      /\ run["inbox"].todo = {} /\ run["inbox"].spent = {}
  BY <1>1 DEF Actor, Job, Idle
<1>3. JobSorted(run["inbox"])
  BY <1>2 DEF JobSorted, HandSorted, Acts, Zips, NoHand
<1>4. SeenRight(run["inbox"]) /\ MidMove(run["inbox"])
  BY <1>2 DEF SeenRight, MidMove, NoHand
<1>. QED
  BY <1>1, <1>3, <1>4 DEF RowsInv, Real, RowsSorted, RowsRight
-----------------------------------------------------------------------------
(* No file of nothing *)

LEMMA RealOf ==
    ASSUME Real, Apart,
           \A p \in DOMAIN disk' : disk'[p] \in Contents \/ \E f \in DOMAIN disk : disk'[p] = disk[f]
    PROVE  Real'
BY DEF Real, Apart

LEMMA MovedReal ==
    ASSUME Real, Apart, NEW p, NEW q, On(p), disk' = Moved(p, q)
    PROVE  Real'
<1>1. CASE p = q
  BY <1>1, RealOf DEF Moved
<1>2. CASE p # q
  <2>1. /\ DOMAIN disk' = (DOMAIN disk \ {p}) \cup {q} /\ disk'[q] = disk[p]
        /\ \A f \in DOMAIN disk \ {p, q} : disk'[f] = disk[f]
    BY <1>2, MovedIs
  <2>. QED
    BY <2>1, RealOf DEF On
<1>. QED
  BY <1>1, <1>2

LEMMA PutReal ==
    ASSUME Real, Apart, NEW q, NEW c \in Contents, disk' = Put(disk, q, c)
    PROVE  Real'
<1>1. /\ DOMAIN disk' = {q} \cup DOMAIN disk /\ disk'[q] = c
      /\ \A f \in DOMAIN disk \ {q} : disk'[f] = disk[f]
  BY PutIs
<1>. QED
  BY <1>1, RealOf

LEMMA DiscardReal ==
    ASSUME Real, Apart, NEW S, Discard(S)
    PROVE  Real'
<1>1. DOMAIN disk' = DOMAIN disk \ S /\ \A f \in DOMAIN disk' : disk'[f] = disk[f]
  BY DiscardedIs
<1>. QED
  BY <1>1, RealOf

LEMMA OneOf ==
    /\ Torn \in Contents /\ \A d \in tale.drops : d.has \in Contents
    /\ \A m \in Machine : m.content \in Contents
    /\ \A c \in DOMAIN Inner : \A m \in Inner[c] : m.content \in Contents
BY DEF Contents

LEMMA StepReal ==
    ASSUME StayInv, Alone, RowsInv, Apart, Real, Step("inbox")
    PROVE  Real'
<1>. DEFINE i == "inbox"
<1>1. CASE Advance(i) \/ Look(i) \/ Scan(i) \/ Prune(i) \/ Match(i) \/ RecordRename(i) \/ EnterRow(i) \/ Extracted(i)
  <2>1. disk' = disk
    BY <1>1, ExtractedIs DEF Advance, Look, Scan, Prune, Match, RecordRename, EnterRow, store
  <2>. QED
    BY <2>1, RealOf
<1>2. CASE Move(i) \/ TryMove(i) \/ OrganizeFile(i) \/ Enter(i)
  <2>1. disk' = disk \/ (On(From(i)) /\ disk' = Moved(From(i), To(i)))
    <3>1. CASE Move(i)
      BY <3>1, Zenon DEF Move, Abort, store
    <3>2. CASE TryMove(i)
      BY <3>2, Zenon DEF TryMove
    <3>3. CASE OrganizeFile(i)
      BY <3>3, Zenon DEF OrganizeFile
    <3>4. CASE Enter(i)
      BY <3>4, Zenon DEF Enter
    <3>. QED
      BY <1>2, <3>1, <3>2, <3>3, <3>4
  <2>. QED
    BY <2>1, MovedReal, RealOf
<1>3. CASE DiscardOne(i) \/ DiscardChips(i) \/ DropDuplicate(i) \/ Lose(i) \/ Swap(i)
  <2>1. disk' = disk \/ \E S : Discard(S)
    <3>1. CASE DiscardOne(i)
      BY <3>1, Zenon DEF DiscardOne, Abort, store
    <3>2. CASE DiscardChips(i)
      BY <3>2, Zenon DEF DiscardChips, Abort, store
    <3>3. CASE DropDuplicate(i)
      BY <3>3, Zenon DEF DropDuplicate
    <3>4. CASE Lose(i)
      BY <3>4, Zenon DEF Lose, DiscardFile
    <3>5. CASE Swap(i)
      BY <3>5, Zenon DEF Swap, DiscardFile
    <3>. QED
      BY <1>3, <3>1, <3>2, <3>3, <3>4, <3>5
  <2>. QED
    BY <2>1, DiscardReal, RealOf
<1>4. CASE ExtractMember(i)
  <2>1. PICK m \in run[i].hand.left : disk' = Put(disk, Member(To(i), m), m.content)
    BY <1>4 DEF ExtractMember
  <2>2. m.content \in Contents
    BY <1>4, ExtractingIs, OneOf DEF ExtractMember, Holding
  <2>. QED
    BY <2>1, <2>2, PutReal
<1>5. CASE Pack(i)
  <2>1. disk' = disk \/ disk' = Put(disk, To(i), run[i].hand.from.content)
    BY <1>5, Zenon DEF Pack
  <2>2. run[i].hand.do = "pack" /\ run[i].at = "chips"
    BY <1>5, Busy, ActsAt DEF Pack, Holding
  <2>3. run[i].hand.from \in Machine
    BY <2>2 DEF RowsInv, JobSorted, HandSorted, Sorted
  <2>4. run[i].hand.from.content \in Contents
    BY <2>3, OneOf
  <2>. QED
    BY <2>1, <2>4, PutReal, RealOf
<1>6. CASE RenameFile(i)
  <2>. DEFINE p == From(i)
              q == To(i)
  <2>1. CASE disk' = disk
    BY <2>1, RealOf
  <2>2. CASE disk' # disk
    <3>1. ~On(Companion(p))
      BY AtIs DEF Companion, Alone, NoSaves, On
    <3>2. PICK new : /\ new = [f \in {q} |-> IF f = q THEN disk[p]
                                             ELSE IF f = Companion(q) THEN disk[Companion(p)] ELSE disk[Companion(q)]]
                     /\ disk' = Over(new, Without(disk, {p, Companion(p)}))
                     /\ On(p) /\ ~On(q)
      BY <1>6, <2>2, <3>1 DEF RenameFile
    <3>3. PICK g : g = Without(disk, {p, Companion(p)})
      OBVIOUS
    <3>4. DOMAIN g = DOMAIN disk \ {p, Companion(p)} /\ \A f \in DOMAIN g : g[f] = disk[f]
      BY <3>3 DEF Without, Restrict
    <3>5. DOMAIN new = {q} /\ new[q] = disk[p] /\ p \in DOMAIN disk
      BY <3>2 DEF On
    <3>6. \A f \in DOMAIN disk' : disk'[f] = disk[p] \/ (f \in DOMAIN disk /\ disk'[f] = disk[f])
      BY <3>2, <3>3, <3>4, <3>5 DEF Over
    <3>. QED
      BY <3>5, <3>6, RealOf
  <2>. QED
    BY <2>1, <2>2
<1>. QED
  BY <1>1, <1>2, <1>3, <1>4, <1>5, <1>6 DEF Step

LEMMA WorldReal ==
    ASSUME StayInv, Alone, RowsInv, Apart, Real, Fail("inbox") \/ Arrive \/ Crash
    PROVE  Real'
<1>. DEFINE i == "inbox"
<1>1. CASE Fail(i)
  <2>1. disk' = disk \/ \E q : disk' = Put(disk, q, Torn)
    BY <1>1, Zenon DEF Fail
  <2>. QED
    BY <2>1, OneOf, PutReal, RealOf
<1>2. CASE Arrive
  <2>1. PICK d \in tale.drops : disk' = Put(disk, d.at, d.has)
    BY <1>2 DEF Arrive
  <2>. QED
    BY <2>1, OneOf, PutReal
<1>3. CASE Crash
  BY <1>3, MovedReal, RealOf DEF Crash
<1>. QED
  BY <1>1, <1>2, <1>3
-----------------------------------------------------------------------------
(* The rows of the library tell *)

LEMMA StepRows ==
    ASSUME StayInv, Alone, RowsInv, Apart, Real, Step("inbox")
    PROVE  RowsInv'
BY AdvanceRows, LookRows, AsideRows, ChipsRows, ExtractRows, ExtractedRows, ScanRows, PruneRows, MatchRows,
   RenameRows, FollowRows, OrganizeRows, DropRows, EnterRows
DEF Step

LEMMA RowsStay ==
    ASSUME StayInv, Alone, RowsInv, Undisturbed, Apart, Real, [Next]_vars
    PROVE  RowsInv' /\ Real'
<1>1. CASE UNCHANGED vars
  <2>1. disk' = disk /\ rows' = rows /\ run' = run /\ replaced' = replaced
    BY <1>1 DEF vars, store, seenVars
  <2>. QED
    BY <2>1, RealOf DEF RowsInv, JobSorted, HandSorted, RowsSorted, Sorted, Zipped, Archive, IsRom, RowsRight, Right,
       Unread, Parted, On, Has, TellsOf, SeenRight, MidMove
<1>2. CASE \E k \in Actor : Step(k) \/ Fail(k)
  BY <1>2, OthersRest, StepRows, StepReal, FailRows, WorldReal
<1>3. CASE Arrive \/ Crash
  BY <1>3, ArriveRows, CrashRows, WorldReal
<1>4. CASE StartByHand \/ StartRouter \/ StartWizard \/ PageResolves \/ Wake \/ Poll \/ WatcherStarts
  <2>1. disk' = disk
    BY <1>4 DEF StartByHand, StartRouter, StartWizard, StartInbox, PageResolves, Wake, Poll, WatcherStarts, store
  <2>. QED
    BY <1>4, <2>1, StartRows, RealOf
<1>. QED
  BY <1>1, <1>2, <1>3, <1>4 DEF Next, Watch, Actor

LEMMA RowsSay ==
    ASSUME RowsInv
    PROVE  RowsTell /\ \A p \in DOMAIN rows : Library(p) => On(p)
<1>1. \A p \in DOMAIN rows : Library(p) => Right(p)
  BY DEF RowsInv, RowsRight, Unread, Library
<1>. QED
  BY <1>1 DEF RowsTell, Right, TellsOf

\* The job alone writes true rows: as long as the page, the wizard and the router leave it
\* alone and no platform's folder is one of the Inbox, every row of the library has its file
\* and tells its content, whatever comes while a run is on and wherever the process dies, but
\* for what an upload or a second extraction wrote over (inbox_pipeline.py 1446-1464).  It
\* rests on the scan: between a file and its row, only names of the Inbox are ever wrong, and
\* those the next scan reads or prunes.
THEOREM AloneRowsTell ==
    Spec => [](Undisturbed /\ Apart => RowsTell /\ \A p \in DOMAIN rows : Library(p) => On(p))
<1>. DEFINE Inv == StayInv /\ (Undisturbed /\ Apart => Alone /\ Real /\ RowsInv)
<1>1. Init => Inv
  BY StayInit, AloneInit, RowsInit
<1>2. Inv /\ [Next]_vars => Inv'
  <2>. SUFFICES ASSUME Inv, [Next]_vars PROVE Inv'
    OBVIOUS
  <2>1. StayInv'
    BY StayNext
  <2>2. Apart' => Apart
    BY DropsStay DEF Apart, Contents
  <2>3. Undisturbed' /\ Apart' => Alone' /\ Real' /\ RowsInv'
    BY <2>2, TaleStays, AloneStays, RowsStay
  <2>. QED
    BY <2>1, <2>3
<1>3. Inv => (Undisturbed /\ Apart => RowsTell /\ \A p \in DOMAIN rows : Library(p) => On(p))
  BY RowsSay
<1>. QED
  BY <1>1, <1>2, <1>3, PTL DEF Spec
-----------------------------------------------------------------------------
(* The trash of the job alone *)

Leaf(C) == C \ DOMAIN Inner
Parts(c) == Opened({c})
Depths(c) == Within({c})

\* An archive bears the name of one; the sets that chips complete hold those chips.
Packed ==
    /\ \A d \in tale.drops : d.has \in DOMAIN Inner => Archive(d.at)
    /\ \A c \in DOMAIN Inner : \A m \in Inner[c] : m.content \in DOMAIN Inner => m.ext \in {"zip", "7z"}
    /\ Torn \notin DOMAIN Inner
    /\ \A m \in Machine : /\ m.content \in DOMAIN Inner
                          /\ m.chips \subseteq Leaf({x.content : x \in Inner[m.content]})

\* The archives whose members are all out, as long as they wait to be put away.
Asked(r) == {op.from : op \in r.todo} \cup (IF r.hand.do = "none" THEN {} ELSE {r.hand.from})
Waste(r) == IF r.at # "archive" THEN r.spent ELSE Asked(r)
Firm == {disk[p] : p \in DOMAIN disk \ Waste(run["inbox"])}
\* The archives that stay: those out of the Inbox.
Stocked(p) == Archive(p) /\ p.dir \notin InboxDir
Shelf == {disk[p] : p \in {q \in DOMAIN disk : Stocked(q)}}

\* What the job cannot lose, and what is an archive or two away from it.
Base == Range(disk) \cup Opened(Shelf) \cup losers \cup Within(skipped \cup replaced)
Near == Base \cup Opened(Firm)
Safe == Base \cup Within(Firm)

DiskPacked == \A p \in DOMAIN disk : disk[p] \in DOMAIN Inner => Archive(p)
WasteOK(p) ==
    /\ On(p) /\ Zipped(p)
    /\ disk[p] \in replaced \/ (disk[p] \in DOMAIN Inner /\ Leaf(Parts(disk[p])) \subseteq Base)
WasteRight == \A p \in Waste(run["inbox"]) : WasteOK(p)

\* Each archive is taken once, and none that is done with.
OnceRight(r) ==
    /\ r.at \in Zips \cup {"archive"} =>
         /\ \A op, other \in r.todo : op.from = other.from => op = other
         /\ r.hand.do # "none" => \A op \in r.todo : op.from # r.hand.from
    /\ r.at \in Zips => \A p \in Asked(r) : p \notin r.spent
    /\ r.at = "zips" => \A p \in r.spent \cup Asked(r) : p.ext = "zip"

\* A member that is out is on the disk, and so is what it holds, or close to it.
Out(m) == /\ m.content \notin DOMAIN Inner => m.content \in Base
          /\ Leaf(Parts(m.content)) \subseteq Near
ExtractRight(h) ==
    h.do = "extract" =>
        /\ On(h.from)
        /\ \A m \in h.left : m.content \in DOMAIN Inner => m.ext \in {"zip", "7z"}
        /\ \/ disk[h.from] \in replaced
           \/ disk[h.from] \in DOMAIN Inner /\ \A m \in Inner[disk[h.from]] \ h.left : Out(m)
SameRight(h) ==
    h.do \in {"dup", "discard"} =>
        On(h.from) /\ On(h.to) /\ h.from # h.to /\ (disk[h.from] = disk[h.to] \/ disk[h.from] \in replaced)
\* What a set is to be packed from is there: a chip that has gone left the pool.
ChipsOf(op) == \A f \in op.left : On(f) /\ disk[f] \in op.from.chips \cup replaced
ChipsRight(r) ==
    r.at = "chips" =>
        /\ \A op \in r.todo : ChipsOf(op)
        /\ r.hand.do # "none" => ChipsOf(r.hand)
        /\ r.hand.do = "chips" => On(r.hand.to) /\ disk[r.hand.to] = r.hand.from.content
TrashInv ==
    /\ DiskPacked /\ WasteRight /\ OnceRight(run["inbox"]) /\ ExtractRight(run["inbox"].hand)
    /\ SameRight(run["inbox"].hand) /\ ChipsRight(run["inbox"])
    /\ Leaf(Known) \subseteq Safe

LEMMA PartsOf == \A C, x : x \in Opened(C) <=> \E c \in C : x \in Parts(c)
BY DEF Opened, Parts

LEMMA DepthsOf == \A C, x : x \in Within(C) <=> \E c \in C : x \in Depths(c)
<1>. SUFFICES ASSUME NEW C, NEW x PROVE x \in Within(C) <=> \E c \in C : x \in Depths(c)
  OBVIOUS
<1>1. x \in Within(C) <=> \E d \in Opened(C) : x \in Parts(d)
  BY PartsOf DEF Within
<1>2. \A c : x \in Depths(c) <=> \E d \in Parts(c) : x \in Parts(d)
  BY PartsOf DEF Within, Depths, Parts
<1>. QED
  BY <1>1, <1>2, PartsOf

LEMMA PartsIs ==
    /\ \A c : c \in Parts(c) /\ Parts(c) \subseteq Depths(c)
    /\ \A c : c \notin DOMAIN Inner => Parts(c) = {c}
    /\ \A c \in DOMAIN Inner : Parts(c) = {c} \cup {m.content : m \in Inner[c]}
BY DEF Opened, Within, Parts, Depths

LEMMA DepthsIs ==
    /\ \A c : c \notin DOMAIN Inner => Depths(c) = {c}
    /\ \A c \in DOMAIN Inner : \A x : x \in Depths(c) <=> x = c \/ \E m \in Inner[c] : x \in Parts(m.content)
<1>1. ASSUME NEW c, c \notin DOMAIN Inner PROVE Depths(c) = {c}
  <2>1. Opened({c}) = {c}
    BY <1>1, PartsIs DEF Parts
  <2>. QED
    BY <2>1 DEF Depths, Within
<1>2. ASSUME NEW c \in DOMAIN Inner, NEW x
      PROVE  x \in Depths(c) <=> x = c \/ \E m \in Inner[c] : x \in Parts(m.content)
  <2>1. Parts(c) = {c} \cup {m.content : m \in Inner[c]}
    BY PartsIs
  <2>2. x \in Depths(c) <=> \E d \in Parts(c) : x \in Parts(d)
    BY PartsOf DEF Within, Depths, Parts
  <2>3. x \in Parts(c) => x = c \/ \E m \in Inner[c] : x = m.content
    BY <2>1
  <2>4. \A d : d \in Parts(d)
    BY PartsIs
  <2>5. ASSUME NEW d \in Parts(c), x \in Parts(d) PROVE x = c \/ \E m \in Inner[c] : x \in Parts(m.content)
    <3>1. CASE d = c
      BY <2>3, <2>4, <2>5, <3>1
    <3>2. CASE d # c
      <4>1. PICK m \in Inner[c] : d = m.content
        BY <2>1, <3>2
      <4>. QED
        BY <2>5, <4>1
    <3>. QED
      BY <3>1, <3>2
  <2>6. \A m \in Inner[c] : m.content \in Parts(c)
    BY <2>1
  <2>. QED
    BY <2>1, <2>2, <2>4, <2>5, <2>6
<1>. QED
  BY <1>1, <1>2

LEMMA Wider == \A C, D : C \subseteq D => /\ Opened(C) \subseteq Opened(D) /\ Within(C) \subseteq Within(D)
                                       /\ Opened(C) \subseteq Within(D) /\ C \subseteq Opened(D)
BY PartsOf, DepthsOf, PartsIs

LEMMA WithinUnion == \A C, D : Within(C \cup D) = Within(C) \cup Within(D)
BY DepthsOf

\* What becomes of the content of a file: another file has it, as safe as it was; or it was
\* replaced; or it is no archive, and is safe; or it is an archive whose members are out.
Heir(f) == \E g \in DOMAIN disk' : /\ disk'[g] = disk[f]
                                   /\ Stocked(f) => Stocked(g)
                                   /\ f \notin Waste(run["inbox"]) => g \notin Waste(run'["inbox"])
Survives(f) ==
    \/ Heir(f)
    \/ disk[f] \in replaced'
    \/ ~Stocked(f) /\ disk[f] \notin DOMAIN Inner /\ disk[f] \in Base'
    \/ ~Stocked(f) /\ disk[f] \in DOMAIN Inner /\ f \in Waste(run["inbox"])

Grown == Leaf(Base) \subseteq Base' /\ Leaf(Near) \subseteq Near' /\ Leaf(Safe) \subseteq Safe'

LEMMA BaseHas ==
    /\ Range(disk) \subseteq Base /\ Opened(Shelf) \subseteq Base /\ losers \subseteq Base
    /\ Within(skipped) \subseteq Base /\ Within(replaced) \subseteq Base
    /\ Base \subseteq Near /\ Base \subseteq Safe /\ Near \subseteq Safe
    /\ \A x : x \in Base <=> \/ x \in Range(disk) \/ x \in Opened(Shelf) \/ x \in losers
                             \/ x \in Within(skipped) \/ x \in Within(replaced)
<1>1. Within(skipped \cup replaced) = Within(skipped) \cup Within(replaced)
  BY WithinUnion
<1>2. Base = Range(disk) \cup Opened(Shelf) \cup losers \cup Within(skipped) \cup Within(replaced)
  BY <1>1 DEF Base
<1>3. Opened(Firm) \subseteq Within(Firm)
  BY Wider
<1>. QED
  BY <1>2, <1>3 DEF Near, Safe

LEMMA Grow ==
    ASSUME losers \subseteq losers', skipped \subseteq skipped', replaced \subseteq replaced',
           \A f \in DOMAIN disk : Survives(f)
    PROVE  Grown
<1>1. /\ Range(disk') \subseteq Base' /\ Opened(Shelf') \subseteq Base' /\ losers' \subseteq Base'
      /\ Within(skipped') \subseteq Base' /\ Within(replaced') \subseteq Base'
      /\ Base' \subseteq Near' /\ Base' \subseteq Safe'
  <2>1. Within(skipped' \cup replaced') = Within(skipped') \cup Within(replaced')
    BY WithinUnion
  <2>2. Base' = Range(disk') \cup Opened(Shelf') \cup losers' \cup Within(skipped') \cup Within(replaced')
    BY <2>1 DEF Base
  <2>. QED
    BY <2>2 DEF Near, Safe
<1>2. Within(skipped) \subseteq Within(skipped') /\ Within(replaced) \subseteq Within(replaced')
  BY Wider
<1>3. Opened(replaced') \subseteq Base' /\ replaced' \subseteq Base'
  BY <1>1, Wider
<1>4. Leaf(Base) \subseteq Base'
  <2>. SUFFICES ASSUME NEW x \in Leaf(Base) PROVE x \in Base'
    OBVIOUS
  <2>1. x \in Base /\ x \notin DOMAIN Inner
    BY DEF Leaf
  <2>2. CASE x \in Range(disk)
    <3>1. PICK f \in DOMAIN disk : x = disk[f]
      BY <2>2 DEF Range
    <3>2. Heir(f) => x \in Range(disk')
      BY <3>1 DEF Heir, Range
    <3>. QED
      BY <1>1, <1>3, <2>1, <3>1, <3>2 DEF Survives
  <2>3. CASE x \in Opened(Shelf)
    <3>1. PICK c \in Shelf : x \in Parts(c)
      BY <2>3, PartsOf
    <3>2. PICK f \in DOMAIN disk : Stocked(f) /\ c = disk[f]
      BY <3>1 DEF Shelf
    <3>3. Heir(f) \/ c \in replaced'
      BY <3>2 DEF Survives
    <3>4. Heir(f) => c \in Shelf'
      BY <3>2 DEF Heir, Shelf, Stocked, Archive
    <3>. QED
      BY <1>1, <1>3, <3>1, <3>3, <3>4, PartsOf
  <2>. QED
    BY <1>1, <1>2, <2>1, <2>2, <2>3, BaseHas
<1>5. ASSUME NEW f \in DOMAIN disk, f \notin Waste(run["inbox"])
      PROVE  disk[f] \in Firm' \/ disk[f] \in replaced' \/ (disk[f] \notin DOMAIN Inner /\ disk[f] \in Base')
  <2>1. Heir(f) => disk[f] \in Firm'
    BY <1>5 DEF Heir, Firm
  <2>. QED
    BY <1>5, <2>1 DEF Survives
<1>6. Leaf(Opened(Firm)) \subseteq Near'
  <2>. SUFFICES ASSUME NEW x \in Opened(Firm) PROVE x \in Near'
    BY DEF Leaf
  <2>1. PICK c \in Firm : x \in Parts(c)
    BY PartsOf
  <2>2. c \in Firm' \/ c \in replaced' \/ (c \notin DOMAIN Inner /\ c \in Base')
    BY <1>5 DEF Firm
  <2>3. CASE c \in Firm'
    <3>1. x \in Opened(Firm')
      BY <2>1, <2>3, PartsOf
    <3>. QED
      BY <3>1 DEF Near
  <2>4. CASE c \in replaced'
    BY <1>1, <1>3, <2>1, <2>4, PartsOf
  <2>5. CASE c \notin DOMAIN Inner /\ c \in Base'
    BY <1>1, <2>1, <2>5, PartsIs
  <2>. QED
    BY <2>2, <2>3, <2>4, <2>5
<1>7. Leaf(Within(Firm)) \subseteq Safe'
  <2>. SUFFICES ASSUME NEW x \in Within(Firm) PROVE x \in Safe'
    BY DEF Leaf
  <2>1. PICK c \in Firm : x \in Depths(c)
    BY DepthsOf
  <2>2. c \in Firm' \/ c \in replaced' \/ (c \notin DOMAIN Inner /\ c \in Base')
    BY <1>5 DEF Firm
  <2>3. CASE c \in Firm'
    <3>1. x \in Within(Firm')
      BY <2>1, <2>3, DepthsOf
    <3>. QED
      BY <3>1 DEF Safe
  <2>4. CASE c \in replaced'
    BY <1>1, <2>1, <2>4, DepthsOf
  <2>5. CASE c \notin DOMAIN Inner /\ c \in Base'
    BY <1>1, <2>1, <2>5, DepthsIs
  <2>. QED
    BY <2>2, <2>3, <2>4, <2>5
<1>8. Leaf(Near) \subseteq Near' /\ Leaf(Safe) \subseteq Safe'
  BY <1>1, <1>4, <1>6, <1>7 DEF Near, Safe, Leaf
<1>. QED
  BY <1>4, <1>8 DEF Grown

\* What a step owes to the invariant.
LEMMA KeptFile ==
    ASSUME NEW f \in DOMAIN disk, f \in DOMAIN disk', disk'[f] = disk[f],
           Waste(run'["inbox"]) \subseteq Waste(run["inbox"])
    PROVE  Survives(f)
BY DEF Survives, Heir

LEMMA SameGrow ==
    ASSUME disk' = disk, Waste(run'["inbox"]) \subseteq Waste(run["inbox"]),
           losers \subseteq losers', skipped \subseteq skipped', replaced \subseteq replaced'
    PROVE  Grown
BY Grow, KeptFile

LEMMA MovedGrow ==
    ASSUME TrashInv, NEW p, NEW q, On(p), ~On(q), disk' = Moved(p, q),
           Stocked(p) => Stocked(q), Archive(p) => Archive(q),
           Waste(run'["inbox"]) \subseteq Waste(run["inbox"]),
           losers' = losers, skipped' = skipped, replaced' = replaced
    PROVE  Grown /\ DiskPacked'
<1>1. p # q
  OBVIOUS
<1>2. /\ DOMAIN disk' = (DOMAIN disk \ {p}) \cup {q} /\ disk'[q] = disk[p]
      /\ \A f \in DOMAIN disk \ {p, q} : disk'[f] = disk[f]
  BY <1>1, MovedIs
<1>3. q \notin Waste(run'["inbox"])
  BY DEF TrashInv, WasteRight, WasteOK
<1>4. Heir(p)
  BY <1>2, <1>3 DEF Heir
<1>5. \A f \in DOMAIN disk \ {p} : f # q /\ Survives(f)
  BY <1>2, KeptFile DEF On
<1>6. Grown
  BY <1>4, <1>5, Grow DEF Survives
<1>7. DiskPacked'
  BY <1>2 DEF TrashInv, DiskPacked, On
<1>. QED
  BY <1>6, <1>7

LEMMA DiscardGrow ==
    ASSUME TrashInv, NEW S, Discard(S), \A f \in S \cap DOMAIN disk : Survives(f),
           Waste(run'["inbox"]) \subseteq Waste(run["inbox"]),
           losers \subseteq losers', skipped' = skipped, replaced' = replaced
    PROVE  Grown /\ DiskPacked'
<1>1. DOMAIN disk' = DOMAIN disk \ S /\ \A f \in DOMAIN disk' : disk'[f] = disk[f]
  BY DiscardedIs
<1>2. \A f \in DOMAIN disk : Survives(f)
  BY <1>1, KeptFile
<1>3. DiskPacked'
  BY <1>1 DEF TrashInv, DiskPacked
<1>. QED
  BY <1>2, <1>3, Grow

LEMMA PutGrow ==
    ASSUME TrashInv, NEW q, NEW c, disk' = Put(disk, q, c), On(q) => disk[q] = c \/ disk[q] \in replaced',
           c \in DOMAIN Inner => Archive(q),
           Waste(run'["inbox"]) \subseteq Waste(run["inbox"]),
           losers' = losers, skipped' = skipped, replaced \subseteq replaced'
    PROVE  Grown /\ DiskPacked'
<1>1. /\ DOMAIN disk' = {q} \cup DOMAIN disk /\ disk'[q] = c
      /\ \A f \in DOMAIN disk \ {q} : disk'[f] = disk[f]
  BY PutIs
<1>2. \A f \in DOMAIN disk \ {q} : Survives(f)
  BY <1>1, KeptFile
<1>3. q \in DOMAIN disk => Survives(q)
  BY <1>1, KeptFile DEF On, Survives
<1>4. Grown
  BY <1>2, <1>3, Grow
<1>5. DiskPacked'
  BY <1>1 DEF TrashInv, DiskPacked, Archive
<1>. QED
  BY <1>4, <1>5

LEMMA KnownStays ==
    ASSUME TrashInv, Grown, tale' = tale
    PROVE  (Leaf(Known) \subseteq Safe)'
BY DEF TrashInv, Grown, Known, Leaf

LEMMA WasteStays ==
    ASSUME TrashInv, Grown, replaced \subseteq replaced',
           \A p \in Waste(run'["inbox"]) :
               /\ p \in Waste(run["inbox"]) /\ p \in DOMAIN disk'
               /\ disk'[p] = disk[p] \/ disk'[p] \in replaced'
    PROVE  WasteRight'
<1>. SUFFICES ASSUME NEW p \in Waste(run'["inbox"]) PROVE WasteOK(p)'
  BY DEF WasteRight
<1>1. WasteOK(p) /\ p \in DOMAIN disk' /\ (disk'[p] = disk[p] \/ disk'[p] \in replaced')
  BY DEF TrashInv, WasteRight
<1>2. CASE disk'[p] \in replaced'
  BY <1>1, <1>2 DEF WasteOK, On, Zipped, Archive
<1>3. CASE disk'[p] = disk[p] /\ disk[p] \in replaced
  BY <1>1, <1>3 DEF WasteOK, On, Zipped, Archive
<1>4. CASE disk'[p] = disk[p] /\ disk[p] \in DOMAIN Inner /\ Leaf(Parts(disk[p])) \subseteq Base
  <2>1. Leaf(Parts(disk'[p])) \subseteq Base'
    BY <1>4 DEF Grown, Leaf
  <2>. QED
    BY <1>1, <1>4, <2>1 DEF WasteOK, On, Zipped, Archive
<1>. QED
  BY <1>1, <1>2, <1>3, <1>4 DEF WasteOK

\* A job that is done with what it has in hand.
LEMMA DoneWaste ==
    ASSUME StayInv, TrashInv, run["inbox"].hand.do # "none",
           Done("inbox") \/ run' = [run EXCEPT !["inbox"] = Idle] \/ run' = [k \in Actor |-> Idle]
    PROVE  /\ Waste(run'["inbox"]) \subseteq Waste(run["inbox"])
           /\ run["inbox"].at = "archive" => From("inbox") \notin Waste(run'["inbox"])
           /\ run'["inbox"].hand = NoHand /\ OnceRight(run'["inbox"])
           /\ run'["inbox"].todo \in {run["inbox"].todo, {}} /\ run'["inbox"].at \in {run["inbox"].at, "idle"}
<1>1. CASE Done("inbox")
  <2>1. /\ run'["inbox"].hand = NoHand /\ run'["inbox"].at = run["inbox"].at
        /\ run'["inbox"].todo = run["inbox"].todo /\ run'["inbox"].spent = run["inbox"].spent
    BY <1>1, JobHand DEF Done
  <2>2. Asked(run'["inbox"]) \subseteq Asked(run["inbox"])
    BY <2>1 DEF Asked, NoHand
  <2>3. OnceRight(run'["inbox"])
    BY <2>1, <2>2 DEF TrashInv, OnceRight, NoHand
  <2>4. run["inbox"].at = "archive" => From("inbox") \notin Asked(run'["inbox"])
    BY <2>1 DEF TrashInv, OnceRight, Asked, From, NoHand
  <2>. QED
    BY <2>1, <2>2, <2>3, <2>4 DEF Waste
<1>2. CASE run' = [run EXCEPT !["inbox"] = Idle] \/ run' = [k \in Actor |-> Idle]
  BY <1>2, JobIdle DEF Waste, OnceRight, Zips
<1>. QED
  BY <1>1, <1>2

LEMMA DoneTrash ==
    ASSUME StayInv, TrashInv, run["inbox"].hand.do # "none",
           Done("inbox") \/ run' = [run EXCEPT !["inbox"] = Idle] \/ run' = [k \in Actor |-> Idle],
           Grown, DiskPacked', tale' = tale, replaced \subseteq replaced',
           \A p \in Waste(run'["inbox"]) : p \in DOMAIN disk' /\ (disk'[p] = disk[p] \/ disk'[p] \in replaced'),
           run["inbox"].at = "chips" => disk' = disk
    PROVE  TrashInv'
<1>1. /\ Waste(run'["inbox"]) \subseteq Waste(run["inbox"])
      /\ run'["inbox"].hand = NoHand /\ OnceRight(run'["inbox"])
      /\ run'["inbox"].todo \in {run["inbox"].todo, {}} /\ run'["inbox"].at \in {run["inbox"].at, "idle"}
  BY DoneWaste
<1>2. WasteRight'
  BY <1>1, WasteStays
<1>3. ExtractRight(run["inbox"].hand)' /\ SameRight(run["inbox"].hand)'
  BY <1>1 DEF ExtractRight, SameRight, NoHand
<1>4. ChipsRight(run["inbox"])'
  <2>1. CASE run'["inbox"].at = "chips" /\ run["inbox"].at = "chips"
    <3>1. ASSUME NEW op \in run'["inbox"].todo PROVE ChipsOf(op)'
      <4>1. ChipsOf(op)
        BY <1>1, <2>1, <3>1 DEF TrashInv, ChipsRight
      <4>. QED
        BY <2>1, <4>1 DEF ChipsOf, On
    <3>. QED
      BY <1>1, <3>1 DEF ChipsRight, NoHand
  <2>. QED
    BY <1>1, <2>1 DEF ChipsRight
<1>5. OnceRight(run["inbox"])'
  BY <1>1 DEF OnceRight, Asked
<1>6. (Leaf(Known) \subseteq Safe)'
  BY KnownStays
<1>. QED
  BY <1>2, <1>3, <1>4, <1>5, <1>6 DEF TrashInv

\* A job that goes on with the next step of what it has in hand.
LEMMA ThenWaste ==
    ASSUME StayInv, NEW h, run' = [run EXCEPT !["inbox"].hand = h], run["inbox"].at # "archive"
    PROVE  Waste(run'["inbox"]) = Waste(run["inbox"])
BY JobHand DEF Waste

LEMMA ThenTrash ==
    ASSUME StayInv, TrashInv, run["inbox"].at \notin Zips \cup {"archive"},
           NEW h, run' = [run EXCEPT !["inbox"].hand = h], h.do \notin {"extract", "dup", "discard"},
           Grown, DiskPacked', tale' = tale, replaced \subseteq replaced',
           \A p \in Waste(run["inbox"]) : p \in DOMAIN disk' /\ (disk'[p] = disk[p] \/ disk'[p] \in replaced'),
           ChipsRight(run["inbox"])'
    PROVE  TrashInv'
<1>1. /\ run'["inbox"].hand = h /\ run'["inbox"].at = run["inbox"].at
  BY JobHand
<1>2. WasteRight'
  BY ThenWaste, WasteStays
<1>3. ExtractRight(run["inbox"].hand)' /\ SameRight(run["inbox"].hand)' /\ OnceRight(run["inbox"])'
  BY <1>1 DEF ExtractRight, SameRight, OnceRight, Zips
<1>4. (Leaf(Known) \subseteq Safe)'
  BY KnownStays
<1>. QED
  BY <1>2, <1>3, <1>4 DEF TrashInv

LEMMA WasteIs == ASSUME TrashInv, NEW p \in Waste(run["inbox"]) PROVE On(p) /\ Zipped(p) /\ Archive(p) /\ ~Stocked(p)
BY DEF TrashInv, WasteRight, WasteOK, Zipped, Stocked

LEMMA MoveTrash ==
    ASSUME StayInv, Alone, RowsInv, TrashInv, Move("inbox")
    PROVE  TrashInv'
<1>. DEFINE i == "inbox"
            p == From(i)
            q == To(i)
<1>1. run[i].hand.do = "move" /\ UNCHANGED <<tale, losers, skipped, replaced>>
  BY DEF Move, Holding, Abort, store
<1>2. Sorted(run[i].at, run[i].hand) /\ run[i].at \in Zips \cup {"bios", "md"}
  BY <1>1, Busy, ActsAt DEF RowsInv, JobSorted, HandSorted
<1>3. CASE disk' = disk /\ run' = [run EXCEPT ![i] = Idle]
  <2>1. Grown /\ DiskPacked'
    BY <1>1, <1>3, DoneWaste, SameGrow DEF TrashInv, DiskPacked
  <2>. QED
    BY <1>1, <1>3, <2>1, DoneTrash, DoneWaste, WasteIs DEF On
<1>4. CASE On(p) /\ disk' = Moved(p, q) /\ Done(i)
  <2>1. ~On(q)
    BY <1>1 DEF Alone, StillFree, Moving, To
  <2>2. ~Stocked(p) /\ (Archive(p) => Archive(q))
    BY <1>2 DEF Sorted, From, To, Stocked, Zipped, Archive
  <2>3. p \notin Waste(run[i])
    <3>1. CASE run[i].at \in Zips
      BY <1>1, <3>1 DEF TrashInv, OnceRight, Asked, From, Waste, Zips
    <3>2. CASE run[i].at \in {"bios", "md"}
      BY <1>2, <3>2, WasteIs DEF Sorted, From, Archive
    <3>. QED
      BY <1>2, <3>1, <3>2
  <2>4. /\ DOMAIN disk' = (DOMAIN disk \ {p}) \cup {q}
        /\ \A f \in DOMAIN disk \ {p, q} : disk'[f] = disk[f]
    BY <1>4, <2>1, MovedIs
  <2>5. Waste(run'[i]) \subseteq Waste(run[i])
    BY <1>1, <1>4, DoneWaste
  <2>6. Grown /\ DiskPacked'
    BY <1>1, <1>4, <2>1, <2>2, <2>5, MovedGrow
  <2>7. \A f \in Waste(run'[i]) : f \in DOMAIN disk' /\ disk'[f] = disk[f]
    BY <2>1, <2>3, <2>4, <2>5, WasteIs DEF On
  <2>8. run[i].at # "chips"
    BY <1>2 DEF Zips
  <2>. QED
    BY <1>1, <1>4, <2>6, <2>7, <2>8, DoneTrash
<1>. QED
  BY <1>3, <1>4, Zenon DEF Move, Abort, store

LEMMA TryTrash ==
    ASSUME StayInv, Alone, RowsInv, TrashInv, TryMove("inbox")
    PROVE  TrashInv'
<1>. DEFINE i == "inbox"
            p == From(i)
            q == To(i)
<1>1. run[i].hand.do = "try" /\ UNCHANGED <<tale, losers, skipped, replaced>> /\ Done(i)
  BY DEF TryMove, Holding
<1>2. Sorted("archive", run[i].hand) /\ run[i].at = "archive"
  BY <1>1, Busy, ActsAt DEF RowsInv, JobSorted, HandSorted
<1>3. Waste(run'[i]) \subseteq Waste(run[i]) /\ p \notin Waste(run'[i])
  BY <1>1, <1>2, DoneWaste
<1>4. CASE disk' = disk
  <2>1. Grown /\ DiskPacked'
    BY <1>1, <1>3, <1>4, SameGrow DEF TrashInv, DiskPacked
  <2>. QED
    BY <1>1, <1>3, <1>4, <2>1, DoneTrash, WasteIs DEF On
<1>5. CASE On(p) /\ disk' = Moved(p, q)
  <2>1. ~On(q)
    BY <1>1 DEF Alone, StillFree, Moving, To
  <2>2. Zipped(p) /\ IsPath(p)
    BY <1>1, <1>2, JobIs DEF Sorted, From, RunOK, HandOK, Movable
  <2>3. q = At("processed", p.stem, p.ext)
    BY <1>2, <2>2, EditedPath DEF Sorted, From, To
  <2>4. ~Stocked(p) /\ Archive(q)
    BY <2>2, <2>3, AtIs DEF Stocked, Zipped, Archive
  <2>5. Grown /\ DiskPacked'
    BY <1>1, <1>3, <1>5, <2>1, <2>4, MovedGrow
  <2>6. /\ DOMAIN disk' = (DOMAIN disk \ {p}) \cup {q}
        /\ \A f \in DOMAIN disk \ {p, q} : disk'[f] = disk[f]
    BY <1>5, <2>1, MovedIs
  <2>7. \A f \in Waste(run'[i]) : f \in DOMAIN disk' /\ disk'[f] = disk[f]
    BY <1>3, <2>1, <2>6, WasteIs DEF On
  <2>. QED
    BY <1>1, <1>2, <2>5, <2>7, DoneTrash
<1>. QED
  BY <1>4, <1>5, Zenon DEF TryMove

\* A BIOS that is a duplicate, or an archive that is done with.
LEMMA DiscardTrash ==
    ASSUME StayInv, Alone, RowsInv, TrashInv, DiscardOne("inbox")
    PROVE  TrashInv'
<1>. DEFINE i == "inbox"
            p == From(i)
            q == To(i)
<1>1. run[i].hand.do \in {"discard", "tidy"} /\ UNCHANGED <<tale, skipped, replaced>> /\ losers \subseteq losers'
  BY DEF DiscardOne, Abort, store, seenVars
<1>2. /\ Sorted(run[i].at, run[i].hand)
      /\ run[i].at = IF run[i].hand.do = "discard" THEN "bios" ELSE "archive"
  BY <1>1, Busy, ActsAt DEF RowsInv, JobSorted, HandSorted
<1>3. run' = [run EXCEPT ![i] = Idle] \/ Done(i)
  BY Zenon DEF DiscardOne, Abort
<1>4. Waste(run'[i]) \subseteq Waste(run[i]) /\ (run[i].at = "archive" => p \notin Waste(run'[i]))
  BY <1>1, <1>3, DoneWaste
<1>5. CASE disk' = disk
  <2>1. Grown /\ DiskPacked'
    BY <1>1, <1>4, <1>5, SameGrow DEF TrashInv, DiskPacked
  <2>. QED
    BY <1>1, <1>3, <1>4, <1>5, <2>1, DoneTrash, WasteIs DEF On
<1>6. CASE On(p) /\ Discard({p})
  <2>1. DOMAIN disk' = DOMAIN disk \ {p} /\ \A f \in DOMAIN disk' : disk'[f] = disk[f]
    BY <1>6, DiscardedIs
  <2>2. CASE run[i].hand.do = "discard"
    <3>1. p # q /\ On(q) /\ (disk[p] = disk[q] \/ disk[p] \in replaced)
      BY <2>2 DEF TrashInv, SameRight, From, To
    <3>2. ~Archive(p) /\ p \notin Waste(run[i])
      BY <1>2, <2>2, WasteIs DEF Sorted, From, Archive
    <3>3. disk[p] \notin DOMAIN Inner /\ ~Stocked(p)
      BY <1>6, <3>2 DEF TrashInv, DiskPacked, Stocked, On
    <3>4. disk[q] \in Range(disk')
      BY <2>1, <3>1 DEF Range, On
    <3>5. Range(disk') \subseteq Base'
      BY DEF Base
    <3>6. Survives(p)
      BY <1>1, <3>1, <3>3, <3>4, <3>5 DEF Survives
    <3>7. Grown /\ DiskPacked'
      BY <1>1, <1>4, <1>6, <3>6, DiscardGrow
    <3>8. \A f \in Waste(run'[i]) : f \in DOMAIN disk' /\ disk'[f] = disk[f]
      BY <1>4, <2>1, <3>2, WasteIs DEF On
    <3>. QED
      BY <1>1, <1>2, <1>3, <2>2, <3>7, <3>8, DoneTrash
  <2>3. CASE run[i].hand.do = "tidy"
    <3>1. p \in Waste(run[i])
      BY <1>2, <2>3 DEF Waste, Asked, From
    <3>2. ~Stocked(p) /\ (disk[p] \in replaced \/ disk[p] \in DOMAIN Inner)
      BY <3>1, WasteIs DEF TrashInv, WasteRight, WasteOK
    <3>3. Survives(p)
      BY <1>1, <3>1, <3>2 DEF Survives
    <3>4. Grown /\ DiskPacked'
      BY <1>1, <1>4, <1>6, <3>3, DiscardGrow
    <3>5. \A f \in Waste(run'[i]) : f \in DOMAIN disk' /\ disk'[f] = disk[f]
      BY <1>2, <1>4, <2>1, <2>3, WasteIs DEF On
    <3>. QED
      BY <1>1, <1>2, <1>3, <2>3, <3>4, <3>5, DoneTrash
  <2>. QED
    BY <1>1, <2>2, <2>3
<1>. QED
  BY <1>5, <1>6, Zenon DEF DiscardOne, Abort, store
-----------------------------------------------------------------------------
(* Archives and chips alone *)

LEMMA OutStays == ASSUME NEW m, Out(m), Grown PROVE Out(m)'
BY DEF Out, Grown, Leaf

LEMMA BaseOf ==
    /\ Range(disk) \subseteq Base /\ Opened(Shelf) \subseteq Base /\ Opened(Firm) \subseteq Near
    /\ \A c \in skipped \cup replaced : Parts(c) \subseteq Base /\ Depths(c) \subseteq Base
    /\ \A c \in Firm : Parts(c) \subseteq Near /\ Depths(c) \subseteq Safe
    /\ Base \subseteq Near /\ Base \subseteq Safe
<1>1. \A c \in skipped \cup replaced : Parts(c) \subseteq Base /\ Depths(c) \subseteq Base
  BY PartsIs, DepthsOf DEF Base
<1>2. \A c \in Firm : Parts(c) \subseteq Near /\ Depths(c) \subseteq Safe
  BY PartsOf, DepthsOf DEF Near, Safe
<1>. QED
  BY <1>1, <1>2 DEF Base, Near, Safe

\* The content of a file that is there is out.
LEMMA OnOut ==
    ASSUME WasteRight, NEW m, NEW q \in DOMAIN disk, disk[q] = m.content
    PROVE  Out(m)
<1>1. m.content \in Range(disk)
  BY DEF Range
<1>2. CASE q \notin Waste(run["inbox"])
  <2>1. m.content \in Firm
    BY <1>2 DEF Firm
  <2>. QED
    BY <1>1, <2>1, BaseOf DEF Out, Leaf
<1>3. CASE q \in Waste(run["inbox"])
  <2>1. m.content \in replaced \/ Leaf(Parts(m.content)) \subseteq Base
    BY <1>3 DEF WasteRight, WasteOK
  <2>. QED
    BY <1>1, <2>1, BaseOf DEF Out, Leaf
<1>. QED
  BY <1>2, <1>3

LEMMA ExtractTrash ==
    ASSUME StayInv, Alone, RowsInv, TrashInv, Packed, ExtractMember("inbox")
    PROVE  TrashInv'
<1>. DEFINE i == "inbox"
            p == From(i)
<1>1. PICK m \in run[i].hand.left :
         /\ disk' = Put(disk, Member(To(i), m), m.content)
         /\ run' = [run EXCEPT ![i].hand.left = @ \ {m}]
         /\ replaced' = IF On(Member(To(i), m)) /\ disk[Member(To(i), m)] # m.content
                        THEN replaced \cup {disk[Member(To(i), m)], m.content} ELSE replaced
  BY DEF ExtractMember
<1>2. run[i].hand.do = "extract" /\ On(p) /\ UNCHANGED <<tale, losers, skipped>>
  BY DEF ExtractMember, Holding
<1>3. PICK q : q = Member(To(i), m)
  OBVIOUS
<1>4. PICK left : left = run[i].hand.left \ {m}
  OBVIOUS
<1>5. PICK h : h = [run[i].hand EXCEPT !.left = left]
  OBVIOUS
<1>6. h.do = "extract" /\ h.from = p /\ h.to = To(i) /\ h.left = left
  BY <1>2, <1>5, JobIs DEF IsRun, From, To
<1>7. run' = [run EXCEPT ![i].hand = h]
  BY <1>1, <1>4, <1>5, JobIs
<1>8. /\ run'[i].hand = h /\ run'[i].at = run[i].at /\ run'[i].todo = run[i].todo
      /\ run'[i].spent = run[i].spent
  BY <1>7, JobHand
<1>9. run[i].at \in Zips
  BY <1>2, ExtractingIs
<1>10. Waste(run'[i]) = Waste(run[i]) /\ Asked(run'[i]) = Asked(run[i])
  BY <1>2, <1>6, <1>8, <1>9 DEF Waste, Asked, Zips, From
<1>11. q.ext = m.ext
  BY <1>3, AtIs DEF Member
<1>12. m.content \in DOMAIN Inner => Archive(q)
  BY <1>2, <1>11 DEF TrashInv, ExtractRight, Archive
<1>13. On(q) => disk[q] = m.content \/ disk[q] \in replaced'
  BY <1>1, <1>3
<1>14. replaced \subseteq replaced'
  BY <1>1
<1>15. Grown /\ DiskPacked'
  BY <1>1, <1>2, <1>3, <1>10, <1>12, <1>13, <1>14, PutGrow
<1>16. /\ DOMAIN disk' = {q} \cup DOMAIN disk /\ disk'[q] = m.content
       /\ \A f \in DOMAIN disk \ {q} : disk'[f] = disk[f]
  BY <1>1, <1>3, PutIs
<1>17. \A f \in DOMAIN disk : f \in DOMAIN disk' /\ (disk'[f] = disk[f] \/ disk'[f] \in replaced')
  BY <1>1, <1>3, <1>16 DEF On
<1>18. WasteRight'
  BY <1>10, <1>14, <1>15, <1>17, WasteIs, WasteStays DEF On
<1>19. Out(m)'
  <2>1. m.content \in Range(disk')
    BY <1>16 DEF Range
  <2>2. Range(disk') \subseteq Base' /\ Base' \subseteq Near' /\ Opened(Firm') \subseteq Near'
    BY DEF Base, Near
  <2>3. CASE q \notin Waste(run[i])
    <3>1. m.content \in Firm'
      BY <1>10, <1>16, <2>3 DEF Firm
    <3>2. Parts(m.content) \subseteq Near'
      BY <2>2, <3>1, PartsOf
    <3>. QED
      BY <2>1, <2>2, <3>2 DEF Out, Leaf
  <2>4. CASE q \in Waste(run[i])
    <3>1. WasteOK(q)'
      BY <1>10, <1>18, <2>4 DEF WasteRight
    <3>2. m.content \in replaced' \/ Leaf(Parts(m.content)) \subseteq Base'
      BY <1>16, <3>1 DEF WasteOK
    <3>3. CASE m.content \in replaced'
      <4>1. Parts(m.content) \subseteq Within(skipped' \cup replaced')
        BY <3>3, PartsIs, DepthsOf
      <4>. QED
        BY <2>1, <2>2, <4>1 DEF Out, Leaf, Base
    <3>. QED
      BY <2>1, <2>2, <3>2, <3>3 DEF Out, Leaf
  <2>. QED
    BY <2>3, <2>4
<1>20. ExtractRight(run[i].hand)'
  <2>1. \A x \in left : x \in run[i].hand.left
    BY <1>4
  <2>2. /\ \A x \in left : x.content \in DOMAIN Inner => x.ext \in {"zip", "7z"}
        /\ \/ disk[p] \in replaced
           \/ disk[p] \in DOMAIN Inner /\ \A x \in Inner[disk[p]] \ run[i].hand.left : Out(x)
    BY <1>2, <2>1 DEF TrashInv, ExtractRight, From
  <2>3. p \in DOMAIN disk' /\ (disk'[p] = disk[p] \/ disk'[p] \in replaced')
    BY <1>2, <1>17 DEF On
  <2>4. CASE disk'[p] \in replaced'
    BY <1>6, <1>8, <2>2, <2>3, <2>4 DEF ExtractRight, On
  <2>5. CASE disk'[p] = disk[p] /\ disk[p] \in replaced
    BY <1>6, <1>8, <1>14, <2>2, <2>3, <2>5 DEF ExtractRight, On
  <2>6. CASE disk'[p] = disk[p] /\ disk[p] \in DOMAIN Inner /\ \A x \in Inner[disk[p]] \ run[i].hand.left : Out(x)
    <3>1. \A x \in Inner[disk[p]] \ left : Out(x)'
      BY <1>4, <1>15, <1>19, <2>6, OutStays
    <3>. QED
      BY <1>6, <1>8, <2>2, <2>3, <2>6, <3>1 DEF ExtractRight, On
  <2>. QED
    BY <2>2, <2>3, <2>4, <2>5, <2>6
<1>21. SameRight(run[i].hand)' /\ ChipsRight(run[i])'
  BY <1>6, <1>8, <1>9 DEF SameRight, ChipsRight, Zips
<1>22. OnceRight(run[i])'
  <2>1. OnceRight(run[i])
    BY DEF TrashInv
  <2>. QED
    BY <1>2, <1>6, <1>8, <1>10, <2>1 DEF OnceRight, From, Asked
<1>23. (Leaf(Known) \subseteq Safe)'
  BY <1>2, <1>15, KnownStays
<1>. QED
  BY <1>15, <1>18, <1>20, <1>21, <1>22, <1>23 DEF TrashInv

\* An archive whose members are all out joins the waste: what it holds is safe without it.
LEMMA ExtractedTrash ==
    ASSUME StayInv, Alone, RowsInv, TrashInv, Extracted("inbox")
    PROVE  TrashInv'
<1>. DEFINE i == "inbox"
            p == From(i)
<1>1. /\ disk' = disk /\ tale' = tale /\ UNCHANGED <<losers, skipped, replaced>>
      /\ run[i].at \in Zips /\ run[i].hand.do = "extract"
      /\ run[i].hand.left = {} \/ ~On(p)
  BY ExtractedIs DEF seenVars
<1>2. On(p) /\ run[i].hand.left = {}
  BY <1>1 DEF TrashInv, ExtractRight, From
<1>3. disk[p] \in replaced \/ (disk[p] \in DOMAIN Inner /\ \A m \in Inner[disk[p]] : Out(m))
  BY <1>1, <1>2 DEF TrashInv, ExtractRight, From
<1>4. /\ run'[i].hand = NoHand /\ run'[i].at = run[i].at /\ run'[i].todo = run[i].todo
      /\ run'[i].spent = run[i].spent \cup {p}
  BY ExtractedIs
<1>5. Waste(run'[i]) = Waste(run[i]) \cup {p}
  BY <1>1, <1>4 DEF Waste, Zips
<1>6. Zipped(p)
  BY <1>1, ExtractingIs
<1>7. Base' = Base
  BY <1>1 DEF Base, Shelf
<1>8. disk[p] \in DOMAIN Inner /\ (\A m \in Inner[disk[p]] : Out(m)) =>
         Leaf(Parts(disk[p])) \subseteq Base /\ Leaf(Depths(disk[p])) \subseteq Near
  <2>. SUFFICES ASSUME disk[p] \in DOMAIN Inner, \A m \in Inner[disk[p]] : Out(m)
                PROVE  Leaf(Parts(disk[p])) \subseteq Base /\ Leaf(Depths(disk[p])) \subseteq Near
    OBVIOUS
  <2>1. PICK c : c = disk[p]
    OBVIOUS
  <2>2. Parts(c) = {c} \cup {m.content : m \in Inner[c]}
    BY <2>1, PartsIs
  <2>3. \A x : x \in Depths(c) <=> x = c \/ \E m \in Inner[c] : x \in Parts(m.content)
    BY <2>1, DepthsIs
  <2>4. \A m \in Inner[c] : Out(m)
    BY <2>1
  <2>5. Leaf(Parts(c)) \subseteq Base
    BY <2>1, <2>2, <2>4 DEF Leaf, Out
  <2>6. Leaf(Depths(c)) \subseteq Near
    BY <2>1, <2>3, <2>4 DEF Leaf, Out
  <2>. QED
    BY <2>1, <2>5, <2>6
<1>9. Leaf(Parts(disk[p])) \subseteq Base /\ Leaf(Depths(disk[p])) \subseteq Near
  BY <1>3, <1>8, BaseOf DEF Leaf
<1>10. \A c \in Firm : c \in Firm' \/ c = disk[p]
  BY <1>1, <1>5 DEF Firm
<1>11. Leaf(Opened(Firm)) \subseteq Near'
  <2>. SUFFICES ASSUME NEW x \in Opened(Firm), x \notin DOMAIN Inner PROVE x \in Near'
    BY DEF Leaf
  <2>1. PICK c \in Firm : x \in Parts(c)
    BY PartsOf
  <2>2. CASE c \in Firm'
    <3>1. x \in Opened(Firm')
      BY <2>1, <2>2, PartsOf
    <3>. QED
      BY <3>1 DEF Near
  <2>3. CASE c = disk[p]
    <3>1. x \in Base'
      BY <1>7, <1>9, <2>1, <2>3 DEF Leaf
    <3>. QED
      BY <3>1 DEF Near
  <2>. QED
    BY <1>10, <2>2, <2>3
<1>12. Leaf(Near) \subseteq Near'
  BY <1>7, <1>11 DEF Near, Leaf
<1>13. Near' \subseteq Safe'
  <2>1. Opened(Firm') \subseteq Within(Firm')
    BY Wider
  <2>. QED
    BY <2>1 DEF Near, Safe
<1>14. Leaf(Within(Firm)) \subseteq Safe'
  <2>. SUFFICES ASSUME NEW x \in Within(Firm), x \notin DOMAIN Inner PROVE x \in Safe'
    BY DEF Leaf
  <2>1. PICK c \in Firm : x \in Depths(c)
    BY DepthsOf
  <2>2. CASE c \in Firm'
    <3>1. x \in Within(Firm')
      BY <2>1, <2>2, DepthsOf
    <3>. QED
      BY <3>1 DEF Safe
  <2>3. CASE c = disk[p]
    BY <1>9, <1>12, <1>13, <2>1, <2>3 DEF Leaf
  <2>. QED
    BY <1>10, <2>2, <2>3
<1>15. Grown
  BY <1>7, <1>12, <1>14 DEF Grown, Safe, Leaf
<1>16. WasteRight'
  <2>1. ASSUME NEW f \in Waste(run[i]) PROVE WasteOK(f)'
    BY <1>1, <1>7 DEF TrashInv, WasteRight, WasteOK, On, Zipped, Archive
  <2>2. PICK f : f = p
    OBVIOUS
  <2>3. f \in DOMAIN disk' /\ f.dir \in InboxDir /\ f.ext \in {"zip", "7z"} /\ disk'[f] = disk[p]
    BY <1>1, <1>2, <1>6, <2>2 DEF On, Zipped, Archive
  <2>4. disk'[f] \in replaced' \/ (disk'[f] \in DOMAIN Inner /\ Leaf(Parts(disk'[f])) \subseteq Base')
    BY <1>1, <1>3, <1>7, <1>9, <2>3
  <2>5. WasteOK(f)'
    BY <2>3, <2>4 DEF WasteOK, On, Zipped, Archive
  <2>6. \A x \in Waste(run'[i]) : WasteOK(x)'
    BY <1>5, <2>1, <2>2, <2>5
  <2>. QED
    BY <2>6 DEF WasteRight
<1>17. OnceRight(run[i])'
  <2>1. Asked(run'[i]) \cup {p} = Asked(run[i]) /\ p \notin Asked(run'[i])
    <3>1. \A op \in run[i].todo : op.from # p
      BY <1>1 DEF TrashInv, OnceRight, From
    <3>. QED
      BY <1>1, <1>4, <3>1 DEF Asked, NoHand, From
  <2>. QED
    BY <1>1, <1>4, <2>1 DEF TrashInv, OnceRight, NoHand
<1>18. ExtractRight(run[i].hand)' /\ SameRight(run[i].hand)' /\ ChipsRight(run[i])'
  BY <1>1, <1>4 DEF ExtractRight, SameRight, ChipsRight, NoHand, Zips
<1>19. (Leaf(Known) \subseteq Safe)'
  BY <1>1, <1>15, KnownStays
<1>20. DiskPacked'
  BY <1>1 DEF TrashInv, DiskPacked
<1>. QED
  BY <1>16, <1>17, <1>18, <1>19, <1>20 DEF TrashInv

\* A set in place holds its chips.
LEMMA PackTrash ==
    ASSUME StayInv, Alone, RowsInv, TrashInv, Packed, Pack("inbox")
    PROVE  TrashInv'
<1>. DEFINE i == "inbox"
            q == To(i)
            m == run[i].hand.from
<1>1. run[i].hand.do = "pack" /\ UNCHANGED <<tale, losers, skipped, replaced>>
  BY DEF Pack, Holding
<1>2. Sorted("chips", run[i].hand) /\ run[i].at = "chips"
  BY <1>1, Busy, ActsAt DEF RowsInv, JobSorted, HandSorted
<1>3. CASE disk' = disk /\ Done(i)
  <2>1. Grown /\ DiskPacked'
    BY <1>1, <1>3, DoneWaste, SameGrow DEF TrashInv, DiskPacked
  <2>. QED
    BY <1>1, <1>3, <2>1, DoneTrash, DoneWaste, WasteIs DEF On
<1>4. CASE disk' = Put(disk, q, m.content) /\ Then(i, "chips")
  <2>1. PICK h : /\ run' = [run EXCEPT ![i].hand = h] /\ h.do = "chips"
                 /\ h.from = m /\ h.to = q /\ h.left = run[i].hand.left
    BY <1>4, JobThen DEF From
  <2>2. /\ run'[i].hand = h /\ run'[i].at = run[i].at /\ run'[i].todo = run[i].todo
    BY <2>1, JobHand
  <2>3. m \in Machine /\ q.ext = "zip" /\ Archive(q) /\ \A f \in h.left : f.ext = "chip"
    BY <1>2, <2>1 DEF Sorted, To, Archive
  <2>4. ~On(q)
    BY <1>1 DEF Alone, StillFree, Moving, To
  <2>5. Waste(run'[i]) = Waste(run[i])
    BY <1>2, <2>1, ThenWaste
  <2>6. Grown /\ DiskPacked'
    BY <1>1, <1>4, <2>3, <2>4, <2>5, PutGrow
  <2>7. /\ DOMAIN disk' = {q} \cup DOMAIN disk /\ disk'[q] = m.content
        /\ \A f \in DOMAIN disk \ {q} : disk'[f] = disk[f]
    BY <1>4, PutIs
  <2>8. \A f \in Waste(run[i]) : f \in DOMAIN disk' /\ disk'[f] = disk[f]
    BY <2>4, <2>7, WasteIs DEF On
  <2>9. \A op \in run[i].todo : ChipsOf(op) /\ \A f \in op.left : f.ext = "chip"
    BY <1>2 DEF RowsInv, JobSorted, Sorted, TrashInv, ChipsRight
  <2>10. \A op \in run[i].todo : ChipsOf(op)'
    <3>. SUFFICES ASSUME NEW op \in run[i].todo, NEW f \in op.left
                  PROVE  f \in DOMAIN disk' /\ disk'[f] \in op.from.chips \cup replaced'
      BY DEF ChipsOf, On
    <3>1. f # q
      BY <2>3, <2>9
    <3>. QED
      BY <1>1, <2>7, <2>9, <3>1 DEF ChipsOf, On
  <2>11. ChipsOf(run[i].hand)
    BY <1>1, <1>2 DEF TrashInv, ChipsRight
  <2>12. \A f \in h.left : f \in DOMAIN disk' /\ disk'[f] \in h.from.chips \cup replaced'
    <3>. SUFFICES ASSUME NEW f \in h.left
                  PROVE  f \in DOMAIN disk' /\ disk'[f] \in h.from.chips \cup replaced'
      OBVIOUS
    <3>1. f # q
      BY <2>3
    <3>. QED
      BY <1>1, <2>1, <2>7, <2>11, <3>1 DEF ChipsOf, On
  <2>13. h.to \in DOMAIN disk' /\ disk'[h.to] = h.from.content
    BY <2>1, <2>7
  <2>14. ChipsRight(run[i])'
    BY <2>2, <2>10, <2>12, <2>13 DEF ChipsRight, ChipsOf, On
  <2>15. run[i].at \notin Zips \cup {"archive"}
    BY <1>2 DEF Zips
  <2>. QED
    BY <1>1, <2>1, <2>6, <2>8, <2>14, <2>15, ThenTrash
<1>. QED
  BY <1>3, <1>4, Zenon DEF Pack

LEMMA ChipsTrash ==
    ASSUME StayInv, Alone, RowsInv, TrashInv, Packed, DiscardChips("inbox")
    PROVE  TrashInv'
<1>. DEFINE i == "inbox"
            q == To(i)
            m == run[i].hand.from
            S == run[i].hand.left
<1>1. run[i].hand.do = "chips" /\ UNCHANGED <<tale, losers, skipped, replaced>>
  BY DEF DiscardChips, Holding, Abort, seenVars
<1>2. Sorted("chips", run[i].hand) /\ run[i].at = "chips"
  BY <1>1, Busy, ActsAt DEF RowsInv, JobSorted, HandSorted
<1>3. CASE disk' = disk /\ run' = [run EXCEPT ![i] = Idle]
  <2>1. Grown /\ DiskPacked'
    BY <1>1, <1>3, DoneWaste, SameGrow DEF TrashInv, DiskPacked
  <2>. QED
    BY <1>1, <1>3, <2>1, DoneTrash, DoneWaste, WasteIs DEF On
<1>4. ASSUME Discard(S), NEW T \in SUBSET run[i].todo, \A op \in T : op.left \cap S = {},
             run' = [run EXCEPT ![i].todo = T, ![i].hand = NoHand]
      PROVE  TrashInv'
  <2>1. m \in Machine /\ q.ext = "zip" /\ q.dir = "arcade" /\ \A f \in S : f.ext = "chip"
    BY <1>2 DEF Sorted, To
  <2>2. ChipsOf(run[i].hand) /\ On(q) /\ disk[q] = m.content
    BY <1>1, <1>2 DEF TrashInv, ChipsRight, To
  <2>3. DOMAIN disk' = DOMAIN disk \ S /\ \A f \in DOMAIN disk' : disk'[f] = disk[f]
    BY <1>4, DiscardedIs
  <2>4. q \in DOMAIN disk' /\ disk'[q] = m.content
    BY <2>1, <2>2, <2>3 DEF On
  <2>5. m.content \in Shelf'
    <3>1. PICK x : x = q
      OBVIOUS
    <3>2. x \in DOMAIN disk' /\ disk'[x] = m.content /\ x.ext = "zip" /\ x.dir \notin InboxDir
      BY <2>1, <2>4, <3>1 DEF InboxDir
    <3>. QED
      BY <3>2 DEF Shelf, Stocked, Archive
  <2>6. m.chips \subseteq Base'
    <3>1. m.content \in DOMAIN Inner /\ m.chips \subseteq {x.content : x \in Inner[m.content]}
      BY <2>1 DEF Packed, Leaf
    <3>2. m.chips \subseteq Parts(m.content)
      BY <3>1, PartsIs
    <3>3. Parts(m.content) \subseteq Opened(Shelf')
      BY <2>5, PartsOf
    <3>. QED
      BY <3>2, <3>3 DEF Base
  <2>7. ASSUME NEW f \in S \cap DOMAIN disk PROVE Survives(f) /\ f \notin Waste(run[i])
    <3>1. ~Archive(f) /\ ~Stocked(f) /\ disk[f] \notin DOMAIN Inner
      BY <2>1 DEF Archive, Stocked, TrashInv, DiskPacked
    <3>2. f \notin Waste(run[i])
      BY <3>1, WasteIs
    <3>3. disk[f] \in m.chips \cup replaced
      BY <2>2 DEF ChipsOf, On
    <3>. QED
      BY <1>1, <2>6, <3>1, <3>2, <3>3 DEF Survives
  <2>8. /\ run'[i].hand = NoHand /\ run'[i].at = "chips" /\ run'[i].todo = T
        /\ run'[i].spent = run[i].spent
    BY <1>2, <1>4, JobIs, PoolKeeps DEF StayInv
  <2>9. Waste(run'[i]) = Waste(run[i]) /\ OnceRight(run'[i])
    BY <1>2, <2>8 DEF Waste, OnceRight, Zips
  <2>10. Grown /\ DiskPacked'
    BY <1>1, <1>4, <2>7, <2>9, DiscardGrow
  <2>11. \A f \in Waste(run'[i]) : f \in DOMAIN disk' /\ disk'[f] = disk[f]
    BY <2>3, <2>7, <2>9, WasteIs DEF On
  <2>12. WasteRight' /\ (Leaf(Known) \subseteq Safe)'
    BY <1>1, <2>9, <2>10, <2>11, WasteStays, KnownStays
  <2>13. ASSUME NEW op \in T, NEW f \in op.left
         PROVE  f \in DOMAIN disk' /\ disk'[f] \in op.from.chips \cup replaced'
    <3>1. On(f) /\ disk[f] \in op.from.chips \cup replaced
      BY <1>2 DEF TrashInv, ChipsRight, ChipsOf
    <3>2. f \notin S
      BY <1>4, <2>13
    <3>. QED
      BY <1>1, <2>3, <3>1, <3>2 DEF On
  <2>14. ChipsRight(run[i])'
    BY <2>8, <2>13 DEF ChipsRight, ChipsOf, On, NoHand
  <2>15. ExtractRight(run[i].hand)' /\ SameRight(run[i].hand)' /\ OnceRight(run[i])'
    BY <2>8, <2>9 DEF ExtractRight, SameRight, OnceRight, Asked, NoHand
  <2>. QED
    BY <2>10, <2>12, <2>14, <2>15 DEF TrashInv
<1>5. CASE Abort(i)
  BY <1>3, <1>5, Zenon DEF Abort, store
<1>. QED
  BY <1>4, <1>5, JobIs, PoolStep

\* What the job does with a ROM touches no archive and no chip.
LEMMA RomInHand ==
    ASSUME StayInv, RowsInv, TrashInv, run["inbox"].hand.do \in {"rename", "record", "organize", "dup"} \cup Conflict
    PROVE  /\ run["inbox"].at \notin Zips \cup {"archive", "chips"} /\ run["inbox"].hand.do # "none"
           /\ \A p \in {From("inbox"), To("inbox")} :
                 /\ ~Archive(p) /\ ~Stocked(p) /\ p \notin Waste(run["inbox"])
                 /\ On(p) => disk[p] \notin DOMAIN Inner
<1>1. run["inbox"].at \in {"rename", "organize"}
  BY AllRight
<1>2. \A p \in {From("inbox"), To("inbox")} : p.ext \in {"rom", "md"}
  BY JobIs DEF RunOK, HandOK, Incoming, IsRow, From, To
<1>3. \A p \in {From("inbox"), To("inbox")} : ~Archive(p)
  BY <1>2 DEF Archive
<1>. QED
  BY <1>1, <1>3, WasteIs DEF Zips, Stocked, TrashInv, DiskPacked, On, Conflict

\* Done or not, with the files as they were.
LEMMA RestTrash ==
    ASSUME StayInv, RowsInv, TrashInv, run["inbox"].hand.do # "none", disk' = disk, tale' = tale,
           losers \subseteq losers', skipped' = skipped, replaced' = replaced,
           Done("inbox") \/ run' = [run EXCEPT !["inbox"] = Idle]
    PROVE  TrashInv'
<1>1. Grown /\ DiskPacked'
  BY DoneWaste, SameGrow DEF TrashInv, DiskPacked
<1>. QED
  BY <1>1, DoneTrash, DoneWaste, WasteIs DEF On

\* A ROM is moved, and the job is done or goes on to its row.
LEMMA RomMoves ==
    ASSUME StayInv, RowsInv, TrashInv, run["inbox"].hand.do \in {"rename", "organize", "enter"},
           On(From("inbox")), ~On(To("inbox")), disk' = Moved(From("inbox"), To("inbox")), tale' = tale,
           losers' = losers, skipped' = skipped, replaced' = replaced,
           Done("inbox") \/ Then("inbox", "record") \/ Then("inbox", "row")
    PROVE  TrashInv'
<1>. DEFINE i == "inbox"
            p == From(i)
            q == To(i)
<1>1. /\ run[i].at \notin Zips \cup {"archive", "chips"} /\ run[i].hand.do # "none"
      /\ ~Archive(p) /\ ~Stocked(p) /\ p \notin Waste(run[i])
  BY RomInHand DEF Conflict
<1>2. p # q /\ p \in DOMAIN disk /\ q \notin DOMAIN disk
  BY DEF On
<1>3. \A f \in DOMAIN disk \ {p} : f \in DOMAIN disk' /\ disk'[f] = disk[f]
  <2>1. /\ DOMAIN disk' = (DOMAIN disk \ {p}) \cup {q}
        /\ \A f \in DOMAIN disk \ {p, q} : disk'[f] = disk[f]
    BY <1>2, MovedIs
  <2>. QED
    BY <1>2, <2>1
<1>4. CASE Done(i)
  <2>1. Waste(run'[i]) \subseteq Waste(run[i])
    BY <1>1, <1>4, DoneWaste
  <2>2. Grown /\ DiskPacked'
    BY <1>1, <2>1, MovedGrow
  <2>3. \A f \in Waste(run'[i]) : f \in DOMAIN disk' /\ disk'[f] = disk[f]
    BY <1>1, <1>3, <2>1, WasteIs DEF On
  <2>. QED
    BY <1>1, <1>4, <2>2, <2>3, DoneTrash
<1>5. ASSUME NEW act \in {"record", "row"}, Then(i, act)
      PROVE  TrashInv'
  <2>1. PICK h : run' = [run EXCEPT ![i].hand = h] /\ h.do = act
    BY <1>5, JobThen
  <2>2. Waste(run'[i]) = Waste(run[i]) /\ run'[i].at = run[i].at
    BY <1>1, <2>1, ThenWaste, JobHand
  <2>3. Grown /\ DiskPacked'
    BY <1>1, <2>2, MovedGrow
  <2>4. \A f \in Waste(run[i]) : f \in DOMAIN disk' /\ disk'[f] = disk[f]
    BY <1>1, <1>3, WasteIs DEF On
  <2>5. ChipsRight(run[i])'
    BY <1>1, <2>2 DEF ChipsRight
  <2>. QED
    BY <1>1, <2>1, <2>3, <2>4, <2>5, ThenTrash
<1>. QED
  BY <1>4, <1>5

LEMMA RenameTrash ==
    ASSUME StayInv, Alone, RowsInv, TrashInv, RenameFile("inbox")
    PROVE  TrashInv'
<1>. DEFINE i == "inbox"
            p == From(i)
            q == To(i)
<1>1. run[i].hand.do = "rename" /\ UNCHANGED <<tale, losers, skipped, replaced>>
  BY DEF RenameFile, Holding
<1>2. CASE disk' = disk /\ Done(i)
  BY <1>1, <1>2, RestTrash
<1>3. CASE disk' # disk \/ ~Done(i)
  <2>1. ~On(Companion(p))
    BY AtIs DEF Companion, Alone, NoSaves, On
  <2>2. PICK new : /\ new = [f \in {q} |-> IF f = q THEN disk[p]
                                           ELSE IF f = Companion(q) THEN disk[Companion(p)] ELSE disk[Companion(q)]]
                   /\ disk' = Over(new, Without(disk, {p, Companion(p)}))
                   /\ On(p) /\ ~On(q) /\ Then(i, "record")
    BY <1>3, <2>1 DEF RenameFile
  <2>3. DOMAIN new = {q} /\ new[q] = disk[p] /\ p # q
    BY <2>2
  <2>4. Without(disk, {p, Companion(p)}) = Without(disk, {p})
    <3>1. DOMAIN disk \ {p, Companion(p)} = DOMAIN disk \ {p}
      BY <2>1 DEF On
    <3>. QED
      BY <3>1 DEF Without
  <2>5. disk' = Moved(p, q)
    BY <2>2, <2>3, <2>4 DEF Over, Moved, Put
  <2>. QED
    BY <1>1, <2>2, <2>5, RomMoves
<1>. QED
  BY <1>2, <1>3

LEMMA FollowTrash ==
    ASSUME StayInv, Alone, RowsInv, TrashInv, RecordRename("inbox") \/ EnterRow("inbox")
    PROVE  TrashInv'
BY RestTrash DEF RecordRename, EnterRow, Holding, seenVars

LEMMA OrganizeTrash ==
    ASSUME StayInv, Alone, RowsInv, TrashInv, OrganizeFile("inbox") \/ Enter("inbox")
    PROVE  TrashInv'
<1>. DEFINE i == "inbox"
<1>1. run[i].hand.do \in {"organize", "enter"} /\ UNCHANGED <<tale, losers, skipped, replaced>>
  BY DEF OrganizeFile, Enter, Holding
<1>2. ~On(To(i))
  BY <1>1 DEF Alone, StillFree, Moving, To
<1>3. CASE disk' = disk /\ Done(i)
  BY <1>1, <1>3, RestTrash
<1>4. CASE On(From(i)) /\ disk' = Moved(From(i), To(i)) /\ (Done(i) \/ Then(i, "row"))
  BY <1>1, <1>2, <1>4, RomMoves
<1>5. CASE OrganizeFile(i)
  BY <1>3, <1>4, <1>5, Zenon DEF OrganizeFile
<1>6. CASE Enter(i)
  BY <1>3, <1>4, <1>6, Zenon DEF Enter
<1>. QED
  BY <1>5, <1>6

\* A ROM is discarded whose content stays: another file has it, or it has lost.
LEMMA RomGoes ==
    ASSUME StayInv, RowsInv, TrashInv, run["inbox"].hand.do \in {"dup", "lose", "swap"},
           NEW p \in {From("inbox"), To("inbox")}, On(p), Discard({p}), tale' = tale,
           disk[p] \in losers' \/ disk[p] \in replaced' \/ (\E g \in DOMAIN disk \ {p} : disk[g] = disk[p]),
           losers \subseteq losers', skipped' = skipped, replaced' = replaced,
           Done("inbox") \/ Then("inbox", "enter")
    PROVE  TrashInv'
<1>. DEFINE i == "inbox"
<1>1. /\ run[i].at \notin Zips \cup {"archive", "chips"} /\ run[i].hand.do # "none"
      /\ ~Archive(p) /\ ~Stocked(p) /\ p \notin Waste(run[i]) /\ disk[p] \notin DOMAIN Inner
  BY RomInHand DEF Conflict
<1>2. DOMAIN disk' = DOMAIN disk \ {p} /\ \A f \in DOMAIN disk' : disk'[f] = disk[f]
  BY DiscardedIs
<1>3. Survives(p)
  <2>1. losers' \subseteq Base' /\ Range(disk') \subseteq Base'
    BY DEF Base
  <2>2. ASSUME NEW g \in DOMAIN disk \ {p}, disk[g] = disk[p] PROVE disk[p] \in Range(disk')
    BY <1>2, <2>2 DEF Range
  <2>. QED
    BY <1>1, <2>1, <2>2 DEF Survives
<1>4. \A f \in Waste(run[i]) : f \in DOMAIN disk' /\ disk'[f] = disk[f]
  BY <1>1, <1>2, WasteIs DEF On
<1>5. CASE Done(i)
  <2>1. Waste(run'[i]) \subseteq Waste(run[i])
    BY <1>1, <1>5, DoneWaste
  <2>2. Grown /\ DiskPacked'
    BY <1>3, <2>1, DiscardGrow
  <2>. QED
    BY <1>1, <1>4, <1>5, <2>1, <2>2, DoneTrash
<1>6. CASE Then(i, "enter")
  <2>1. PICK h : run' = [run EXCEPT ![i].hand = h] /\ h.do = "enter"
    BY <1>6, JobThen
  <2>2. Waste(run'[i]) = Waste(run[i]) /\ run'[i].at = run[i].at
    BY <1>1, <2>1, ThenWaste, JobHand
  <2>3. Grown /\ DiskPacked'
    BY <1>3, <2>2, DiscardGrow
  <2>4. ChipsRight(run[i])'
    BY <1>1, <2>2 DEF ChipsRight
  <2>. QED
    BY <1>1, <1>4, <2>1, <2>3, <2>4, ThenTrash
<1>. QED
  BY <1>5, <1>6

LEMMA DropTrash ==
    ASSUME StayInv, Alone, RowsInv, TrashInv, DropDuplicate("inbox")
    PROVE  TrashInv'
<1>. DEFINE i == "inbox"
            p == From(i)
            q == To(i)
<1>1. run[i].hand.do = "dup" /\ Done(i) /\ UNCHANGED <<tale, losers, skipped, replaced>>
  BY DEF DropDuplicate, Holding
<1>2. On(p) /\ On(q) /\ p # q /\ (disk[p] = disk[q] \/ disk[p] \in replaced)
  BY <1>1 DEF TrashInv, SameRight, From, To
<1>3. Discard({p})
  BY <1>2 DEF DropDuplicate
<1>4. disk[p] \in replaced' \/ \E g \in DOMAIN disk \ {p} : disk[g] = disk[p]
  BY <1>1, <1>2 DEF On
<1>. QED
  BY <1>1, <1>2, <1>3, <1>4, RomGoes

LEMMA LoseTrash ==
    ASSUME StayInv, Alone, RowsInv, TrashInv, Lose("inbox") \/ Swap("inbox")
    PROVE  TrashInv'
<1>. DEFINE i == "inbox"
<1>1. PICK p \in {From(i), To(i)} :
         /\ run[i].hand.do \in {"lose", "swap"} /\ UNCHANGED <<tale, skipped, replaced>>
         /\ DiscardFile(p) /\ (Done(i) \/ Then(i, "enter"))
         /\ run[i].hand.do = "swap" => Then(i, "enter")
  BY DEF Lose, Swap, Holding
<1>2. CASE On(p)
  <2>1. Discard({p}) /\ losers' = losers \cup {disk[q] : q \in {p} \cap DOMAIN disk}
    BY <1>1, <1>2 DEF DiscardFile
  <2>2. losers \subseteq losers' /\ disk[p] \in losers'
    BY <1>2, <2>1 DEF On
  <2>. QED
    BY <1>1, <1>2, <2>1, <2>2, RomGoes
<1>3. CASE ~On(p)
  <2>1. disk' = disk /\ losers' = losers
    BY <1>1, <1>3 DEF DiscardFile, On
  <2>2. CASE Done(i)
    BY <1>1, <2>1, <2>2, RestTrash
  <2>3. CASE Then(i, "enter")
    <3>1. run[i].at \notin Zips \cup {"archive", "chips"}
      BY <1>1, RomInHand DEF Conflict
    <3>2. PICK h : run' = [run EXCEPT ![i].hand = h] /\ h.do = "enter"
      BY <2>3, JobThen
    <3>3. Waste(run'[i]) = Waste(run[i]) /\ run'[i].at = run[i].at
      BY <3>1, <3>2, ThenWaste, JobHand
    <3>4. Grown /\ DiskPacked'
      BY <1>1, <2>1, <3>3, SameGrow DEF TrashInv, DiskPacked
    <3>5. ChipsRight(run[i])'
      BY <3>1, <3>3 DEF ChipsRight
    <3>6. \A f \in Waste(run[i]) : f \in DOMAIN disk' /\ disk'[f] = disk[f]
      BY <2>1, WasteIs DEF On
    <3>. QED
      BY <1>1, <3>1, <3>2, <3>4, <3>5, <3>6, ThenTrash
  <2>. QED
    BY <1>1, <2>2, <2>3
<1>. QED
  BY <1>2, <1>3
-----------------------------------------------------------------------------
(* The phases and the looks alone *)

LEMMA IdleTrash ==
    ASSUME StayInv, TrashInv, run' = [run EXCEPT !["inbox"] = Idle] \/ run' = [k \in Actor |-> Idle],
           Grown, DiskPacked', tale' = tale
    PROVE  TrashInv'
<1>1. run'["inbox"].at = "idle" /\ run'["inbox"].hand = NoHand /\ run'["inbox"].todo = {} /\ run'["inbox"].spent = {}
  BY JobIdle
<1>2. WasteRight' /\ OnceRight(run["inbox"])'
  BY <1>1 DEF WasteRight, Waste, OnceRight, Zips
<1>3. ExtractRight(run["inbox"].hand)' /\ SameRight(run["inbox"].hand)' /\ ChipsRight(run["inbox"])'
  BY <1>1 DEF ExtractRight, SameRight, ChipsRight, NoHand
<1>. QED
  BY <1>2, <1>3, KnownStays DEF TrashInv

\* The 7z archives come only after the zips, and the job ends with its archives.
LEMMA NextIs ==
    ASSUME Alone, run["inbox"].at \notin {"idle", "scan", "prune", "match"}
    PROVE  /\ Following("inbox", run["inbox"].at) \in Zips =>
                 run["inbox"].at = "zips" /\ Following("inbox", run["inbox"].at) = "sevenzips"
           /\ run["inbox"].at = "archive" => Following("inbox", run["inbox"].at) = "end"
<1>. DEFINE phase == run["inbox"].at
            seq == Phases["inbox"]
            now == CHOOSE n \in DOMAIN seq : seq[n] = phase
            later == {n \in DOMAIN seq : n > now /\ (seq[n] = "scan" \/ Listing("inbox", seq[n]) # {})}
<1>1. seq = <<"route", "zips", "sevenzips", "bios", "md", "chips", "saves", "scan", "match",
              "plan", "rename", "organize", "archive">>
  BY DEF Phases
<1>2. /\ DOMAIN seq = 1..13 /\ seq[1] = "route" /\ seq[2] = "zips" /\ seq[3] = "sevenzips" /\ seq[4] = "bios"
      /\ seq[5] = "md" /\ seq[6] = "chips" /\ seq[7] = "saves" /\ seq[8] = "scan"
      /\ seq[9] = "match" /\ seq[10] = "plan" /\ seq[11] = "rename" /\ seq[12] = "organize"
      /\ seq[13] = "archive"
  BY <1>1
<1>3. phase \in Zips \cup {"bios", "md", "chips", "plan", "rename", "organize", "archive"}
  BY DEF Alone, JobOK, AloneAt
<1>4. \E n \in 1..13 : seq[n] = phase
  BY <1>2, <1>3 DEF Zips
<1>5. now \in 1..13 /\ seq[now] = phase
  BY <1>2, <1>4
<1>6. later \in SUBSET (1..13) /\ \A n \in later : n > now
  BY <1>2
<1>7. Following("inbox", phase) = IF later = {} THEN "end" ELSE seq[Min(later)]
  BY DEF Following
<1>8. PICK place : place = now
  OBVIOUS
<1>9. PICK rest : rest = later
  OBVIOUS
<1>10. place \in 1..13 /\ seq[place] = phase /\ rest \in SUBSET (1..13) /\ \A n \in rest : n > place
  BY <1>5, <1>6, <1>8, <1>9
<1>11. phase = "archive" => Following("inbox", phase) = "end"
  <2>. SUFFICES ASSUME phase = "archive" PROVE rest = {}
    BY <1>7, <1>9
  <2>1. place = 13
    <3>. HIDE DEF seq, now, later
    <3>. QED
      BY <1>2, <1>10
  <2>. QED
    BY <1>10, <2>1
<1>12. ASSUME Following("inbox", phase) \in Zips
       PROVE  phase = "zips" /\ Following("inbox", phase) = "sevenzips"
  <2>1. rest # {} /\ Following("inbox", phase) = seq[Min(rest)]
    BY <1>7, <1>9, <1>12 DEF Zips
  <2>2. PICK least : least = Min(rest)
    OBVIOUS
  <2>3. least \in rest
    BY <1>10, <2>1, <2>2, FirstOfSome
  <2>4. least \in 1..13 /\ least > place /\ seq[least] \in Zips
    BY <1>10, <1>12, <2>1, <2>2, <2>3
  <2>5. least = 2 \/ least = 3
    <3>. HIDE DEF seq, now, later
    <3>. QED
      BY <1>2, <2>4 DEF Zips
  <2>6. place # 1
    <3>. HIDE DEF seq, now, later
    <3>. QED
      BY <1>2, <1>3, <1>10 DEF Zips
  <2>7. place = 2 /\ least = 3
    BY <1>10, <2>4, <2>5, <2>6
  <2>. QED
    BY <1>2, <1>10, <2>1, <2>2, <2>7
<1>. QED
  BY <1>11, <1>12

\* A phase that has no archive and no chip in its list.
LEMMA PhaseTrash ==
    ASSUME StayInv, TrashInv, disk' = disk, tale' = tale, UNCHANGED <<losers, skipped, replaced>>,
           run["inbox"].at # "archive", run'["inbox"].hand.do = "none",
           Waste(run'["inbox"]) = run["inbox"].spent, OnceRight(run'["inbox"]), ChipsRight(run["inbox"])'
    PROVE  TrashInv'
<1>1. Waste(run'["inbox"]) = Waste(run["inbox"])
  BY DEF Waste
<1>2. Grown /\ DiskPacked'
  BY <1>1, SameGrow DEF TrashInv, DiskPacked
<1>3. WasteRight'
  BY <1>1, <1>2, WasteIs, WasteStays DEF On
<1>4. ExtractRight(run["inbox"].hand)' /\ SameRight(run["inbox"].hand)'
  BY DEF ExtractRight, SameRight
<1>5. OnceRight(run["inbox"])'
  BY DEF OnceRight, Asked
<1>. QED
  BY <1>2, <1>3, <1>4, <1>5, KnownStays DEF TrashInv

LEMMA AdvanceTrash ==
    ASSUME StayInv, Alone, RowsInv, TrashInv, Advance("inbox")
    PROVE  TrashInv'
<1>. DEFINE i == "inbox"
            next == Following(i, run[i].at)
<1>1. /\ disk' = disk /\ tale' = tale /\ UNCHANGED <<losers, skipped, replaced>> /\ run[i].hand = NoHand
      /\ run[i].at \notin {"idle", "scan", "prune", "match"}
  BY DEF Advance, store, Free
<1>2. CASE run' = [run EXCEPT ![i] = Idle]
  <2>1. Waste(run'[i]) \subseteq Waste(run[i])
    BY <1>2, JobIdle DEF Waste
  <2>2. Grown /\ DiskPacked'
    BY <1>1, <2>1, SameGrow DEF TrashInv, DiskPacked
  <2>. QED
    BY <1>1, <1>2, <2>2, IdleTrash
<1>3. ASSUME next # "end", NEW seen, NEW todo, todo = Listing(i, next),
             run' = [run EXCEPT ![i].at = next, ![i].todo = todo, ![i].seen = seen]
      PROVE  TrashInv'
  <2>1. PICK n : n = next
    OBVIOUS
  <2>2. /\ run'[i].at = n /\ run'[i].todo = todo /\ run'[i].hand = NoHand /\ run'[i].spent = run[i].spent
    BY <1>1, <1>3, <2>1, JobForm
  <2>3. run[i].at # "archive" /\ (n \in Zips => run[i].at = "zips" /\ n = "sevenzips")
    BY <1>1, <1>3, <2>1, NextIs
  <2>4. run'[i].hand.do = "none"
    BY <2>2 DEF NoHand
  <2>5. CASE n = "archive"
    <3>1. todo = {Op(p, [p EXCEPT !.dir = "processed"]) : p \in run[i].spent}
      BY <1>3, <2>1, <2>5 DEF Listing, ArchiveOps
    <3>2. \A op \in todo : op.from \in run[i].spent /\ op = Op(op.from, [op.from EXCEPT !.dir = "processed"])
      BY <3>1 DEF Op
    <3>3. ASSUME NEW p \in run[i].spent PROVE \E op \in todo : op.from = p
      <4>1. PICK op : op = Op(p, [p EXCEPT !.dir = "processed"])
        OBVIOUS
      <4>2. op \in todo /\ op.from = p
        BY <3>1, <4>1 DEF Op
      <4>. QED
        BY <4>2
    <3>4. Waste(run'[i]) = run[i].spent
      <4>1. Waste(run'[i]) = {op.from : op \in todo}
        BY <2>2, <2>4, <2>5 DEF Waste, Asked
      <4>. QED
        BY <3>2, <3>3, <4>1
    <3>5. OnceRight(run'[i])
      BY <2>2, <2>4, <2>5, <3>2 DEF OnceRight, Zips
    <3>6. ChipsRight(run[i])'
      BY <2>2, <2>5 DEF ChipsRight
    <3>. QED
      BY <1>1, <2>3, <2>4, <3>4, <3>5, <3>6, PhaseTrash
  <2>6. CASE n = "chips"
    <3>1. todo = ChipOps
      BY <1>3, <2>1, <2>6 DEF Listing
    <3>2. ASSUME NEW op \in todo PROVE \A f \in op.left : f \in DOMAIN disk /\ disk[f] \in op.from.chips
      <4>1. PICK m \in Machine : \E S \in Picks(m) :
               op = [from |-> m, to |-> At("arcade", m.stem, "zip"), left |-> S]
        BY <3>1 DEF ChipOps
      <4>2. op.from = m /\ op.left \in Picks(m)
        BY <4>1
      <4>. QED
        BY <4>2 DEF Picks, Chips
    <3>3. ChipsRight(run[i])'
      BY <1>1, <2>2, <2>4, <3>2 DEF ChipsRight, ChipsOf, On, NoHand
    <3>4. Waste(run'[i]) = run[i].spent /\ OnceRight(run'[i])
      BY <2>2, <2>6 DEF Waste, OnceRight, Zips
    <3>. QED
      BY <1>1, <2>3, <2>4, <3>3, <3>4, PhaseTrash
  <2>7. CASE n = "sevenzips"
    <3>1. todo = {Op(p, At("arcade", p.stem, "7z")) : p \in {f \in Files(i) : f.ext = "7z"}}
      BY <1>3, <2>1, <2>7 DEF Listing, ZipOps
    <3>2. \A op \in todo : op.from.ext = "7z" /\ op = Op(op.from, At("arcade", op.from.stem, "7z"))
      BY <3>1 DEF Op
    <3>3. \A p \in run[i].spent : p.ext = "zip"
      BY <2>3, <2>7 DEF TrashInv, OnceRight, Zips
    <3>4. \A p \in Asked(run'[i]) : p \notin run'[i].spent
      BY <2>2, <2>4, <3>2, <3>3 DEF Asked
    <3>5. OnceRight(run'[i])
      BY <2>2, <2>4, <2>7, <3>2, <3>4 DEF OnceRight, Zips
    <3>6. Waste(run'[i]) = run[i].spent /\ ChipsRight(run[i])'
      BY <2>2, <2>7 DEF Waste, ChipsRight
    <3>. QED
      BY <1>1, <2>3, <2>4, <3>5, <3>6, PhaseTrash
  <2>8. CASE n \notin Zips \cup {"archive", "chips"}
    <3>1. Waste(run'[i]) = run[i].spent /\ OnceRight(run'[i]) /\ ChipsRight(run[i])'
      BY <2>2, <2>8 DEF Waste, OnceRight, ChipsRight, Zips
    <3>. QED
      BY <1>1, <2>3, <2>4, <3>1, PhaseTrash
  <2>. QED
    BY <2>3, <2>5, <2>6, <2>7, <2>8
<1>. QED
  BY <1>2, <1>3 DEF Advance

LEMMA TableTrash ==
    ASSUME StayInv, Alone, RowsInv, TrashInv, Scan("inbox") \/ Prune("inbox") \/ Match("inbox")
    PROVE  TrashInv'
<1>. DEFINE i == "inbox"
<1>1. disk' = disk /\ tale' = tale /\ UNCHANGED <<losers, skipped, replaced>> /\ run[i].at \in {"scan", "prune", "match"}
  BY DEF Scan, Prune, Match, seenVars
<1>2. run[i].hand.do = "none"
  BY <1>1, Busy
<1>3. /\ run'[i].at \in {"prune", "match", "plan"} /\ run'[i].hand = run[i].hand /\ run'[i].spent = run[i].spent
  <2>1. PICK todo : todo = MatchOps
    OBVIOUS
  <2>2. CASE Prune(i)
    BY <2>1, <2>2, JobForm DEF Prune
  <2>3. CASE Scan(i) \/ Match(i)
    BY <2>3, JobPhase DEF Scan, Match
  <2>. QED
    BY <2>2, <2>3
<1>4. Waste(run'[i]) = run[i].spent /\ OnceRight(run'[i]) /\ ChipsRight(run[i])'
  BY <1>3 DEF Waste, OnceRight, ChipsRight, Zips
<1>. QED
  BY <1>1, <1>2, <1>3, <1>4, PhaseTrash

\* A member that is not asked for is there, or is left in its archive.
LEMMA LeftOut ==
    ASSUME StayInv, Alone, RowsInv, TrashInv, NEW op \in run["inbox"].todo, Grown,
           run["inbox"].at \notin {"scan", "prune", "match"}, Choice("inbox", op) = "extract",
           skipped' = skipped \cup Taken("inbox", op)
    PROVE  /\ run["inbox"].at \in Zips /\ On(op.from) /\ disk[op.from] \in DOMAIN Inner
           /\ \A m \in Inner[disk[op.from]] \ Members("inbox", op) : Out(m)'
<1>. DEFINE i == "inbox"
<1>1. run[i].at \in Zips
  BY ChoiceSorted, ActsAt
<1>2. On(op.from) /\ disk[op.from] \in DOMAIN Inner
  BY <1>1 DEF Choice, ZipChoice, Zips
<1>3. ASSUME NEW m \in Inner[disk[op.from]] \ Members(i, op) PROVE Out(m)'
  <2>1. PICK q : q = Member(Into(i, op.from), m)
    OBVIOUS
  <2>2. q \in DOMAIN disk
    BY <1>3, <2>1 DEF Members, On
  <2>3. CASE disk[q] = m.content
    BY <2>2, <2>3, OnOut, OutStays DEF TrashInv
  <2>4. CASE disk[q] # m.content
    <3>1. m.content \in skipped'
      BY <1>3, <2>1, <2>4 DEF Taken
    <3>2. Parts(m.content) \subseteq Within(skipped' \cup replaced') /\ m.content \in Parts(m.content)
      BY <3>1, PartsIs, DepthsOf
    <3>3. Parts(m.content) \subseteq Base' /\ Base' \subseteq Near'
      BY <3>2 DEF Base, Near
    <3>. QED
      BY <3>2, <3>3 DEF Out, Leaf
  <2>. QED
    BY <2>3, <2>4
<1>. QED
  BY <1>1, <1>2, <1>3

LEMMA LookTrash ==
    ASSUME StayInv, Alone, RowsInv, TrashInv, Packed, Look("inbox")
    PROVE  TrashInv'
<1>. DEFINE i == "inbox"
<1>1. /\ disk' = disk /\ tale' = tale /\ losers' = losers /\ replaced' = replaced /\ run[i].hand = NoHand
      /\ run[i].at \notin {"scan", "prune", "match"}
  BY DEF Look, store, Free
<1>2. PICK op \in run[i].todo :
         /\ run'[i].at = run[i].at /\ run'[i].todo = run[i].todo \ {op} /\ run'[i].spent = run[i].spent
         /\ Choice(i, op) = "skip" => run'[i].hand = NoHand
         /\ Choice(i, op) # "skip" => run'[i].hand.do = Choice(i, op) /\ run'[i].hand.from = op.from
         /\ Choice(i, op) = "extract" => run'[i].hand.to = Into(i, op.from) /\ run'[i].hand.left = Members(i, op)
         /\ Choice(i, op) \notin {"skip", "extract"} =>
                run'[i].hand.to = op.to /\ run'[i].hand.left = op.left
         /\ skipped' = IF Choice(i, op) = "extract" THEN skipped \cup Taken(i, op) ELSE skipped
  BY LookIs
<1>3. /\ Choice(i, op) \in Acts(run[i].at) \cup {"skip"} /\ Choice(i, op) \notin {"record", "row"}
  BY <1>1, ChoiceSorted
<1>4. Sorted(run[i].at, op)
  BY DEF RowsInv, JobSorted
<1>5. PICK act : act = Choice(i, op)
  OBVIOUS
<1>6. PICK h : h = run'[i].hand
  OBVIOUS
<1>7. h = NoHand \/ (h.do = act /\ h.from = op.from)
  BY <1>2, <1>5, <1>6
<1>8. Asked(run'[i]) \subseteq Asked(run[i])
  BY <1>2, <1>6, <1>7 DEF Asked, NoHand
<1>9. Waste(run'[i]) \subseteq Waste(run[i])
  BY <1>2, <1>8 DEF Waste
<1>10. Grown /\ DiskPacked'
  BY <1>1, <1>2, <1>9, SameGrow DEF TrashInv, DiskPacked
<1>11. WasteRight'
  BY <1>1, <1>9, <1>10, WasteIs, WasteStays DEF On
<1>12. OnceRight(run[i])'
  <2>1. OnceRight(run'[i])
    BY <1>1, <1>2, <1>6, <1>7, <1>8 DEF TrashInv, OnceRight, NoHand
  <2>. QED
    BY <2>1 DEF OnceRight, Asked
<1>13. ExtractRight(run[i].hand)'
  <2>1. CASE act = "extract"
    <3>1. /\ run[i].at \in Zips /\ On(op.from) /\ disk[op.from] \in DOMAIN Inner
          /\ \A m \in Inner[disk[op.from]] \ Members(i, op) : Out(m)'
      BY <1>1, <1>2, <1>5, <1>10, <2>1, LeftOut
    <3>2. /\ h.from = op.from /\ h.left = Members(i, op)
      BY <1>2, <1>5, <1>6, <2>1
    <3>3. \A m \in h.left : m \in Inner[disk[op.from]]
      BY <3>2 DEF Members
    <3>4. \A m \in h.left : m.content \in DOMAIN Inner => m.ext \in {"zip", "7z"}
      BY <3>1, <3>3 DEF Packed
    <3>5. h.from \in DOMAIN disk' /\ disk'[h.from] = disk[op.from]
      BY <1>1, <3>1, <3>2 DEF On
    <3>. QED
      BY <1>6, <3>1, <3>2, <3>4, <3>5 DEF ExtractRight, On
  <2>2. CASE act # "extract"
    BY <1>6, <1>7, <2>2 DEF ExtractRight, NoHand
  <2>. QED
    BY <2>1, <2>2
<1>14. SameRight(run[i].hand)'
  <2>1. CASE act = "discard"
    <3>1. run[i].at = "bios"
      BY <1>3, <1>5, <2>1, ActsAt
    <3>2. SameContent(op.from, op.to)
      BY <1>5, <2>1, <3>1 DEF Choice, BiosChoice, Zips
    <3>3. op.from # op.to
      BY <1>4, <3>1 DEF Sorted
    <3>4. h.from = op.from /\ h.to = op.to
      BY <1>2, <1>5, <1>6, <2>1
    <3>. QED
      BY <1>1, <1>6, <3>2, <3>3, <3>4 DEF SameRight, SameContent, On
  <2>2. CASE act = "dup"
    <3>1. run[i].at = "organize"
      BY <1>3, <1>5, <2>2, ActsAt
    <3>2. SameContent(op.from, op.to)
      BY <1>5, <2>2, <3>1 DEF Choice, OrganizeChoice, ConflictChoice, Zips
    <3>3. op.from # op.to
      BY <1>4, <3>1 DEF Sorted
    <3>4. h.from = op.from /\ h.to = op.to
      BY <1>2, <1>5, <1>6, <2>2
    <3>. QED
      BY <1>1, <1>6, <3>2, <3>3, <3>4 DEF SameRight, SameContent, On
  <2>3. CASE act \notin {"discard", "dup"}
    BY <1>6, <1>7, <2>3 DEF SameRight, NoHand
  <2>. QED
    BY <2>1, <2>2, <2>3
<1>15. ChipsRight(run[i])'
  <2>. SUFFICES ASSUME run[i].at = "chips" PROVE ChipsRight(run[i])'
    BY <1>2 DEF ChipsRight
  <2>1. act \in {"skip", "pack"}
    BY <1>5 DEF Choice, Zips
  <2>2. \A x \in run[i].todo : ChipsOf(x)
    BY DEF TrashInv, ChipsRight
  <2>3. h = NoHand \/ (h.do = "pack" /\ h.from = op.from /\ h.left = op.left)
    BY <1>2, <1>5, <1>6, <2>1
  <2>. QED
    BY <1>1, <1>2, <1>6, <2>2, <2>3 DEF ChipsRight, ChipsOf, On, NoHand
<1>16. (Leaf(Known) \subseteq Safe)'
  BY <1>1, <1>10, KnownStays
<1>. QED
  BY <1>10, <1>11, <1>12, <1>13, <1>14, <1>15, <1>16 DEF TrashInv
-----------------------------------------------------------------------------
(* The trash, what comes and what fails *)

LEMMA SameTrash ==
    ASSUME TrashInv, disk' = disk, tale' = tale, UNCHANGED <<losers, skipped, replaced>>,
           run'["inbox"] = run["inbox"]
    PROVE  TrashInv'
<1>1. Base' = Base
  BY DEF Base, Shelf
<1>2. Waste(run["inbox"])' = Waste(run["inbox"])
  BY DEF Waste, Asked
<1>3. Near' = Near /\ Safe' = Safe
  BY <1>1, <1>2 DEF Near, Safe, Firm, Waste, Asked
<1>4. DiskPacked' /\ (Leaf(Known) \subseteq Safe)'
  BY <1>3 DEF TrashInv, DiskPacked, Known
<1>5. WasteRight'
  BY <1>1, <1>2 DEF TrashInv, WasteRight, WasteOK, On, Waste, Asked
<1>6. OnceRight(run["inbox"])' /\ SameRight(run["inbox"].hand)' /\ ChipsRight(run["inbox"])'
  BY DEF TrashInv, OnceRight, Asked, SameRight, ChipsRight, ChipsOf, On
<1>7. ExtractRight(run["inbox"].hand)'
  <2>1. \A m : Out(m)' <=> Out(m)
    BY <1>1, <1>3 DEF Out
  <2>. QED
    BY <2>1 DEF TrashInv, ExtractRight, On
<1>. QED
  BY <1>4, <1>5, <1>6, <1>7 DEF TrashInv

\* A new run begins with nothing to put away.
LEMMA StartTrash ==
    ASSUME StayInv, Alone, RowsInv, TrashInv, Undisturbed,
           StartByHand \/ StartRouter \/ StartWizard \/ PageResolves \/ Wake \/ Poll \/ WatcherStarts
    PROVE  TrashInv'
<1>. DEFINE i == "inbox"
<1>1. disk' = disk /\ tale' = tale /\ UNCHANGED <<losers, skipped, replaced>>
  BY StartIs
<1>2. \/ run'[i] = run[i]
      \/ /\ run'[i].at = "zips" /\ run'[i].todo = ZipOps(i, "zip")
         /\ run'[i].hand = NoHand /\ run'[i].spent = {}
  BY StartIs
<1>3. CASE run'[i] = run[i]
  BY <1>1, <1>3, SameTrash
<1>4. ASSUME run'[i].at = "zips", NEW todo, todo = ZipOps(i, "zip"), run'[i].todo = todo,
             run'[i].hand = NoHand, run'[i].spent = {}
      PROVE  TrashInv'
  <2>1. todo = {Op(p, At("arcade", p.stem, "zip")) : p \in {f \in Files(i) : f.ext = "zip"}}
    BY <1>4 DEF ZipOps
  <2>2. \A op \in todo : op.from.ext = "zip" /\ op = Op(op.from, At("arcade", op.from.stem, "zip"))
    BY <2>1 DEF Op
  <2>3. \A p \in Asked(run'[i]) : p.ext = "zip"
    BY <1>4, <2>2 DEF Asked, NoHand
  <2>4. OnceRight(run'[i])
    BY <1>4, <2>2, <2>3 DEF OnceRight, NoHand
  <2>5. OnceRight(run[i])' /\ Waste(run'[i]) = {}
    BY <1>4, <2>4 DEF OnceRight, Asked, Waste
  <2>6. Grown /\ DiskPacked'
    BY <1>1, <2>5, SameGrow DEF TrashInv, DiskPacked
  <2>7. WasteRight'
    BY <1>1, <2>5, <2>6, WasteStays
  <2>8. ExtractRight(run[i].hand)' /\ SameRight(run[i].hand)' /\ ChipsRight(run[i])'
    BY <1>4 DEF ExtractRight, SameRight, ChipsRight, NoHand
  <2>. QED
    BY <1>1, <2>5, <2>6, <2>7, <2>8, KnownStays DEF TrashInv
<1>. QED
  BY <1>2, <1>3, <1>4

LEMMA FailTrash ==
    ASSUME StayInv, Alone, RowsInv, TrashInv, Packed, Fail("inbox")
    PROVE  TrashInv'
<1>. DEFINE i == "inbox"
<1>1. UNCHANGED <<tale, losers, skipped>>
  BY DEF Fail
<1>2. \/ UNCHANGED <<disk, replaced>> /\ run[i].hand.do # "none"
      \/ /\ run[i].hand.do = "extract" /\ Done(i)
         /\ \E m \in run[i].hand.left :
              /\ disk' = Put(disk, Member(To(i), m), Torn)
              /\ replaced' = IF On(Member(To(i), m)) THEN replaced \cup {disk[Member(To(i), m)], Torn}
                             ELSE replaced
  BY Zenon DEF Fail, Holding
<1>3. Done(i) \/ run' = [run EXCEPT ![i] = Idle]
  BY Zenon DEF Fail
<1>4. CASE UNCHANGED <<disk, replaced>> /\ run[i].hand.do # "none"
  BY <1>1, <1>3, <1>4, RestTrash
<1>5. ASSUME run[i].hand.do = "extract", Done(i), NEW q, disk' = Put(disk, q, Torn),
             replaced' = IF On(q) THEN replaced \cup {disk[q], Torn} ELSE replaced
      PROVE  TrashInv'
  <2>1. run[i].at \in Zips
    BY <1>5, ExtractingIs
  <2>2. Waste(run'[i]) \subseteq Waste(run[i])
    BY <1>5, DoneWaste
  <2>3. replaced \subseteq replaced' /\ (On(q) => disk[q] \in replaced' /\ Torn \in replaced')
    BY <1>5
  <2>4. Grown /\ DiskPacked'
    BY <1>1, <1>5, <2>2, <2>3, PutGrow DEF Packed
  <2>5. /\ DOMAIN disk' = {q} \cup DOMAIN disk /\ disk'[q] = Torn
        /\ \A f \in DOMAIN disk \ {q} : disk'[f] = disk[f]
    BY <1>5, PutIs
  <2>6. \A f \in Waste(run'[i]) : f \in DOMAIN disk' /\ (disk'[f] = disk[f] \/ disk'[f] \in replaced')
    BY <2>2, <2>3, <2>5, WasteIs DEF On
  <2>7. run[i].at # "chips" /\ run[i].hand.do # "none"
    BY <1>5, <2>1 DEF Zips
  <2>. QED
    BY <1>1, <1>5, <2>3, <2>4, <2>6, <2>7, DoneTrash
<1>. QED
  BY <1>2, <1>4, <1>5

LEMMA CrashTrash ==
    ASSUME StayInv, Alone, RowsInv, TrashInv, Crash
    PROVE  TrashInv'
<1>. DEFINE i == "inbox"
            p == From(i)
            q == To(i)
<1>1. run' = [k \in Actor |-> Idle] /\ UNCHANGED <<tale, losers, skipped, replaced>>
  BY DEF Crash
<1>2. disk' = disk \/ (run[i].hand.do = "organize" /\ On(p) /\ disk' = Moved(p, q))
  BY DEF Crash, Holding, Alone, OthersIdle, NoHand
<1>3. Waste(run'[i]) \subseteq Waste(run[i])
  BY <1>1, JobIdle DEF Waste
<1>4. CASE disk' = disk
  <2>1. Grown /\ DiskPacked'
    BY <1>1, <1>3, <1>4, SameGrow DEF TrashInv, DiskPacked
  <2>. QED
    BY <1>1, <2>1, IdleTrash
<1>5. CASE run[i].hand.do = "organize" /\ On(p) /\ disk' = Moved(p, q)
  <2>1. ~On(q)
    BY <1>5 DEF Alone, StillFree, Moving, To
  <2>2. ~Archive(p) /\ ~Stocked(p)
    BY <1>5, RomInHand
  <2>3. Grown /\ DiskPacked'
    BY <1>1, <1>3, <1>5, <2>1, <2>2, MovedGrow
  <2>. QED
    BY <1>1, <2>3, IdleTrash
<1>. QED
  BY <1>2, <1>4, <1>5

\* What comes over an archive that is done with, or over a chip, replaced it.
LEMMA ArriveTrash ==
    ASSUME StayInv, Alone, RowsInv, TrashInv, Undisturbed, Packed, Arrive
    PROVE  TrashInv'
<1>. DEFINE i == "inbox"
<1>1. PICK d \in tale.drops \ tale.came :
         /\ disk' = Put(disk, d.at, d.has)
         /\ tale' = [tale EXCEPT !.came = @ \cup {d}]
         /\ replaced' = IF On(d.at) THEN replaced \cup {disk[d.at], d.has} ELSE replaced
  BY DEF Arrive
<1>2. run' = run /\ losers' = losers /\ skipped' = skipped
  BY DEF Arrive
<1>3. tale'.came = tale.came \cup {d}
  BY <1>1 DEF StayInv, DropsOK
<1>4. /\ DOMAIN disk' = {d.at} \cup DOMAIN disk /\ disk'[d.at] = d.has
      /\ \A f \in DOMAIN disk \ {d.at} : disk'[f] = disk[f]
  BY <1>1, PutIs
<1>5. replaced \subseteq replaced' /\ (On(d.at) => disk[d.at] \in replaced' /\ d.has \in replaced')
  BY <1>1
<1>6. \A f \in DOMAIN disk : f \in DOMAIN disk' /\ (disk'[f] = disk[f] \/ disk'[f] \in replaced')
  BY <1>4, <1>5 DEF On
<1>7. Waste(run'[i]) = Waste(run[i])
  BY <1>2
<1>8. Grown /\ DiskPacked'
  BY <1>1, <1>2, <1>5, <1>7, PutGrow DEF Packed
<1>9. WasteRight'
  BY <1>5, <1>6, <1>7, <1>8, WasteIs, WasteStays DEF On
<1>10. OnceRight(run[i])'
  BY <1>2 DEF TrashInv, OnceRight, Asked
<1>11. ExtractRight(run[i].hand)'
  <2>. SUFFICES ASSUME run[i].hand.do = "extract" PROVE ExtractRight(run[i].hand)'
    BY <1>2 DEF ExtractRight
  <2>1. PICK h : h = run[i].hand
    OBVIOUS
  <2>2. /\ On(h.from)
        /\ \A m \in h.left : m.content \in DOMAIN Inner => m.ext \in {"zip", "7z"}
        /\ \/ disk[h.from] \in replaced
           \/ disk[h.from] \in DOMAIN Inner /\ \A m \in Inner[disk[h.from]] \ h.left : Out(m)
    BY <2>1 DEF TrashInv, ExtractRight
  <2>3. h.from \in DOMAIN disk' /\ (disk'[h.from] = disk[h.from] \/ disk'[h.from] \in replaced')
    BY <1>6, <2>2 DEF On
  <2>4. \A m : Out(m) => Out(m)'
    BY <1>8, OutStays
  <2>5. run'[i].hand = h
    BY <1>2, <2>1
  <2>. QED
    BY <1>5, <2>2, <2>3, <2>4, <2>5 DEF ExtractRight, On
<1>12. SameRight(run[i].hand)'
  <2>. SUFFICES ASSUME run[i].hand.do \in {"dup", "discard"} PROVE SameRight(run[i].hand)'
    BY <1>2 DEF SameRight
  <2>1. PICK h : h = run[i].hand
    OBVIOUS
  <2>2. On(h.from) /\ On(h.to) /\ h.from # h.to /\ (disk[h.from] = disk[h.to] \/ disk[h.from] \in replaced)
    BY <2>1 DEF TrashInv, SameRight
  <2>3. h.from \in DOMAIN disk' /\ h.to \in DOMAIN disk'
    BY <1>6, <2>2 DEF On
  <2>4. disk'[h.from] = disk'[h.to] \/ disk'[h.from] \in replaced'
    BY <1>4, <1>5, <2>2 DEF On
  <2>5. run'[i].hand = h
    BY <1>2, <2>1
  <2>. QED
    BY <2>2, <2>3, <2>4, <2>5 DEF SameRight, On
<1>13. ChipsRight(run[i])'
  <2>. SUFFICES ASSUME run[i].at = "chips" PROVE ChipsRight(run[i])'
    BY <1>2 DEF ChipsRight
  <2>1. ASSUME NEW op, ChipsOf(op) PROVE ChipsOf(op)'
    <3>. SUFFICES ASSUME NEW f \in op.left
                  PROVE  f \in DOMAIN disk' /\ disk'[f] \in op.from.chips \cup replaced'
      BY DEF ChipsOf, On
    <3>. QED
      BY <1>5, <1>6, <2>1 DEF ChipsOf, On
  <2>4. \A op \in run[i].todo : ChipsOf(op)'
    BY <2>1 DEF TrashInv, ChipsRight
  <2>5. PICK h : h = run[i].hand
    OBVIOUS
  <2>6. h.do # "none" => ChipsOf(h)'
    BY <2>1, <2>5 DEF TrashInv, ChipsRight
  <2>7. h.do = "chips" => h.to \in DOMAIN disk' /\ disk'[h.to] = h.from.content
    <3>. SUFFICES ASSUME h.do = "chips" PROVE h.to \in DOMAIN disk' /\ disk'[h.to] = h.from.content
      OBVIOUS
    <3>1. On(h.to) /\ disk[h.to] = h.from.content
      BY <2>5 DEF TrashInv, ChipsRight
    <3>2. h.to.dir = "arcade"
      BY <2>5 DEF RowsInv, JobSorted, HandSorted, Sorted
    <3>3. d.at.dir \in Landing
      BY DEF Undisturbed
    <3>4. h.to # d.at
      BY <3>2, <3>3 DEF Landing
    <3>. QED
      BY <1>4, <3>1, <3>4 DEF On
  <2>8. run'[i] = run[i] /\ run'[i].hand = h
    BY <1>2, <2>5
  <2>. QED
    BY <2>4, <2>6, <2>7, <2>8 DEF ChipsRight, On
<1>14. (Leaf(Known) \subseteq Safe)'
  <2>. SUFFICES ASSUME NEW x \in Known', x \notin DOMAIN Inner PROVE x \in Safe'
    BY DEF Leaf
  <2>1. PICK e \in tale.came \cup {d} : x \in Depths(e.has)
    BY <1>3, DepthsOf DEF Known
  <2>2. CASE e \in tale.came
    <3>1. x \in Known
      BY <2>1, <2>2, DepthsOf DEF Known
    <3>. QED
      BY <1>8, <3>1 DEF TrashInv, Leaf, Grown
  <2>3. CASE e = d
    <3>1. CASE On(d.at)
      <4>1. x \in Within(skipped' \cup replaced')
        BY <1>5, <2>1, <2>3, <3>1, DepthsOf
      <4>. QED
        BY <4>1 DEF Safe, Base
    <3>2. CASE ~On(d.at)
      <4>1. d.at \notin Waste(run'[i])
        BY <1>7, <3>2, WasteIs
      <4>2. d.has \in Firm'
        BY <1>4, <4>1 DEF Firm
      <4>3. x \in Within(Firm')
        BY <2>1, <2>3, <4>2, DepthsOf
      <4>. QED
        BY <4>3 DEF Safe
    <3>. QED
      BY <3>1, <3>2
  <2>. QED
    BY <2>1, <2>2, <2>3
<1>. QED
  BY <1>8, <1>9, <1>10, <1>11, <1>12, <1>13, <1>14 DEF TrashInv

LEMMA TrashInit == ASSUME Init PROVE TrashInv
<1>1. run = [k \in Actor |-> Idle] /\ DOMAIN disk = {} /\ tale.came = {}
  BY DEF Init
<1>2. /\ run["inbox"].at = "idle" /\ run["inbox"].hand = NoHand
      /\ run["inbox"].todo = {} /\ run["inbox"].spent = {}
  BY <1>1 DEF Actor, Job, Idle
<1>3. DiskPacked /\ WasteRight /\ OnceRight(run["inbox"])
  BY <1>1, <1>2 DEF DiskPacked, WasteRight, Waste, OnceRight, Zips
<1>4. ExtractRight(run["inbox"].hand) /\ SameRight(run["inbox"].hand) /\ ChipsRight(run["inbox"])
  BY <1>2 DEF ExtractRight, SameRight, ChipsRight, NoHand
<1>5. Known = {}
  BY <1>1, DepthsOf DEF Known
<1>. QED
  BY <1>3, <1>4, <1>5 DEF TrashInv, Leaf
-----------------------------------------------------------------------------
(* Only losers are discarded *)

LEMMA StepTrash ==
    ASSUME StayInv, Alone, RowsInv, TrashInv, Packed, Step("inbox")
    PROVE  TrashInv'
BY AdvanceTrash, LookTrash, MoveTrash, TryTrash, DiscardTrash, ExtractTrash, ExtractedTrash, PackTrash,
   ChipsTrash, TableTrash, RenameTrash, FollowTrash, OrganizeTrash, DropTrash, LoseTrash
DEF Step

LEMMA PackedStays == ASSUME StayInv, [Next]_vars, Packed' PROVE Packed
BY DropsStay DEF Packed

LEMMA TrashStays ==
    ASSUME StayInv, Alone, RowsInv, TrashInv, Undisturbed, Packed, [Next]_vars
    PROVE  TrashInv'
<1>1. CASE UNCHANGED vars
  BY <1>1, SameTrash DEF vars, store, seenVars
<1>2. CASE \E k \in Actor : Step(k) \/ Fail(k)
  BY <1>2, OthersRest, StepTrash, FailTrash
<1>3. CASE Arrive \/ Crash
  BY <1>3, ArriveTrash, CrashTrash
<1>4. CASE StartByHand \/ StartRouter \/ StartWizard \/ PageResolves \/ Wake \/ Poll \/ WatcherStarts
  BY <1>4, StartTrash
<1>. QED
  BY <1>1, <1>2, <1>3, <1>4 DEF Next, Watch, Actor

LEMMA SafeIs == ASSUME TrashInv PROVE OnlyLosersDiscarded
<1>1. Firm \subseteq Range(disk) /\ Shelf \subseteq Range(disk)
  BY DEF Firm, Shelf, Range
<1>2. Within(Firm) \subseteq Live /\ Opened(Shelf) \subseteq Live /\ Range(disk) \subseteq Live
  <2>1. Range(disk) \subseteq Opened(Range(disk)) /\ Opened(Range(disk)) \subseteq Within(Range(disk))
    BY Wider
  <2>2. Within(Firm) \subseteq Within(Range(disk)) /\ Opened(Shelf) \subseteq Within(Range(disk))
    BY <1>1, Wider
  <2>. QED
    BY <2>1, <2>2 DEF Live
<1>. QED
  BY <1>2 DEF TrashInv, OnlyLosersDiscarded, Safe, Base, Leaf

\* What the job alone discards is kept elsewhere or has lost: as long as the page, the wizard
\* and the router leave it alone, archives bear the name of one and an arcade set holds the
\* chips it is packed from, the only contents left to the trash alone are those that lost a
\* conflict (inbox_pipeline.py 29, 1372-1375), were left in their archive because their name
\* was taken, or were written over.  It rests on the order of a run: an archive is put away
\* only after all it holds has a file of its own or an archive that stays, and chips leave the
\* pool once a set holds them.
THEOREM AloneOnlyLosers == Spec => [](Undisturbed /\ Apart /\ Packed => OnlyLosersDiscarded)
<1>. DEFINE Right1 == Undisturbed /\ Apart => Alone /\ Real /\ RowsInv
            Right2 == Undisturbed /\ Apart /\ Packed => TrashInv
            Inv == StayInv /\ Right1 /\ Right2
<1>1. Init => Inv
  BY StayInit, AloneInit, RowsInit, TrashInit
<1>2. Inv /\ [Next]_vars => Inv'
  <2>. SUFFICES ASSUME Inv, [Next]_vars PROVE Inv'
    OBVIOUS
  <2>1. StayInv'
    BY StayNext
  <2>2. Apart' => Apart
    BY DropsStay DEF Apart, Contents
  <2>3. Right1'
    BY <2>2, TaleStays, AloneStays, RowsStay
  <2>4. Right2'
    BY <2>2, TaleStays, PackedStays, TrashStays
  <2>. QED
    BY <2>1, <2>3, <2>4
<1>3. Inv => (Undisturbed /\ Apart /\ Packed => OnlyLosersDiscarded)
  BY SafeIs
<1>. QED
  BY <1>1, <1>2, <1>3, PTL DEF Spec
=============================================================================

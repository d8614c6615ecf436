----------------------------- MODULE CableProofs -----------------------------
(***************************************************************************)
(* Proofs about the cable: the last play of every save is kept, for any    *)
(* libraries, consoles, questions and faults, and however many passes and  *)
(* plays; a pass "newest" takes the newer save and leaves both sides the   *)
(* same; and a mirror removes only what the other side does not have.      *)
(***************************************************************************)
EXTENDS Cable, FiniteSetTheorems, TLAPS

\* Some save of a side holds the content v.
Holds(f, v) == \E p \in DOMAIN f : IsSave(p) /\ f[p].v = v

\* A content is where a save is read from: a ROM that holds it would be replaced without a
\* backup.
Safe(v) == v \in kept \/ Holds(pc, v) \/ Holds(dev, v)

SafeInv == tale \in Stories /\ \A v \in due : Safe(v)
-----------------------------------------------------------------------------
(* One place of a side *)

\* A copy can only take the content that was in its place.
LEMMA PutTakesOne ==
    ASSUME NEW f, NEW p, NEW c, NEW v, Holds(f, v)
    PROVE  Holds(Put(f, p, c), v) \/ (p \in DOMAIN f /\ IsSave(p) /\ f[p].v = v)
<1>1. PICK q \in DOMAIN f : IsSave(q) /\ f[q].v = v
  BY DEF Holds
<1>2. q # p => q \in DOMAIN Put(f, p, c) /\ Put(f, p, c)[q] = f[q]
  BY <1>1 DEF Put
<1>. QED
  BY <1>1, <1>2 DEF Holds

LEMMA PutHolds ==
    ASSUME NEW f, NEW p, NEW c, IsSave(p)
    PROVE  Holds(Put(f, p, c), c.v)
<1>1. p \in DOMAIN Put(f, p, c) /\ Put(f, p, c)[p] = c
  BY DEF Put
<1>. QED
  BY <1>1 DEF Holds

LEMMA DropTakesOne ==
    ASSUME NEW f, NEW p, NEW v, Holds(f, v)
    PROVE  Holds(Drop(f, p), v) \/ (p \in DOMAIN f /\ IsSave(p) /\ f[p].v = v)
<1>1. PICK q \in DOMAIN f : IsSave(q) /\ f[q].v = v
  BY DEF Holds
<1>2. q # p => q \in DOMAIN Drop(f, p) /\ Drop(f, p)[q] = f[q]
  BY <1>1 DEF Drop, Restrict
<1>. QED
  BY <1>1, <1>2 DEF Holds

LEMMA BackedKeeps ==
    ASSUME NEW f, NEW q
    PROVE  /\ kept \subseteq Backed(f, q)
           /\ q \in DOMAIN f /\ IsSave(q) => f[q].v \in Backed(f, q)
BY DEF Backed

\* A copy whose place was backed up keeps everything that was safe.
LEMMA PutKeeps ==
    ASSUME NEW f, NEW q, NEW c, NEW v, v \in kept \/ Holds(f, v)
    PROVE  v \in Backed(f, q) \/ Holds(Put(f, q, c), v)
BY PutTakesOne, BackedKeeps
-----------------------------------------------------------------------------
(* One file *)

LEMMA PullKeeps ==
    ASSUME NEW d, NEW q, NEW v, Safe(v), Pull(d, q)
    PROVE  Safe(v)'
<1>1. CASE /\ pc' = Put(pc, q, [v |-> dev[d].v, t |-> clock'])
           /\ kept' = Backed(pc, q) /\ dev' = dev
  BY <1>1, PutKeeps, BackedKeeps DEF Safe
<1>2. CASE /\ pc' = IF IsSave(q) THEN pc ELSE Drop(pc, q)
           /\ kept' = Backed(pc, q) /\ dev' = dev
  BY <1>2, DropTakesOne, BackedKeeps DEF Safe
<1>. QED
  BY <1>1, <1>2 DEF Pull

LEMMA PushKeeps ==
    ASSUME NEW p, NEW q, NEW v, Safe(v), Push(p, q)
    PROVE  Safe(v)'
<1>1. CASE /\ dev' = Put(dev, q, [v |-> pc[p].v, t |-> Grained(pc[p].t)])
           /\ kept' = Backed(dev, q) /\ pc' = pc
  BY <1>1, PutKeeps, BackedKeeps DEF Safe
<1>2. CASE /\ dev' \in {dev} \cup (IF IsSave(q) \/ ~link \/ p \notin DOMAIN pc THEN {}
                                   ELSE {Put(dev, q, [v |-> Torn, t |-> DeviceTime])})
           /\ kept' = (IF link THEN Backed(dev, q) ELSE kept) /\ pc' = pc
  <2>1. kept \subseteq kept'
    BY <1>2, BackedKeeps
  <2>2. CASE dev' = dev
    BY <1>2, <2>1, <2>2 DEF Safe
  <2>3. CASE ~IsSave(q) /\ dev' = Put(dev, q, [v |-> Torn, t |-> DeviceTime])
    BY <1>2, <2>1, <2>3, PutTakesOne DEF Safe
  <2>. QED
    BY <1>2, <2>2, <2>3
<1>. QED
  BY <1>1, <1>2 DEF Push

\* On a mounted card either side is copied alike.
LEMMA CopiesKeep ==
    ASSUME NEW from, NEW p, NEW to, NEW q, NEW whole, NEW now, NEW after, NEW v,
           after \in Copies(from, p, to, q, whole, now), v \in kept \/ Holds(to, v)
    PROVE  v \in Backed(to, q) \/ Holds(after, v)
BY PutKeeps, BackedKeeps DEF Copies

LEMMA CardUpKeeps ==
    ASSUME NEW p, NEW q, NEW v, Safe(v), CardUp(p, q)
    PROVE  Safe(v)'
<1>1. CASE UNCHANGED files
  BY <1>1 DEF Safe, Holds, files
<1>2. CASE /\ dev' \in Copies(pc, p, dev, q, [v |-> pc[p].v, t |-> Grained(pc[p].t)], DeviceTime)
           /\ kept' = Backed(dev, q) /\ pc' = pc
  BY <1>2, CopiesKeep, BackedKeeps DEF Safe
<1>. QED
  BY <1>1, <1>2 DEF CardUp

LEMMA CardDownKeeps ==
    ASSUME NEW d, NEW q, NEW v, Safe(v), CardDown(d, q)
    PROVE  Safe(v)'
<1>1. CASE UNCHANGED files
  BY <1>1 DEF Safe, Holds, files
<1>2. CASE /\ pc' \in Copies(dev, d, pc, q, dev[d], clock)
           /\ kept' = Backed(pc, q) /\ dev' = dev
  BY <1>2, CopiesKeep, BackedKeeps DEF Safe
<1>. QED
  BY <1>1, <1>2 DEF CardDown

\* Only a ROM is pulled aside.
LEMMA PullAsideKeeps ==
    ASSUME NEW d, NEW v, ~IsSave(d), Safe(v), PullAside(d)
    PROVE  Safe(v)'
<1>1. CASE UNCHANGED files
  BY <1>1 DEF Safe, Holds, files
<1>2. CASE pc' = Put(pc, d, [v |-> dev[d].v, t |-> clock']) /\ dev' = dev /\ kept' = kept
  BY <1>2, PutTakesOne DEF Safe
<1>. QED
  BY <1>1, <1>2 DEF PullAside

\* A save that goes with its ROM has come to the PC in the same step.
LEMMA RemovesKeeps ==
    ASSUME NEW rom, NEW v, Safe(v), Removes(rom)
    PROVE  Safe(v)'
<1>. DEFINE saves == {s \in DOMAIN job.seen : IsSave(s) /\ s.dir = rom.dir /\ s.stem = rom.stem}
<1>1. CASE UNCHANGED files
  BY <1>1 DEF Safe, Holds, files
<1>2. CASE /\ rom \in DOMAIN job.seen
           /\ pc' = [s \in saves \cup DOMAIN pc |->
                       IF s \in saves THEN [v |-> dev[s].v, t |-> clock'] ELSE pc[s]]
           /\ kept' = kept \cup {pc[s].v : s \in saves \cap DOMAIN pc}
           /\ dev' = Drop(dev, rom)
  <2>1. /\ DOMAIN pc' = saves \cup DOMAIN pc
        /\ \A s \in saves : pc'[s].v = dev[s].v
        /\ \A s \in DOMAIN pc \ saves : pc'[s] = pc[s]
    BY <1>2
  <2>2. CASE Holds(pc, v)
    BY <1>2, <2>1, <2>2 DEF Safe, Holds
  <2>3. CASE Holds(dev, v)
    <3>1. CASE Holds(Drop(dev, rom), v)
      BY <1>2, <3>1 DEF Safe
    <3>2. CASE rom \in DOMAIN dev /\ IsSave(rom) /\ dev[rom].v = v
      <4>1. rom \in saves
        BY <1>2, <3>2
      <4>. QED
        BY <2>1, <3>2, <4>1 DEF Safe, Holds
    <3>. QED
      BY <2>3, <3>1, <3>2, DropTakesOne
  <2>. QED
    BY <1>2, <2>2, <2>3 DEF Safe
<1>3. CASE kept \subseteq kept' /\ pc' = pc /\ dev' = dev
  BY <1>3 DEF Safe, Holds
<1>. QED
  BY <1>1, <1>2, <1>3 DEF Removes
-----------------------------------------------------------------------------
(* A pass *)

LEMMA GoUpKeeps ==
    ASSUME NEW p, NEW v, Safe(v), GoUp(p) \/ Sends(p)
    PROVE  Safe(v)'
<1>1. ASSUME UNCHANGED files PROVE Safe(v)'
  BY <1>1 DEF Safe, Holds, files
<1>. QED
  BY <1>1, PushKeeps, CardUpKeeps DEF GoUp, Sends, AdbUp

LEMMA GoDownKeeps ==
    ASSUME NEW d, NEW v, Safe(v), GoDown(d)
    PROVE  Safe(v)'
<1>1. ASSUME UNCHANGED files PROVE Safe(v)'
  BY <1>1 DEF Safe, Holds, files
<1>. QED
  BY <1>1, PullKeeps, PullAsideKeeps, CardDownKeeps DEF GoDown, AdbDown

LEMMA GoNewestKeeps ==
    ASSUME NEW o, NEW v, Safe(v), GoNewest(o)
    PROVE  Safe(v)'
<1>1. ASSUME UNCHANGED files PROVE Safe(v)'
  BY <1>1 DEF Safe, Holds, files
<1>. QED
  BY <1>1, PushKeeps, PullKeeps, CardUpKeeps, CardDownKeeps DEF GoNewest

LEMMA LookKeeps ==
    ASSUME NEW v, Safe(v), Look
    PROVE  Safe(v)'
<1>1. PICK o : GoUp(o.p) \/ GoDown(o.d) \/ GoNewest(o) \/ Removes(o.p) \/ Sends(o.p)
  BY DEF Look
<1>. QED
  BY <1>1, GoUpKeeps, GoDownKeeps, GoNewestKeeps, RemovesKeeps

\* What the user's mirror removes through adb is no longer due.
LEMMA DeleteKeeps ==
    ASSUME NEW v, Safe(v), DeleteExtra, v \in due'
    PROVE  Safe(v)'
<1>1. PICK o \in job.todo :
         IF o.p # None
         THEN /\ pc' = Drop(pc, o.p) /\ UNCHANGED <<dev, due>>
              /\ kept' = IF o.p \in DOMAIN pc THEN kept \cup {pc[o.p].v} ELSE kept
         ELSE IF link /\ o.d \in DOMAIN dev
         THEN /\ dev' = Drop(dev, o.d) /\ UNCHANGED pc
              /\ IF job.ask.via = "adb" THEN due' = due \ {dev[o.d].v} /\ UNCHANGED kept
                 ELSE kept' = kept \cup {dev[o.d].v} /\ UNCHANGED due
         ELSE UNCHANGED <<pc, dev, kept, due>>
  BY DEF DeleteExtra
<1>2. CASE o.p # None
  BY <1>1, <1>2, DropTakesOne DEF Safe
<1>3. CASE o.p = None /\ link /\ o.d \in DOMAIN dev
  BY <1>1, <1>3, DropTakesOne DEF Safe
<1>4. CASE o.p = None /\ ~(link /\ o.d \in DOMAIN dev)
  BY <1>1, <1>4 DEF Safe, Holds
<1>. QED
  BY <1>2, <1>3, <1>4
-----------------------------------------------------------------------------
(* The players *)

LEMMA PlayPCKeeps ==
    ASSUME SafeInv, PlayPC
    PROVE  \A v \in due' : Safe(v)'
<1>1. PICK p \in tale.playsPc \cap DOMAIN pc :
         Played({pc[p].v}) /\ pc' = Put(pc, p, [v |-> clock', t |-> clock'])
  BY DEF PlayPC
<1>2. IsSave(p) /\ dev' = dev /\ kept' = kept
  BY <1>1, StoryAssumption DEF SafeInv, PlayPC
<1>3. Holds(pc', clock')
  BY <1>1, <1>2, PutHolds
<1>4. ASSUME NEW v \in due, v # pc[p].v PROVE Safe(v)'
  BY <1>1, <1>2, <1>4, PutTakesOne DEF SafeInv, Safe
<1>. QED
  BY <1>1, <1>3, <1>4 DEF Played, Safe

LEMMA PlayDevKeeps ==
    ASSUME SafeInv, PlayDev
    PROVE  \A v \in due' : Safe(v)'
<1>1. PICK d \in tale.playsDev \cap DOMAIN dev :
         /\ Played({dev[d].v})
         /\ dev' = Put(dev, d, [v |-> clock', t |-> Grained(clock' + tale.skew)])
  BY DEF PlayDev
<1>2. IsSave(d) /\ pc' = pc /\ kept' = kept
  BY <1>1, StoryAssumption DEF SafeInv, PlayDev
<1>3. Holds(dev', clock')
  BY <1>1, <1>2, PutHolds
<1>4. ASSUME NEW v \in due, v # dev[d].v PROVE Safe(v)'
  BY <1>1, <1>2, <1>4, PutTakesOne DEF SafeInv, Safe
<1>. QED
  BY <1>1, <1>3, <1>4 DEF Played, Safe
-----------------------------------------------------------------------------
(* The invariant *)

LEMMA SafeInit == Init => SafeInv
<1>. SUFFICES ASSUME Init PROVE SafeInv
  OBVIOUS
<1>1. ASSUME NEW v \in due PROVE Safe(v)
  <2>. DEFINE mine(f) == Restrict(f, {p \in DOMAIN f : IsSave(p)})
  <2>1. \A f : \A x \in Range(mine(f)) : Holds(f, x.v)
    BY DEF Holds, Range, Restrict
  <2>2. PICK x \in Range(mine(pc)) \cup Range(mine(dev)) : v = x.v
    BY DEF Init
  <2>. QED
    BY <2>1, <2>2 DEF Safe
<1>. QED
  BY <1>1 DEF SafeInv, Init

LEMMA SafeStep == SafeInv /\ [Next]_vars => SafeInv'
<1>. SUFFICES ASSUME SafeInv, [Next]_vars PROVE SafeInv'
  OBVIOUS
<1>1. tale' = tale
  BY DEF Next, vars, Ask, List, Look, Mirror, DeleteExtra, Finish, Cancel, Poll, PollCard, Launch,
     CoolDown, PlayPC, PlayDev, Plug, Emulator
<1>2. ASSUME UNCHANGED files, UNCHANGED due PROVE \A v \in due' : Safe(v)'
  BY <1>2 DEF SafeInv, Safe, Holds, files
<1>3. CASE Look
  <2>1. due' = due
    BY <1>3 DEF Look
  <2>. QED
    BY <1>1, <1>3, <2>1, LookKeeps DEF SafeInv
<1>4. CASE DeleteExtra
  <2>1. due' \subseteq due
    BY <1>4 DEF DeleteExtra
  <2>. QED
    BY <1>1, <1>4, <2>1, DeleteKeeps DEF SafeInv
<1>5. CASE PlayPC
  BY <1>1, <1>5, PlayPCKeeps DEF SafeInv
<1>6. CASE PlayDev
  BY <1>1, <1>6, PlayDevKeeps DEF SafeInv
<1>7. CASE Ask \/ List \/ Mirror \/ Finish \/ Cancel
  BY <1>1, <1>2, <1>7 DEF SafeInv, Ask, List, Mirror, Finish, Cancel
<1>8. CASE (\E answered \in BOOLEAN : Poll(answered)) \/ PollCard \/ Launch \/ CoolDown
  BY <1>1, <1>2, <1>8 DEF SafeInv, Poll, PollCard, Launch, CoolDown
<1>9. CASE Plug \/ Emulator \/ UNCHANGED vars
  BY <1>1, <1>2, <1>9 DEF SafeInv, Plug, Emulator, vars
<1>. QED
  BY <1>3, <1>4, <1>5, <1>6, <1>7, <1>8, <1>9 DEF Next

\* The last play of every save is on one of the sides, among the backups or in the trash,
\* unless a mirror of the user through adb removed it.
THEOREM LastPlaysAreKept == Spec => []SaveKept
<1>1. SafeInv => SaveKept
  BY DEF SafeInv, Safe, Holds, SaveKept, Here, Range
<1>. QED
  BY <1>1, SafeInit, SafeStep, PTL DEF Spec
-----------------------------------------------------------------------------
(* Stories whose times can be trusted: each save has one place, which is   *)
(* its canonical one on either side; the sides agree at first; a play      *)
(* takes longer than the two clocks differ, or the guard on the clock      *)
(* stops every pass that compares times.                                   *)

Homes == {p \in DOMAIN tale.pc \cup DOMAIN tale.dev : IsSave(p)}
Asks == tale.asks \cup (IF tale.auto = None THEN {} ELSE {tale.autoAsk})
Newests == {ask \in Asks : ask.way = "newest"}

\* The clock of the console differs by less than a play takes.
Reach == Beat - Grain - Tolerance
ClocksAgree == -Reach <= tale.skew /\ tale.skew <= Reach
Ahead == IF tale.skew > 0 THEN tale.skew ELSE 0

\* Of the two copies of a save: the later one is no older play, and those of one time are one.
LaterIsNewer(here, there) ==
    there.t > here.t + Tolerance => there.v = Torn \/ there.v >= here.v
SameTimeSame(here, there) ==
    there.t <= here.t + Tolerance /\ here.t <= there.t + Tolerance => here.v = there.v

Orderly ==
    /\ DOMAIN tale.pc \cup DOMAIN tale.dev \subseteq Place
    /\ \A p \in Homes : Slug[p.dir] = p.dir /\ Unwrap[p.dir] = p.dir
    /\ \A p, q \in Homes : SameName(p, q) => p = q
    /\ \A f \in {tale.pc, tale.dev} : \A p \in DOMAIN f :
         IsSave(p) => /\ f[p].v \in Int /\ Torn <= f[p].v /\ f[p].v <= 0
                      /\ f[p].t \in Int /\ f[p].t <= 0
    /\ \A p \in Homes : p \in DOMAIN tale.pc /\ p \in DOMAIN tale.dev =>
         /\ LaterIsNewer(tale.pc[p], tale.dev[p])
         /\ SameTimeSame(tale.pc[p], tale.dev[p])
    /\ tale.skew \in Int
    /\ ClocksAgree \/ (Skewed /\ \A ask \in Newests : ask.via = "adb")
    /\ tale.auto = "card" => tale.autoAsk.via = "card"

\* No time is of the future of its side.
Timely(t, now) == t \in Int /\ t <= now + Ahead
Dated(f) ==
    /\ DOMAIN f \subseteq Place
    /\ \A p \in DOMAIN f : IsSave(p) =>
         /\ p \in Homes
         /\ f[p].v \in Int /\ Torn <= f[p].v /\ f[p].v <= clock
         /\ Timely(f[p].t, clock)

Paired ==
    ClocksAgree => \A p \in DOMAIN pc \cap DOMAIN dev : IsSave(p) =>
        /\ LaterIsNewer(pc[p], dev[p])
        /\ ~Fault("transfer") => SameTimeSame(pc[p], dev[p])

TimesInv == Orderly /\ clock \in Nat /\ Dated(pc) /\ Dated(dev) /\ Paired

LEMMA GrainedTime ==
    ASSUME NEW t \in Int
    PROVE  Grained(t) \in Int /\ Grained(t) <= t /\ t < Grained(t) + Grain
<1>1. Grain \in Nat /\ Grain > 0
  BY ClockAssumption
<1>2. t % Grain \in 0..(Grain - 1)
  BY <1>1
<1>. QED
  BY <1>1, <1>2 DEF Grained

\* A copy has the name and the extension of what is copied.
LEMMA NamesStay ==
    ASSUME NEW p \in Place
    PROVE  /\ Up(p) \in Place /\ IsSave(Up(p)) = IsSave(p)
           /\ Down(p) \in Place /\ IsSave(Down(p)) = IsSave(p) /\ Down(p).ext = p.ext
           /\ Slug[p.dir] = p.dir /\ Unwrap[p.dir] = p.dir => Up(p) = p /\ Down(p) = p
<1>1. Slug[p.dir] \in DOMAIN Slug /\ Unwrap[p.dir] \in DOMAIN Slug /\ Slug[Unwrap[p.dir]] \in DOMAIN Slug
  BY PlaceAssumption DEF Place
<1>2. /\ Canonical(p) = [dir |-> Slug[p.dir], stem |-> p.stem, ext |-> p.ext]
      /\ Unwrapped(p) = [dir |-> Unwrap[p.dir], stem |-> p.stem, ext |-> p.ext]
      /\ Canonical(Unwrapped(p)) = [dir |-> Slug[Unwrap[p.dir]], stem |-> p.stem, ext |-> p.ext]
      /\ p = [dir |-> p.dir, stem |-> p.stem, ext |-> p.ext]
  <2>1. PICK d, s, e : p = [dir |-> d, stem |-> s, ext |-> e]
    BY DEF Place
  <2>2. Canonical(p) = [dir |-> Slug[d], stem |-> s, ext |-> e]
    BY <2>1 DEF Canonical
  <2>3. Unwrapped(p) = [dir |-> Unwrap[d], stem |-> s, ext |-> e]
    BY <2>1 DEF Unwrapped
  <2>4. Canonical(Unwrapped(p)) = [dir |-> Slug[Unwrap[d]], stem |-> s, ext |-> e]
    BY <2>3 DEF Canonical
  <2>. QED
    BY <2>1, <2>2, <2>3, <2>4
<1>3. p.stem \in DOMAIN Title /\ p.ext \in STRING
  BY DEF Place
<1>. QED
  BY <1>1, <1>2, <1>3 DEF Up, Down, Place, IsSave

\* What a copy leaves of a side: the saves of before, those of the other side, and torn ones.
Same(f, g) ==
    DOMAIN g \subseteq Place /\ \A p \in DOMAIN g : IsSave(p) => p \in DOMAIN f /\ g[p] = f[p]
Gets(f, g, from, now) ==
    /\ DOMAIN g \subseteq Place
    /\ \A p \in DOMAIN g : IsSave(p) =>
         \/ p \in DOMAIN f /\ g[p] = f[p]
         \/ p \in DOMAIN from /\ g[p].v = from[p].v /\ Timely(g[p].t, now)
         \/ Fault("transfer") /\ p \in Homes /\ g[p].v = Torn /\ Timely(g[p].t, now)
Copied ==
    /\ clock' \in Nat /\ clock' >= clock
    /\ \/ Same(dev, dev') /\ Gets(pc, pc', dev, clock')
       \/ Same(pc, pc') /\ Gets(dev, dev', pc, clock')

LEMMA SameGets == \A f, g, from, now : Same(f, g) => Gets(f, g, from, now)
BY DEF Same, Gets

LEMMA AheadNat == Orderly => Ahead \in Nat
BY DEF Orderly, Ahead

LEMMA GetsDated ==
    ASSUME TimesInv, tale' = tale, clock' \in Nat, clock' >= clock,
           NEW f, NEW from, NEW g, Dated(f), Dated(from), Gets(f, g, from, clock')
    PROVE  /\ DOMAIN g \subseteq Place
           /\ \A p \in DOMAIN g : IsSave(p) =>
                /\ p \in Homes
                /\ g[p].v \in Int /\ Torn <= g[p].v /\ g[p].v <= clock'
                /\ Timely(g[p].t, clock')
<1>1. clock \in Nat /\ Torn \in Int /\ Ahead \in Nat
  BY ClockAssumption, AheadNat DEF TimesInv
<1>2. ASSUME NEW p \in DOMAIN g, IsSave(p)
      PROVE  /\ p \in Homes /\ g[p].v \in Int /\ Torn <= g[p].v /\ g[p].v <= clock'
             /\ Timely(g[p].t, clock')
  <2>1. CASE p \in DOMAIN f /\ g[p] = f[p]
    BY <1>1, <1>2, <2>1 DEF Dated, Timely
  <2>2. CASE p \in DOMAIN from /\ g[p].v = from[p].v /\ Timely(g[p].t, clock')
    BY <1>1, <1>2, <2>2 DEF Dated
  <2>3. CASE p \in Homes /\ g[p].v = Torn /\ Timely(g[p].t, clock')
    <3>1. PICK b \in DOMAIN tale.pc \cup DOMAIN tale.dev : IsSave(b) /\ b = p
      BY <2>3 DEF Homes
    <3>2. Torn <= 0
      BY <1>1, <3>1 DEF TimesInv, Orderly
    <3>. QED
      BY <1>1, <2>3, <3>2
  <2>. QED
    BY <1>2, <2>1, <2>2, <2>3 DEF Gets
<1>. QED
  BY <1>2 DEF Gets

LEMMA CopiedKeepsTimes ==
    ASSUME TimesInv, tale' = tale, Copied
    PROVE  TimesInv'
<1>1. clock \in Nat /\ Torn \in Int /\ clock' \in Nat /\ clock' >= clock /\ Tolerance \in Nat
  BY ClockAssumption DEF TimesInv, Copied
<1>2. Gets(pc, pc', dev, clock') /\ Gets(dev, dev', pc, clock')
  BY SameGets DEF Copied
<1>3. Dated(pc)'
  BY <1>1, <1>2, GetsDated DEF Dated, Timely, Homes, Ahead, TimesInv
<1>4. Dated(dev)'
  BY <1>1, <1>2, GetsDated DEF Dated, Timely, Homes, Ahead, TimesInv
<1>5. Orderly'
  BY DEF TimesInv, Orderly, Homes, Newests, Asks, ClocksAgree, Skewed
<1>6. ASSUME ClocksAgree', NEW p \in DOMAIN pc' \cap DOMAIN dev', IsSave(p)
      PROVE  LaterIsNewer(pc'[p], dev'[p]) /\ (~Fault("transfer")' => SameTimeSame(pc'[p], dev'[p]))
  <2>1. /\ pc'[p].v \in Int /\ dev'[p].v \in Int /\ Torn <= dev'[p].v
        /\ pc'[p].t \in Int /\ dev'[p].t \in Int
    BY <1>3, <1>4, <1>6 DEF Dated, Timely
  <2>2. CASE p \in DOMAIN pc /\ pc'[p] = pc[p] /\ p \in DOMAIN dev /\ dev'[p] = dev[p]
    BY <1>6, <2>2 DEF TimesInv, Paired, ClocksAgree, Fault, LaterIsNewer, SameTimeSame
  <2>3. CASE pc'[p].v = dev'[p].v
    BY <1>1, <2>1, <2>3 DEF LaterIsNewer, SameTimeSame
  <2>4. CASE Fault("transfer") /\ (pc'[p].v = Torn \/ dev'[p].v = Torn)
    BY <1>1, <2>1, <2>4 DEF LaterIsNewer, Fault
  <2>. QED
    BY <1>6, <2>2, <2>3, <2>4 DEF Copied, Same, Gets
<1>. QED
  BY <1>1, <1>3, <1>4, <1>5, <1>6 DEF TimesInv, Paired
-----------------------------------------------------------------------------
(* What each operation copies *)

\* A save lands in its own place.
Lands(p, q) == q \in Place /\ (IsSave(q) => q = p)

LEMMA AllLand ==
    ASSUME TimesInv
    PROVE  /\ \A p \in DOMAIN pc : Lands(p, Up(p))
           /\ \A d \in DOMAIN dev : Lands(d, Down(d))
<1>1. ASSUME NEW p \in DOMAIN pc \cup DOMAIN dev PROVE Lands(p, Up(p)) /\ Lands(p, Down(p))
  <2>1. p \in Place /\ (IsSave(p) => p \in Homes)
    BY <1>1 DEF TimesInv, Dated
  <2>2. IsSave(p) => Slug[p.dir] = p.dir /\ Unwrap[p.dir] = p.dir
    BY <2>1 DEF TimesInv, Orderly
  <2>. QED
    BY <2>1, <2>2, NamesStay DEF Lands
<1>. QED
  BY <1>1

LEMMA SameSides == TimesInv => Same(pc, pc) /\ Same(dev, dev)
BY DEF TimesInv, Dated, Same

LEMMA DropSame == \A f, q : DOMAIN f \subseteq Place => Same(f, Drop(f, q))
BY DEF Same, Drop, Restrict

LEMMA PutGets ==
    ASSUME NEW f, NEW from, NEW p \in DOMAIN from, NEW q, Lands(p, q), NEW c, NEW now,
           DOMAIN f \subseteq Place, IsSave(p) => Timely(c.t, now),
           \/ c.v = from[p].v
           \/ Fault("transfer") /\ c.v = Torn /\ (IsSave(p) => p \in Homes)
    PROVE  Gets(f, Put(f, q, c), from, now)
<1>1. /\ DOMAIN Put(f, q, c) = {q} \cup DOMAIN f /\ Put(f, q, c)[q] = c
      /\ \A s \in DOMAIN f : s # q => Put(f, q, c)[s] = f[s]
  BY DEF Put
<1>. QED
  BY <1>1 DEF Gets, Lands

LEMMA NothingCopied ==
    ASSUME TimesInv, clock' = clock, pc' = pc, dev' = dev
    PROVE  Copied
BY SameSides, SameGets DEF Copied, TimesInv

LEMMA PullCopies ==
    ASSUME TimesInv, NEW d, NEW q, d \in DOMAIN dev => Lands(d, q), Pull(d, q)
    PROVE  Copied
<1>1. clock \in Nat /\ Beat \in Nat /\ Ahead \in Nat
  BY ClockAssumption, AheadNat DEF TimesInv
<1>2. CASE /\ d \in DOMAIN dev /\ clock' = clock + Beat
           /\ pc' = Put(pc, q, [v |-> dev[d].v, t |-> clock']) /\ dev' = dev
  <2>1. Timely(clock', clock')
    BY <1>1, <1>2 DEF Timely
  <2>2. Gets(pc, pc', dev, clock')
    BY <1>2, <2>1, PutGets DEF TimesInv, Dated
  <2>. QED
    BY <1>1, <1>2, <2>2, SameSides DEF Copied
<1>3. CASE (pc' = pc \/ pc' = Drop(pc, q)) /\ dev' = dev /\ clock' = clock
  <2>1. Same(pc, pc')
    BY <1>3, SameSides, DropSame DEF TimesInv, Dated
  <2>. QED
    BY <1>1, <1>3, <2>1, SameSides, SameGets DEF Copied
<1>. QED
  BY <1>2, <1>3 DEF Pull

LEMMA TimesOnTheConsole ==
    ASSUME TimesInv
    PROVE  /\ Timely(DeviceTime, clock)
           /\ \A p \in DOMAIN pc : IsSave(p) => Timely(Grained(pc[p].t), clock)
<1>1. clock \in Nat /\ tale.skew \in Int /\ Ahead \in Nat /\ tale.skew <= Ahead
  BY AheadNat DEF TimesInv, Orderly, Ahead
<1>2. Timely(DeviceTime, clock)
  <2>1. clock + tale.skew \in Int
    BY <1>1
  <2>. QED
    BY <1>1, <2>1, GrainedTime DEF Timely, DeviceTime
<1>3. ASSUME NEW p \in DOMAIN pc, IsSave(p) PROVE Timely(Grained(pc[p].t), clock)
  <2>1. pc[p].t \in Int /\ pc[p].t <= clock + Ahead
    BY <1>3 DEF TimesInv, Dated, Timely
  <2>. QED
    BY <1>1, <2>1, GrainedTime DEF Timely
<1>. QED
  BY <1>2, <1>3

LEMMA PushCopies ==
    ASSUME TimesInv, NEW p, NEW q, p \in DOMAIN pc => Lands(p, q), Push(p, q)
    PROVE  Copied
<1>1. clock' = clock /\ pc' = pc /\ clock \in Nat
  BY DEF Push, TimesInv
<1>2. CASE p \in DOMAIN pc /\ dev' = Put(dev, q, [v |-> pc[p].v, t |-> Grained(pc[p].t)])
  <2>1. Gets(dev, dev', pc, clock')
    BY <1>1, <1>2, PutGets, TimesOnTheConsole DEF TimesInv, Dated
  <2>. QED
    BY <1>1, <2>1, SameSides DEF Copied
<1>3. CASE dev' = dev
  BY <1>1, <1>3, NothingCopied
<1>4. CASE ~IsSave(q) /\ p \in DOMAIN pc /\ dev' = Put(dev, q, [v |-> Torn, t |-> DeviceTime])
  <2>1. Same(dev, dev')
    BY <1>4 DEF Same, Put, Lands, TimesInv, Dated
  <2>. QED
    BY <1>1, <2>1, SameSides, SameGets DEF Copied
<1>. QED
  BY <1>2, <1>3, <1>4 DEF Push

LEMMA CopiesGet ==
    ASSUME NEW from, NEW p, NEW to, NEW q, NEW whole, NEW t, NEW now, NEW after,
           after \in Copies(from, p, to, q, whole, t), DOMAIN to \subseteq Place, Same(to, to),
           p \in DOMAIN from => Lands(p, q) /\ (IsSave(p) => p \in Homes),
           p \in DOMAIN from => whole.v = from[p].v /\ (IsSave(p) => Timely(whole.t, now)),
           Timely(t, now)
    PROVE  Gets(to, after, from, now)
<1>1. CASE p \in DOMAIN from /\ after = Put(to, q, whole)
  BY <1>1, PutGets
<1>2. CASE p \in DOMAIN from /\ Fault("transfer") /\ after = Put(to, q, [v |-> Torn, t |-> t])
  BY <1>2, PutGets
<1>3. CASE after = to
  BY <1>3, SameGets
<1>. QED
  BY <1>1, <1>2, <1>3 DEF Copies

LEMMA CardCopies ==
    ASSUME TimesInv, NEW p, NEW q,
           \/ (p \in DOMAIN pc => Lands(p, q)) /\ CardUp(p, q)
           \/ (p \in DOMAIN dev => Lands(p, q)) /\ CardDown(p, q)
    PROVE  Copied
<1>1. clock \in Nat /\ Ahead \in Nat
  BY AheadNat DEF TimesInv
<1>2. CASE UNCHANGED files
  BY <1>2, NothingCopied DEF files
<1>3. CASE /\ p \in DOMAIN pc => Lands(p, q)
           /\ dev' \in Copies(pc, p, dev, q, [v |-> pc[p].v, t |-> Grained(pc[p].t)], DeviceTime)
           /\ pc' = pc /\ clock' = clock
  <2>1. p \in DOMAIN pc => (IsSave(p) => p \in Homes /\ Timely(Grained(pc[p].t), clock))
    BY TimesOnTheConsole DEF TimesInv, Dated
  <2>2. DOMAIN dev \subseteq Place /\ Same(dev, dev) /\ Timely(DeviceTime, clock)
    BY TimesOnTheConsole, SameSides DEF TimesInv, Dated
  <2>3. Gets(dev, dev', pc, clock)
    BY <1>3, <2>1, <2>2, CopiesGet
  <2>. QED
    BY <1>1, <1>3, <2>3, SameSides DEF Copied
<1>4. CASE /\ p \in DOMAIN dev => Lands(p, q)
           /\ pc' \in Copies(dev, p, pc, q, dev[p], clock)
           /\ dev' = dev /\ clock' = clock
  <2>1. p \in DOMAIN dev => (IsSave(p) => p \in Homes /\ Timely(dev[p].t, clock))
    BY DEF TimesInv, Dated
  <2>2. DOMAIN pc \subseteq Place /\ Same(pc, pc) /\ Timely(clock, clock)
    BY <1>1, SameSides DEF TimesInv, Dated, Timely
  <2>3. Gets(pc, pc', dev, clock)
    BY <1>4, <2>1, <2>2, CopiesGet
  <2>. QED
    BY <1>1, <1>4, <2>3, SameSides DEF Copied
<1>. QED
  BY <1>2, <1>3, <1>4 DEF CardUp, CardDown

LEMMA PullAsideCopies ==
    ASSUME TimesInv, NEW d, ~IsSave(d), PullAside(d)
    PROVE  Copied
<1>1. CASE UNCHANGED files
  BY <1>1, NothingCopied DEF files
<1>2. CASE /\ d \in DOMAIN dev /\ clock' = clock + Beat /\ dev' = dev
           /\ pc' = Put(pc, d, [v |-> dev[d].v, t |-> clock'])
  <2>1. clock' \in Nat /\ clock' >= clock
    BY <1>2, ClockAssumption DEF TimesInv
  <2>2. Same(pc, pc')
    BY <1>2 DEF Same, Put, TimesInv, Dated
  <2>. QED
    BY <1>2, <2>1, <2>2, SameSides, SameGets DEF Copied
<1>. QED
  BY <1>1, <1>2 DEF PullAside

LEMMA RemovesCopies ==
    ASSUME TimesInv, NEW rom, Removes(rom)
    PROVE  Copied
<1>. DEFINE saves == {s \in DOMAIN job.seen : IsSave(s) /\ s.dir = rom.dir /\ s.stem = rom.stem}
<1>1. CASE pc' = pc /\ dev' = dev /\ clock' = clock
  BY <1>1, NothingCopied
<1>2. CASE /\ saves \subseteq DOMAIN dev
           /\ clock' = clock + Beat
           /\ pc' = [s \in saves \cup DOMAIN pc |->
                       IF s \in saves THEN [v |-> dev[s].v, t |-> clock'] ELSE pc[s]]
           /\ dev' = Drop(dev, rom)
  <2>1. clock' \in Nat /\ clock' >= clock /\ Timely(clock', clock')
    BY <1>2, ClockAssumption, AheadNat DEF TimesInv, Timely
  <2>2. /\ DOMAIN pc' = saves \cup DOMAIN pc
        /\ \A s \in saves : pc'[s].v = dev[s].v /\ pc'[s].t = clock'
        /\ \A s \in DOMAIN pc \ saves : pc'[s] = pc[s]
    BY <1>2
  <2>3. Gets(pc, pc', dev, clock')
    BY <1>2, <2>1, <2>2 DEF Gets, TimesInv, Dated
  <2>4. Same(dev, dev')
    BY <1>2, DropSame DEF TimesInv, Dated
  <2>. QED
    BY <2>1, <2>3, <2>4 DEF Copied
<1>. QED
  BY <1>1, <1>2 DEF Removes, files

LEMMA GoNewestCopies ==
    ASSUME TimesInv, NEW o, GoNewest(o)
    PROVE  Copied
<1>1. CASE UNCHANGED files
  BY <1>1, NothingCopied DEF files
<1>2. CASE Push(o.p, Up(o.p)) \/ CardUp(o.p, Up(o.p))
  BY <1>2, AllLand, PushCopies, CardCopies
<1>3. CASE Pull(o.d, Down(o.d)) \/ CardDown(o.d, Down(o.d))
  BY <1>3, AllLand, PullCopies, CardCopies
<1>. QED
  BY <1>1, <1>2, <1>3 DEF GoNewest

LEMMA LookCopies ==
    ASSUME TimesInv, Look
    PROVE  Copied
<1>1. PICK o : GoUp(o.p) \/ GoDown(o.d) \/ GoNewest(o) \/ Removes(o.p) \/ Sends(o.p)
  BY DEF Look
<1>2. ASSUME NEW p, GoUp(p) \/ Sends(p) PROVE Copied
  <2>1. CASE UNCHANGED files
    BY <2>1, NothingCopied DEF files
  <2>2. CASE Push(p, Up(p)) \/ CardUp(p, Up(p))
    BY <2>2, AllLand, PushCopies, CardCopies
  <2>. QED
    BY <1>2, <2>1, <2>2 DEF GoUp, Sends, AdbUp
<1>3. ASSUME NEW d, GoDown(d) PROVE Copied
  <2>1. CASE UNCHANGED files
    BY <2>1, NothingCopied DEF files
  <2>2. CASE Pull(d, Down(d)) \/ CardDown(d, Down(d))
    BY <2>2, AllLand, PullCopies, CardCopies
  <2>3. CASE ~IsSave(d) /\ PullAside(d)
    BY <2>3, PullAsideCopies
  <2>. QED
    BY <1>3, <2>1, <2>2, <2>3 DEF GoDown, AdbDown
<1>. QED
  BY <1>1, <1>2, <1>3, GoNewestCopies, RemovesCopies

LEMMA DeleteCopies ==
    ASSUME TimesInv, DeleteExtra
    PROVE  Copied
<1>1. clock' = clock
  BY DEF DeleteExtra
<1>2. Same(pc, pc') /\ Same(dev, dev')
  <2>1. \E q : (pc' = pc \/ pc' = Drop(pc, q)) /\ (dev' = dev \/ dev' = Drop(dev, q))
    BY DEF DeleteExtra
  <2>. QED
    BY <2>1, SameSides, DropSame DEF TimesInv, Dated
<1>. QED
  BY <1>1, <1>2, SameGets DEF Copied, TimesInv
-----------------------------------------------------------------------------
(* The times tell which copy is newer *)

LEMMA OrderlyStays == tale' = tale /\ Orderly => Orderly'
BY DEF Orderly, Homes, Newests, Asks, ClocksAgree, Skewed

LEMMA PlayPCTimes ==
    ASSUME TimesInv, PlayPC
    PROVE  TimesInv'
<1>1. PICK p \in DOMAIN pc : pc' = Put(pc, p, [v |-> clock', t |-> clock'])
  BY DEF PlayPC
<1>2. dev' = dev /\ tale' = tale /\ clock' = clock + Beat
  BY DEF PlayPC
<1>3. /\ clock \in Nat /\ Beat \in Nat /\ Grain \in Nat \ {0} /\ Tolerance \in Nat /\ Torn \in Int
      /\ Ahead \in Nat /\ tale.skew \in Int
  BY ClockAssumption, AheadNat DEF TimesInv, Orderly
<1>4. /\ DOMAIN pc' = DOMAIN pc /\ pc'[p].v = clock' /\ pc'[p].t = clock'
      /\ \A s \in DOMAIN pc : s # p => pc'[s] = pc[s]
  BY <1>1 DEF Put
<1>5. Dated(pc)'
  BY <1>1, <1>2, <1>3, <1>4 DEF TimesInv, Dated, Timely, Homes, Ahead
<1>6. Dated(dev)'
  BY <1>2, <1>3 DEF TimesInv, Dated, Timely, Homes, Ahead
<1>7. ASSUME ClocksAgree', NEW s \in DOMAIN pc' \cap DOMAIN dev', IsSave(s)
      PROVE  LaterIsNewer(pc'[s], dev'[s]) /\ (~Fault("transfer")' => SameTimeSame(pc'[s], dev'[s]))
  <2>1. dev[s].t \in Int /\ dev[s].t <= clock + Ahead
    BY <1>2, <1>7 DEF TimesInv, Dated, Timely
  <2>2. CASE s = p
    <3>1. Ahead + Grain + Tolerance <= Beat
      BY <1>2, <1>3, <1>7 DEF ClocksAgree, Reach, Ahead
    <3>2. pc'[s].t > dev'[s].t + Tolerance
      BY <1>2, <1>3, <1>4, <2>1, <2>2, <3>1
    <3>. QED
      BY <1>2, <1>3, <1>4, <2>1, <2>2, <3>2 DEF LaterIsNewer, SameTimeSame
  <2>3. CASE s # p
    BY <1>2, <1>4, <1>7, <2>3 DEF TimesInv, Paired, ClocksAgree, Fault
  <2>. QED
    BY <2>2, <2>3
<1>. QED
  BY <1>2, <1>3, <1>5, <1>6, <1>7, OrderlyStays DEF TimesInv, Paired

LEMMA PlayDevTimes ==
    ASSUME TimesInv, PlayDev
    PROVE  TimesInv'
<1>1. PICK d \in DOMAIN dev : dev' = Put(dev, d, [v |-> clock', t |-> Grained(clock' + tale.skew)])
  BY DEF PlayDev
<1>2. pc' = pc /\ tale' = tale /\ clock' = clock + Beat
  BY DEF PlayDev
<1>3. /\ clock \in Nat /\ Beat \in Nat /\ Grain \in Nat \ {0} /\ Tolerance \in Nat /\ Torn \in Int
      /\ Ahead \in Nat /\ tale.skew \in Int /\ tale.skew <= Ahead
  BY ClockAssumption, AheadNat DEF TimesInv, Orderly, Ahead
<1>4. PICK t : t = Grained(clock' + tale.skew)
  OBVIOUS
<1>5. /\ DOMAIN dev' = DOMAIN dev /\ dev'[d].v = clock' /\ dev'[d].t = t
      /\ \A s \in DOMAIN dev : s # d => dev'[s] = dev[s]
  BY <1>1, <1>4 DEF Put
<1>6. t \in Int /\ t <= clock' + tale.skew /\ clock' + tale.skew < t + Grain
  <2>1. clock' + tale.skew \in Int
    BY <1>2, <1>3
  <2>. QED
    BY <1>4, <2>1, GrainedTime
<1>7. Dated(dev)'
  BY <1>1, <1>2, <1>3, <1>5, <1>6 DEF TimesInv, Dated, Timely, Homes, Ahead
<1>8. Dated(pc)'
  BY <1>2, <1>3 DEF TimesInv, Dated, Timely, Homes, Ahead
<1>9. ASSUME ClocksAgree', NEW s \in DOMAIN pc' \cap DOMAIN dev', IsSave(s)
      PROVE  LaterIsNewer(pc'[s], dev'[s]) /\ (~Fault("transfer")' => SameTimeSame(pc'[s], dev'[s]))
  <2>1. /\ pc[s].t \in Int /\ pc[s].t <= clock + Ahead
        /\ pc[s].v \in Int /\ pc[s].v <= clock
    BY <1>2, <1>9 DEF TimesInv, Dated, Timely
  <2>2. CASE s = d
    <3>1. Ahead + Grain + Tolerance <= Beat + tale.skew
      BY <1>2, <1>3, <1>9 DEF ClocksAgree, Reach, Ahead
    <3>2. dev'[s].t > pc'[s].t + Tolerance
      BY <1>2, <1>3, <1>5, <1>6, <2>1, <2>2, <3>1
    <3>. QED
      BY <1>2, <1>3, <1>5, <1>6, <2>1, <2>2, <3>2 DEF LaterIsNewer, SameTimeSame
  <2>3. CASE s # d
    BY <1>2, <1>5, <1>9, <2>3 DEF TimesInv, Paired, ClocksAgree, Fault
  <2>. QED
    BY <2>2, <2>3
<1>. QED
  BY <1>2, <1>3, <1>7, <1>8, <1>9, OrderlyStays DEF TimesInv, Paired

LEMMA TimesInit == Init /\ Orderly => TimesInv
<1>. SUFFICES ASSUME Init, Orderly PROVE TimesInv
  OBVIOUS
<1>1. pc = tale.pc /\ dev = tale.dev /\ clock = 0 /\ Ahead \in Nat /\ Torn \in Int
  BY AheadNat, ClockAssumption DEF Init
<1>2. Dated(tale.pc) /\ Dated(tale.dev)
  BY <1>1 DEF Dated, Orderly, Homes, Timely
<1>3. Paired
  BY <1>1 DEF Paired, Orderly, Homes
<1>. QED
  BY <1>1, <1>2, <1>3 DEF TimesInv

LEMMA TimesStep == TimesInv /\ [Next]_vars => TimesInv' /\ tale' = tale
<1>. SUFFICES ASSUME TimesInv, [Next]_vars PROVE TimesInv' /\ tale' = tale
  OBVIOUS
<1>1. tale' = tale
  BY DEF Next, vars, Ask, List, Look, Mirror, DeleteExtra, Finish, Cancel, Poll, PollCard, Launch,
     CoolDown, PlayPC, PlayDev, Plug, Emulator
<1>2. CASE Look
  BY <1>1, <1>2, LookCopies, CopiedKeepsTimes
<1>3. CASE DeleteExtra
  BY <1>1, <1>3, DeleteCopies, CopiedKeepsTimes
<1>4. CASE UNCHANGED files
  BY <1>1, <1>4, NothingCopied, CopiedKeepsTimes DEF files
<1>5. CASE PlayPC
  BY <1>1, <1>5, PlayPCTimes
<1>6. CASE PlayDev
  BY <1>1, <1>6, PlayDevTimes
<1>7. CASE Ask \/ List \/ Mirror \/ Finish \/ Cancel
  BY <1>1, <1>4, <1>7 DEF Ask, List, Mirror, Finish, Cancel
<1>8. CASE (\E answered \in BOOLEAN : Poll(answered)) \/ PollCard \/ Launch \/ CoolDown
  BY <1>1, <1>4, <1>8 DEF Poll, PollCard, Launch, CoolDown
<1>9. CASE Plug \/ Emulator \/ UNCHANGED vars
  BY <1>1, <1>4, <1>9 DEF Plug, Emulator, vars
<1>. QED
  BY <1>2, <1>3, <1>5, <1>6, <1>7, <1>8, <1>9 DEF Next
-----------------------------------------------------------------------------
(* Nobody compares times whose clocks differ too much *)

JobIs(j) ==
    j = [by |-> j.by, ask |-> j.ask, phase |-> j.phase, seen |-> j.seen, todo |-> j.todo,
         frozen |-> j.frozen, cancelled |-> j.cancelled, disturbed |-> j.disturbed,
         blind |-> j.blind]
DaemonIs(d) == d = [last |-> d.last, prev |-> d.prev, want |-> d.want, cool |-> d.cool]

AskedInv ==
    /\ job # None => /\ JobIs(job) /\ job.ask \in Asks
                     /\ Orderly /\ job.ask.way = "newest" => ClocksAgree
    /\ DaemonIs(daemon)
    /\ daemon.want # None => /\ tale.auto # None
                             /\ Orderly /\ tale.autoAsk.way = "newest" => ClocksAgree

LEMMA GuardAgrees ==
    ASSUME Orderly, NEW ask \in Asks, ask.way = "newest", ClockOk(ask) \/ ask.via # "adb"
    PROVE  ClocksAgree
BY DEF Orderly, Newests, ClockOk

LEMMA StartedIs ==
    ASSUME NEW by, NEW ask
    PROVE  /\ JobIs(Started(by, ask)) /\ Started(by, ask).ask = ask
           /\ Started(by, ask).phase = "list"
BY DEF JobIs, Started

\* What the steps of a pass leave of its record.
LEMMA JobStays ==
    ASSUME AskedInv, job # None,
           \/ \E t : job' = [job EXCEPT !.todo = t]
           \/ \E s, t, f, b : job' = [job EXCEPT !.phase = "files", !.seen = s, !.todo = t,
                                                 !.frozen = f, !.blind = b]
           \/ \E t, b : job' = [job EXCEPT !.phase = "mirror", !.todo = t, !.blind = b]
           \/ job' = [job EXCEPT !.cancelled = TRUE, !.todo = {}]
           \/ job' = [job EXCEPT !.disturbed = TRUE]
    PROVE  JobIs(job') /\ job'.ask = job.ask /\ job'.by = job.by
<1>1. PICK b, a, p, s, t, f, c, d, l :
         job = [by |-> b, ask |-> a, phase |-> p, seen |-> s, todo |-> t, frozen |-> f,
                cancelled |-> c, disturbed |-> d, blind |-> l]
  BY DEF AskedInv, JobIs
<1>. QED
  BY <1>1 DEF JobIs

LEMMA DaemonStays ==
    ASSUME AskedInv,
           \/ \E c : daemon' = [daemon EXCEPT !.cool = c]
           \/ daemon' = [daemon EXCEPT !.want = None]
           \/ daemon' = [daemon EXCEPT !.want = None, !.cool = TRUE]
    PROVE  DaemonIs(daemon') /\ (daemon'.want = None \/ daemon'.want = daemon.want)
<1>1. PICK l, p, w, c : daemon = [last |-> l, prev |-> p, want |-> w, cool |-> c]
  BY DEF AskedInv, DaemonIs
<1>. QED
  BY <1>1 DEF DaemonIs

LEMMA DaemonWants ==
    ASSUME AskedInv,
           NEW l, NEW w,
           \/ daemon' = [daemon EXCEPT !.last = l, !.want = w]
           \/ \E p : daemon' = [daemon EXCEPT !.last = l, !.prev = p, !.want = w]
    PROVE  DaemonIs(daemon') /\ daemon'.want = w
<1>1. PICK x, p, v, c : daemon = [last |-> x, prev |-> p, want |-> v, cool |-> c]
  BY DEF AskedInv, DaemonIs
<1>. QED
  BY <1>1 DEF DaemonIs

LEMMA AskedStep ==
    ASSUME tale' = tale, AskedInv, [Next]_vars
    PROVE  AskedInv'
<1>1. Asks' = Asks /\ ClocksAgree' = ClocksAgree /\ (Orderly' => Orderly)
  BY DEF Asks, ClocksAgree, Orderly, Homes, Newests, Skewed
<1>2. CASE Ask
  <2>1. PICK ask \in tale.asks : ClockOk(ask) /\ job' = Started("hand", ask)
    BY <1>2 DEF Ask
  <2>2. ask \in Asks /\ daemon' = daemon
    BY <1>2 DEF Ask, Asks
  <2>. QED
    BY <1>1, <2>1, <2>2, GuardAgrees, StartedIs DEF AskedInv
<1>3. CASE Launch
  <2>1. DaemonIs(daemon') /\ daemon'.want = None
    BY <1>3, DaemonStays DEF Launch, AskedInv, DaemonIs
  <2>2. CASE job' = job
    BY <1>1, <2>1, <2>2 DEF AskedInv
  <2>3. CASE \E by : job' = Started(by, tale.autoAsk)
    <3>1. tale.autoAsk \in Asks /\ (Orderly /\ tale.autoAsk.way = "newest" => ClocksAgree)
      BY <1>3 DEF AskedInv, Launch, Asks
    <3>. QED
      BY <1>1, <2>1, <2>3, <3>1, StartedIs DEF AskedInv
  <2>. QED
    BY <1>3, <2>2, <2>3 DEF Launch
<1>4. CASE \E answered \in BOOLEAN : Poll(answered)
  <2>1. PICK answered : Poll(answered)
    BY <1>4
  <2>2. PICK w : w = IF ClockOk(tale.autoAsk)
                     THEN (IF link /\ ~daemon.last THEN "connect"
                           ELSE IF Watch(answered).closed THEN "closed" ELSE None)
                     ELSE None
    OBVIOUS
  <2>3. daemon' = [daemon EXCEPT !.last = link, !.prev = Watch(answered).prev, !.want = w]
    BY <2>1, <2>2 DEF Poll
  <2>4. DaemonIs(daemon') /\ daemon'.want = w
    BY <2>3, DaemonWants
  <2>5. job' = job /\ tale.auto # None /\ tale.autoAsk \in Asks
    BY <2>1, PlaceAssumption DEF Poll, Asks
  <2>. QED
    BY <1>1, <2>2, <2>4, <2>5, GuardAgrees DEF AskedInv
<1>5. CASE PollCard
  <2>1. DaemonIs(daemon')
    BY <1>5, DaemonWants DEF PollCard
  <2>2. job' = job /\ tale.auto = "card" /\ (Orderly => tale.autoAsk.via = "card")
    BY <1>5 DEF PollCard, Orderly
  <2>3. tale.auto # None /\ tale.autoAsk \in Asks
    BY <2>2, PlaceAssumption DEF Asks
  <2>. QED
    BY <1>1, <2>1, <2>2, <2>3, GuardAgrees DEF AskedInv
<1>6. CASE CoolDown
  <2>1. DaemonIs(daemon') /\ (daemon'.want = None \/ daemon'.want = daemon.want) /\ job' = job
    BY <1>6, DaemonStays DEF CoolDown
  <2>. QED
    BY <1>1, <2>1 DEF AskedInv
<1>7. CASE daemon' = daemon /\ (job' = None \/ job' = job)
  BY <1>1, <1>7 DEF AskedInv
<1>8. ASSUME daemon' = daemon, job # None, JobIs(job'), job'.ask = job.ask PROVE AskedInv'
  BY <1>1, <1>8 DEF AskedInv
<1>9. CASE List \/ Look \/ Mirror \/ DeleteExtra \/ Cancel
  <2>1. daemon' = daemon /\ job # None
    BY <1>9 DEF List, Look, Mirror, DeleteExtra, Cancel
  <2>2. CASE List
    BY <1>7, <1>8, <2>1, <2>2, JobStays DEF List
  <2>3. CASE Look \/ DeleteExtra
    BY <1>8, <2>1, <2>3, JobStays DEF Look, DeleteExtra
  <2>4. CASE Mirror \/ Cancel
    BY <1>8, <2>1, <2>4, JobStays DEF Mirror, Cancel
  <2>. QED
    BY <1>9, <2>2, <2>3, <2>4
<1>10. CASE PlayPC \/ PlayDev \/ Plug
  <2>1. daemon' = daemon /\ Disturbed
    BY <1>10 DEF PlayPC, PlayDev, Plug
  <2>. QED
    BY <1>7, <1>8, <2>1, JobStays DEF Disturbed
<1>11. CASE Finish \/ Emulator \/ UNCHANGED vars
  BY <1>7, <1>11 DEF Finish, Emulator, vars
<1>. QED
  BY <1>2, <1>3, <1>4, <1>5, <1>6, <1>9, <1>10, <1>11 DEF Next
-----------------------------------------------------------------------------
(* What a pass "newest" has to look at, when nobody disturbs it *)

\* The place that an operation is about.
Of(o) == IF o.p = None THEN o.d ELSE o.p

Formed(o) ==
    /\ o = Op(o.p, o.d)
    /\ o.p \in Place \cup {None} /\ o.d \in Place \cup {None} /\ (o.p # None \/ o.d # None)
    /\ o.p # None /\ o.d # None => IsSave(o.p) = IsSave(o.d)

\* What the listing said of a save still holds.
Live(o) ==
    /\ o.p # None => o.p \in DOMAIN pc
    /\ o.d # None => /\ o.d \in DOMAIN dev /\ o.d \in DOMAIN job.seen
                     /\ dev[o.d].t = job.seen[o.d].t
    /\ o.p = None => o.d \notin DOMAIN pc
    /\ o.d = None => o.p \notin DOMAIN job.seen
    /\ o.p # None /\ o.d # None => o.p = o.d
    /\ job.frozen = <<>> \/ job.frozen[o] = Newer(o, pc, dev)

Comparing == job # None /\ job.phase = "files" /\ job.ask.way = "newest" /\ ~job.disturbed

FreshInv == Comparing => \A o \in job.todo : Formed(o) /\ (IsSave(Of(o)) => Live(o))

LEMMA MatchIs ==
    ASSUME NEW p, NEW console
    PROVE  /\ p \in DOMAIN console => Match(p, console) = p
           /\ p \notin DOMAIN console =>
                \/ Match(p, console) = None
                \/ /\ Match(p, console) \in DOMAIN console
                   /\ SameName(p, Match(p, console))
<1>. DEFINE same == {d \in DOMAIN console : SameName(p, d)}
<1>1. CASE p \notin DOMAIN console /\ Cardinality(same) = 1
  <2>1. same # {}
    BY <1>1, FS_EmptySet
  <2>2. (CHOOSE d \in same : TRUE) \in same
    BY <2>1
  <2>. QED
    BY <1>1, <2>2 DEF Match
<1>. QED
  BY <1>1 DEF Match

LEMMA SideIs ==
    ASSUME NEW ask, NEW f
    PROVE  /\ DOMAIN Side(ask, f) = {p \in DOMAIN f : Wanted(ask, p)}
           /\ \A p \in DOMAIN Side(ask, f) : Side(ask, f)[p] = f[p]
BY DEF Side, Restrict

LEMMA ListedIs ==
    ASSUME NEW ask
    PROVE  /\ DOMAIN Listed(ask) \subseteq {d \in DOMAIN dev : Wanted(ask, d)}
           /\ \A d \in DOMAIN Listed(ask) : Listed(ask)[d] = dev[d]
           /\ link => DOMAIN Listed(ask) = {d \in DOMAIN dev : Wanted(ask, d)}
<1>1. DOMAIN <<>> = {}
  OBVIOUS
<1>. QED
  BY <1>1, SideIs DEF Listed

LEMMA PairIs ==
    ASSUME TimesInv, NEW ask, NEW o \in Pairs(Side(ask, pc), Listed(ask))
    PROVE  /\ Formed(o)
           /\ o.p # None => o.p \in DOMAIN pc
           /\ o.d # None => o.d \in DOMAIN Listed(ask)
           /\ IsSave(Of(o)) => /\ o.p = None => o.d \notin DOMAIN pc
                               /\ o.d = None => o.p \notin DOMAIN Listed(ask)
                               /\ o.p # None /\ o.d # None => o.p = o.d
<1>. DEFINE library == Side(ask, pc)
            console == Listed(ask)
            met == {Op(p, Match(p, console)) : p \in DOMAIN library}
<1>1. /\ DOMAIN library = {p \in DOMAIN pc : Wanted(ask, p)}
      /\ DOMAIN console \subseteq {d \in DOMAIN dev : Wanted(ask, d)}
  BY SideIs, ListedIs
<1>2. DOMAIN pc \subseteq Place /\ DOMAIN dev \subseteq Place /\ None \notin Place
  BY PlaceAssumption DEF TimesInv, Dated
<1>3. CASE o \in met
  <2>1. PICK p \in DOMAIN library : o = Op(p, Match(p, console))
    BY <1>3
  <2>2. o.p = p /\ o.d = Match(p, console) /\ p # None /\ p \in DOMAIN pc /\ p \in Place
    BY <1>1, <1>2, <2>1 DEF Op
  <2>3. o.d = None \/ (o.d \in DOMAIN console /\ o.d \in Place /\ SameName(p, o.d))
    BY <1>1, <1>2, <2>2, MatchIs DEF SameName
  <2>4. o.d # None => IsSave(o.d) = IsSave(p)
    BY <2>3 DEF SameName, IsSave
  <2>5. ASSUME IsSave(p), o.d # None PROVE o.d = p
    <3>1. o.d \in DOMAIN dev /\ IsSave(o.d) /\ SameName(p, o.d)
      BY <1>1, <2>3, <2>4, <2>5
    <3>2. p \in Homes /\ o.d \in Homes
      BY <2>2, <2>5, <3>1 DEF TimesInv, Dated
    <3>. QED
      BY <3>1, <3>2 DEF TimesInv, Orderly
  <2>6. o.d = None => p \notin DOMAIN console
    BY <2>2, MatchIs
  <2>. QED
    BY <2>1, <2>2, <2>3, <2>4, <2>5, <2>6 DEF Formed, Of
<1>4. CASE o \in {Op(None, d) : d \in DOMAIN console \ {x.d : x \in met}}
  <2>1. PICK d \in DOMAIN console : o = Op(None, d) /\ d \notin {x.d : x \in met}
    BY <1>4
  <2>2. o.p = None /\ o.d = d /\ d # None /\ d \in Place
    BY <1>1, <1>2, <2>1 DEF Op
  <2>3. d \notin DOMAIN pc
    <3>1. SUFFICES ASSUME d \in DOMAIN pc PROVE FALSE
      OBVIOUS
    <3>2. d \in DOMAIN library /\ Match(d, console) = d
      BY <1>1, <2>1, <3>1, MatchIs
    <3>3. Op(d, d) \in met /\ Op(d, d).d = d
      BY <3>2 DEF Op
    <3>. QED
      BY <2>1, <3>3
  <2>. QED
    BY <2>1, <2>2, <2>3 DEF Formed, Of
<1>. QED
  BY <1>3, <1>4 DEF Pairs

\* What an operation does to a side.
LEMMA GoesUp ==
    ASSUME NEW p, NEW q, Push(p, q) \/ CardUp(p, q)
    PROVE  /\ pc' = pc
           /\ dev' # dev => p \in DOMAIN pc /\ \E c : /\ dev' = Put(dev, q, c)
                                                      /\ c.v = pc[p].v \/ c.v = Torn
<1>1. CASE Push(p, q)
  BY <1>1 DEF Push
<1>2. CASE CardUp(p, q)
  <2>1. CASE UNCHANGED files
    BY <2>1 DEF files
  <2>2. CASE /\ dev' \in Copies(pc, p, dev, q, [v |-> pc[p].v, t |-> Grained(pc[p].t)], DeviceTime)
             /\ pc' = pc
    BY <2>2 DEF Copies
  <2>. QED
    BY <1>2, <2>1, <2>2 DEF CardUp
<1>. QED
  BY <1>1, <1>2

LEMMA GoesDown ==
    ASSUME NEW d, NEW q, Pull(d, q) \/ CardDown(d, q)
    PROVE  /\ dev' = dev
           /\ \/ pc' = pc
              \/ ~IsSave(q) /\ pc' = Drop(pc, q)
              \/ d \in DOMAIN dev /\ \E c : /\ pc' = Put(pc, q, c)
                                            /\ c.v = dev[d].v \/ c.v = Torn
<1>1. CASE Pull(d, q)
  BY <1>1 DEF Pull
<1>2. CASE CardDown(d, q)
  <2>1. CASE UNCHANGED files
    BY <2>1 DEF files
  <2>2. CASE pc' \in Copies(dev, d, pc, q, dev[d], clock) /\ dev' = dev
    BY <2>2 DEF Copies
  <2>. QED
    BY <1>2, <2>1, <2>2 DEF CardDown
<1>. QED
  BY <1>1, <1>2

\* Saves of other places are as before.
Elsewhere(s, f, g) ==
    \A p : IsSave(p) /\ p # s => /\ p \in DOMAIN g <=> p \in DOMAIN f
                                 /\ p \in DOMAIN f => g[p] = f[p]

LEMMA PutElsewhere ==
    ASSUME NEW f, NEW q, NEW s, IsSave(q) => q = s
    PROVE  \A c : Elsewhere(s, f, Put(f, q, c))
BY DEF Put, Elsewhere

LEMMA SameElsewhere == \A s, f : Elsewhere(s, f, f)
BY DEF Elsewhere

LEMMA DropElsewhere ==
    ASSUME NEW f, NEW q, NEW s, ~IsSave(q)
    PROVE  Elsewhere(s, f, Drop(f, q))
BY DEF Drop, Restrict, Elsewhere

LEMMA NewestElsewhere ==
    ASSUME TimesInv, NEW o, Formed(o), IsSave(Of(o)) => Live(o), GoNewest(o)
    PROVE  Elsewhere(Of(o), pc, pc') /\ Elsewhere(Of(o), dev, dev')
<1>1. None \notin DOMAIN pc /\ None \notin DOMAIN dev
  BY PlaceAssumption DEF TimesInv, Dated
<1>2. CASE UNCHANGED files
  BY <1>2 DEF files, Elsewhere
<1>3. CASE Push(o.p, Up(o.p)) \/ CardUp(o.p, Up(o.p))
  <2>1. o.p \in DOMAIN pc => (IsSave(Up(o.p)) => Up(o.p) = Of(o))
    BY <1>1, AllLand DEF Lands, Of
  <2>2. /\ pc' = pc
        /\ dev' # dev => o.p \in DOMAIN pc /\ \E c : dev' = Put(dev, Up(o.p), c)
    BY <1>3, GoesUp
  <2>. QED
    BY <2>1, <2>2, SameElsewhere, PutElsewhere
<1>4. CASE Pull(o.d, Down(o.d)) \/ CardDown(o.d, Down(o.d))
  <2>1. o.d \in DOMAIN dev => (IsSave(Down(o.d)) => Down(o.d) = Of(o))
    <3>1. SUFFICES ASSUME o.d \in DOMAIN dev, IsSave(Down(o.d)) PROVE Down(o.d) = Of(o)
      OBVIOUS
    <3>2. Down(o.d) = o.d /\ IsSave(o.d) /\ o.d # None
      BY <1>1, <3>1, AllLand DEF Lands
    <3>3. CASE o.p = None
      BY <3>2, <3>3 DEF Of
    <3>4. CASE o.p # None
      BY <3>2, <3>4 DEF Of, Formed, Live
    <3>. QED
      BY <3>3, <3>4
  <2>2. /\ dev' = dev
        /\ \/ pc' = pc
           \/ ~IsSave(Down(o.d)) /\ pc' = Drop(pc, Down(o.d))
           \/ o.d \in DOMAIN dev /\ \E c : pc' = Put(pc, Down(o.d), c)
    BY <1>4, GoesDown
  <2>. QED
    BY <2>1, <2>2, SameElsewhere, PutElsewhere, DropElsewhere
<1>. QED
  BY <1>2, <1>3, <1>4 DEF GoNewest

\* Of a place there is one operation.
LEMMA OneOfEach ==
    ASSUME NEW o, NEW x, Formed(o), Formed(x), Live(o), Live(x), Of(o) = Of(x)
    PROVE  o = x
BY DEF Formed, Live, Of

LEMMA LookFresh ==
    ASSUME TimesInv, AskedInv, FreshInv, Comparing, Look
    PROVE  FreshInv'
<1>1. PICK o \in job.todo : GoNewest(o) /\ job' = [job EXCEPT !.todo = @ \ {o}]
  BY DEF Look, Comparing
<1>2. /\ job'.todo = job.todo \ {o} /\ job'.seen = job.seen /\ job'.frozen = job.frozen
  BY <1>1 DEF AskedInv, JobIs, Comparing
<1>3. Formed(o) /\ (IsSave(Of(o)) => Live(o))
  BY <1>1 DEF FreshInv
<1>4. Elsewhere(Of(o), pc, pc') /\ Elsewhere(Of(o), dev, dev')
  BY <1>1, <1>3, NewestElsewhere
<1>5. ASSUME NEW x \in job.todo, x # o PROVE Formed(x) /\ (IsSave(Of(x)) => Live(x)')
  <2>1. Formed(x) /\ (IsSave(Of(x)) => Live(x))
    BY <1>5 DEF FreshInv
  <2>2. ASSUME IsSave(Of(x)) PROVE Live(x)'
    <3>1. Of(x) # Of(o)
      BY <1>3, <1>5, <2>1, <2>2, OneOfEach
    <3>2. /\ x.p # None => x.p = Of(x) /\ x.p \in DOMAIN pc' /\ pc'[x.p] = pc[x.p]
          /\ x.d # None => x.d = Of(x) /\ x.d \in DOMAIN dev' /\ dev'[x.d] = dev[x.d]
          /\ x.p = None => x.d \notin DOMAIN pc'
      BY <1>4, <2>1, <2>2, <3>1 DEF Elsewhere, Live, Of, Formed
    <3>3. Newer(x, pc', dev') = Newer(x, pc, dev)
      BY <3>2 DEF Newer
    <3>. QED
      BY <1>2, <2>1, <2>2, <3>2, <3>3 DEF Live
  <2>. QED
    BY <2>1, <2>2
<1>. QED
  BY <1>2, <1>5 DEF FreshInv, Formed, Of

LEMMA ListFresh ==
    ASSUME TimesInv, AskedInv, List
    PROVE  FreshInv'
<1>. DEFINE ops == OpsOf(job.ask, Side(job.ask, pc), Listed(job.ask))
<1>1. SUFFICES ASSUME Comparing' PROVE FreshInv'
  BY DEF FreshInv
<1>2. job' = [job EXCEPT !.phase = "files", !.seen = Listed(job.ask), !.todo = ops,
                        !.frozen = Frozen(ops), !.blind = ~link]
  BY <1>1 DEF List, Comparing
<1>3. /\ job'.ask = job.ask /\ job'.seen = Listed(job.ask) /\ job'.todo = ops /\ job'.frozen = Frozen(ops)
      /\ pc' = pc /\ dev' = dev
  BY <1>2 DEF List, files, AskedInv, JobIs
<1>4. ops = Pairs(Side(job.ask, pc), Listed(job.ask))
  BY <1>1, <1>3 DEF Comparing, OpsOf
<1>5. ASSUME NEW o \in ops PROVE Formed(o) /\ (IsSave(Of(o)) => Live(o)')
  <2>1. /\ Formed(o)
        /\ o.p # None => o.p \in DOMAIN pc
        /\ o.d # None => o.d \in DOMAIN Listed(job.ask)
        /\ IsSave(Of(o)) => /\ o.p = None => o.d \notin DOMAIN pc
                            /\ o.d = None => o.p \notin DOMAIN Listed(job.ask)
                            /\ o.p # None /\ o.d # None => o.p = o.d
    BY <1>4, <1>5, PairIs
  <2>2. o.d # None => o.d \in DOMAIN dev /\ dev[o.d].t = Listed(job.ask)[o.d].t
    BY <2>1, ListedIs
  <2>3. Frozen(ops) = <<>> \/ Frozen(ops)[o] = Newer(o, pc, dev)
    BY <1>5 DEF Frozen
  <2>. QED
    BY <1>3, <2>1, <2>2, <2>3 DEF Live
<1>. QED
  BY <1>3, <1>5 DEF FreshInv, Formed, Of

LEMMA StillFresh ==
    ASSUME FreshInv, job' = job, pc' = pc, dev' = dev
    PROVE  FreshInv'
<1>1. \A o : Live(o)' = Live(o)
  BY DEF Live
<1>. QED
  BY <1>1 DEF FreshInv, Comparing, Formed, Of

LEMMA FreshStep ==
    ASSUME TimesInv, AskedInv, FreshInv, [Next]_vars
    PROVE  FreshInv'
<1>1. ASSUME ~Comparing' PROVE FreshInv'
  BY <1>1 DEF FreshInv
<1>2. CASE List
  BY <1>2, ListFresh
<1>3. CASE Look
  <2>1. CASE Comparing
    BY <1>3, <2>1, LookFresh
  <2>2. CASE ~Comparing
    <3>1. PICK t : job' = [job EXCEPT !.todo = t]
      BY <1>3 DEF Look
    <3>2. job # None /\ job'.phase = job.phase /\ job'.ask = job.ask /\ job'.disturbed = job.disturbed
      BY <1>3, <3>1 DEF Look, AskedInv, JobIs
    <3>. QED
      BY <1>1, <2>2, <3>2 DEF Comparing
  <2>. QED
    BY <2>1, <2>2
<1>4. CASE Mirror
  <2>1. PICK t, b : job' = [job EXCEPT !.phase = "mirror", !.todo = t, !.blind = b]
    BY <1>4 DEF Mirror
  <2>2. job'.phase = "mirror"
    BY <1>4, <2>1 DEF Mirror, AskedInv, JobIs
  <2>. QED
    BY <1>1, <2>2 DEF Comparing
<1>5. CASE DeleteExtra
  <2>1. PICK t : job' = [job EXCEPT !.todo = t]
    BY <1>5 DEF DeleteExtra
  <2>2. job'.phase = "mirror"
    BY <1>5, <2>1 DEF DeleteExtra, AskedInv, JobIs
  <2>. QED
    BY <1>1, <2>2 DEF Comparing
<1>6. CASE Cancel
  <2>1. job' = [job EXCEPT !.cancelled = TRUE, !.todo = {}] /\ job # None
    BY <1>6 DEF Cancel
  <2>2. job'.todo = {}
    BY <2>1 DEF AskedInv, JobIs
  <2>. QED
    BY <2>2 DEF FreshInv
<1>7. CASE PlayPC \/ PlayDev \/ Plug
  <2>1. job' = None \/ (job # None /\ job' = [job EXCEPT !.disturbed = TRUE])
    BY <1>7 DEF PlayPC, PlayDev, Plug, Disturbed
  <2>2. job' = None \/ job'.disturbed = TRUE
    BY <2>1 DEF AskedInv, JobIs
  <2>. QED
    BY <1>1, <2>2 DEF Comparing
<1>8. CASE Ask \/ Launch \/ Finish
  <2>1. job' = None \/ (\E by, ask : job' = Started(by, ask)) \/ (job' = job /\ pc' = pc /\ dev' = dev)
    BY <1>8 DEF Ask, Launch, Finish, files
  <2>. QED
    BY <1>1, <2>1, StartedIs, StillFresh DEF Comparing
<1>9. CASE (\E answered \in BOOLEAN : Poll(answered)) \/ PollCard \/ CoolDown \/ Emulator \/ UNCHANGED vars
  <2>1. job' = job /\ pc' = pc /\ dev' = dev
    BY <1>9 DEF Poll, PollCard, CoolDown, Emulator, vars, files
  <2>. QED
    BY <2>1, StillFresh
<1>. QED
  BY <1>2, <1>3, <1>4, <1>5, <1>6, <1>7, <1>8, <1>9 DEF Next

\* The times of the listing are those of the files.
LEMMA WayIsNewer ==
    ASSUME NEW o, Live(o), GoNewest(o)
    PROVE  \/ /\ Newer(o, pc, dev) = "up"
              /\ IF job.ask.via = "adb" THEN Push(o.p, Up(o.p)) ELSE CardUp(o.p, Up(o.p))
           \/ /\ Newer(o, pc, dev) = "down"
              /\ IF job.ask.via = "adb" THEN Pull(o.d, Down(o.d)) ELSE CardDown(o.d, Down(o.d))
           \/ Newer(o, pc, dev) = "none" /\ UNCHANGED files
<1>. DEFINE console == IF job.ask.via = "adb" \/ o.d \notin DOMAIN dev THEN job.seen ELSE dev
            way == IF job.frozen # <<>> THEN job.frozen[o]
                   ELSE IF o.p # None /\ o.p \notin DOMAIN pc THEN "none" ELSE Newer(o, pc, console)
<1>1. Newer(o, pc, console) = Newer(o, pc, dev)
  BY DEF Live, Newer
<1>2. way = Newer(o, pc, dev)
  BY <1>1 DEF Live
<1>3. way \in {"up", "down", "none"}
  BY <1>2 DEF Newer
<1>4. CASE /\ way = "up"
           /\ IF job.ask.via = "adb" THEN Push(o.p, Up(o.p)) ELSE CardUp(o.p, Up(o.p))
  BY <1>2, <1>4
<1>5. CASE /\ way = "down"
           /\ IF job.ask.via = "adb" THEN Pull(o.d, Down(o.d)) ELSE CardDown(o.d, Down(o.d))
  BY <1>2, <1>5
<1>6. CASE way = "none" /\ UNCHANGED files
  BY <1>2, <1>6
<1>. QED
  BY <1>3, <1>4, <1>5, <1>6 DEF GoNewest

PassInv == TimesInv /\ AskedInv /\ FreshInv

LEMMA PassInit == Init /\ Orderly => PassInv
BY TimesInit DEF Init, PassInv, AskedInv, DaemonIs, FreshInv, Comparing

LEMMA PassStep == PassInv /\ [Next]_vars => PassInv'
BY TimesStep, AskedStep, FreshStep DEF PassInv, TimesInv

LEMMA LookWins ==
    ASSUME PassInv, job # None, job.ask.way = "newest", ~job.disturbed, Look,
           NEW p \in DOMAIN pc, IsSave(p)
    PROVE  pc'[p].v >= pc[p].v \/ pc'[p].v = Torn
<1>1. /\ pc[p].v \in Int /\ pc[p].t \in Int /\ Tolerance \in Nat
      /\ p \in DOMAIN dev => dev[p].v \in Int /\ dev[p].t \in Int
  BY ClockAssumption DEF PassInv, TimesInv, Dated, Timely
<1>2. ASSUME pc'[p] = pc[p] PROVE pc'[p].v >= pc[p].v
  BY <1>1, <1>2
<1>3. PICK o \in job.todo : GoNewest(o)
  BY DEF Look
<1>4. Formed(o) /\ (IsSave(Of(o)) => Live(o))
  BY <1>3 DEF PassInv, FreshInv, Comparing, Look
<1>5. CASE p # Of(o)
  BY <1>2, <1>3, <1>4, <1>5, NewestElsewhere DEF PassInv, Elsewhere
<1>6. CASE p = Of(o)
  <2>1. Live(o) /\ o.p = p /\ p # None
    BY <1>4, <1>6, PlaceAssumption DEF Live, Of, PassInv, TimesInv, Dated
  <2>2. CASE pc' = pc
    BY <1>2, <2>2
  <2>3. CASE Newer(o, pc, dev) = "down" /\ (Pull(o.d, Down(o.d)) \/ CardDown(o.d, Down(o.d)))
    <3>1. CASE ~IsSave(Down(o.d)) /\ pc' = Drop(pc, Down(o.d))
      <4>1. pc'[p] = pc[p]
        BY <3>1 DEF Drop, Restrict
      <4>. QED
        BY <1>2, <4>1
    <3>2. CASE o.d \in DOMAIN dev /\ \E c : /\ pc' = Put(pc, Down(o.d), c)
                                            /\ c.v = dev[o.d].v \/ c.v = Torn
      <4>1. PICK c : pc' = Put(pc, Down(o.d), c) /\ (c.v = dev[o.d].v \/ c.v = Torn)
        BY <3>2
      <4>2. CASE Down(o.d) # p
        <5>1. pc'[p] = pc[p]
          BY <4>1, <4>2 DEF Put
        <5>. QED
          BY <1>2, <5>1
      <4>3. CASE Down(o.d) = p
        <5>1. o.d = p /\ p \in DOMAIN dev /\ pc'[p] = c
          BY <3>2, <4>1, <4>3, AllLand DEF Lands, PassInv, Put
        <5>2. dev[p].t > pc[p].t + Tolerance
          BY <1>1, <2>1, <2>3, <5>1 DEF Newer
        <5>3. ClocksAgree
          BY DEF PassInv, AskedInv, TimesInv
        <5>4. dev[p].v = Torn \/ dev[p].v >= pc[p].v
          BY <5>1, <5>2, <5>3 DEF PassInv, TimesInv, Paired, LaterIsNewer
        <5>. QED
          BY <4>1, <5>1, <5>4
      <4>. QED
        BY <4>2, <4>3
    <3>. QED
      BY <2>2, <2>3, <3>1, <3>2, GoesDown
  <2>. QED
    BY <1>3, <2>1, <2>2, <2>3, WayIsNewer, GoesUp DEF files
<1>. QED
  BY <1>5, <1>6

\* In a story whose times can be trusted, a pass "newest" that nobody disturbs never puts an
\* older play over a newer one on the PC, whatever other passes, plays, pulls of the cable and
\* broken transfers came before it.
THEOREM NewestNeverLoses == Spec /\ Orderly => NewestWins
<1>1. PassInv /\ [Next]_vars =>
        [job # None /\ job.ask.way = "newest" /\ ~job.disturbed /\ Look =>
           \A p \in DOMAIN pc :
               IsSave(p) => pc'[p].v >= pc[p].v \/ pc'[p].v = Torn \/ Twofold(p)]_vars
  BY LookWins
<1>. QED
  BY <1>1, PassInit, PassStep, PTL DEF Spec, NewestWins
-----------------------------------------------------------------------------
(* A pass "newest" makes both sides the same *)

\* Every pass "newest" looks at all the saves, and may replace any.
AllSaves == \A ask \in Newests : "saves" \in ask.what /\ ask.excluded = {} /\ ~ask.safe

Sound == "transfer" \notin tale.faults /\ "plug" \notin tale.faults
IsLevel(p) == p \in DOMAIN pc /\ p \in DOMAIN dev /\ dev[p].v = pc[p].v

LinkInv == ~Fault("plug") => link
PhaseInv == job # None => /\ job.phase \in {"list", "files", "mirror"}
                          /\ job.phase = "mirror" => job.ask.way # "newest"

\* A save is level, or still to be looked at.
LevelInv ==
    Sound /\ Comparing /\ ~job.cancelled =>
        \A p \in DOMAIN pc : IsSave(p) => IsLevel(p) \/ \E o \in job.todo : o.p = p

LEMMA LinkStep == LinkInv /\ [Next]_vars /\ tale' = tale => LinkInv'
<1>. SUFFICES ASSUME LinkInv, [Next]_vars, tale' = tale PROVE LinkInv'
  OBVIOUS
<1>1. CASE Plug
  BY <1>1 DEF LinkInv, Plug, Fault
<1>2. CASE link' = link
  BY <1>2 DEF LinkInv, Fault
<1>3. CASE ~Plug
  BY <1>2, <1>3 DEF Next, vars, Ask, List, Look, Mirror, DeleteExtra, Finish, Cancel, Poll, PollCard,
     Launch, CoolDown, PlayPC, PlayDev, Emulator
<1>. QED
  BY <1>1, <1>3

LEMMA PhaseStep == AskedInv /\ PhaseInv /\ [Next]_vars => PhaseInv'
<1>. SUFFICES ASSUME AskedInv, PhaseInv, [Next]_vars PROVE PhaseInv'
  OBVIOUS
<1>1. ASSUME job # None, \/ \E t : job' = [job EXCEPT !.todo = t]
                         \/ job' = [job EXCEPT !.cancelled = TRUE, !.todo = {}]
                         \/ job' = [job EXCEPT !.disturbed = TRUE]
      PROVE  PhaseInv'
  <2>1. job'.phase = job.phase /\ job'.ask = job.ask
    BY <1>1 DEF AskedInv, JobIs
  <2>. QED
    BY <1>1, <2>1 DEF PhaseInv
<1>2. ASSUME job' = None \/ job' = job PROVE PhaseInv'
  BY <1>2 DEF PhaseInv
<1>3. CASE List
  <2>1. \/ job' = None
        \/ \E s, t, f, b : job' = [job EXCEPT !.phase = "files", !.seen = s, !.todo = t,
                                              !.frozen = f, !.blind = b]
    BY <1>3 DEF List
  <2>2. job' = None \/ job'.phase = "files"
    BY <1>3, <2>1 DEF List, AskedInv, JobIs
  <2>. QED
    BY <2>2 DEF PhaseInv
<1>4. CASE Mirror
  <2>1. PICK t, b : job' = [job EXCEPT !.phase = "mirror", !.todo = t, !.blind = b]
    BY <1>4 DEF Mirror
  <2>2. job'.phase = "mirror" /\ job'.ask.way \in {"up", "down"}
    BY <1>4, <2>1 DEF Mirror, AskedInv, JobIs
  <2>. QED
    BY <2>2 DEF PhaseInv
<1>5. CASE Look \/ DeleteExtra \/ Cancel
  BY <1>1, <1>5 DEF Look, DeleteExtra, Cancel
<1>6. CASE PlayPC \/ PlayDev \/ Plug
  BY <1>1, <1>2, <1>6 DEF PlayPC, PlayDev, Plug, Disturbed
<1>7. CASE Ask \/ Launch
  <2>1. job' = job \/ \E by, ask : job' = Started(by, ask)
    BY <1>7 DEF Ask, Launch
  <2>. QED
    BY <1>2, <2>1, StartedIs DEF PhaseInv
<1>8. CASE Finish \/ (\E answered \in BOOLEAN : Poll(answered)) \/ PollCard \/ CoolDown
           \/ Emulator \/ UNCHANGED vars
  BY <1>2, <1>8 DEF Finish, Poll, PollCard, CoolDown, Emulator, vars
<1>. QED
  BY <1>3, <1>4, <1>5, <1>6, <1>7, <1>8 DEF Next

LEMMA HomesLand ==
    ASSUME TimesInv, NEW p \in DOMAIN pc \cup DOMAIN dev, IsSave(p)
    PROVE  Up(p) = p /\ Down(p) = p
<1>1. p \in Place /\ p \in Homes
  BY DEF TimesInv, Dated
<1>. QED
  BY <1>1, NamesStay DEF TimesInv, Orderly

LEMMA PutLevels ==
    ASSUME NEW p, NEW c,
           \/ p \in DOMAIN pc /\ pc' = pc /\ dev' = Put(dev, p, c) /\ c.v = pc[p].v
           \/ p \in DOMAIN dev /\ dev' = dev /\ pc' = Put(pc, p, c) /\ c.v = dev[p].v
    PROVE  IsLevel(p)'
BY DEF IsLevel, Put

\* Where nothing fails, the place of an operation is level after it.
LEMMA LooksLevel ==
    ASSUME PassInv, Sound, link, ~job.ask.safe, ClocksAgree,
           NEW o, Formed(o), IsSave(Of(o)), Live(o), GoNewest(o)
    PROVE  IsLevel(Of(o))'
<1>. DEFINE p == Of(o)
<1>1. ~Fault("transfer")
  BY DEF Sound, Fault
<1>2. CASE /\ Newer(o, pc, dev) = "up"
           /\ IF job.ask.via = "adb" THEN Push(o.p, Up(o.p)) ELSE CardUp(o.p, Up(o.p))
  <2>1. o.p = p /\ p \in DOMAIN pc
    BY <1>2 DEF Newer, Of, Live
  <2>2. Up(p) = p
    BY <2>1, HomesLand DEF PassInv
  <2>3. CASE dev' = Put(dev, p, [v |-> pc[p].v, t |-> Grained(pc[p].t)]) /\ pc' = pc
    BY <2>1, <2>3, PutLevels
  <2>4. CASE Push(p, p)
    BY <1>1, <2>1, <2>3, <2>4 DEF Push
  <2>5. CASE CardUp(p, p)
    <3>1. CASE Leaves(pc, p, dev, p)
      BY <2>5, <3>1 DEF CardUp, Leaves, IsLevel, files
    <3>. QED
      BY <1>1, <2>1, <2>3, <2>5, <3>1 DEF CardUp, Copies
  <2>. QED
    BY <1>2, <2>1, <2>2, <2>4, <2>5
<1>3. CASE /\ Newer(o, pc, dev) = "down"
           /\ IF job.ask.via = "adb" THEN Pull(o.d, Down(o.d)) ELSE CardDown(o.d, Down(o.d))
  <2>1. o.d = p /\ p \in DOMAIN dev
    BY <1>3 DEF Newer, Of, Live, Formed
  <2>2. Down(p) = p
    BY <2>1, HomesLand DEF PassInv
  <2>3. CASE dev' = dev /\ \E c : pc' = Put(pc, p, c) /\ c.v = dev[p].v
    BY <2>1, <2>3, PutLevels
  <2>4. CASE Pull(p, p)
    BY <1>1, <2>1, <2>3, <2>4 DEF Pull
  <2>5. CASE CardDown(p, p)
    <3>1. CASE Leaves(dev, p, pc, p)
      BY <2>5, <3>1 DEF CardDown, Leaves, IsLevel, files
    <3>. QED
      BY <1>1, <2>1, <2>3, <2>5, <3>1 DEF CardDown, Copies
  <2>. QED
    BY <1>3, <2>1, <2>2, <2>4, <2>5
<1>4. CASE Newer(o, pc, dev) = "none" /\ UNCHANGED files
  <2>1. o.p = p /\ o.d = p /\ p \in DOMAIN pc /\ p \in DOMAIN dev
    BY <1>4 DEF Newer, Of, Live
  <2>2. pc[p].t \in Int /\ dev[p].t \in Int /\ Tolerance \in Nat
    BY <2>1, ClockAssumption DEF PassInv, TimesInv, Dated, Timely
  <2>3. dev[p].t <= pc[p].t + Tolerance /\ pc[p].t <= dev[p].t + Tolerance
    BY <1>4, <2>1, <2>2 DEF Newer
  <2>4. pc[p].v = dev[p].v
    BY <1>1, <2>1, <2>3 DEF PassInv, TimesInv, Paired, SameTimeSame
  <2>. QED
    BY <1>4, <2>1, <2>4 DEF IsLevel, files
<1>. QED
  BY <1>2, <1>3, <1>4, WayIsNewer

LEMMA ListLevel ==
    ASSUME PassInv, LinkInv, AllSaves, List
    PROVE  LevelInv'
<1>. DEFINE ops == OpsOf(job.ask, Side(job.ask, pc), Listed(job.ask))
<1>1. SUFFICES ASSUME Comparing', NEW p \in DOMAIN pc', IsSave(p)
               PROVE  \E o \in job'.todo : o.p = p
  BY DEF LevelInv
<1>2. job' = [job EXCEPT !.phase = "files", !.seen = Listed(job.ask), !.todo = ops,
                        !.frozen = Frozen(ops), !.blind = ~link]
  BY <1>1 DEF List, Comparing
<1>3. job'.ask = job.ask /\ job'.todo = ops /\ pc' = pc /\ job.ask.way = "newest"
  BY <1>1, <1>2 DEF List, files, PassInv, AskedInv, JobIs, Comparing
<1>4. "saves" \in job.ask.what /\ job.ask.excluded = {}
  BY <1>3 DEF AllSaves, Newests, List, PassInv, AskedInv
<1>5. p \in DOMAIN Side(job.ask, pc)
  <2>1. Wanted(job.ask, p)
    BY <1>1, <1>4 DEF Wanted, Category
  <2>2. p \in DOMAIN pc
    BY <1>1, <1>3
  <2>. QED
    BY <2>1, <2>2, SideIs
<1>6. Op(p, Match(p, Listed(job.ask))) \in ops
  BY <1>3, <1>5 DEF OpsOf, Pairs
<1>. QED
  BY <1>3, <1>6 DEF Op

LEMMA LookLevel ==
    ASSUME PassInv, LinkInv, AllSaves, LevelInv, Look, Comparing, ~job.cancelled, Sound
    PROVE  \A p \in DOMAIN pc' : IsSave(p) => IsLevel(p)' \/ \E x \in job'.todo : x.p = p
<1>1. PICK o \in job.todo : GoNewest(o) /\ job' = [job EXCEPT !.todo = @ \ {o}]
  BY DEF Look, Comparing
<1>2. job'.todo = job.todo \ {o}
  BY <1>1 DEF PassInv, AskedInv, JobIs, Comparing
<1>3. Formed(o) /\ (IsSave(Of(o)) => Live(o))
  BY <1>1 DEF PassInv, FreshInv
<1>4. link /\ ~job.ask.safe /\ ClocksAgree
  BY DEF LinkInv, Sound, Fault, AllSaves, Newests, PassInv, AskedInv, TimesInv, Comparing
<1>5. ASSUME NEW p \in DOMAIN pc', IsSave(p) PROVE IsLevel(p)' \/ \E x \in job'.todo : x.p = p
  <2>1. CASE p = Of(o)
    BY <1>1, <1>3, <1>4, <1>5, <2>1, LooksLevel
  <2>2. CASE p # Of(o)
    <3>1. /\ p \in DOMAIN pc /\ pc'[p] = pc[p]
          /\ p \in DOMAIN dev => p \in DOMAIN dev' /\ dev'[p] = dev[p]
      BY <1>1, <1>3, <1>5, <2>2, NewestElsewhere DEF PassInv, Elsewhere
    <3>2. CASE IsLevel(p)
      BY <1>5, <3>1, <3>2 DEF IsLevel
    <3>3. CASE \E x \in job.todo : x.p = p
      <4>1. PICK x \in job.todo : x.p = p
        BY <3>3
      <4>2. p # None
        BY <3>1, PlaceAssumption DEF PassInv, TimesInv, Dated
      <4>3. x # o
        BY <2>2, <4>1, <4>2 DEF Of
      <4>. QED
        BY <1>2, <4>1, <4>3
    <3>. QED
      BY <1>5, <3>1, <3>2, <3>3 DEF LevelInv
  <2>. QED
    BY <2>1, <2>2
<1>. QED
  BY <1>5

LEMMA LevelStep ==
    ASSUME PassInv, LinkInv, AllSaves, LevelInv, tale' = tale, [Next]_vars
    PROVE  LevelInv'
<1>1. ASSUME ~Comparing' PROVE LevelInv'
  BY <1>1 DEF LevelInv
<1>2. ASSUME job' = job, pc' = pc, dev' = dev PROVE LevelInv'
  BY <1>2 DEF LevelInv, Sound, Comparing, IsLevel
<1>3. CASE List
  BY <1>3, ListLevel
<1>4. CASE Look
  <2>1. PICK t : job' = [job EXCEPT !.todo = t]
    BY <1>4 DEF Look
  <2>2. /\ job # None /\ job'.phase = job.phase /\ job'.ask = job.ask
        /\ job'.disturbed = job.disturbed /\ job'.cancelled = job.cancelled
    BY <1>4, <2>1 DEF Look, PassInv, AskedInv, JobIs
  <2>3. CASE Comparing /\ ~job.cancelled /\ Sound
    BY <1>4, <2>3, LookLevel DEF LevelInv
  <2>4. CASE ~(Comparing /\ ~job.cancelled /\ Sound)
    BY <2>2, <2>4 DEF LevelInv, Comparing, Sound
  <2>. QED
    BY <2>3, <2>4
<1>5. CASE Mirror \/ DeleteExtra
  <2>1. \E t : \/ job' = [job EXCEPT !.todo = t] /\ job.phase = "mirror"
               \/ \E b : job' = [job EXCEPT !.phase = "mirror", !.todo = t, !.blind = b]
    BY <1>5 DEF Mirror, DeleteExtra
  <2>2. job # None
    BY <1>5 DEF Mirror, DeleteExtra
  <2>3. job'.phase = "mirror"
    BY <2>1, <2>2 DEF PassInv, AskedInv, JobIs
  <2>. QED
    BY <1>1, <2>3 DEF Comparing
<1>6. CASE Cancel
  <2>1. job' = [job EXCEPT !.cancelled = TRUE, !.todo = {}] /\ job # None
    BY <1>6 DEF Cancel
  <2>2. job'.cancelled = TRUE
    BY <2>1 DEF PassInv, AskedInv, JobIs
  <2>. QED
    BY <2>2 DEF LevelInv
<1>7. CASE PlayPC \/ PlayDev \/ Plug
  <2>1. job' = None \/ (job # None /\ job' = [job EXCEPT !.disturbed = TRUE])
    BY <1>7 DEF PlayPC, PlayDev, Plug, Disturbed
  <2>2. job' = None \/ job'.disturbed = TRUE
    BY <2>1 DEF PassInv, AskedInv, JobIs
  <2>. QED
    BY <1>1, <2>2 DEF Comparing
<1>8. CASE Ask \/ Launch \/ Finish
  <2>1. job' = None \/ (\E by, ask : job' = Started(by, ask)) \/ (job' = job /\ pc' = pc /\ dev' = dev)
    BY <1>8 DEF Ask, Launch, Finish, files
  <2>. QED
    BY <1>1, <1>2, <2>1, StartedIs DEF Comparing
<1>9. CASE (\E answered \in BOOLEAN : Poll(answered)) \/ PollCard \/ CoolDown \/ Emulator \/ UNCHANGED vars
  <2>1. job' = job /\ pc' = pc /\ dev' = dev
    BY <1>9 DEF Poll, PollCard, CoolDown, Emulator, vars, files
  <2>. QED
    BY <1>2, <2>1
<1>. QED
  BY <1>3, <1>4, <1>5, <1>6, <1>7, <1>8, <1>9 DEF Next

EqualInv == PassInv /\ AllSaves /\ LinkInv /\ PhaseInv /\ LevelInv

LEMMA EqualStep == EqualInv /\ [Next]_vars => EqualInv'
<1>. SUFFICES ASSUME EqualInv, [Next]_vars PROVE EqualInv'
  OBVIOUS
<1>1. tale' = tale
  BY TimesStep DEF EqualInv, PassInv
<1>2. AllSaves'
  BY <1>1 DEF EqualInv, AllSaves, Newests, Asks
<1>. QED
  BY <1>1, <1>2, PassStep, LinkStep, PhaseStep, LevelStep DEF EqualInv, PassInv

\* In such a story, a pass "newest" that nobody disturbed or cancelled, and whose transfers
\* worked, leaves every save of the PC on the console with the same content.
THEOREM NewestMakesEqual == Spec /\ Orderly /\ AllSaves => NewestLevels
<1>1. Init /\ Orderly /\ AllSaves => EqualInv
  BY PassInit DEF Init, EqualInv, LinkInv, Sound, Fault, PhaseInv, LevelInv, Comparing
<1>2. EqualInv /\ [Next]_vars =>
        [Finish /\ job.ask.way = "newest" /\ ~job.disturbed /\ ~job.cancelled
           /\ tale.faults \cap {"transfer", "plug"} = {} => Level]_vars
  <2>1. SUFFICES ASSUME EqualInv, Finish, job.ask.way = "newest", ~job.disturbed, ~job.cancelled,
                        tale.faults \cap {"transfer", "plug"} = {}
                 PROVE  Level
    OBVIOUS
  <2>2. Comparing /\ job.todo = {}
    BY <2>1 DEF EqualInv, PhaseInv, Finish, Comparing
  <2>3. Sound
    BY <2>1 DEF Sound
  <2>4. ASSUME NEW p \in DOMAIN pc, IsSave(p)
        PROVE  Down(p) = p /\ p \in DOMAIN dev /\ dev[p].v = pc[p].v
    BY <2>1, <2>2, <2>3, <2>4, HomesLand DEF EqualInv, PassInv, LevelInv, IsLevel
  <2>. QED
    BY <2>4 DEF Level
<1>. QED
  BY <1>1, <1>2, EqualStep, PTL DEF Spec, NewestLevels
-----------------------------------------------------------------------------
(* What a mirror removes                                                   *)

PlacesInv == DOMAIN pc \cup DOMAIN dev \subseteq Place

LEMMA PutInPlace ==
    ASSUME NEW f, NEW q, \A p \in DOMAIN f : p \in Place
    PROVE  /\ \A p \in DOMAIN Drop(f, q) : p \in Place
           /\ q \in Place => \A c : \A p \in DOMAIN Put(f, q, c) : p \in Place
BY DEF Put, Drop, Restrict

LEMMA TransfersInPlace ==
    ASSUME PlacesInv, NEW p, NEW q,
           \/ (p \in DOMAIN pc => q \in Place) /\ (Push(p, q) \/ CardUp(p, q))
           \/ (p \in DOMAIN dev => q \in Place) /\ (Pull(p, q) \/ CardDown(p, q))
    PROVE  \A x \in DOMAIN pc' \cup DOMAIN dev' : x \in Place
<1>1. (\A x \in DOMAIN pc : x \in Place) /\ (\A x \in DOMAIN dev : x \in Place)
  BY DEF PlacesInv
<1>2. CASE pc' = pc /\ (dev' = dev \/ (q \in Place /\ \E c : dev' = Put(dev, q, c)))
  BY <1>1, <1>2, PutInPlace
<1>3. CASE dev' = dev /\ (pc' = pc \/ pc' = Drop(pc, q) \/ (q \in Place /\ \E c : pc' = Put(pc, q, c)))
  BY <1>1, <1>3, PutInPlace
<1>. QED
  BY <1>2, <1>3, GoesUp, GoesDown

LEMMA LookInPlace ==
    ASSUME PlacesInv, Look
    PROVE  \A x \in DOMAIN pc' \cup DOMAIN dev' : x \in Place
<1>1. PICK o : GoUp(o.p) \/ GoDown(o.d) \/ GoNewest(o) \/ Removes(o.p) \/ Sends(o.p)
  BY DEF Look
<1>2. \A p : /\ p \in DOMAIN pc => Up(p) \in Place
             /\ p \in DOMAIN dev => Down(p) \in Place
  BY NamesStay DEF PlacesInv
<1>3. CASE UNCHANGED files
  BY <1>3 DEF files, PlacesInv
<1>4. CASE \E p : Push(p, Up(p)) \/ CardUp(p, Up(p)) \/ Pull(p, Down(p)) \/ CardDown(p, Down(p))
  BY <1>2, <1>4, TransfersInPlace
<1>5. CASE \E d : PullAside(d)
  <2>1. PICK d : PullAside(d)
    BY <1>5
  <2>2. CASE d \in DOMAIN dev /\ dev' = dev /\ \E c : pc' = Put(pc, d, c)
    BY <2>2, PutInPlace DEF PlacesInv
  <2>. QED
    BY <1>3, <2>1, <2>2 DEF PullAside
<1>6. CASE \E rom : Removes(rom)
  <2>1. PICK rom : Removes(rom)
    BY <1>6
  <2>2. CASE \E saves : saves \subseteq DOMAIN dev /\ DOMAIN pc' = saves \cup DOMAIN pc /\ dev' = Drop(dev, rom)
    BY <2>2, PutInPlace DEF PlacesInv
  <2>3. CASE pc' = pc /\ dev' = dev
    BY <2>3 DEF PlacesInv
  <2>. QED
    BY <2>1, <2>2, <2>3 DEF Removes, files
<1>. QED
  BY <1>1, <1>3, <1>4, <1>5, <1>6 DEF GoUp, GoDown, GoNewest, Sends, AdbUp, AdbDown

LEMMA PlacesStep ==
    ASSUME PlacesInv, tale' = tale, [Next]_vars
    PROVE  PlacesInv'
<1>2. CASE UNCHANGED files
  BY <1>2 DEF PlacesInv, files
<1>3. CASE Look
  BY <1>3, LookInPlace DEF PlacesInv
<1>4. CASE DeleteExtra
  <2>1. \E q : (pc' = pc \/ pc' = Drop(pc, q)) /\ (dev' = dev \/ dev' = Drop(dev, q))
    BY <1>4 DEF DeleteExtra
  <2>. QED
    BY <2>1, PutInPlace DEF PlacesInv
<1>5. CASE PlayPC \/ PlayDev
  <2>1. DOMAIN pc' = DOMAIN pc /\ DOMAIN dev' = DOMAIN dev
    BY <1>5 DEF PlayPC, PlayDev, Put
  <2>. QED
    BY <2>1 DEF PlacesInv
<1>6. CASE Ask \/ List \/ Mirror \/ Finish \/ Cancel
  BY <1>2, <1>6 DEF Ask, List, Mirror, Finish, Cancel
<1>7. CASE (\E answered \in BOOLEAN : Poll(answered)) \/ PollCard \/ Launch \/ CoolDown
  BY <1>2, <1>7 DEF Poll, PollCard, Launch, CoolDown
<1>8. CASE Plug \/ Emulator \/ UNCHANGED vars
  BY <1>2, <1>8 DEF Plug, Emulator, vars
<1>. QED
  BY <1>3, <1>4, <1>5, <1>6, <1>7, <1>8 DEF Next

\* A listing that was answered tells what the console has of what was asked.
Discards == job.ask.mirror /\ job.ask.way = "down" /\ job.ask.via = "adb"
SeenInv ==
    job # None /\ job.phase # "list" /\ Discards /\ ~job.blind =>
        DOMAIN job.seen = DOMAIN Side(job.ask, dev)

\* A place that the other side does not have.
SpareHere(p) == ~\E d \in DOMAIN Side(job.ask, dev) : p = Down(d) \/ CrossFormat(p, {d})
SpareThere(d) ==
    ~\E p \in DOMAIN Side(job.ask, pc) : (d = Up(p) /\ ~Missed(p)) \/ CrossFormat(d, {p})
ExtraInv ==
    job # None /\ job.phase = "mirror" =>
        \/ job.ask.way = "up" /\ \A o \in job.todo : o.p = None /\ SpareThere(o.d)
        \/ job.ask.way = "down" /\ \A o \in job.todo : o.p # None /\ (job.blind \/ SpareHere(o.p))

MirrorInv == AskedInv /\ PlacesInv /\ SeenInv /\ ExtraInv

LEMMA SameSide ==
    ASSUME NEW ask, NEW f, NEW g, DOMAIN f = DOMAIN g
    PROVE  DOMAIN Side(ask, f) = DOMAIN Side(ask, g)
BY SideIs

LEMMA DownKeepsConsole ==
    ASSUME NEW d, GoDown(d)
    PROVE  dev' = dev
<1>1. CASE UNCHANGED files \/ PullAside(d)
  BY <1>1 DEF PullAside, files
<1>2. CASE Pull(d, Down(d)) \/ CardDown(d, Down(d))
  BY <1>2, GoesDown
<1>. QED
  BY <1>1, <1>2 DEF GoDown, AdbDown

LEMMA CrossFormatIn ==
    ASSUME NEW p, NEW q, NEW others, q \in others, CrossFormat(p, {q})
    PROVE  CrossFormat(p, others)
BY DEF CrossFormat

LEMMA ExtrasAreSpare ==
    ASSUME MirrorInv, Mirror
    PROVE  \/ job.ask.way = "up" /\ \A o \in Extras : o.p = None /\ SpareThere(o.d)
           \/ /\ job.ask.way = "down"
              /\ \A o \in Extras : o.p # None /\ (job'.blind \/ SpareHere(o.p))
<1>. DEFINE library == DOMAIN Side(job.ask, pc)
<1>1. /\ job # None /\ job.phase = "files" /\ job.ask.mirror /\ job.ask.way \in {"up", "down"}
      /\ job'.blind = IF job.ask.via = "adb" THEN job.blind ELSE ~link
  BY DEF Mirror, MirrorInv, AskedInv, JobIs
<1>2. CASE job.ask.way = "up"
  <2>1. ASSUME NEW o \in Extras PROVE o.p = None /\ SpareThere(o.d)
    <3>1. PICK x \in Console : o = Op(None, x) /\ x \notin library /\ ~CrossFormat(x, library)
      BY <1>2, <2>1 DEF Extras, ExtrasThere
    <3>2. ASSUME NEW p \in library, (x = Up(p) /\ ~Missed(p)) \/ CrossFormat(x, {p}) PROVE FALSE
      BY <3>1, <3>2, CrossFormatIn DEF Missed
    <3>. QED
      BY <3>1, <3>2 DEF Op, SpareThere
  <2>. QED
    BY <1>2, <2>1
<1>3. CASE job.ask.way = "down"
  <2>1. job'.blind \/ Console = DOMAIN Side(job.ask, dev)
    BY <1>1, <1>3 DEF Console, Listed, MirrorInv, SeenInv, Discards
  <2>2. ASSUME NEW o \in Extras PROVE o.p # None /\ (job'.blind \/ SpareHere(o.p))
    <3>1. PICK p \in library : o = Op(p, None) /\ p \notin DownRels /\ ~CrossFormat(p, Console)
      BY <1>3, <2>2 DEF Extras, ExtrasHere
    <3>2. p # None
      BY <3>1, SideIs, PlaceAssumption DEF MirrorInv, PlacesInv
    <3>3. ASSUME NEW d \in Console, p = Down(d) \/ CrossFormat(p, {d}) PROVE FALSE
      BY <3>1, <3>3, CrossFormatIn DEF DownRels
    <3>. QED
      BY <2>1, <3>1, <3>2, <3>3 DEF Op, SpareHere
  <2>. QED
    BY <1>3, <2>2
<1>. QED
  BY <1>1, <1>2, <1>3

LEMMA SeenStep ==
    ASSUME MirrorInv, tale' = tale, [Next]_vars
    PROVE  SeenInv'
<1>1. ASSUME job # None, job'.ask = job.ask, job'.seen = job.seen, job.phase # "list",
             Discards => job'.blind = job.blind /\ DOMAIN dev' = DOMAIN dev
      PROVE  SeenInv'
  BY <1>1, SameSide DEF MirrorInv, SeenInv, Discards
<1>2. ASSUME job' = None \/ (job' = job /\ DOMAIN dev' = DOMAIN dev) \/ job'.phase = "list" PROVE SeenInv'
  BY <1>2, SameSide DEF MirrorInv, SeenInv, Discards
<1>3. CASE List
  <2>1. SUFFICES ASSUME job' # None PROVE SeenInv'
    BY DEF SeenInv
  <2>2. PICK t, f : job' = [job EXCEPT !.phase = "files", !.seen = Listed(job.ask), !.todo = t,
                                       !.frozen = f, !.blind = ~link]
    BY <1>3, <2>1 DEF List
  <2>3. job'.seen = Listed(job.ask) /\ job'.ask = job.ask /\ job'.blind = ~link /\ dev' = dev
    BY <1>3, <2>2 DEF List, files, MirrorInv, AskedInv, JobIs
  <2>. QED
    BY <2>3 DEF SeenInv, Discards, Listed
<1>4. CASE Look
  <2>1. PICK t : job' = [job EXCEPT !.todo = t]
    BY <1>4 DEF Look
  <2>2. /\ job # None /\ job'.ask = job.ask /\ job'.seen = job.seen /\ job'.blind = job.blind
        /\ job.phase # "list"
    BY <1>4, <2>1 DEF Look, MirrorInv, AskedInv, JobIs
  <2>3. Discards => dev' = dev
    BY <1>4, DownKeepsConsole DEF Look, Discards
  <2>. QED
    BY <1>1, <2>2, <2>3
<1>5. CASE DeleteExtra
  <2>1. PICK t : job' = [job EXCEPT !.todo = t]
    BY <1>5 DEF DeleteExtra
  <2>2. /\ job # None /\ job'.ask = job.ask /\ job'.seen = job.seen /\ job'.blind = job.blind
        /\ job.phase = "mirror"
    BY <1>5, <2>1 DEF DeleteExtra, MirrorInv, AskedInv, JobIs
  <2>3. Discards => dev' = dev
    BY <1>5, <2>2 DEF DeleteExtra, Discards, MirrorInv, ExtraInv
  <2>. QED
    BY <1>1, <2>2, <2>3
<1>6. CASE Mirror \/ Cancel
  <2>1. \/ \E t : job' = [job EXCEPT !.phase = "mirror", !.todo = t,
                               !.blind = IF job.ask.via = "adb" THEN @ ELSE ~link]
        \/ job' = [job EXCEPT !.cancelled = TRUE, !.todo = {}]
    BY <1>6 DEF Mirror, Cancel
  <2>2. /\ job # None /\ job'.ask = job.ask /\ job'.seen = job.seen /\ job.phase # "list"
        /\ dev' = dev /\ (job.ask.via = "adb" => job'.blind = job.blind)
    BY <1>6, <2>1 DEF Mirror, Cancel, files, MirrorInv, AskedInv, JobIs
  <2>. QED
    BY <1>1, <2>2 DEF Discards
<1>7. CASE PlayPC \/ PlayDev \/ Plug
  <2>1. DOMAIN dev' = DOMAIN dev
    BY <1>7 DEF PlayPC, PlayDev, Plug, Put, files
  <2>2. job' = None \/ (job # None /\ job' = [job EXCEPT !.disturbed = TRUE])
    BY <1>7 DEF PlayPC, PlayDev, Plug, Disturbed
  <2>3. \/ job' = None
        \/ /\ job # None /\ job'.ask = job.ask /\ job'.seen = job.seen /\ job'.phase = job.phase
           /\ job'.blind = job.blind
    BY <2>2 DEF MirrorInv, AskedInv, JobIs
  <2>. QED
    BY <1>1, <1>2, <2>1, <2>3
<1>8. CASE Ask \/ Launch \/ Finish
  <2>1. job' = None \/ (\E by, ask : job' = Started(by, ask)) \/ (job' = job /\ dev' = dev)
    BY <1>8 DEF Ask, Launch, Finish, files
  <2>. QED
    BY <1>2, <2>1, StartedIs
<1>9. CASE (\E answered \in BOOLEAN : Poll(answered)) \/ PollCard \/ CoolDown \/ Emulator \/ UNCHANGED vars
  BY <1>2, <1>9 DEF Poll, PollCard, CoolDown, Emulator, vars, files
<1>. QED
  BY <1>3, <1>4, <1>5, <1>6, <1>7, <1>8, <1>9 DEF Next

LEMMA SpareStays ==
    ASSUME job'.by = job.by, job'.ask = job.ask
    PROVE  /\ DOMAIN dev' = DOMAIN dev => \A p : SpareHere(p) => SpareHere(p)'
           /\ DOMAIN pc' = DOMAIN pc => \A d : SpareThere(d) => SpareThere(d)'
BY SameSide DEF SpareHere, SpareThere, Missed, Up, Down

LEMMA ExtraStep ==
    ASSUME MirrorInv, tale' = tale, [Next]_vars
    PROVE  ExtraInv'
<1>1. ASSUME job' = None \/ job'.phase # "mirror" PROVE ExtraInv'
  BY <1>1 DEF ExtraInv
<1>2. ASSUME job # None, job'.by = job.by, job'.ask = job.ask, job.phase = "mirror",
             job'.todo \subseteq job.todo, job'.blind = job.blind,
             job.ask.way = "up" => DOMAIN pc' = DOMAIN pc,
             job.ask.way = "down" => DOMAIN dev' = DOMAIN dev
      PROVE  ExtraInv'
  BY <1>2, SpareStays DEF MirrorInv, ExtraInv
<1>3. ASSUME job' = job, DOMAIN pc' = DOMAIN pc, DOMAIN dev' = DOMAIN dev PROVE ExtraInv'
  BY <1>3, SpareStays DEF MirrorInv, ExtraInv
<1>4. CASE Mirror
  <2>1. /\ job' = [job EXCEPT !.phase = "mirror", !.todo = Extras,
                              !.blind = IF job.ask.via = "adb" THEN @ ELSE ~link]
        /\ job # None
    BY <1>4 DEF Mirror
  <2>2. job'.by = job.by /\ job'.ask = job.ask /\ job'.todo = Extras
    BY <2>1 DEF MirrorInv, AskedInv, JobIs
  <2>3. pc' = pc /\ dev' = dev
    BY <1>4 DEF Mirror, files
  <2>. QED
    BY <1>4, <2>2, <2>3, ExtrasAreSpare, SpareStays DEF ExtraInv
<1>5. CASE DeleteExtra
  <2>1. PICK o \in job.todo : job' = [job EXCEPT !.todo = @ \ {o}]
    BY <1>5 DEF DeleteExtra
  <2>2. /\ job # None /\ job.phase = "mirror" /\ job'.ask = job.ask /\ job'.by = job.by
        /\ job'.todo \subseteq job.todo /\ job'.blind = job.blind
    BY <1>5, <2>1 DEF DeleteExtra, MirrorInv, AskedInv, JobIs
  <2>3. /\ job.ask.way = "up" => pc' = pc
        /\ job.ask.way = "down" => dev' = dev
    BY <1>5, <2>2 DEF DeleteExtra, MirrorInv, ExtraInv
  <2>. QED
    BY <1>2, <2>2, <2>3
<1>6. CASE List \/ Look \/ Cancel
  <2>1. job # None /\ job.phase # "mirror"
    BY <1>6 DEF List, Look, Cancel
  <2>2. \/ job' = None
        \/ \E t : job' = [job EXCEPT !.todo = t]
        \/ \E s, t, f, b : job' = [job EXCEPT !.phase = "files", !.seen = s, !.todo = t,
                                              !.frozen = f, !.blind = b]
        \/ job' = [job EXCEPT !.cancelled = TRUE, !.todo = {}]
    <3>1. CASE List
      BY <3>1 DEF List
    <3>2. CASE Look \/ Cancel
      BY <3>2 DEF Look, Cancel
    <3>. QED
      BY <1>6, <3>1, <3>2
  <2>3. job' = None \/ job'.phase # "mirror"
    BY <2>1, <2>2 DEF MirrorInv, AskedInv, JobIs
  <2>. QED
    BY <1>1, <2>3
<1>7. CASE PlayPC \/ PlayDev \/ Plug
  <2>1. DOMAIN dev' = DOMAIN dev /\ DOMAIN pc' = DOMAIN pc
    BY <1>7 DEF PlayPC, PlayDev, Plug, Put, files
  <2>2. job' = None \/ (job # None /\ job' = [job EXCEPT !.disturbed = TRUE])
    BY <1>7 DEF PlayPC, PlayDev, Plug, Disturbed
  <2>3. \/ job' = None
        \/ /\ job # None /\ job'.by = job.by /\ job'.ask = job.ask /\ job'.phase = job.phase
           /\ job'.todo = job.todo /\ job'.blind = job.blind
    BY <2>2 DEF MirrorInv, AskedInv, JobIs
  <2>. QED
    BY <1>1, <1>2, <2>1, <2>3
<1>8. CASE Ask \/ Launch \/ Finish
  <2>1. job' = None \/ (\E by, ask : job' = Started(by, ask)) \/ (job' = job /\ pc' = pc /\ dev' = dev)
    BY <1>8 DEF Ask, Launch, Finish, files
  <2>. QED
    BY <1>1, <1>3, <2>1, StartedIs
<1>9. CASE (\E answered \in BOOLEAN : Poll(answered)) \/ PollCard \/ CoolDown \/ Emulator \/ UNCHANGED vars
  BY <1>3, <1>9 DEF Poll, PollCard, CoolDown, Emulator, vars, files
<1>. QED
  BY <1>4, <1>5, <1>6, <1>7, <1>8, <1>9 DEF Next

LEMMA MirrorInit == Init => MirrorInv
<1>. SUFFICES ASSUME Init PROVE MirrorInv
  OBVIOUS
<1>1. AskedInv
  BY DEF Init, AskedInv, DaemonIs
<1>2. PlacesInv
  BY StoryAssumption DEF Init, PlacesInv
<1>3. SeenInv /\ ExtraInv
  BY DEF Init, SeenInv, ExtraInv
<1>. QED
  BY <1>1, <1>2, <1>3 DEF MirrorInv

LEMMA MirrorStep == MirrorInv /\ [Next]_vars => MirrorInv'
<1>. SUFFICES ASSUME MirrorInv, [Next]_vars PROVE MirrorInv'
  OBVIOUS
<1>1. tale' = tale
  BY DEF Next, vars, Ask, List, Look, Mirror, DeleteExtra, Finish, Cancel, Poll, PollCard, Launch,
     CoolDown, PlayPC, PlayDev, Plug, Emulator
<1>. QED
  BY <1>1, AskedStep, PlacesStep, SeenStep, ExtraStep DEF MirrorInv

\* Whatever the folders, the files, the passes and the faults, what a mirror removes is what
\* the other side does not have of what was asked, then and there: neither a file that the
\* pass has just copied, nor a disc that is there in another format.  Excepted are, as in
\* MirrorKeeps, the discards of a pass that took a console that was gone for an empty one,
\* and, going up, the copies of files whose folder has another name than the canonical one.
THEOREM MirrorsKeepWhatIsShared == Spec => MirrorKeeps
<1>1. MirrorInv /\ [Next]_vars =>
        [DeleteExtra =>
           /\ \A p \in DOMAIN pc \ DOMAIN pc' :
                job.blind \/ ~\E d \in DOMAIN Side(job.ask, dev) : p = Down(d) \/ CrossFormat(p, {d})
           /\ \A d \in DOMAIN dev \ DOMAIN dev' :
                ~\E p \in DOMAIN Side(job.ask, pc) :
                   (d = Up(p) /\ ~Missed(p)) \/ CrossFormat(d, {p})]_vars
  <2>1. SUFFICES ASSUME MirrorInv, DeleteExtra
                 PROVE  /\ \A p \in DOMAIN pc \ DOMAIN pc' : job.blind \/ SpareHere(p)
                        /\ \A d \in DOMAIN dev \ DOMAIN dev' : SpareThere(d)
    BY DEF SpareHere, SpareThere
  <2>2. PICK o \in job.todo :
           \/ o.p # None /\ pc' = Drop(pc, o.p) /\ dev' = dev
           \/ o.p = None /\ pc' = pc /\ (dev' = dev \/ dev' = Drop(dev, o.d))
    BY <2>1 DEF DeleteExtra
  <2>3. (o.p # None => job.blind \/ SpareHere(o.p)) /\ (o.p = None => SpareThere(o.d))
    BY <2>1, <2>2 DEF DeleteExtra, MirrorInv, ExtraInv
  <2>. QED
    BY <2>2, <2>3 DEF Drop, Restrict
<1>. QED
  BY <1>1, MirrorInit, MirrorStep, PTL DEF Spec, MirrorKeeps
=============================================================================

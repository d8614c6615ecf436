-------------------------- MODULE AndroidAppProofs --------------------------
(***************************************************************************)
(* Proofs about the two halves of the Android app.  What starts passes     *)
(* forgets no event, for any set of roots and any number of writes; what a *)
(* pass does loses nothing and converges, for any set of files.            *)
(***************************************************************************)
EXTENDS AndroidApp, TLAPS

-----------------------------------------------------------------------------
(* The triggers.  NothingForgotten is almost inductive.  The one fact it     *)
(* lacks is that scheduled is true only while fire is in the looper's queue: *)
(* otherwise an onEvent whose compareAndSet fails would leave its root dirty *)
(* with nobody to fire.                                                      *)

IInv == TypeOK /\ ScheduledIsPosted /\ NothingForgotten

\* The service starts knowing of no event.
LEMMA InitIInv == Init => IInv
<1>. SUFFICES ASSUME Init PROVE IInv
  OBVIOUS
<1>. USE DEF Init
<1>1. TypeOK
  <2>1. writes \in 0 .. MaxWrites /\ newsMade \in 0 .. MaxNews
    BY InstantAssumption
  <2>2. running \in [Root -> Nat] /\ news \in [Root -> Nat]
    OBVIOUS
  <2>3. exists \subseteq Root
    BY Zenon
  <2>. QED BY <2>1, <2>2, <2>3, Zenon DEF TypeOK
<1>2. ScheduledIsPosted /\ NothingForgotten
  BY DEF ScheduledIsPosted, NothingForgotten
<1>. QED BY <1>1, <1>2 DEF IInv

\* Every step keeps the types.
LEMMA TypeStep == TypeOK /\ [Next]_vars => TypeOK'
<1>. SUFFICES ASSUME TypeOK, [Next]_vars PROVE TypeOK'
  OBVIOUS
<1>. USE InstantAssumption DEF TypeOK, service, observer, looper, work, world, ghosts
<1>1. CASE Create
  BY <1>1 DEF Create
<1>2. CASE Destroy
  BY <1>2 DEF Destroy
<1>3. CASE Arm
  BY <1>3 DEF Arm
<1>4. ASSUME NEW r \in Root, OnEvent(r) PROVE TypeOK'
  BY <1>4 DEF OnEvent
<1>5. CASE Fire
  BY <1>5 DEF Fire, FireStart, FireCopy, FireRun
<1>6. ASSUME NEW r \in Root, PassScan(r) PROVE TypeOK'
  BY <1>6 DEF PassScan, Scanned
<1>7. ASSUME NEW r \in Root, PassDownload(r) PROVE TypeOK'
  <2>1. news' \in [Root -> Nat]
    BY <1>7 DEF PassDownload
  <2>2. events' \subseteq Root
    BY <1>7 DEF PassDownload, Raise
  <2>. QED BY <1>7, <2>1, <2>2 DEF PassDownload
<1>8. ASSUME NEW r \in Root, PassEnd(r) PROVE TypeOK'
  BY <1>8 DEF PassEnd
<1>9. ASSUME NEW r \in Root, Periodic(r) PROVE TypeOK'
  BY <1>9 DEF Periodic, Scanned
<1>10. ASSUME NEW r \in Root, Write(r) PROVE TypeOK'
  BY <1>10 DEF Write, Raise
<1>11. ASSUME NEW r \in Root, CloudNews(r) PROVE TypeOK'
  BY <1>11 DEF CloudNews
<1>12. CASE UNCHANGED vars
  BY <1>12 DEF vars
<1>. QED
  BY <1>1, <1>2, <1>3, <1>4, <1>5, <1>6, <1>7, <1>8, <1>9, <1>10, <1>11, <1>12
  DEF Next, Observe

\* scheduled and the looper's queue change together.
LEMMA ScheduledStep == ScheduledIsPosted /\ [Next]_vars => ScheduledIsPosted'
  BY DEF ScheduledIsPosted, Next, vars, service, observer, looper, work, world,
         Create, Destroy, Observe, OnEvent, Arm, Fire, FireStart, FireCopy, FireRun,
         PassScan, PassDownload, PassEnd, Periodic, Write, CloudNews

\* A step that leaves the looper and the observer thread alone, and only adds
\* events or removes scanned roots, forgets nothing.
LEMMA OutsideStep ==
  ASSUME NothingForgotten,
         UNCHANGED <<handling, looper>>,
         events \subseteq events',
         \A r \in owed' : r \notin owed => r \in events',
         \A r \in todo : r \in owed' => r \in todo'
  PROVE  NothingForgotten'
  BY DEF NothingForgotten, OnItsWay, looper

\* Every step forgets nothing.
LEMMA ForgottenStep ==
  ASSUME TypeOK, ScheduledIsPosted, NothingForgotten, [Next]_vars
  PROVE  NothingForgotten'
<1>1. CASE Create
  BY <1>1, OutsideStep DEF Create, observer, work, ghosts
<1>2. CASE Destroy
  BY <1>2 DEF Destroy, NothingForgotten
<1>3. CASE Arm
  BY <1>3 DEF Arm, NothingForgotten, OnItsWay, ScheduledIsPosted, work, ghosts
<1>4. ASSUME NEW r \in Root, OnEvent(r) PROVE NothingForgotten'
  BY <1>4, InstantAssumption DEF OnEvent, NothingForgotten, OnItsWay, work, ghosts
<1>5. CASE Fire
  <2>1. CASE FireStart
    BY <1>5, <2>1 DEF FireStart, NothingForgotten, OnItsWay, observer, work, ghosts
  <2>2. CASE FireCopy
    BY <1>5, <2>2 DEF FireCopy, NothingForgotten, OnItsWay, observer, work, ghosts
  <2>3. CASE FireRun
    BY <1>5, <2>3 DEF FireRun, NothingForgotten, OnItsWay, observer, ghosts
  <2>. QED BY <1>5, <2>1, <2>2, <2>3 DEF Fire
<1>6. ASSUME NEW r \in Root, PassScan(r) PROVE NothingForgotten'
  BY <1>6, OutsideStep DEF PassScan, Scanned, observer
<1>7. ASSUME NEW r \in Root, PassDownload(r) PROVE NothingForgotten'
  BY <1>7, OutsideStep DEF PassDownload, Raise, work, ghosts
<1>8. ASSUME NEW r \in Root, PassEnd(r) PROVE NothingForgotten'
  BY <1>8, OutsideStep DEF PassEnd, observer, ghosts
<1>9. ASSUME NEW r \in Root, Periodic(r) PROVE NothingForgotten'
  BY <1>9, OutsideStep DEF Periodic, Scanned, observer
<1>10. ASSUME NEW r \in Root, Write(r) PROVE NothingForgotten'
  <2>1. events \subseteq events' /\ \A q \in owed' : q \notin owed => q \in events'
    BY <1>10 DEF Write, Raise
  <2>. QED BY <1>10, <2>1, OutsideStep DEF Write, work
<1>11. ASSUME NEW r \in Root, CloudNews(r) PROVE NothingForgotten'
  BY <1>11, OutsideStep DEF CloudNews, observer, work, ghosts
<1>12. CASE UNCHANGED vars
  BY <1>12, OutsideStep DEF vars, observer, work, ghosts
<1>. QED
  BY <1>1, <1>2, <1>3, <1>4, <1>5, <1>6, <1>7, <1>8, <1>9, <1>10, <1>11, <1>12
  DEF Next, Observe

\* No event is forgotten between the observer thread and the looper
\* (SaveFileObserverManager.kt 36-42, 51-57).
THEOREM EventsKept == Spec => []NothingForgotten
<1>1. IInv /\ [Next]_vars => IInv'
  BY TypeStep, ScheduledStep, ForgottenStep DEF IInv
<1>2. IInv => NothingForgotten
  BY DEF IInv
<1>. QED BY InitIInv, <1>1, <1>2, PTL DEF Spec

\* Every reachable state of the observer, the looper and the passes is well typed.
THEOREM InstantTypeCorrect == Spec => []TypeOK
<1>1. Init => TypeOK
  BY InitIInv DEF IInv
<1>. QED BY <1>1, TypeStep, PTL DEF Spec

-----------------------------------------------------------------------------
(* The passes.  The argument: the one runner is alone with the saves while   *)
(* it runs, so the files it has not taken up are as it has listed them, and  *)
(* each phase knows what the ones before it did to the file at hand.         *)

\* One run at a time, alone with device and cloud, whose copies to .bak do not fail.
SoleRunner == \A q, r \in Runner : q = r
Alone == SoleRunner /\ Faults \cap {"race", "cloudrace", "backup"} = {}

Content == Engine!Content
Time == 0 .. MaxTime
Busy == {"bak", "aside", "open", "receive", "stamp", "put", "touch"}

RunState ==
    [phase : {"idle", "list", "next"} \cup Busy,
     mine : [File -> Engine!Entry], theirs : [File -> Engine!Entry],
     todo : SUBSET File, cur : File \cup {None}, stamp : Time, clean : BOOLEAN]

PassTyped ==
    /\ now \in Time /\ made \in 0 .. MaxVersion
    /\ remote \in Engine!Folder /\ device \in Engine!Folder
    /\ synced \in [File -> Time \cup {None}]
    /\ bak \in [File -> Content \cup {None}] /\ aside \in [File -> SUBSET Content]
    /\ run \in [Runner -> RunState]
    /\ \A r \in Runner : run[r].phase \in Busy =>
         run[r].cur \in File /\ run[r].cur \notin run[r].todo

LEMMA Constants ==
    /\ MaxTime \in Nat /\ MaxVersion \in Nat /\ Tolerance \in Nat
    /\ None \notin Nat /\ Blank # None /\ Torn # None /\ None \notin Engine!Save
BY AndroidAssumption

LEMMA SeenType == ASSUME NEW s \in Engine!Save \cup {None} PROVE Engine!Seen(s) \in Engine!Entry
BY Constants DEF Engine!Seen, Engine!Save, Engine!Entry

LEMMA SaveType ==
    ASSUME NEW c \in Content, NEW t \in Time
    PROVE  [content |-> c, mtime |-> t] \in Engine!Save
BY DEF Engine!Save, Content, Time

LEMMA SaveParts ==
    ASSUME NEW s \in Engine!Save
    PROVE  s.content \in Content /\ s.mtime \in Time /\ s # None
BY Constants DEF Engine!Save, Content, Time

LEMMA IdleType == Engine!IdleRun \in RunState
<1>1. 0 \in Time
  BY Constants DEF Time
<1>2. [f \in File |-> Engine!NotSeen] \in [File -> Engine!Entry]
  BY DEF Engine!NotSeen, Engine!Entry
<1>. QED
  BY <1>1, <1>2 DEF Engine!IdleRun, RunState

LEMMA InitTyped == Engine!Init => PassTyped
<1>. SUFFICES ASSUME Engine!Init PROVE PassTyped
  OBVIOUS
<1>1. now \in Time /\ made \in 0 .. MaxVersion /\ remote \in Engine!Folder
  BY Constants DEF Engine!Init, Engine!BaseInit, Engine!Folder, Time
<1>2. run \in [Runner -> RunState] /\ \A r \in Runner : run[r].phase = "idle"
  BY IdleType DEF Engine!Init, Engine!IdleRun
<1>. QED
  BY <1>1, <1>2 DEF Engine!Init, PassTyped, Engine!Folder, Busy

\* A run changes only its own state.
LEMMA RunTyped ==
    ASSUME PassTyped, NEW r \in Runner, NEW x \in RunState, run' = [run EXCEPT ![r] = x],
           x.phase \in Busy => x.cur \in File /\ x.cur \notin x.todo
    PROVE  /\ run' \in [Runner -> RunState]
           /\ \A q \in Runner : run'[q].phase \in Busy =>
                run'[q].cur \in File /\ run'[q].cur \notin run'[q].todo
BY DEF PassTyped

LEMMA GotoTyped ==
    ASSUME PassTyped, NEW r \in Runner, NEW ph \in {"next"} \cup Busy, Engine!Goto(r, ph),
           run[r].phase \in Busy
    PROVE  /\ run' \in [Runner -> RunState]
           /\ \A q \in Runner : run'[q].phase \in Busy =>
                run'[q].cur \in File /\ run'[q].cur \notin run'[q].todo
<1>. DEFINE x == [run[r] EXCEPT !.phase = ph]
<1>1. x \in RunState /\ x.cur = run[r].cur /\ x.todo = run[r].todo
  BY DEF PassTyped, RunState
<1>2. run' = [run EXCEPT ![r] = x]
  BY DEF Engine!Goto, PassTyped
<1>3. run[r].cur \in File /\ run[r].cur \notin run[r].todo
  BY DEF PassTyped
<1>. HIDE DEF x
<1>. QED
  BY <1>1, <1>2, <1>3, RunTyped

\* What a run knows of the files it has not taken up ...
Knows(x) ==
    /\ x.phase = "list" => \A f \in File : x.mine[f] = Engine!Seen(device[f])
    /\ x.phase \notin {"idle", "list"} =>
         \A f \in x.todo : /\ x.mine[f] = Engine!Seen(device[f])
                           /\ x.theirs[f] = Engine!Seen(remote[f])

\* ... and of the one at hand.
AtHand(x, f) ==
    /\ x.phase = "open" =>
         Engine!ContentOf(device[f]) \subseteq {Blank, Torn, bak[f]} \cup aside[f]
    /\ x.phase = "receive" => device[f] # None /\ device[f].content = Blank
    /\ x.phase \in {"stamp", "touch"} =>
         /\ device[f] # None /\ remote[f] # None
         /\ device[f].content = remote[f].content
         /\ x.phase = "stamp" => x.stamp = remote[f].mtime
         /\ x.phase = "touch" => device[f].mtime = remote[f].mtime
    /\ x.phase = "put" =>
         /\ device[f] # None /\ device[f].mtime = x.stamp
         /\ device[f].content = Blank =>
              remote[f] = None \/ (remote[f] # None /\ remote[f].content = Blank)

RunOK(x) == Knows(x) /\ AtHand(x, x.cur)

PassInv == PassTyped /\ \A r \in Runner : RunOK(run[r])

LEMMA PassInit == Engine!Init => PassInv
<1>. SUFFICES ASSUME Engine!Init PROVE PassInv
  OBVIOUS
<1>1. \A r \in Runner : run[r].phase = "idle"
  BY DEF Engine!Init, Engine!IdleRun
<1>. QED
  BY <1>1, InitTyped DEF PassInv, RunOK, Knows, AtHand

\* Steps that begin or end a run, or leave its file at hand behind.
LEMMA ScanStep ==
    ASSUME PassInv, NEW r \in Runner, Engine!Scan(r)
    PROVE  PassTyped' /\ RunOK(run[r])'
<1>. DEFINE mine == [f \in File |-> Engine!Seen(device[f])]
            x == [Engine!IdleRun EXCEPT !.phase = "list", !.mine = mine]
<1>1. mine \in [File -> Engine!Entry]
  BY SeenType DEF PassInv, PassTyped, Engine!Folder
<1>2. run' = [run EXCEPT ![r] = x]
  BY DEF Engine!Scan
<1>3. \A f \in File : mine[f] = Engine!Seen(device[f])
  OBVIOUS
<1>. HIDE DEF mine
<1>4. x \in RunState /\ x.phase = "list" /\ x.mine = mine
  BY <1>1, IdleType DEF Engine!IdleRun, RunState
<1>. HIDE DEF x
<1>5. run'[r] = x
  BY <1>2 DEF PassInv, PassTyped
<1>6. PassTyped'
  BY <1>2, <1>4, RunTyped DEF PassInv, PassTyped, Engine!Scan, Engine!baseVars, Busy
<1>. QED
  BY <1>3, <1>4, <1>5, <1>6 DEF RunOK, Knows, AtHand, Engine!Scan

LEMMA StopStep ==
    ASSUME PassInv, NEW r \in Runner, run' = [run EXCEPT ![r] = Engine!IdleRun],
           UNCHANGED <<now, made, remote, device, synced, bak, aside>>
    PROVE  PassTyped' /\ RunOK(run[r])'
<1>1. PassTyped'
  BY IdleType, RunTyped DEF PassInv, PassTyped, Engine!IdleRun, Busy
<1>2. run'[r].phase = "idle"
  BY DEF PassInv, PassTyped, Engine!IdleRun
<1>. QED
  BY <1>1, <1>2 DEF RunOK, Knows, AtHand

LEMMA ListStep ==
    ASSUME PassInv, NEW r \in Runner, Engine!ListFolder(r)
    PROVE  PassTyped' /\ RunOK(run[r])'
<1>. DEFINE theirs == [f \in File |-> Engine!Seen(remote[f])]
            left == {f \in File : \/ run[r].mine[f].mtime # None \/ theirs[f].mtime # None}
            x == [run[r] EXCEPT !.phase = "next", !.theirs = theirs, !.todo = left]
<1>1. UNCHANGED <<now, made, remote, device, synced, bak, aside>>
  BY DEF Engine!ListFolder, Engine!baseVars
<1>2. CASE run' = [run EXCEPT ![r] = Engine!IdleRun]
  BY <1>1, <1>2, StopStep
<1>3. CASE run' = [run EXCEPT ![r].phase = "next", ![r].theirs = theirs, ![r].todo = left]
  <2>1. theirs \in [File -> Engine!Entry] /\ left \in SUBSET File
    BY SeenType DEF PassInv, PassTyped, Engine!Folder
  <2>2. \A f \in File : theirs[f] = Engine!Seen(remote[f])
    OBVIOUS
  <2>. HIDE DEF theirs, left
  <2>3. run[r] \in RunState /\ run \in [Runner -> RunState]
    BY DEF PassInv, PassTyped
  <2>4. x \in RunState /\ x.phase = "next" /\ x.theirs = theirs /\ x.mine = run[r].mine
    BY <2>1, <2>3 DEF RunState
  <2>5. run' = [run EXCEPT ![r] = x]
    BY <1>3, <2>3
  <2>6. \A f \in File : run[r].mine[f] = Engine!Seen(device[f])
    BY DEF Engine!ListFolder, PassInv, RunOK, Knows
  <2>. HIDE DEF x
  <2>7. PassTyped'
    BY <1>1, <2>4, <2>5, RunTyped DEF PassInv, PassTyped, Busy
  <2>8. run'[r] = x /\ x.todo \subseteq File
    BY <2>3, <2>4, <2>5 DEF RunState
  <2>. QED
    BY <1>1, <2>2, <2>4, <2>6, <2>7, <2>8 DEF RunOK, Knows, AtHand
<1>. QED
  BY <1>2, <1>3 DEF Engine!ListFolder, Engine!Listed

LEMMA SettleStep ==
    ASSUME PassInv, NEW r \in Runner, NEW f \in File, Engine!Settle(r, f)
    PROVE  PassTyped' /\ RunOK(run[r])'
<1>. DEFINE x == [run[r] EXCEPT !.todo = @ \ {f}]
<1>1. run[r] \in RunState /\ run \in [Runner -> RunState] /\ run[r].phase = "next"
  BY DEF PassInv, PassTyped, Engine!Settle, Engine!MayTake
<1>2. /\ x \in RunState /\ x.phase = "next" /\ x.todo \subseteq run[r].todo
      /\ x.mine = run[r].mine /\ x.theirs = run[r].theirs
  BY <1>1 DEF RunState
<1>3. run' = [run EXCEPT ![r] = x]
  BY <1>1 DEF Engine!Settle
<1>. HIDE DEF x
<1>4. PassTyped'
  BY <1>2, <1>3, RunTyped DEF PassInv, PassTyped, Engine!Settle, Engine!baseVars, Busy
<1>5. run'[r] = x
  BY <1>1, <1>3
<1>6. Knows(run[r])
  BY DEF PassInv, RunOK
<1>. QED
  BY <1>1, <1>2, <1>4, <1>5, <1>6 DEF RunOK, Knows, AtHand, Engine!Settle, Engine!baseVars

\* A run takes up a file it knows.
LEMMA TakeStep ==
    ASSUME PassInv, NEW r \in Runner, NEW f \in File, NEW ph \in {"bak", "aside", "put"},
           NEW t \in Time, Engine!MayTake(r, f), Engine!Take(r, f, ph, t),
           UNCHANGED <<Engine!baseVars, device, synced, bak, aside, versions>>
    PROVE  /\ PassTyped' /\ Knows(run[r])'
           /\ run'[r].phase = ph /\ run'[r].cur = f /\ run'[r].stamp = t
<1>. DEFINE x == [run[r] EXCEPT !.todo = @ \ {f}, !.cur = f, !.phase = ph, !.stamp = t]
<1>1. run[r] \in RunState /\ run \in [Runner -> RunState] /\ run[r].phase = "next"
  BY DEF PassInv, PassTyped, Engine!MayTake
<1>2. /\ x \in RunState /\ x.phase = ph /\ x.todo = run[r].todo \ {f} /\ x.cur = f /\ x.stamp = t
      /\ x.mine = run[r].mine /\ x.theirs = run[r].theirs
  BY <1>1 DEF RunState, Busy
<1>3. run' = [run EXCEPT ![r] = x]
  BY <1>1 DEF Engine!Take
<1>. HIDE DEF x
<1>4. PassTyped'
  BY <1>2, <1>3, RunTyped DEF PassInv, PassTyped, Engine!baseVars, Busy
<1>5. run'[r] = x
  BY <1>1, <1>3
<1>6. Knows(run[r])
  BY DEF PassInv, RunOK
<1>. QED
  BY <1>1, <1>2, <1>4, <1>5, <1>6 DEF Knows, Engine!baseVars

LEMMA SeenIs ==
    ASSUME NEW s \in Engine!Save \cup {None}
    PROVE  /\ Engine!Seen(s).mtime = None <=> s = None
           /\ s # None => /\ Engine!Seen(s).mtime = s.mtime
                          /\ Engine!Seen(s).empty = (s.content = Blank)
<1>1. s # None => s.mtime \in Time /\ s.mtime # None
  BY SaveParts, Constants DEF Time
<1>2. s = None => Engine!Seen(s).mtime = None
  BY DEF Engine!Seen
<1>3. s # None => Engine!Seen(s).mtime = s.mtime /\ Engine!Seen(s).empty = (s.content = Blank)
  BY DEF Engine!Seen
<1>. QED
  BY <1>1, <1>2, <1>3

LEMMA Uploads ==
    ASSUME PassInv, NEW r \in Runner, NEW f \in File, Engine!TakeUpload(r, f)
    PROVE  /\ device[f] # None
           /\ device[f].content = Blank => remote[f] = None \/ remote[f].content = Blank
           /\ Engine!Take(r, f, "put", device[f].mtime)
<1>1. run[r].mine[f] = Engine!Seen(device[f]) /\ run[r].theirs[f] = Engine!Seen(remote[f])
  BY DEF Engine!TakeUpload, Engine!MayTake, PassInv, RunOK, Knows
<1>2. device[f] \in Engine!Save \cup {None} /\ remote[f] \in Engine!Save \cup {None}
  BY DEF PassInv, PassTyped, Engine!Folder
<1>3. Engine!Decision(r, f) \in {"upload", "conflict"}
  BY DEF Engine!TakeUpload
<1>4. device[f] # None
  <2>1. run[r].mine[f].mtime # None
    BY <1>3 DEF Engine!Decision, Engine!Decide
  <2>. QED
    BY <1>1, <1>2, <2>1, SeenIs
<1>5. ~Engine!IsSuspect(r, f)
  BY DEF Engine!TakeUpload, Engine!Settled
<1>6. device[f].content = Blank => remote[f] = None \/ remote[f].content = Blank
  <2>. SUFFICES ASSUME remote[f] # None, device[f].content = Blank PROVE remote[f].content = Blank
    OBVIOUS
  <2>1. /\ run[r].mine[f].mtime # None /\ run[r].theirs[f].mtime # None
        /\ run[r].mine[f].empty = (device[f].content = Blank)
        /\ run[r].theirs[f].empty = (remote[f].content = Blank)
    BY <1>1, <1>2, <1>4, SeenIs
  <2>. QED
    BY <1>3, <1>5, <2>1 DEF Engine!IsSuspect, Engine!Suspect
<1>7. run[r].mine[f].mtime = device[f].mtime
  BY <1>1, <1>2, <1>4, SeenIs
<1>8. Engine!LastModified(f) = device[f].mtime
  BY <1>4 DEF Engine!LastModified
<1>9. Engine!Take(r, f, "put", device[f].mtime)
  BY <1>7, <1>8 DEF Engine!TakeUpload
<1>. QED
  BY <1>4, <1>6, <1>9

LEMMA UploadStep ==
    ASSUME PassInv, NEW r \in Runner, NEW f \in File, Engine!TakeUpload(r, f)
    PROVE  PassTyped' /\ RunOK(run[r])'
<1>1. /\ device[f] # None
      /\ device[f].content = Blank => remote[f] = None \/ remote[f].content = Blank
      /\ Engine!Take(r, f, "put", device[f].mtime)
  BY Uploads
<1>2. device[f].mtime \in Time
  BY <1>1, SaveParts DEF PassInv, PassTyped, Engine!Folder
<1>3. /\ Engine!MayTake(r, f) /\ UNCHANGED <<Engine!baseVars, device, synced, bak, aside, versions>>
  BY DEF Engine!TakeUpload
<1>4. /\ PassTyped' /\ Knows(run[r])'
      /\ run'[r].phase = "put" /\ run'[r].cur = f /\ run'[r].stamp = device[f].mtime
  BY <1>1, <1>2, <1>3, TakeStep
<1>5. device' = device /\ remote' = remote
  BY <1>3 DEF Engine!baseVars
<1>. QED
  BY <1>1, <1>4, <1>5 DEF RunOK, AtHand

LEMMA DownloadStep ==
    ASSUME PassInv, NEW r \in Runner, NEW f \in File, Engine!TakeDownload(r, f)
    PROVE  PassTyped' /\ RunOK(run[r])'
<1>1. PICK ph \in {"bak", "aside"} : Engine!Take(r, f, ph, 0)
  BY DEF Engine!TakeDownload
<1>2. 0 \in Time
  BY Constants DEF Time
<1>3. /\ Engine!MayTake(r, f) /\ UNCHANGED <<Engine!baseVars, device, synced, bak, aside, versions>>
  BY DEF Engine!TakeDownload
<1>4. PassTyped' /\ Knows(run[r])' /\ run'[r].phase \in {"bak", "aside"}
  BY <1>1, <1>2, <1>3, TakeStep
<1>. QED
  BY <1>4 DEF RunOK, AtHand

\* A step on the file at hand leaves the other files as they were listed.
LEMMA KnowsOn ==
    ASSUME PassInv, NEW r \in Runner, NEW f \in File, f = run[r].cur, run[r].phase \in Busy,
           run' \in [Runner -> RunState], run'[r].phase \notin {"idle", "list"},
           run'[r].todo = run[r].todo, run'[r].mine = run[r].mine, run'[r].theirs = run[r].theirs,
           \A g \in File \ {f} : device'[g] = device[g] /\ remote'[g] = remote[g]
    PROVE  Knows(run[r])'
<1>1. Knows(run[r]) /\ f \notin run[r].todo /\ run[r].todo \subseteq File
  BY DEF PassInv, RunOK, PassTyped, RunState
<1>. QED
  BY <1>1 DEF Knows, Busy

\* What going on to another phase leaves alone.
LEMMA GotoParts ==
    ASSUME PassTyped, NEW r \in Runner, NEW ph, Engine!Goto(r, ph)
    PROVE  /\ run'[r].phase = ph /\ run'[r].cur = run[r].cur /\ run'[r].todo = run[r].todo
           /\ run'[r].mine = run[r].mine /\ run'[r].theirs = run[r].theirs
           /\ run'[r].stamp = run[r].stamp
BY DEF PassTyped, RunState, Engine!Goto

LEMMA BackupStep ==
    ASSUME Alone, PassInv, NEW r \in Runner, Engine!BackupBeforeDownload(r)
    PROVE  PassTyped' /\ RunOK(run[r])'
<1>1. PICK f \in File : f = run[r].cur /\ run[r].phase = "bak"
  BY DEF Engine!BackupBeforeDownload, PassInv, PassTyped, Busy
<1>2. bak' = IF Engine!ContentOf(device[f]) \subseteq {Blank} THEN bak
             ELSE [bak EXCEPT ![f] = device[f].content]
  BY <1>1 DEF Engine!BackupBeforeDownload, Engine!May, Alone
<1>3. device[f] # None => device[f].content \in Content
  BY SaveParts DEF PassInv, PassTyped, Engine!Folder
<1>4. /\ bak' \in [File -> Content \cup {None}]
      /\ Engine!ContentOf(device[f]) \subseteq {Blank, bak'[f]}
  BY <1>2, <1>3 DEF Engine!ContentOf, PassInv, PassTyped
<1>5. Engine!Goto(r, "open") /\ UNCHANGED <<now, made, remote, device, synced, aside>>
  BY DEF Engine!BackupBeforeDownload, Engine!baseVars
<1>6. PassTyped'
  BY <1>1, <1>4, <1>5, GotoTyped DEF PassInv, PassTyped, Busy
<1>7. Knows(run[r])'
  BY <1>1, <1>5, <1>6, GotoParts, KnowsOn DEF PassInv, PassTyped, Busy
<1>8. run'[r].phase = "open" /\ run'[r].cur = f
  BY <1>1, <1>5, GotoParts DEF PassInv
<1>. QED
  BY <1>4, <1>5, <1>6, <1>7, <1>8 DEF RunOK, AtHand

LEMMA AsideStep ==
    ASSUME PassInv, NEW r \in Runner, Engine!BackupLocalFile(r)
    PROVE  PassTyped' /\ RunOK(run[r])'
<1>1. PICK f \in File : f = run[r].cur /\ run[r].phase = "aside"
  BY DEF Engine!BackupLocalFile, PassInv, PassTyped, Busy
<1>2. UNCHANGED <<now, made, remote, device, synced, bak>>
  BY DEF Engine!BackupLocalFile, Engine!baseVars
<1>3. CASE aside' = [aside EXCEPT ![f] = @ \cup Engine!AsideOf(f)] /\ Engine!Goto(r, "open")
  <2>1. Engine!ContentOf(device[f]) \subseteq Content
    BY SaveParts DEF PassInv, PassTyped, Engine!Folder, Engine!ContentOf
  <2>2. aside' \in [File -> SUBSET Content] /\ Engine!ContentOf(device[f]) \subseteq aside'[f]
    BY <1>3, <2>1 DEF Engine!AsideOf, PassInv, PassTyped
  <2>3. PassTyped'
    BY <1>1, <1>2, <1>3, <2>2, GotoTyped DEF PassInv, PassTyped, Busy
  <2>4. Knows(run[r])'
    BY <1>1, <1>2, <1>3, <2>3, GotoParts, KnowsOn DEF PassInv, PassTyped, Busy
  <2>5. run'[r].phase = "open" /\ run'[r].cur = f
    BY <1>1, <1>3, GotoParts DEF PassInv
  <2>. QED
    BY <1>2, <2>2, <2>3, <2>4, <2>5 DEF RunOK, AtHand
<1>4. CASE run' = [run EXCEPT ![r].phase = "next", ![r].clean = FALSE] /\ UNCHANGED aside
  <2>. DEFINE x == [run[r] EXCEPT !.phase = "next", !.clean = FALSE]
  <2>1. run[r] \in RunState /\ run \in [Runner -> RunState]
    BY DEF PassInv, PassTyped
  <2>2. /\ x \in RunState /\ x.phase = "next" /\ x.cur = run[r].cur /\ x.todo = run[r].todo
        /\ x.mine = run[r].mine /\ x.theirs = run[r].theirs
    BY <2>1 DEF RunState
  <2>3. run' = [run EXCEPT ![r] = x]
    BY <1>4, <2>1
  <2>. HIDE DEF x
  <2>4. PassTyped'
    BY <1>2, <1>4, <2>2, <2>3, RunTyped DEF PassInv, PassTyped, Busy
  <2>5. run'[r] = x
    BY <2>1, <2>3
  <2>6. Knows(run[r])'
    BY <1>1, <1>2, <2>2, <2>4, <2>5, KnowsOn DEF PassTyped, Busy
  <2>. QED
    BY <2>2, <2>4, <2>5, <2>6 DEF RunOK, AtHand
<1>. QED
  BY <1>1, <1>3, <1>4 DEF Engine!BackupLocalFile

\* Writing one save on the device.
LEMMA DeviceTyped ==
    ASSUME PassTyped, NEW f \in File, NEW s \in Engine!Save \cup {None},
           device' = [device EXCEPT ![f] = s]
    PROVE  /\ device' \in Engine!Folder /\ device'[f] = s
           /\ \A g \in File \ {f} : device'[g] = device[g]
BY DEF PassTyped, Engine!Folder

LEMMA OpenStep ==
    ASSUME PassInv, NEW r \in Runner, Engine!OpenFile(r)
    PROVE  PassTyped' /\ RunOK(run[r])'
<1>1. PICK f \in File : f = run[r].cur /\ run[r].phase = "open"
  BY DEF Engine!OpenFile, PassInv, PassTyped, Busy
<1>. DEFINE s == [content |-> Blank, mtime |-> now]
<1>2. s \in Engine!Save /\ s.content = Blank /\ s # None
  <2>1. s \in Engine!Save
    BY DEF Engine!Save, Engine!Content, PassInv, PassTyped, Time
  <2>. QED
    BY <2>1, SaveParts
<1>3. device' = [device EXCEPT ![f] = s]
  BY <1>1 DEF Engine!OpenFile
<1>. HIDE DEF s
<1>4. device' \in Engine!Folder /\ device'[f] = s /\ \A g \in File \ {f} : device'[g] = device[g]
  BY <1>2, <1>3, DeviceTyped DEF PassInv
<1>5. Engine!Goto(r, "receive") /\ UNCHANGED <<now, made, remote, synced, bak, aside>>
  BY DEF Engine!OpenFile, Engine!baseVars
<1>6. PassTyped'
  BY <1>1, <1>4, <1>5, GotoTyped DEF PassInv, PassTyped, Busy
<1>7. Knows(run[r])'
  BY <1>1, <1>4, <1>5, <1>6, GotoParts, KnowsOn DEF PassInv, PassTyped, Busy
<1>8. run'[r].phase = "receive" /\ run'[r].cur = f
  BY <1>1, <1>5, GotoParts DEF PassInv
<1>. QED
  BY <1>2, <1>4, <1>6, <1>7, <1>8 DEF RunOK, AtHand

LEMMA ReceiveStep ==
    ASSUME PassInv, NEW r \in Runner, Engine!Receive(r)
    PROVE  PassTyped' /\ RunOK(run[r])'
<1>1. PICK f \in File : f = run[r].cur /\ run[r].phase = "receive" /\ remote[f] # None
  BY DEF Engine!Receive, PassInv, PassTyped, Busy
<1>2. remote[f].content \in Content /\ remote[f].mtime \in Time /\ now \in Time
  BY <1>1, SaveParts DEF PassInv, PassTyped, Engine!Folder
<1>. DEFINE s == [content |-> remote[f].content, mtime |-> now]
            x == [run[r] EXCEPT !.phase = "stamp", !.stamp = remote[f].mtime]
<1>3. s \in Engine!Save /\ s.content = remote[f].content
  BY <1>2, SaveType
<1>4. device' = [device EXCEPT ![f] = s]
  BY <1>1 DEF Engine!Receive
<1>5. run[r] \in RunState /\ run \in [Runner -> RunState]
  BY DEF PassInv, PassTyped
<1>6. /\ x \in RunState /\ x.phase = "stamp" /\ x.stamp = remote[f].mtime
      /\ x.cur = run[r].cur /\ x.todo = run[r].todo
      /\ x.mine = run[r].mine /\ x.theirs = run[r].theirs
  BY <1>2, <1>5 DEF RunState, Busy
<1>7. run' = [run EXCEPT ![r] = x]
  BY <1>1, <1>5 DEF Engine!Receive
<1>. HIDE DEF s, x
<1>8. device' \in Engine!Folder /\ device'[f] = s /\ \A g \in File \ {f} : device'[g] = device[g]
  BY <1>3, <1>4, DeviceTyped DEF PassInv
<1>9. UNCHANGED <<now, made, remote, synced, bak, aside>>
  BY DEF Engine!Receive, Engine!baseVars
<1>10. PassTyped'
  BY <1>1, <1>6, <1>7, <1>8, <1>9, RunTyped DEF PassInv, PassTyped, Busy
<1>11. run'[r] = x
  BY <1>5, <1>7
<1>12. Knows(run[r])'
  BY <1>1, <1>6, <1>8, <1>9, <1>10, <1>11, KnowsOn DEF PassTyped, Busy
<1>13. s # None
  BY <1>3, Constants
<1>. QED
  BY <1>1, <1>3, <1>6, <1>8, <1>9, <1>10, <1>11, <1>12, <1>13 DEF RunOK, AtHand

LEMMA StampStep ==
    ASSUME PassInv, NEW r \in Runner, Engine!SetLastModified(r)
    PROVE  PassTyped' /\ RunOK(run[r])'
<1>1. PICK f \in File : f = run[r].cur /\ run[r].phase = "stamp"
  BY DEF Engine!SetLastModified, PassInv, PassTyped, Busy
<1>2. /\ device[f] # None /\ remote[f] # None /\ device[f].content = remote[f].content
      /\ run[r].stamp = remote[f].mtime
  BY <1>1 DEF PassInv, RunOK, AtHand
<1>3. device[f] \in Engine!Save /\ run[r].stamp \in Time
  BY <1>2 DEF PassInv, PassTyped, Engine!Folder, RunState
<1>. DEFINE s == [device[f] EXCEPT !.mtime = run[r].stamp]
<1>4. s \in Engine!Save /\ s.content = device[f].content /\ s.mtime = run[r].stamp
  BY <1>3 DEF Engine!Save, Time
<1>5. device' = [device EXCEPT ![f] = s]
  BY <1>1, <1>2 DEF Engine!SetLastModified, Engine!Stamped, PassInv, PassTyped, Engine!Folder
<1>. HIDE DEF s
<1>6. device' \in Engine!Folder /\ device'[f] = s /\ \A g \in File \ {f} : device'[g] = device[g]
  BY <1>4, <1>5, DeviceTyped DEF PassInv
<1>7. Engine!Goto(r, "touch") /\ UNCHANGED <<now, made, remote, synced, bak, aside>>
  BY DEF Engine!SetLastModified, Engine!baseVars
<1>8. PassTyped'
  BY <1>1, <1>6, <1>7, GotoTyped DEF PassInv, PassTyped, Busy
<1>9. Knows(run[r])'
  BY <1>1, <1>6, <1>7, <1>8, GotoParts, KnowsOn DEF PassInv, PassTyped, Busy
<1>10. run'[r].phase = "touch" /\ run'[r].cur = f
  BY <1>1, <1>7, GotoParts DEF PassInv
<1>11. s # None
  BY <1>4, Constants
<1>. QED
  BY <1>2, <1>4, <1>6, <1>7, <1>8, <1>9, <1>10, <1>11 DEF RunOK, AtHand

LEMMA PutStep ==
    ASSUME PassInv, NEW r \in Runner, Engine!Put(r)
    PROVE  PassTyped' /\ RunOK(run[r])'
<1>1. PICK f \in File : f = run[r].cur /\ run[r].phase = "put" /\ device[f] # None
  BY DEF Engine!Put, PassInv, PassTyped, Busy
<1>2. device[f].mtime = run[r].stamp
  BY <1>1 DEF PassInv, RunOK, AtHand
<1>. DEFINE s == [content |-> device[f].content, mtime |-> run[r].stamp]
<1>3. s \in Engine!Save /\ s.content = device[f].content /\ s.mtime = run[r].stamp
  <2>1. device[f].content \in Content /\ run[r].stamp \in Time
    BY <1>1, SaveParts DEF PassInv, PassTyped, Engine!Folder, RunState
  <2>. QED
    BY <2>1, SaveType
<1>4. remote' = [remote EXCEPT ![f] = s]
  BY <1>1 DEF Engine!Put
<1>. HIDE DEF s
<1>5. remote' \in Engine!Folder /\ remote'[f] = s /\ \A g \in File \ {f} : remote'[g] = remote[g]
  BY <1>3, <1>4 DEF PassInv, PassTyped, Engine!Folder
<1>6. Engine!Goto(r, "touch") /\ UNCHANGED <<now, made, device, synced, bak, aside>>
  BY DEF Engine!Put
<1>7. PassTyped'
  BY <1>1, <1>5, <1>6, GotoTyped DEF PassInv, PassTyped, Busy
<1>8. Knows(run[r])'
  BY <1>1, <1>5, <1>6, <1>7, GotoParts, KnowsOn DEF PassInv, PassTyped, Busy
<1>9. run'[r].phase = "touch" /\ run'[r].cur = f
  BY <1>1, <1>6, GotoParts DEF PassInv
<1>10. s # None
  BY <1>3, Constants
<1>. QED
  BY <1>1, <1>2, <1>3, <1>5, <1>6, <1>7, <1>8, <1>9, <1>10 DEF RunOK, AtHand

\* What a failing transfer leaves on the device.
LEMMA BrokenParts ==
    ASSUME PassInv, NEW r \in Runner, Engine!Broken(r)
    PROVE  /\ run[r].phase \in {"put", "receive"} /\ run[r].cur \in File
           /\ device' \in Engine!Folder
           /\ \A g \in File \ {run[r].cur} : device'[g] = device[g]
           /\ device' = device \/ run[r].phase = "receive"
<1>1. PICK f \in File : f = run[r].cur /\ run[r].phase \in {"put", "receive"}
  BY DEF Engine!Broken, PassInv, PassTyped, Busy
<1>2. CASE UNCHANGED device
  BY <1>1, <1>2 DEF PassInv, PassTyped
<1>3. CASE /\ run[r].phase = "receive"
           /\ device' = [device EXCEPT ![f] = [content |-> Torn, mtime |-> now]]
  <2>1. [content |-> Torn, mtime |-> now] \in Engine!Save
    BY DEF Engine!Save, Engine!Content, PassInv, PassTyped, Time
  <2>. QED
    BY <1>1, <1>3, <2>1 DEF PassInv, PassTyped, Engine!Folder
<1>. QED
  BY <1>1, <1>2, <1>3 DEF Engine!Broken

LEMMA FailsStep ==
    ASSUME PassInv, NEW r \in Runner, Engine!TransferFails(r)
    PROVE  PassTyped' /\ RunOK(run[r])'
<1>1. PICK f \in File : f = run[r].cur /\ run[r].phase \in {"put", "receive"}
  BY BrokenParts DEF Engine!TransferFails
<1>2. device' \in Engine!Folder /\ \A g \in File \ {f} : device'[g] = device[g]
  BY <1>1, BrokenParts DEF Engine!TransferFails
<1>. DEFINE x == [run[r] EXCEPT !.phase = "next", !.clean = FALSE]
<1>3. run[r] \in RunState /\ run \in [Runner -> RunState]
  BY DEF PassInv, PassTyped
<1>4. /\ x \in RunState /\ x.phase = "next" /\ x.cur = run[r].cur /\ x.todo = run[r].todo
      /\ x.mine = run[r].mine /\ x.theirs = run[r].theirs
  BY <1>3 DEF RunState
<1>5. run' = [run EXCEPT ![r] = x]
  BY <1>3 DEF Engine!TransferFails, Engine!AfterBroken
<1>6. UNCHANGED <<now, made, remote, synced, bak, aside>>
  BY DEF Engine!TransferFails, Engine!baseVars
<1>. HIDE DEF x
<1>7. PassTyped'
  BY <1>2, <1>4, <1>5, <1>6, RunTyped DEF PassInv, PassTyped, Busy
<1>8. run'[r] = x
  BY <1>3, <1>5
<1>9. Knows(run[r])'
  BY <1>1, <1>2, <1>4, <1>6, <1>7, <1>8, KnowsOn DEF PassTyped, Busy
<1>. QED
  BY <1>4, <1>7, <1>8, <1>9 DEF RunOK, AtHand

LEMMA TouchStep ==
    ASSUME PassInv, NEW r \in Runner, Engine!TouchWatermark(r)
    PROVE  PassTyped' /\ RunOK(run[r])'
<1>1. PICK f \in File : f = run[r].cur /\ run[r].phase = "touch"
  BY DEF Engine!TouchWatermark, PassInv, PassTyped, Busy
<1>2. Engine!Goto(r, "next") /\ UNCHANGED <<now, made, remote, device, bak, aside>>
  BY DEF Engine!TouchWatermark, Engine!baseVars
<1>3. synced' \in [File -> Time \cup {None}]
  BY <1>1 DEF Engine!TouchWatermark, PassInv, PassTyped
<1>4. PassTyped'
  BY <1>1, <1>2, <1>3, GotoTyped DEF PassInv, PassTyped, Busy
<1>5. Knows(run[r])'
  BY <1>1, <1>2, <1>4, GotoParts, KnowsOn DEF PassInv, PassTyped, Busy
<1>6. run'[r].phase = "next"
  BY <1>2, GotoParts DEF PassInv
<1>. QED
  BY <1>4, <1>5, <1>6 DEF RunOK, AtHand

LEMMA RunStepInv ==
    ASSUME Alone, PassInv, NEW r \in Runner, Engine!RunStep(r)
    PROVE  PassInv'
<1>1. Engine!EndRun(r) \/ Engine!Stop(r) => PassTyped' /\ RunOK(run[r])'
  BY StopStep DEF Engine!EndRun, Engine!Stop, Engine!baseVars
<1>2. PassTyped' /\ RunOK(run[r])'
  BY <1>1, ScanStep, ListStep, SettleStep, UploadStep, DownloadStep, BackupStep, AsideStep,
     OpenStep, ReceiveStep, StampStep, PutStep, FailsStep, TouchStep DEF Engine!RunStep
<1>3. \A q \in Runner : q = r
  BY DEF Alone, SoleRunner
<1>. QED
  BY <1>2, <1>3 DEF PassInv

LEMMA EnvStep ==
    ASSUME Alone, PassInv, Engine!Next, ~\E r \in Runner : Engine!RunStep(r)
    PROVE  PassInv' /\ run' = run /\ synced' = synced
<1>1. now \in Time /\ made \in Nat
  BY Constants DEF PassInv, PassTyped
<1>2. CASE Engine!Tick /\ UNCHANGED Engine!androidVars
  <2>1. now' \in Time
    BY <1>1, <1>2, Constants DEF Engine!Tick, Time
  <2>2. PassTyped'
    BY <1>2, <2>1 DEF Engine!Tick, Engine!androidVars, PassInv, PassTyped
  <2>. QED
    BY <1>2, <2>2 DEF Engine!Tick, Engine!androidVars, PassInv, RunOK, Knows, AtHand
<1>3. ASSUME NEW f \in File, Engine!Play(f) \/ Engine!Truncate(f) \/ Engine!Delete(f)
      PROVE  PassInv' /\ run' = run /\ synced' = synced
  <2>1. run' = run /\ \A r \in Runner : run[r].phase = "idle"
    BY <1>3 DEF Alone, Engine!Play, Engine!Truncate, Engine!Delete, Engine!MayWrite, Engine!Idle,
       Engine!FileOnly
  <2>2. UNCHANGED <<now, remote, synced, bak, aside, run>>
    BY <1>3 DEF Engine!Play, Engine!Truncate, Engine!Delete, Engine!FileOnly, Engine!CloudKept
  <2>3. made' \in 0 .. MaxVersion
    BY <1>1, <1>3, Constants DEF Engine!Play, Engine!Truncate, Engine!Delete, PassInv, PassTyped
  <2>4. device' \in Engine!Folder
    <3>1. [content |-> Blank, mtime |-> now] \in Engine!Save
      BY <1>1 DEF Engine!Save, Engine!Content, Time
    <3>2. CASE Engine!Play(f)
      <4>1. [content |-> made + 1, mtime |-> now] \in Engine!Save
        BY <1>1, <3>2, Constants DEF Engine!Play, Engine!Save, Engine!Content, Engine!Version, Time
      <4>. QED
        BY <3>2, <4>1 DEF Engine!Play, PassInv, PassTyped, Engine!Folder
    <3>. QED
      BY <1>3, <3>1, <3>2 DEF Engine!Truncate, Engine!Delete, PassInv, PassTyped, Engine!Folder
  <2>5. PassTyped'
    BY <2>2, <2>3, <2>4 DEF PassInv, PassTyped
  <2>. QED
    BY <2>1, <2>2, <2>5 DEF PassInv, RunOK, Knows, AtHand
<1>4. ASSUME NEW f \in File, NEW m \in 0 .. now, Engine!PcUpload(f, m)
      PROVE  PassInv' /\ run' = run /\ synced' = synced
  <2>1. /\ run' = run /\ \A r \in Runner : run[r].phase = "idle"
        /\ UNCHANGED <<now, device, synced, bak, aside, run>>
    BY <1>4 DEF Alone, Engine!PcUpload, Engine!Idle
  <2>2. made' \in 0 .. MaxVersion
    BY <1>1, <1>4, Constants DEF Engine!PcUpload
  <2>3. [content |-> made + 1, mtime |-> m] \in Engine!Save
    BY <1>1, <1>4, Constants DEF Engine!PcUpload, Engine!Save, Engine!Content, Engine!Version, Time
  <2>4. remote' \in Engine!Folder
    BY <1>4, <2>3 DEF Engine!PcUpload, PassInv, PassTyped, Engine!Folder
  <2>5. PassTyped'
    BY <2>1, <2>2, <2>4 DEF PassInv, PassTyped
  <2>. QED
    BY <2>1, <2>5 DEF PassInv, RunOK, Knows, AtHand
<1>. QED
  BY <1>2, <1>3, <1>4 DEF Engine!Next, Engine!DeviceEnv

LEMMA InvStep == ASSUME Alone PROVE PassInv /\ [Engine!Next]_(Engine!vars) => PassInv'
<1>. SUFFICES ASSUME PassInv, [Engine!Next]_(Engine!vars) PROVE PassInv'
  OBVIOUS
<1>1. CASE UNCHANGED Engine!vars
  BY <1>1 DEF Engine!vars, Engine!baseVars, Engine!androidVars, PassInv, PassTyped, RunOK, Knows,
     AtHand
<1>2. ASSUME NEW r \in Runner, Engine!RunStep(r) PROVE PassInv'
  BY <1>2, RunStepInv
<1>3. CASE Engine!Next /\ ~\E r \in Runner : Engine!RunStep(r)
  BY <1>3, EnvStep
<1>. QED
  BY <1>1, <1>2, <1>3

-----------------------------------------------------------------------------
(* What each step of a pass does, then *)

KeepsReplaced ==
    \A f \in File : Engine!EngineActs =>
       \A c \in Engine!ContentOf(device[f]) \ {Blank, Torn} : Engine!Kept(f, c)'

KeepsFull ==
    \A f \in File : Engine!EngineActs =>
       (Engine!ContentOf(remote'[f]) = {Blank} => Engine!ContentOf(remote[f]) \in {{}, {Blank}})

MarksAncestors ==
    \A f \in File : synced'[f] # synced[f] =>
       /\ Engine!ContentOf(device[f]) = Engine!ContentOf(remote[f])
       /\ Engine!SameTime(device[f].mtime, remote[f].mtime)

\* Only four steps of a run write the device, one the cloud, one the watermarks.
LEMMA RunWrites ==
    ASSUME NEW r \in Runner, Engine!RunStep(r)
    PROVE  /\ \/ device' = device \/ Engine!OpenFile(r) \/ Engine!Receive(r)
              \/ Engine!SetLastModified(r) \/ Engine!TransferFails(r)
           /\ remote' = remote \/ Engine!Put(r)
           /\ synced' = synced \/ Engine!TouchWatermark(r)
<1>1. \/ device' = device \/ Engine!OpenFile(r) \/ Engine!Receive(r)
      \/ Engine!SetLastModified(r) \/ Engine!TransferFails(r)
  BY DEF Engine!RunStep, Engine!Scan, Engine!ListFolder, Engine!Settle, Engine!TakeUpload,
     Engine!TakeDownload, Engine!BackupBeforeDownload, Engine!BackupLocalFile, Engine!Put,
     Engine!TouchWatermark, Engine!EndRun, Engine!Stop
<1>2. remote' = remote \/ Engine!Put(r)
  BY DEF Engine!RunStep, Engine!Scan, Engine!ListFolder, Engine!Settle, Engine!TakeUpload,
     Engine!TakeDownload, Engine!BackupBeforeDownload, Engine!BackupLocalFile, Engine!OpenFile,
     Engine!Receive, Engine!SetLastModified, Engine!TransferFails, Engine!TouchWatermark,
     Engine!EndRun, Engine!Stop, Engine!baseVars
<1>3. synced' = synced \/ Engine!TouchWatermark(r)
  BY DEF Engine!RunStep, Engine!Scan, Engine!ListFolder, Engine!Settle, Engine!TakeUpload,
     Engine!TakeDownload, Engine!BackupBeforeDownload, Engine!BackupLocalFile, Engine!OpenFile,
     Engine!Receive, Engine!SetLastModified, Engine!Put, Engine!TransferFails, Engine!EndRun,
     Engine!Stop
<1>. QED
  BY <1>1, <1>2, <1>3

LEMMA ReplacedKept ==
    ASSUME PassInv, NEW r \in Runner, Engine!RunStep(r), NEW f \in File,
           NEW c \in Engine!ContentOf(device[f]) \ {Blank, Torn}
    PROVE  Engine!Kept(f, c)'
<1>1. device[f] # None /\ c = device[f].content /\ c \notin {Blank, Torn}
  BY DEF Engine!ContentOf
<1>2. CASE device'[f] = device[f]
  BY <1>2 DEF Engine!Kept
<1>3. AtHand(run[r], run[r].cur)
  BY DEF PassInv, RunOK
<1>4. CASE Engine!OpenFile(r) /\ f = run[r].cur
  <2>1. c = bak[f] \/ c \in aside[f]
    BY <1>1, <1>3, <1>4 DEF AtHand, Engine!OpenFile, Engine!ContentOf
  <2>. QED
    BY <1>4, <2>1 DEF Engine!Kept, Engine!OpenFile
<1>5. CASE (Engine!Receive(r) \/ Engine!TransferFails(r)) /\ f = run[r].cur
  <2>1. run[r].phase # "receive"
    BY <1>1, <1>3, <1>5 DEF AtHand
  <2>. QED
    BY <1>2, <1>5, <2>1, BrokenParts DEF Engine!Receive, Engine!TransferFails
<1>6. CASE Engine!SetLastModified(r) /\ f = run[r].cur
  <2>1. remote[f] # None /\ remote[f].content = c
    BY <1>1, <1>3, <1>6 DEF AtHand, Engine!SetLastModified
  <2>. QED
    BY <1>6, <2>1 DEF Engine!SetLastModified, Engine!baseVars, Engine!Kept, Engine!ContentOf
<1>7. ASSUME f # run[r].cur PROVE device'[f] = device[f]
  <2>1. CASE Engine!OpenFile(r) \/ Engine!Receive(r) \/ Engine!SetLastModified(r)
    BY <1>7, <2>1 DEF Engine!OpenFile, Engine!Receive, Engine!SetLastModified, Engine!Stamped,
       PassInv, PassTyped, Engine!Folder
  <2>2. CASE Engine!TransferFails(r)
    BY <1>7, <2>2, BrokenParts DEF Engine!TransferFails
  <2>. QED
    BY <2>1, <2>2, RunWrites
<1>. QED
  BY <1>2, <1>4, <1>5, <1>6, <1>7, RunWrites

LEMMA StepIsSafe ==
    ASSUME Alone
    PROVE  PassInv /\ [Engine!Next]_(Engine!vars) => KeepsReplaced /\ KeepsFull /\ MarksAncestors
<1>. SUFFICES ASSUME PassInv, [Engine!Next]_(Engine!vars)
              PROVE  KeepsReplaced /\ KeepsFull /\ MarksAncestors
  OBVIOUS
<1>1. CASE ~\E r \in Runner : Engine!RunStep(r)
  <2>1. run' = run /\ synced' = synced
    BY <1>1, EnvStep DEF Engine!vars, Engine!androidVars
  <2>. QED
    BY <2>1 DEF KeepsReplaced, KeepsFull, MarksAncestors, Engine!EngineActs
<1>2. ASSUME NEW r \in Runner, Engine!RunStep(r)
      PROVE  KeepsReplaced /\ KeepsFull /\ MarksAncestors
  <2>1. KeepsReplaced
    BY <1>2, ReplacedKept DEF KeepsReplaced
  <2>2. AtHand(run[r], run[r].cur)
    BY DEF PassInv, RunOK
  <2>3. KeepsFull
    <3>1. CASE remote' = remote
      BY <3>1 DEF KeepsFull, Engine!ContentOf
    <3>2. CASE Engine!Put(r)
      <4>. SUFFICES ASSUME NEW f \in File, Engine!ContentOf(remote'[f]) = {Blank}
                    PROVE  Engine!ContentOf(remote[f]) \in {{}, {Blank}}
        BY DEF KeepsFull
      <4>1. CASE f # run[r].cur
        BY <3>2, <4>1 DEF Engine!Put, PassInv, PassTyped, Engine!Folder
      <4>2. CASE f = run[r].cur
        <5>1. remote'[f] = [content |-> device[f].content, mtime |-> run[r].stamp]
          BY <3>2, <4>2 DEF Engine!Put, PassInv, PassTyped, Engine!Folder
        <5>2. device[f].content = Blank
          BY <5>1 DEF Engine!ContentOf
        <5>3. remote[f] = None \/ remote[f].content = Blank
          BY <2>2, <3>2, <4>2, <5>2 DEF AtHand, Engine!Put
        <5>. QED
          BY <5>3 DEF Engine!ContentOf
      <4>. QED
        BY <4>1, <4>2
    <3>. QED
      BY <1>2, <3>1, <3>2, RunWrites
  <2>4. MarksAncestors
    <3>1. CASE synced' = synced
      BY <3>1 DEF MarksAncestors
    <3>2. CASE Engine!TouchWatermark(r)
      <4>. SUFFICES ASSUME NEW f \in File, synced'[f] # synced[f]
                    PROVE  /\ Engine!ContentOf(device[f]) = Engine!ContentOf(remote[f])
                           /\ Engine!SameTime(device[f].mtime, remote[f].mtime)
        BY DEF MarksAncestors
      <4>1. f = run[r].cur /\ run[r].phase = "touch"
        BY <3>2 DEF Engine!TouchWatermark, PassInv, PassTyped
      <4>2. /\ device[f] # None /\ remote[f] # None /\ device[f].content = remote[f].content
            /\ device[f].mtime = remote[f].mtime
        BY <2>2, <4>1 DEF AtHand
      <4>3. device[f].mtime \in Nat
        BY <4>2, SaveParts, Constants DEF PassInv, PassTyped, Engine!Folder, Time
      <4>. QED
        BY <4>2, <4>3, Constants DEF Engine!ContentOf, Engine!SameTime
    <3>. QED
      BY <1>2, <3>1, <3>2, RunWrites
  <2>. QED
    BY <2>1, <2>3, <2>4
<1>. QED
  BY <1>1, <1>2

\* Whatever listings, transfers and copies aside fail, wherever a pass is stopped, and however
\* late the PC uploads: a pass of the app keeps what it replaces on the device, lets no empty
\* save win in the cloud, and marks only files whose sides are equal.
THEOREM PassesAreSafe == ASSUME Alone PROVE AppSpec => PassIsSafe
<1>1. AppInit => PassInv
  BY PassInit DEF AppInit
<1>2. [Trigger(Next) \/ Pass(Engine!Next)]_appVars => [Engine!Next]_(Engine!vars)
  BY DEF Trigger, Pass, appVars, passVars, Engine!vars, Engine!baseVars, Engine!androidVars
<1>3. AppSpec => []PassInv /\ [][Engine!Next]_(Engine!vars)
  BY <1>1, <1>2, InvStep, PTL DEF AppSpec
<1>4. AppSpec => /\ [][KeepsReplaced]_(Engine!vars)
                 /\ [][KeepsFull]_(Engine!vars)
                 /\ [][MarksAncestors]_(Engine!vars)
  BY <1>3, StepIsSafe, PTL
<1>. QED
  BY <1>4 DEF PassIsSafe, Engine!ReplacedIsKept, Engine!EmptyNeverWins, Engine!WatermarkIsAncestor,
     KeepsReplaced, KeepsFull, MarksAncestors
-----------------------------------------------------------------------------
(* Quiet passes converge.  The argument: in a pass in which nothing failed,  *)
(* a file that is neither to do nor at hand has been settled, and stays so.  *)

Settling(x) ==
    x.phase \notin {"idle", "list"} /\ x.clean =>
      \A f \in File \ x.todo : (x.phase \in Busy /\ f = x.cur) \/ Engine!Agree(f)

QuietInv == PassInv /\ \A r \in Runner : Settling(run[r])

LEMMA QuietInit == Engine!Init => QuietInv
BY PassInit DEF Engine!Init, Engine!IdleRun, QuietInv, Settling

\* A file that is up to date, or suspect, agrees.
LEMMA SettledAgree ==
    ASSUME PassInv, NEW r \in Runner, NEW f \in File, Engine!Settle(r, f)
    PROVE  Engine!Agree(f)
<1>. DEFINE d == run[r].mine[f]
            c == run[r].theirs[f]
<1>1. d = Engine!Seen(device[f]) /\ c = Engine!Seen(remote[f])
  BY DEF Engine!Settle, Engine!MayTake, PassInv, RunOK, Knows
<1>2. device[f] \in Engine!Save \cup {None} /\ remote[f] \in Engine!Save \cup {None}
  BY DEF PassInv, PassTyped, Engine!Folder
<1>3. /\ d.mtime = None <=> device[f] = None
      /\ c.mtime = None <=> remote[f] = None
      /\ device[f] # None => d.mtime = device[f].mtime /\ d.empty = (device[f].content = Blank)
      /\ remote[f] # None => c.mtime = remote[f].mtime /\ c.empty = (remote[f].content = Blank)
  BY <1>1, <1>2, SeenIs
<1>4. CASE Engine!IsSuspect(r, f)
  BY <1>3, <1>4 DEF Engine!IsSuspect, Engine!Suspect, Engine!Agree
<1>5. CASE Engine!Decision(r, f) = "up_to_date"
  <2>1. Engine!Decide(d.mtime, c.mtime, synced[f]) = "up_to_date"
    BY <1>5 DEF Engine!Decision
  <2>2. \/ d.mtime = None /\ c.mtime = None
        \/ d.mtime # None /\ c.mtime # None /\ Engine!SameTime(d.mtime, c.mtime)
    BY <2>1 DEF Engine!Decide
  <2>. QED
    BY <1>3, <2>2 DEF Engine!Agree, Engine!ContentOf
<1>. QED
  BY <1>4, <1>5 DEF Engine!Settle, Engine!Settled

\* The pass works on the file at hand and leaves the others alone.
LEMMA SettlingOn ==
    ASSUME PassInv, NEW r \in Runner, Settling(run[r]),
           run[r].phase \in Busy, run'[r].phase \in Busy, run'[r].clean = run[r].clean,
           run'[r].todo = run[r].todo, run'[r].cur = run[r].cur,
           \A g \in File : g # run[r].cur => device'[g] = device[g] /\ remote'[g] = remote[g]
    PROVE  Settling(run[r])'
BY DEF Settling, Busy, Engine!Agree, PassInv, PassTyped

LEMMA AtHandSettling ==
    ASSUME PassInv, NEW r \in Runner, Settling(run[r]),
           Engine!BackupBeforeDownload(r) \/ Engine!BackupLocalFile(r) \/ Engine!OpenFile(r)
             \/ Engine!Receive(r) \/ Engine!SetLastModified(r) \/ Engine!Put(r)
    PROVE  Settling(run[r])'
<1>1. run \in [Runner -> RunState]
  BY DEF PassInv, PassTyped
<1>2. \A g \in File : g # run[r].cur => device'[g] = device[g] /\ remote'[g] = remote[g]
  <2>1. CASE Engine!BackupBeforeDownload(r) \/ Engine!BackupLocalFile(r)
    BY <2>1 DEF Engine!BackupBeforeDownload, Engine!BackupLocalFile, Engine!baseVars
  <2>2. CASE Engine!OpenFile(r) \/ Engine!Receive(r)
    BY <2>2 DEF Engine!OpenFile, Engine!Receive, Engine!baseVars, PassInv, PassTyped, Engine!Folder
  <2>3. CASE Engine!SetLastModified(r)
    BY <2>3 DEF Engine!SetLastModified, Engine!Stamped, Engine!baseVars, PassInv, PassTyped,
       Engine!Folder
  <2>4. CASE Engine!Put(r)
    BY <2>4 DEF Engine!Put, PassInv, PassTyped, Engine!Folder
  <2>. QED
    BY <2>1, <2>2, <2>3, <2>4
<1>3. run[r].phase \in Busy
  BY DEF Engine!BackupBeforeDownload, Engine!BackupLocalFile, Engine!OpenFile, Engine!Receive,
     Engine!SetLastModified, Engine!Put, Busy
<1>4. CASE ~run'[r].clean
  BY <1>4 DEF Settling
<1>5. CASE run'[r].clean
  <2>1. /\ run'[r].phase \in Busy /\ run'[r].clean = run[r].clean
        /\ run'[r].todo = run[r].todo /\ run'[r].cur = run[r].cur
    <3>1. CASE Engine!BackupBeforeDownload(r)
      BY <1>1, <3>1 DEF Engine!BackupBeforeDownload, Engine!Goto, RunState, Busy
    <3>2. CASE Engine!BackupLocalFile(r)
      BY <1>1, <1>5, <3>2 DEF Engine!BackupLocalFile, Engine!Goto, RunState, Busy
    <3>3. CASE Engine!OpenFile(r)
      BY <1>1, <3>3 DEF Engine!OpenFile, Engine!Goto, RunState, Busy
    <3>4. CASE Engine!Receive(r)
      BY <1>1, <3>4 DEF Engine!Receive, RunState, Busy
    <3>5. CASE Engine!SetLastModified(r)
      BY <1>1, <3>5 DEF Engine!SetLastModified, Engine!Goto, RunState, Busy
    <3>6. CASE Engine!Put(r)
      BY <1>1, <3>6 DEF Engine!Put, Engine!Goto, RunState, Busy
    <3>. QED
      BY <3>1, <3>2, <3>3, <3>4, <3>5, <3>6
  <2>. QED
    BY <1>2, <1>3, <2>1, SettlingOn
<1>. QED
  BY <1>4, <1>5

LEMMA ListSettling ==
    ASSUME PassInv, NEW r \in Runner, Engine!ListFolder(r)
    PROVE  Settling(run[r])'
<1>. DEFINE theirs == [f \in File |-> Engine!Seen(remote[f])]
            left == {f \in File : \/ run[r].mine[f].mtime # None \/ theirs[f].mtime # None}
<1>1. run \in [Runner -> RunState]
  BY DEF PassInv, PassTyped
<1>2. device' = device /\ remote' = remote
  BY DEF Engine!ListFolder, Engine!baseVars
<1>3. CASE run' = [run EXCEPT ![r] = Engine!IdleRun]
  BY <1>1, <1>3 DEF Settling, Engine!IdleRun
<1>4. CASE run' = [run EXCEPT ![r].phase = "next", ![r].theirs = theirs, ![r].todo = left]
  <2>. HIDE DEF theirs, left
  <2>1. run'[r].phase = "next" /\ run'[r].todo = left
    BY <1>1, <1>4 DEF RunState
  <2>2. ASSUME NEW f \in File \ left PROVE Engine!Agree(f)
    <3>1. run[r].mine[f] = Engine!Seen(device[f])
      BY DEF Engine!ListFolder, PassInv, RunOK, Knows
    <3>2. Engine!Seen(device[f]).mtime = None /\ Engine!Seen(remote[f]).mtime = None
      BY <2>2, <3>1 DEF theirs, left
    <3>3. device[f] = None /\ remote[f] = None
      BY <3>2, SeenIs DEF PassInv, PassTyped, Engine!Folder
    <3>. QED
      BY <3>3 DEF Engine!Agree, Engine!ContentOf
  <2>. QED
    BY <1>2, <2>1, <2>2 DEF Settling, Busy, Engine!Agree
<1>. QED
  BY <1>3, <1>4 DEF Engine!ListFolder, Engine!Listed

LEMMA QuietStep ==
    ASSUME PassInv, NEW r \in Runner, Settling(run[r]), Engine!RunStep(r)
    PROVE  Settling(run[r])'
<1>1. run \in [Runner -> RunState]
  BY DEF PassInv, PassTyped
<1>2. CASE Engine!Scan(r)
  BY <1>1, <1>2 DEF Engine!Scan, Engine!IdleRun, Settling
<1>3. CASE Engine!EndRun(r) \/ Engine!Stop(r)
  BY <1>1, <1>3 DEF Engine!EndRun, Engine!Stop, Engine!IdleRun, Settling
<1>4. ASSUME NEW f \in File, Engine!Settle(r, f) PROVE Settling(run[r])'
  <2>1. Engine!Agree(f)
    BY <1>4, SettledAgree
  <2>2. /\ run[r].phase = "next" /\ run'[r].phase = "next" /\ run'[r].clean = run[r].clean
        /\ run'[r].todo = run[r].todo \ {f} /\ device' = device /\ remote' = remote
    BY <1>1, <1>4 DEF Engine!Settle, Engine!MayTake, Engine!baseVars, RunState
  <2>. QED
    BY <2>1, <2>2 DEF Settling, Busy, Engine!Agree
<1>5. ASSUME NEW f \in File, Engine!TakeUpload(r, f) \/ Engine!TakeDownload(r, f)
      PROVE  Settling(run[r])'
  <2>1. PICK ph \in {"bak", "aside", "put"} : \E t : Engine!Take(r, f, ph, t)
    BY <1>5 DEF Engine!TakeUpload, Engine!TakeDownload
  <2>2. run[r].phase = "next" /\ device' = device /\ remote' = remote
    BY <1>5 DEF Engine!TakeUpload, Engine!TakeDownload, Engine!MayTake, Engine!baseVars
  <2>3. /\ run'[r].phase = ph /\ run'[r].clean = run[r].clean
        /\ run'[r].todo = run[r].todo \ {f} /\ run'[r].cur = f
    BY <1>1, <2>1 DEF Engine!Take, RunState
  <2>. QED
    BY <2>2, <2>3 DEF Settling, Busy, Engine!Agree
<1>6. CASE Engine!TransferFails(r)
  BY <1>1, <1>6 DEF Engine!TransferFails, RunState, Settling
<1>7. CASE Engine!TouchWatermark(r)
  <2>1. AtHand(run[r], run[r].cur) /\ run[r].phase = "touch" /\ run[r].cur \in File
    BY <1>7 DEF Engine!TouchWatermark, PassInv, RunOK, PassTyped, Busy
  <2>2. Engine!Agree(run[r].cur)
    BY <2>1 DEF AtHand, Engine!Agree, Engine!ContentOf
  <2>3. /\ run'[r].phase = "next" /\ run'[r].clean = run[r].clean /\ run'[r].todo = run[r].todo
        /\ device' = device /\ remote' = remote
    BY <1>1, <1>7 DEF Engine!TouchWatermark, Engine!Goto, Engine!baseVars, RunState
  <2>4. \A f \in File : Engine!Agree(f)' <=> Engine!Agree(f)
    BY <2>3 DEF Engine!Agree
  <2>. QED
    BY <2>1, <2>2, <2>3, <2>4 DEF Settling, Busy
<1>. QED
  BY <1>2, <1>3, <1>4, <1>5, <1>6, <1>7, ListSettling, AtHandSettling DEF Engine!RunStep

LEMMA QuietNext == ASSUME Alone PROVE QuietInv /\ [Engine!Next]_(Engine!vars) => QuietInv'
<1>. SUFFICES ASSUME QuietInv, [Engine!Next]_(Engine!vars) PROVE \A r \in Runner : Settling(run[r])'
  BY InvStep DEF QuietInv
<1>1. ASSUME NEW r \in Runner, Engine!RunStep(r) PROVE \A q \in Runner : Settling(run[q])'
  <2>1. Settling(run[r])'
    BY <1>1, QuietStep DEF QuietInv
  <2>. QED
    BY <2>1 DEF Alone, SoleRunner
<1>2. CASE UNCHANGED Engine!vars
  BY <1>2 DEF Engine!vars, Engine!baseVars, Engine!androidVars, QuietInv, Settling, Engine!Agree
<1>3. CASE Engine!Next /\ ~\E r \in Runner : Engine!RunStep(r)
  <2>1. run' = run
    BY <1>3, EnvStep DEF QuietInv
  <2>2. CASE \A r \in Runner : run[r].phase = "idle"
    BY <2>1, <2>2 DEF Settling
  <2>3. CASE device' = device /\ remote' = remote
    BY <2>1, <2>3 DEF QuietInv, Settling, Engine!Agree
  <2>. QED
    BY <1>3, <2>2, <2>3 DEF Alone, Engine!Next, Engine!DeviceEnv, Engine!Play, Engine!Truncate,
       Engine!Delete, Engine!MayWrite, Engine!Idle, Engine!PcUpload, Engine!Tick, Engine!androidVars
<1>. QED
  BY <1>1, <1>2, <1>3

\* Whatever earlier passes left behind, and however late the PC uploads: a pass of the app in
\* which nothing fails leaves the sides of every file equal, or no way to tell which is newer.
THEOREM QuietPassesConverge == ASSUME Alone PROVE AppSpec => QuietRunConverges
<1>. DEFINE Step == \A r \in Runner :
              (/\ run[r].phase = "next" /\ run[r].todo = {} /\ run'[r].phase = "idle"
               /\ run[r].clean)
              => \A f \in File : Engine!Agree(f)
<1>1. AppInit => QuietInv
  BY QuietInit DEF AppInit
<1>2. [Trigger(Next) \/ Pass(Engine!Next)]_appVars => [Engine!Next]_(Engine!vars)
  BY DEF Trigger, Pass, appVars, passVars, Engine!vars, Engine!baseVars, Engine!androidVars
<1>3. QuietInv => Step
  BY DEF QuietInv, Settling, Busy
<1>4. AppSpec => [][Step]_(Engine!vars)
  BY <1>1, <1>2, <1>3, QuietNext, PTL DEF AppSpec
<1>. QED
  BY <1>4 DEF QuietRunConverges, Engine!QuietRunConverges
=============================================================================

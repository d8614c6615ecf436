----------------------------- MODULE InstantSync -----------------------------
(***************************************************************************)
(* When the Android app synchronises by itself: SaveFileObserverManager,   *)
(* the foreground service that owns it and the periodic worker beside it.  *)
(*                                                                         *)
(* Three threads share dirtyRoots and scheduled: the FileObserver thread   *)
(* (onEvent), the main looper (fire, and the service's life) and the       *)
(* coroutines that run the passes, which themselves write saves and so     *)
(* raise events.  What a pass does is the module AndroidSync; here it      *)
(* scans its root, may write to it and ends.                               *)
(***************************************************************************)
EXTENDS Integers

CONSTANTS
    Root,       \* the folders observed: saves/ and states/
    None,
    MaxWrites,  \* bound on the saves written by players
    MaxNews     \* bound on the newer saves that appear in the cloud

ASSUME InstantAssumption == None \notin Root /\ MaxWrites \in Nat /\ MaxNews \in Nat

VARIABLES
    alive,      \* the service is running
    exists,     \* roots that exist on disk
    watched,    \* roots with a FileObserver: those that existed at start()
    events,     \* inotify events not yet delivered
    handling,   \* the root of the onEvent between its two statements, or None
    dirtyRoots, scheduled,
    posted,     \* fire is in the looper's queue
    firing,     \* where the running fire is
    changed,    \* the local variable of fire
    todo,       \* passes launched that have not scanned their root
    running,    \* passes that have scanned their root, per root
    news,       \* newer saves in the cloud, per root
    writes,     \* saves written so far
    newsMade,   \* newer saves that have appeared so far
    stale,      \* observation: roots written since their last scan
    owed        \* observation: those whose write raised an event

service == <<alive, watched>>
observer == <<events, handling>>
looper == <<dirtyRoots, scheduled, posted, firing, changed>>
work == <<todo, running>>
world == <<exists, news, writes, newsMade>>
ghosts == <<stale, owed>>
vars == <<service, observer, looper, work, world, ghosts>>

TypeOK ==
    /\ alive \in BOOLEAN
    /\ exists \subseteq Root /\ watched \subseteq Root
    /\ events \subseteq Root /\ handling \in Root \cup {None}
    /\ dirtyRoots \subseteq Root /\ scheduled \in BOOLEAN /\ posted \in BOOLEAN
    /\ firing \in {"no", "cleared", "copied"} /\ changed \subseteq Root
    /\ todo \subseteq Root /\ running \in [Root -> Nat]
    /\ news \in [Root -> Nat] /\ writes \in 0 .. MaxWrites /\ newsMade \in 0 .. MaxNews
    /\ stale \subseteq Root /\ owed \subseteq Root

Init ==
    /\ alive = FALSE /\ exists \in SUBSET Root /\ watched = {}
    /\ events = {} /\ handling = None
    /\ dirtyRoots = {} /\ scheduled = FALSE /\ posted = FALSE
    /\ firing = "no" /\ changed = {}
    /\ todo = {} /\ running = [r \in Root |-> 0]
    /\ news = [r \in Root |-> 0] /\ writes = 0 /\ newsMade = 0
    /\ stale = {} /\ owed = {}

-----------------------------------------------------------------------------
(* The service *)

\* onCreate: a new manager observes the folders that exist now.
Create ==
    /\ ~alive
    /\ alive' = TRUE /\ watched' = exists
    /\ UNCHANGED <<observer, looper, work, world, ghosts>>

\* onDestroy, on the main thread: stop(), then the coroutines are cancelled.
Destroy ==
    /\ alive /\ firing = "no"
    /\ alive' = FALSE /\ watched' = {}
    /\ events' = {} /\ handling' = None
    /\ dirtyRoots' = {} /\ scheduled' = FALSE /\ posted' = FALSE
    /\ todo' = {} /\ running' = [r \in Root |-> 0]
    /\ owed' = {}
    /\ UNCHANGED <<firing, changed, world, stale>>
-----------------------------------------------------------------------------
(* The observer thread *)

\* dirtyRoots.add(root)
OnEvent(r) ==
    /\ r \in events /\ handling = None
    /\ events' = events \ {r} /\ handling' = r
    /\ dirtyRoots' = dirtyRoots \cup {r}
    /\ UNCHANGED <<service, scheduled, posted, firing, changed, work, world, ghosts>>

\* if (scheduled.compareAndSet(false, true)) handler.postDelayed(fire, ...)
Arm ==
    /\ handling # None
    /\ handling' = None
    /\ scheduled' = TRUE
    /\ posted' = (posted \/ ~scheduled)
    /\ UNCHANGED <<service, events, dirtyRoots, firing, changed, work, world, ghosts>>
-----------------------------------------------------------------------------
(* The main looper: fire *)

\* Mutant: scheduled stays set until the roots are copied.
FireStartLate ==
    /\ posted /\ firing = "no"
    /\ posted' = FALSE /\ firing' = "cleared"
    /\ UNCHANGED <<service, observer, dirtyRoots, scheduled, changed, work, world, ghosts>>
\* scheduled.set(false)
FireStart ==
    /\ posted /\ firing = "no"
    /\ posted' = FALSE /\ scheduled' = FALSE /\ firing' = "cleared"
    /\ UNCHANGED <<service, observer, dirtyRoots, changed, work, world, ghosts>>

\* val changed = dirtyRoots.toSet()
FireCopy ==
    /\ firing = "cleared"
    /\ changed' = dirtyRoots /\ firing' = "copied"
    /\ UNCHANGED <<service, observer, dirtyRoots, scheduled, posted, work, world, ghosts>>

\* Mutant: roots that became dirty since the copy are cleared too.
FireRunClearingAll ==
    /\ firing = "copied"
    /\ dirtyRoots' = {}
    /\ todo' = todo \cup changed
    /\ changed' = {} /\ firing' = "no"
    /\ UNCHANGED <<service, observer, scheduled, posted, running, world, ghosts>>
\* dirtyRoots.removeAll(changed); onChange(changed) launches a pass per root
FireRun ==
    /\ firing = "copied"
    /\ dirtyRoots' = dirtyRoots \ changed
    /\ todo' = todo \cup changed
    /\ changed' = {} /\ firing' = "no"
    /\ UNCHANGED <<service, observer, scheduled, posted, running, world, ghosts>>
-----------------------------------------------------------------------------
(* Passes, of the service and of the periodic worker *)

Scanned(r) ==
    /\ stale' = stale \ {r} /\ owed' = owed \ {r}
    /\ running' = [running EXCEPT ![r] = @ + 1]

PassScan(r) ==
    /\ r \in todo
    /\ todo' = todo \ {r}
    /\ Scanned(r)
    /\ UNCHANGED <<service, observer, looper, world>>

Raise(r) == events' = IF r \in watched THEN events \cup {r} ELSE events

\* Mutant: what is downloaded once is downloaded again.
PassDownloadAgain(r) ==
    /\ running[r] > 0 /\ r \in exists
    /\ Raise(r)
    /\ UNCHANGED <<service, handling, looper, work, world, ghosts>>
\* A download writes the save: the observer sees it like any other write.
PassDownload(r) ==
    /\ running[r] > 0 /\ news[r] > 0
    /\ news' = [news EXCEPT ![r] = @ - 1]
    /\ exists' = exists \cup {r}
    /\ Raise(r)
    /\ UNCHANGED <<service, handling, looper, work, writes, newsMade, ghosts>>

PassEnd(r) ==
    /\ running[r] > 0
    /\ running' = [running EXCEPT ![r] = @ - 1]
    /\ UNCHANGED <<service, observer, looper, todo, world, ghosts>>

\* Mutant: the worker leaves the scan to a living service.
PeriodicOnlyAlone(r) ==
    /\ ~alive /\ r \in stale
    /\ Scanned(r)
    /\ UNCHANGED <<service, observer, looper, todo, world>>
\* WorkManager runs SyncWorker whether or not the service is there (taken only
\* when there is something new to scan).
Periodic(r) ==
    /\ r \in stale
    /\ Scanned(r)
    /\ UNCHANGED <<service, observer, looper, todo, world>>
-----------------------------------------------------------------------------
(* The world *)

\* A player's save is closed; its folder may be new, and then nobody watches it.
Write(r) ==
    /\ writes < MaxWrites
    /\ writes' = writes + 1
    /\ exists' = exists \cup {r}
    /\ Raise(r)
    /\ stale' = stale \cup {r}
    /\ owed' = IF r \in watched THEN owed \cup {r} ELSE owed
    /\ UNCHANGED <<service, handling, looper, work, news, newsMade>>

CloudNews(r) ==
    /\ newsMade < MaxNews
    /\ newsMade' = newsMade + 1
    /\ news' = [news EXCEPT ![r] = @ + 1]
    /\ UNCHANGED <<service, observer, looper, work, exists, writes, ghosts>>

Fire == FireStart \/ FireCopy \/ FireRun
Observe == Arm \/ \E r \in Root : OnEvent(r)

Next ==
    \/ Create \/ Destroy \/ Observe \/ Fire
    \/ \E r \in Root : \/ PassScan(r) \/ PassDownload(r) \/ PassEnd(r) \/ Periodic(r)
                       \/ Write(r) \/ CloudNews(r)

Spec == Init /\ [][Next]_vars

\* WorkManager runs the enabled periodic work again and again.
WorkManagerRuns == \A r \in Root : WF_vars(Periodic(r))
-----------------------------------------------------------------------------
(* Properties *)

\* A dirty root is on its way to a pass: fire is posted, or has not copied it
\* yet, or has copied it, or onEvent is about to post fire.
OnItsWay(r) ==
    \/ posted \/ firing = "cleared" \/ handling # None
    \/ firing = "copied" /\ r \in changed

\* scheduled is only ever true while fire is in the queue.
ScheduledIsPosted == scheduled => posted

\* No event is forgotten between the observer thread and the looper: a root
\* written since its last scan is queued, dirty and on its way, or being passed
\* (SaveFileObserverManager.kt 36-42, 51-57).
NothingForgotten ==
    \A r \in owed : r \in events \cup todo \/ (r \in dirtyRoots /\ OnItsWay(r))

\* Every write the service saw is scanned by a pass, unless the service dies.
InstantSyncs == \A r \in Root : r \in owed ~> r \notin owed

\* As long as WorkManager runs the periodic work, every write is scanned, even in
\* a folder created after the service started or while it was dead
\* (PeriodicSyncScheduler.kt 12-20).
EveryWriteScanned ==
    WorkManagerRuns => \A r \in Root : r \in stale ~> r \notin stale

Quiet == events = {} /\ dirtyRoots = {} /\ todo = {} /\ \A r \in Root : running[r] = 0

\* The events a pass raises by its own downloads do not keep passes going for
\* ever: after the last write the app falls silent.
EchoEnds == <>[]Quiet
=============================================================================

----------------------------- MODULE AndroidApp -----------------------------
(***************************************************************************)
(* The Android app for TLC, one of its two halves from the first state on: *)
(* what starts a pass (InstantSync), or what a pass does (AndroidSync).    *)
(***************************************************************************)
EXTENDS InstantSync

CONSTANTS Tolerance, File, Blank, Torn, MaxTime, MaxVersion, Runner, Faults

VARIABLES
    part,
    now, remote, made, superseded, device, synced, bak, aside, run, versions

passVars == <<now, remote, made, superseded, device, synced, bak, aside, run, versions>>
appVars == <<part, vars, passVars>>

Engine == INSTANCE AndroidSync

ASSUME AndroidAssumption ==
    /\ Faults \subseteq Engine!FaultNames /\ None \notin Runner /\ None \notin File
    /\ Tolerance \in Nat /\ MaxTime \in Nat /\ MaxVersion \in Nat
    /\ {Blank, Torn, None} \cap Nat = {} /\ None \notin {Blank, Torn} /\ None \notin Engine!Save

AppInit ==
    /\ part \in {"triggers", "passes"}
    /\ Engine!Init
    /\ Init /\ (part = "passes" => exists = {})

Trigger(A) == part = "triggers" /\ A /\ UNCHANGED <<part, passVars>>
Pass(A) == part = "passes" /\ A /\ UNCHANGED <<part, vars>>

\* The observer thread, the looper and the dispatcher keep running; players, the
\* cloud, the life of the service and WorkManager (battery, network) are free.
AppSpec ==
    /\ AppInit /\ [][Trigger(Next) \/ Pass(Engine!Next)]_appVars
    /\ WF_appVars(Trigger(Arm)) /\ WF_appVars(Trigger(Fire))
    /\ \A r \in Root : /\ WF_appVars(Trigger(OnEvent(r)))
                       /\ WF_appVars(Trigger(PassScan(r)))
                       /\ WF_appVars(Trigger(PassEnd(r)))
-----------------------------------------------------------------------------
(* Properties *)

\* A pass loses nothing: what it replaces on the device is in a .bak or a .conflict copy
\* first, an empty save never replaces one with content in the cloud, and a watermark is
\* written only when the two sides hold the same save (SyncEngine.kt 59-63, 86-123, 156-192).
PassIsSafe == Engine!ReplacedIsKept /\ Engine!EmptyNeverWins /\ Engine!WatermarkIsAncestor

\* A pass in which no transfer fails leaves the two sides of every file equal,
\* whatever earlier passes left behind (SyncEngine.sync).
QuietRunConverges == Engine!QuietRunConverges
=============================================================================

----------------------------- MODULE CloudSuite -----------------------------
(***************************************************************************)
(* The two sides of the cloud folder for TLC, one or the other from the    *)
(* first state on: the saves, which the PC and the app synchronise         *)
(* (CloudSync), or the other sources of several PCs and a console          *)
(* (CloudJob).                                                             *)
(***************************************************************************)
EXTENDS CloudSync, Sequences

VARIABLES part, played, disk, cloud, console, runs, minutes, failed

jobVars == <<played, disk, cloud, console, runs, minutes, failed>>
suiteVars == <<vars, jobVars, part>>

\* The other PC is set up by a restore, or runs the command.
Tower == {"restore", "command"}
SourceRunner == {"job", "tray"} \cup Tower
Job == INSTANCE CloudJob WITH
    Host <- {"desk", "tower"},
    Runner <- SourceRunner,
    HostOf <- [job |-> "desk", tray |-> "desk", restore |-> "tower", command |-> "tower"],
    Kind <- [r \in SourceRunner |-> r],
    Explicit <- [desk |-> <<"gone", "recents">>, tower |-> <<"recents">>],
    Implicit <- [desk |-> <<"states">>, tower |-> <<>>],
    PlayHosts <- {"desk"}, Singles <- {"recents"}, SyncAll <- {},
    Missing <- {"gone"}, States <- {"states"}, MaxPlays <- 2, MaxFaults <- 1,
    run <- runs, faults <- failed

SuiteInit ==
    /\ part \in {"saves"} \cup Tower
    /\ Init /\ Job!Init

Saves(A) == part = "saves" /\ A /\ UNCHANGED <<jobVars, part>>
Sources(A) ==
    /\ part \in Tower /\ A
    /\ \A r \in Tower \ {part} : runs'[r] = runs[r]
    /\ UNCHANGED <<vars, part>>

SuiteNext == Saves(Next) \/ Sources(Job!Next)

\* Both sides keep synchronising: the app by its periodic worker, a PC by its user, by
\* the watcher of closing emulators and by scheduled tasks; the console uploads its log
\* whenever it boots.
SuiteSpec ==
    /\ SuiteInit /\ [][SuiteNext]_suiteVars
    /\ \A p \in Pass : WF_suiteVars(Saves(PcStep(p)))
    /\ \A r \in Runner : WF_suiteVars(Saves(DroidStep(r)))
    /\ \A r \in SourceRunner : WF_suiteVars(Sources(Job!RunStep(r)))
    /\ WF_suiteVars(Sources(Job!ConsoleUpload))
-----------------------------------------------------------------------------
(* Properties *)

\* Once nobody plays, the PC, the cloud and the device end with the same saves
\* (CloudSync), and every PC with the copy of each source that the cloud has,
\* whatever failed before it in the list (run_cloud_sync_job, sync_single_file).
AllConverge == Converges /\ Job!SourcesSettle

\* Once nobody plays, the database has the minutes of each device under that device,
\* none lost and none counted twice (build_cloud_sync_sources, ingest_lrtl_dir).
PlaytimeTold == Job!PlaytimeTold
=============================================================================

------------------------------ MODULE CloudSync ------------------------------
(***************************************************************************)
(* The whole cloud synchronisation: the PC and the Android app, each as in *)
(* its own module, over one cloud folder.  Neither knows of the other but  *)
(* for what it finds in the folder, so their steps interleave freely.      *)
(*                                                                         *)
(* The stand-ins those modules have for "another device" are not used      *)
(* here: each side is the other device of the other one.                   *)
(***************************************************************************)
EXTENDS SyncBase

CONSTANTS
    Pass, BackupPasses, DeltaPasses, Policy, OverrideChoices, KeepN, PcFaults,
    Runner, DroidFaults

VARIABLES
    local, watermark, delta, backups, copies, dbWriter, pass, pruned,
    device, synced, bak, aside, run, versions

pcVars == <<local, watermark, delta, backups, copies, dbWriter, pass, pruned>>
droidVars == <<device, synced, bak, aside, run>>
vars == <<baseVars, pcVars, droidVars, versions>>

Pc == INSTANCE PcSync WITH Faults <- PcFaults
Droid == INSTANCE AndroidSync WITH Faults <- DroidFaults

Init == Pc!Init /\ Droid!Init

\* What the PC uploads, Dropbox keeps too.
PcStep(p) == Pc!PassStep(p) /\ Droid!Archive /\ UNCHANGED droidVars

PcPlayer ==
    /\ \E f \in File : Pc!PcPlay(f) \/ Pc!PcTouch(f)
    /\ UNCHANGED <<droidVars, versions>>

DroidStep(r) == Droid!RunStep(r) /\ UNCHANGED pcVars

DroidPlayer == (\E f \in File : Droid!Play(f)) /\ UNCHANGED pcVars

Next ==
    \/ \E p \in Pass : PcStep(p)
    \/ \E r \in Runner : DroidStep(r)
    \/ PcPlayer \/ DroidPlayer
    \/ Tick /\ UNCHANGED <<pcVars, droidVars, versions>>

Spec == Init /\ [][Next]_vars
-----------------------------------------------------------------------------
(* Properties *)

SameContent(s, t) ==
    \/ ContentOf(s) = ContentOf(t)
    \/ s # None /\ t # None /\ SameTime(s.mtime, t.mtime)

\* The delta cache hides f: the save on the PC is the content of its last sync under a
\* later time, so every pass decides to upload it and then skips it, while the cloud holds
\* what another device brought (save_syncer.py 198-207).
CacheHides(f) ==
    /\ local[f] # None /\ remote[f] # None /\ local[f].content = delta[f]
    /\ Decide(local[f].mtime, remote[f].mtime, watermark[f]) = "upload"

\* Once nobody plays, the PC, the cloud and the device end with the same save and stay
\* so.  Two cases are left apart, and only those: two saves written at times that cannot
\* be told apart, and a save the emulator opened on the PC without writing to it, newer
\* than the session of another device in the cloud: the pass does not compare what the
\* cloud holds, so neither side ever gets the other's (sync_saves, SyncEngine.sync).
Converges ==
    <>[](\A f \in File : (SameContent(local[f], remote[f]) \/ CacheHides(f))
                         /\ SameContent(remote[f], device[f]))
=============================================================================

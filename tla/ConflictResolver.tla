-------------------------- MODULE ConflictResolver --------------------------
(***************************************************************************)
(* The pure decision every save synchroniser of the system shares:         *)
(* `decide` of sync/conflict_resolver.py, its port `ConflictResolver` in   *)
(* the Android app, the empty-save guard and the rule that picks the       *)
(* winner of a conflict.                                                   *)
(*                                                                         *)
(* Times are whole units of a clock; a missing file has modification time  *)
(* None, and so has the last sync of a file that was never synchronised.   *)
(***************************************************************************)
EXTENDS Integers

CONSTANTS
    None,       \* "no such file", "never synchronised"
    Tolerance   \* tolerance_seconds, in time units

ASSUME ToleranceAssumption == Tolerance \in Nat
ASSUME NoneAssumption == None \notin Nat

Actions == {"upload", "download", "up_to_date", "conflict"}
Policies == {"newest", "keep_local", "keep_remote"}
Overrides == {"none", "keep_local", "keep_remote", "skip"}

ChangedSince(mtime, last) == mtime - last > Tolerance

BothChanged(local, remote, last) ==
    /\ last # None
    /\ ChangedSince(local, last)
    /\ ChangedSince(remote, last)

SameTime(local, remote) ==
    local - remote <= Tolerance /\ remote - local <= Tolerance

\* What to do with a file whose two copies have these modification times.
Decide(local, remote, last) ==
    CASE local = None /\ remote = None -> "up_to_date"
      [] local = None /\ remote # None -> "download"
      [] local # None /\ remote = None -> "upload"
      [] OTHER ->
           IF BothChanged(local, remote, last) THEN "conflict"
           ELSE IF SameTime(local, remote) THEN "up_to_date"
           ELSE IF local > remote THEN "upload" ELSE "download"

\* Mutant: only an empty cloud copy is suspect.
SuspectOnlyRemote(action, localEmpty, remoteEmpty) ==
    action # "up_to_date" /\ remoteEmpty /\ ~localEmpty
\* SAVE-GUARD-2: one side is empty, the other is not, and they differ in time.
Suspect(action, localEmpty, remoteEmpty) ==
    action # "up_to_date" /\ localEmpty # remoteEmpty

\* Who wins a conflict: the user's choice for the file, then the policy.
LocalWins(override, policy, local, remote) ==
    \/ override = "keep_local"
    \/ /\ override = "none"
       /\ \/ policy = "keep_local"
          \/ policy = "newest" /\ local >= remote
=============================================================================

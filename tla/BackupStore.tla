----------------------------- MODULE BackupStore -----------------------------
(***************************************************************************)
(* The versioned backups of one save file: backup/save_backup.py.          *)
(*                                                                         *)
(* A backup directory is a set of records [ts, content].  The file name of *)
(* a backup is its timestamp to the second, so a directory never holds two *)
(* backups with the same ts, and sorting names is sorting timestamps.      *)
(***************************************************************************)
EXTENDS Integers, FiniteSets

Contents(S) == {b.content : b \in S}

IsNewest(S, b) == \A x \in S : x.ts <= b.ts

\* Mutant: the newest ones go.
PrunedNewest(S, keepN) ==
    IF keepN <= 0 THEN S
    ELSE {b \in S : Cardinality({x \in S : x.ts < b.ts}) < keepN}
\* _prune_backups: keep the keepN newest; keepN <= 0 keeps everything.
Pruned(S, keepN) ==
    IF keepN <= 0 THEN S
    ELSE {b \in S : Cardinality({x \in S : x.ts > b.ts}) < keepN}

\* A copy named ts replaces a file of that name.
Stored(S, ts, c) == {b \in S : b.ts # ts} \cup {[ts |-> ts, content |-> c]}

\* backup_save: nothing is written when the newest backup has the same
\* content; otherwise the copy is stored and the directory pruned.
BackupSave(S, ts, c, keepN) ==
    IF \E b \in S : IsNewest(S, b) /\ b.content = c
    THEN S
    ELSE Pruned(Stored(S, ts, c), keepN)
=============================================================================

---------------------------- MODULE LibraryStore ----------------------------
(***************************************************************************)
(* The files of the library, its trash and the games table, with the few   *)
(* operations that every job of the server works on them with.             *)
(*                                                                         *)
(* A path is a folder, a stem and an extension; a content stands for the   *)
(* bytes of a file, so that equal contents are what _same_content finds.   *)
(* The table is keyed by games.source_path, which is UNIQUE.               *)
(***************************************************************************)
EXTENDS Integers, FiniteSetsExt, Functions, TLC

CONSTANTS
    None,
    Inner      \* for each archive, its members: [stem, ext, content]

VARIABLES
    disk,      \* the content of each path that exists
    trash,     \* the contents in the folders _descartados
    rows,      \* the row of each path: sha1, canonical title and platform
    purged     \* the contents deleted for good from the trash

store == <<disk, trash, rows, purged>>

At(dir, stem, ext) == [dir |-> dir, stem |-> stem, ext |-> ext]

On(p) == p \in DOMAIN disk
Has(p) == p \in DOMAIN rows

\* Mutant: the name alone.
SameName(p, q) == On(p) /\ On(q)

\* Path.exists on both, then the sizes and the SHA1 (OSError counts as different).
SameContent(p, q) == On(p) /\ On(q) /\ disk[p] = disk[q]

Put(files, p, c) == [q \in {p} \cup DOMAIN files |-> IF q = p THEN c ELSE files[q]]
Without(f, S) == Restrict(f, DOMAIN f \ S)
\* Some files that are written over those that are there.
Over(new, files) == [q \in DOMAIN new \cup DOMAIN files |-> IF q \in DOMAIN new THEN new[q] ELSE files[q]]
\* shutil.move falls back on a copy when os.rename refuses, and so replaces q.
Moved(p, q) == IF p = q THEN disk ELSE Put(Without(disk, {p}), q, disk[p])

\* The first names that a save in the way of a rename may get, a bound on those there are:
\* of them, those that are free once the ROM is at q.
BakExts == {"bak", "bak1", "bak2"}
FreeBaks(s, q) == {b \in {At(s.dir, s.stem, x) : x \in BakExts} : ~On(b) /\ b # q}
BakOf(s, q) == CHOOSE b \in FreeBaks(s, q) : TRUE

\* discard_to_trash: into the sibling folder, under a name that nothing there has.
Discard(S) ==
    /\ trash' = trash \cup {disk[p] : p \in S}
    /\ disk' = Without(disk, S)

\* What the archives among some contents hold, archives in archives included.
Opened(C) == C \cup {m.content : m \in UNION {Inner[c] : c \in C \cap DOMAIN Inner}}
Within(C) == Opened(Opened(C))

Live == Within(Range(disk))
Discarded == Within(trash)

\* cascade_delete_games_by_source_path, delete_game
DeleteRows(S) == rows' = Without(rows, S)
\* UPDATE games SET source_path WHERE id, after the rows of the new path are gone.
RowMoved(p, q) ==
    IF p = q \/ ~Has(p) THEN IF p = q THEN rows ELSE Without(rows, {q})
    ELSE Put(Without(rows, {p}), q, rows[p])

\* Mutant: what is known of a path stays.
UpsertedOnce(found) == rows @@ [p \in DOMAIN found |-> [title |-> None] @@ found[p]]

\* INSERT ... ON CONFLICT(source_path) DO UPDATE: the platform of a known row is the one
\* detected, its title stays, and a quick scan, which has no hash, keeps the hash.
Upserted(found) ==
    [p \in DOMAIN found \cup DOMAIN rows |->
        IF p \notin DOMAIN found THEN rows[p]
        ELSE [sha |-> IF Has(p) /\ found[p].sha = None THEN rows[p].sha ELSE found[p].sha,
              title |-> IF Has(p) THEN rows[p].title ELSE None,
              platform |-> found[p].platform]]

\* UPDATE games SET canonical_title, platform WHERE source_path: no row is made.
Matched(found) ==
    [p \in DOMAIN rows |->
        IF p \notin DOMAIN found THEN rows[p]
        ELSE [rows[p] EXCEPT !.title = found[p].stem, !.platform = found[p].platform]]

\* purge_trash: the daily health check, or POST /api/trash/purge, deletes for good what
\* has been in the trash for trash_purge_days; the age of a file is left open.
PurgeTrash ==
    \E old \in (SUBSET trash) \ {{}} :
        /\ trash' = trash \ old
        /\ purged' = purged \cup old
        /\ UNCHANGED <<disk, rows>>
=============================================================================

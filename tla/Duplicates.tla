----------------------------- MODULE Duplicates -----------------------------
(***************************************************************************)
(* Copies of one game: what "Revisar copias" finds and recommends, and     *)
(* what its buttons and the command resolve-duplicates do about it         *)
(* (builders/duplicates.py, ra_duplicates_service, duplicates_service).    *)
(*                                                                         *)
(* A group is a set of rows with its reasons and the entry to keep.  The   *)
(* page holds the queue of its last GET; a request reads the rows once and *)
(* then discards one file at a time, with no lock against the other ones.  *)
(***************************************************************************)
EXTENDS Library

CONSTANTS
    DiscPlatforms,     \* _MULTI_DISC_RISK_PLATFORMS
    PreferredRegions,  \* config.duplicates.preferred_regions
    KeepBothRegions,   \* config.duplicates.keep_both_regions
    Numbered           \* the stem of each disc of a title

VARIABLES
    page,      \* the groups that the browser shows
    excluded,  \* excluded_duplicates and excluded_duplicate_groups
    checked    \* the ROMs without support in the last result of the job ra_check

dupVars == <<page, excluded, checked>>
-----------------------------------------------------------------------------
(* What a name and a row say *)

Roms == {p \in DOMAIN rows : p.ext \notin SaveExts}
Tag(p) == Tags[p.stem]
Title(p) == rows[p].title
Sha(p) == rows[p].sha
PlatformOf(p) == rows[p].platform
Discs(p) == PlatformOf(p) \in DiscPlatforms
Known(ps, f(_)) == LET v == [p \in ps |-> f(p)] IN {p \in ps : v[p] # None}

\* _is_disc_data_sibling: a .bin with the .cue of its stem, an .img or .sub with its .ccd.
IsDataFile(p) ==
    \/ p.ext = "bin" /\ On([p EXCEPT !.ext = "cue"])
    \/ p.ext \in {"img", "sub"} /\ On([p EXCEPT !.ext = "ccd"])

\* is_non_canonical_variant: a hack, a translation, a subset.
IsVariant(p) == Tag(p).kind = "hack"

\* _is_disc_set: two numbers among the discs that carry one.
IsDiscSet(ps) ==
    Cardinality({Tag(p).disc : p \in {q \in ps : Tag(q).kind # "alt"}} \ {0}) > 1

\* _is_broken_disc_entry, is_broken_cue_set: a sheet that is missing, or whose data are.
IsBroken(p) == p.ext = "cue" /\ (~On(p) \/ \E d \in DataOf(p) : ~On(d))

DiscHash(p) == IF Discs(p) THEN Fact(Carrier(p), "hash") ELSE None
ChdRaw(p) == IF p.ext = "chd" THEN Fact(p, "raw") ELSE None
RawSha(p) == IF Discs(p) THEN ChdRaw(p) ELSE None
Header(p) == IF p.ext = "gba" THEN Fact(p, "header") ELSE None

\* The achievements: by the hash of a disc, by the MD5 of the row for the rest.
RA(p) == LET c == IF Discs(p) THEN DiscHash(p) ELSE Sha(p) IN
         IF c \in DOMAIN Facts THEN Facts[c].ra ELSE -1
Supported(p) == RA(p) > 0
-----------------------------------------------------------------------------
(* The groups *)

\* The rows that share a key.
Buckets(ps, key(_)) ==
    LET k == [p \in ps |-> key(p)] IN {{q \in ps : k[q] = k[p]} : p \in ps}
Several(buckets) == {b \in buckets : Cardinality(b) > 1}

Candidates == {p \in Roms : ~IsDataFile(p)}
Originals == {p \in Candidates : ~IsVariant(p)}

OnPlatform(p, x) == <<PlatformOf(p), x>>
Loose(p) == Tag(p).kind = "track"

\* The same bytes, except for the audio track that no sheet groups.
BySha == Several(Buckets({p \in Known(Candidates, Sha) : ~Loose(p)}, Sha))
\* The same title of the catalogue.
ByTitle == Several(Buckets(Known(Originals, Title), LAMBDA p : OnPlatform(p, Title(p))))
\* The same name but for the disc, in different containers.
Containers == {"zip", "7z", "chd", "bin", "cue", "img", "ccd", "sub", "gdi", "iso"}
Extensions(ps) == {p.ext : p \in ps}
ByFormat ==
    {b \in Buckets(Originals, LAMBDA p : OnPlatform(p, <<Tag(p).base, Tag(p).region, Tag(p).kind>>)) :
        Extensions(b) \subseteq Containers /\ Cardinality(Extensions(b)) > 1}
\* The same title in another region, on the platforms that have no disc sets.
ByRegion ==
    IF KeepBothRegions THEN {}
    ELSE {b \in Buckets({p \in Known(Originals, Title) : ~Discs(p)},
                        LAMBDA p : OnPlatform(p, Tags[Title(p)].base)) :
            Cardinality({Title(p) : p \in b}) > 1}
\* A digital rerelease of a game that is not a disc set.
Fuzzy(p) == Tags[IF Title(p) # None THEN Title(p) ELSE p.stem].base
ByRerelease ==
    {b \in Several(Buckets(Originals, LAMBDA p : OnPlatform(p, Fuzzy(p)))) :
        (\E p \in b : Tag(p).kind = "alt") /\ ~IsDiscSet(b)}
ByDisc == Several(Buckets(Known(Candidates, DiscHash), LAMBDA p : OnPlatform(p, DiscHash(p))))
ByRaw == Several(Buckets(Known(Candidates, RawSha), RawSha))
ByHeader == Several(Buckets(Known(Roms, Header), LAMBDA p : OnPlatform(p, Header(p))))

\* build_plan: a matched ROM goes to its title, with the number of its disc; a hack keeps
\* its name.  What is there, or what else wants to be, is a conflict.
Target(p) ==
    IF IsVariant(p) THEN p
    ELSE At(IF Discs(p) THEN Tags[Title(p)].base ELSE p.dir,
            IF <<Title(p), Tag(p).disc>> \in DOMAIN Numbered THEN Numbered[<<Title(p), Tag(p).disc>>]
            ELSE Title(p), p.ext)
Moving == {p \in Known(Roms, Title) : Target(p) # p}
OnDisk == {p \in Moving : On(Target(p))}
ByTarget == Several(Buckets(Moving \ OnDisk, Target))

\* Every pass over the rows, under the reason it gives.
Found == [sha1 |-> BySha, title |-> ByTitle, crossfmt |-> ByFormat, region |-> ByRegion,
          alt_release |-> ByRerelease, disc_hash |-> ByDisc, chd_raw |-> ByRaw,
          header |-> ByHeader, collision |-> ByTarget]

\* The union-find: what a chain of links reaches.
Joined(ps, links) == ps \cup UNION {b \in links : b \cap ps # {}}
Chains(links) == {Joined(Joined(Joined({p}, links), links), links) : p \in Roms}
Clusters(found) == Chains(UNION Range(found))

Linked(C, buckets) == C \cap UNION buckets # {}
Distinct(C, f(_)) == Cardinality({f(p) : p \in Known(C, f)})
Repeats(C, f(_)) == Distinct(C, f) < Cardinality(Known(C, f))
Mixed(C) == (\E p \in C : Supported(p)) /\ (\E p \in C : ~Supported(p))

OfPlan(C, found) == {r \in {"disk"} : C \cap OnDisk # {}}
                    \cup {r \in {"collision"} : Linked(C, found.collision)}

\* Why the rows of a cluster are copies of one game; a set of discs is not.
Reasons(C, found) ==
    LET set == IsDiscSet(C) IN
    {r \in {"sha1"} : Repeats(C, Sha)}
    \cup {r \in {"title"} : Distinct(C, Sha) > 1 /\ Known(C, Title) # {} /\ ~set}
    \cup {r \in {"ra"} : Mixed(C)}
    \cup {r \in {"crossfmt"} : Linked(C, found.crossfmt) /\ Cardinality(Extensions(C)) > 1 /\ ~set}
    \cup {r \in {"header"} : Linked(C, found.header) /\ ~Repeats(C, Sha) /\ ~Repeats(C, Title)}
    \cup {r \in {"region"} : Linked(C, found.region) /\ ~set}
    \cup {r \in {"disc_hash"} : Linked(C, found.disc_hash) /\ ~set}
    \cup {r \in {"chd_raw"} : Linked(C, found.chd_raw) /\ ~set}
    \cup {r \in {"alt_release"} : Linked(C, found.alt_release) /\ ~set}
    \cup OfPlan(C, found)
-----------------------------------------------------------------------------
(* The entry to keep *)

Bit(b) == IF b THEN 1 ELSE 0
FormatTier(p) == CASE p.ext = "chd" -> 0 [] p.ext = "ccd" -> 2 [] OTHER -> 1

\* The size of the dump that the catalogue knows, if a member is that one.
SizeDiffers(p, ps) ==
    LET good == {q \in ps : Sha(q) \in DOMAIN Facts /\ Facts[Sha(q)].good} IN
    good # {} /\ \A q \in good : Facts[Sha(q)].size # Fact(p, "size")

RegionTier(p, reasons) ==
    IF "region" \in reasons THEN
        (CHOOSE i \in 1 .. Len(PreferredRegions) + 1 :
            IF i > Len(PreferredRegions) THEN Tag(p).region \notin Range(PreferredRegions)
            ELSE PreferredRegions[i] = Tag(p).region)
    ELSE Bit(Tag(p).region # "es")

\* _review_entry_sort_key: intact, the size of the catalogue, the format, RetroAchievements,
\* the folder, and for a .chd of the same data its name; then region, variant and name.
SortKey(p, ps, reasons) ==
    <<Bit(IsBroken(p)), Bit(SizeDiffers(p, ps)), FormatTier(p), Bit(~Supported(p)),
      Bit(Folder[p.dir] # PlatformOf(p)),
      Bit("chd_raw" \in reasons /\ Tag(p).kind = "pre"),
      RegionTier(p, reasons), Bit(Tag(p).kind \in {"hack", "alt", "copy"}), Tag(p).rank>>

Before(s, t) == \E i \in DOMAIN s : s[i] < t[i] /\ \A j \in 1 .. i - 1 : s[j] = t[j]
Least(some, key) == CHOOSE p \in some : \A q \in some \ {p} : ~Before(key[q], key[p])
\* The first of some entries of a group.
First(some, ps, reasons) == Least(some, [p \in some |-> SortKey(p, ps, reasons)])

\* platform::title, which is what a user excludes.
GroupKey(ps) ==
    LET named == IF Known(ps, Title) # {} THEN {Title(p) : p \in Known(ps, Title)}
                 ELSE {p.stem : p \in ps}
    IN <<{PlatformOf(p) : p \in ps}, Tags[CHOOSE s \in named : TRUE].base>>

Group(ps, reasons, suffix) ==
    [key |-> <<GroupKey(ps), suffix>>, reasons |-> reasons, entries |-> ps,
     best |-> First(ps, ps, reasons)]

\* A set of discs with a copy of one of them: only those of the same bytes compete.
Competing(C, found) ==
    IF IsDiscSet(C) /\ Repeats(C, Sha)
    THEN {<<b, {"sha1"} \cup OfPlan(b, found), Sha(CHOOSE p \in b : TRUE)>> :
              b \in Several(Buckets(Known(C, Sha), Sha))}
    ELSE {<<C, Reasons(C, found), None>>}
GroupsOf(C, found) == {Group(c[1], c[2], c[3]) : c \in {x \in Competing(C, found) : x[2] # {}}}

\* _build_review_queue
QueueOf(found) == {g \in UNION {GroupsOf(C, found) : C \in Clusters(found)} : g.key \notin excluded}
Queue == QueueOf(Found)
-----------------------------------------------------------------------------
(* What the command may do with the copies of a group *)

Rank == [eu |-> 1, us |-> 2, jp |-> 3]
Arcade == {"mame"}

\* _eligible_entries: nothing of an arcade, of a disc or without a platform.
Eligible(g) ==
    {p \in g.entries : PlatformOf(p) \notin {None} \cup Arcade \cup DiscPlatforms}

\* content_id: the hash of the row, or of the one member of a .zip that can be read.
ContentId(p) ==
    IF p.ext # "zip" THEN Sha(p)
    ELSE IF On(p) /\ disk[p] \in DOMAIN Inner /\ Cardinality(Inner[disk[p]]) = 1
         THEN (CHOOSE m \in Inner[disk[p]] : TRUE).content
         ELSE None

FirstOf(some, g) == IF g.best \in some THEN g.best ELSE First(some, g.entries, g.reasons)

\* plan_cluster_duplicates
ContentPlan(g) ==
    {[keep |-> FirstOf(b, g), losers |-> b \ {FirstOf(b, g)}] :
        b \in Several(Buckets(Known(Eligible(g), ContentId), ContentId))}

\* plan_variant_duplicates: a prerelease goes for a final one, a revision for a later one of
\* its region, a region for a better one; a name without region stays.
VariantPlan(g) ==
    LET named == {p \in Eligible(g) : Tag(p).kind # "hack"}
        final == {p \in named : Tag(p).kind # "pre"}
        older(p) == \E q \in final : /\ Tag(q).base = Tag(p).base /\ Tag(q).kind = Tag(p).kind
                                     /\ Tag(q).region = Tag(p).region /\ Tag(q).rev > Tag(p).rev
        latest == {p \in final : ~older(p)}
        ranked == {p \in latest : Tag(p).region \in DOMAIN Rank}
        worse(p) == \E q \in ranked : /\ Tag(q).base = Tag(p).base
                                      /\ Rank[Tag(q).region] < Rank[Tag(p).region]
        of(base, ps) == {p \in ps : Tag(p).base = base}
        best(base) == {p \in of(base, ranked) : ~worse(p)}
        among(base) == IF best(base) # {} THEN best(base) ELSE of(base, latest)
        losers(base) == of(base, named \ latest) \cup {p \in of(base, ranked) : worse(p)}
    IN  {[keep |-> FirstOf(among(b), g), losers |-> losers(b)] :
            b \in {Tag(p).base : p \in {q \in final : losers(Tag(q).base) # {}}}}
-----------------------------------------------------------------------------
(* Chores *)

Chore(do, at, to, of, next) == [do |-> do, at |-> at, to |-> to, of |-> of, next |-> next]
\* A chore that discards knows the file its request keeps, if it keeps one.
DiscardingFor(kept, ps) == Each(ps, LAMBDA p : Chore("discard", p, None, kept, <<>>))
Discarding(ps) == DiscardingFor({}, ps)

\* Mutant: the file to keep is not looked for.
KeepUnchecked(t) ==
    /\ Doing(t, "keep")
    /\ Then(t, DiscardingFor({Now(t).at}, Now(t).of) \o Later(t))
    /\ UNCHANGED store
\* resolve_duplicate_ra: nothing goes when the file to keep is not there.
Keep(t) ==
    /\ Doing(t, "keep")
    /\ Then(t, IF On(Now(t).at) THEN DiscardingFor({Now(t).at}, Now(t).of) \o Later(t) ELSE Later(t))
    /\ UNCHANGED store

OnDevice(p) == p.dir = "device"

\* _discard_file: its data go with a sheet, once its row is gone.
DiscardFile(t) ==
    LET p == Now(t).at IN
    /\ Doing(t, "discard") /\ On(p) /\ ~OnDevice(p)
    /\ Discard({p})
    /\ Then(t, <<Chore("forget", p, disk[p], {},
                       Discarding({d \in DataOf(p) : On(d)}) \o Now(t).next)>> \o Later(t))
    /\ UNCHANGED <<rows, purged>>

\* A file of the console is deleted there, if a device answers.
DiscardOnDevice(t) ==
    LET p == Now(t).at IN
    /\ Doing(t, "discard") /\ OnDevice(p)
    /\ \/ /\ Does("adb")
          /\ disk' = Without(disk, {p}) /\ DeleteRows({p})
          /\ purged' = purged \cup {disk[q] : q \in {p} \cap DOMAIN disk}
          /\ Then(t, Now(t).next \o Later(t))
       \/ Then(t, Later(t)) /\ UNCHANGED <<disk, rows, purged>>
    /\ UNCHANGED trash

DiscardGone(t) ==
    /\ Doing(t, "discard") /\ ~On(Now(t).at) /\ ~OnDevice(Now(t).at)
    /\ DeleteRows({Now(t).at})
    /\ Then(t, Now(t).next \o Later(t))
    /\ UNCHANGED <<disk, trash, purged>>

DiscardFails(t) ==
    /\ Doing(t, "discard") /\ Fault("move") /\ On(Now(t).at)
    /\ Then(t, Later(t)) /\ UNCHANGED store

Forget(t) ==
    /\ Doing(t, "forget")
    /\ DeleteRows({Now(t).at})
    /\ Then(t, Now(t).next \o Later(t))
    /\ UNCHANGED <<disk, trash, purged>>

\* The row cannot be deleted: the file comes back, if it is still in the trash.
ForgetFails(t) ==
    /\ Doing(t, "forget") /\ Fault("db")
    /\ IF Now(t).to \in trash
       THEN disk' = Put(disk, Now(t).at, Now(t).to) /\ trash' = trash \ {Now(t).to}
       ELSE UNCHANGED <<disk, trash>>
    /\ Then(t, Later(t)) /\ UNCHANGED <<rows, purged>>

\* delete_duplicate and the entries of delete_all_duplicates: the file alone.
Drop(t) ==
    LET p == Now(t).at IN
    /\ Doing(t, "drop") /\ ~OnDevice(p)
    /\ IF On(p) THEN Discard({p}) ELSE UNCHANGED <<disk, trash>>
    /\ Then(t, <<Chore("forget", p, None, {}, <<>>)>> \o Later(t))
    /\ UNCHANGED <<rows, purged>>
-----------------------------------------------------------------------------
(* Saves *)

Rom(p) == p.ext \notin SaveExts \cup BakExts
\* Mutant: a ROM that goes too keeps the saves where they are.
SharedByAny(p, dropped) == \E f \in DOMAIN disk : Rom(f) /\ f # p /\ f.dir = p.dir /\ f.stem = p.stem
\* Another ROM of the name stays, and so do its saves.
Shared(p, dropped) ==
    \E f \in DOMAIN disk : Rom(f) /\ f # p /\ f.dir = p.dir /\ f.stem = p.stem /\ f \notin dropped
Carried(s, keep) == At(keep.dir, keep.stem, s.ext)

\* Mutant: whatever the destination holds.
NoClash(keep, p) == FALSE
Clash(keep, p) == \E s \in SavesAt(p) : On(Carried(s, keep)) /\ disk[Carried(s, keep)] # disk[s]

\* resolve_cluster_duplicates, one loser: its saves take the name of the file to keep, or
\* it stays; when saves are not carried, a loser with saves of its own stays.
Fates(keep, p, dropped) ==
    LET saves == SavesAt(p) IN
    CASE OnDevice(keep) \/ OnDevice(p) -> {"goes"}
      [] ~On(keep) -> {"stays"}
      [] dropped = None -> {IF saves = {} THEN "goes" ELSE "stays"}
      [] keep.stem = p.stem \/ Shared(p, dropped) \/ saves = {} -> {"goes"}
      [] Clash(keep, p) -> {"stays"}
      [] OTHER -> {"carried"} \cup {f \in {"stays"} : Fault("move")}

Loser(t, p) ==
    LET keep == Now(t).at
        saves == SavesAt(p) IN
    /\ Doing(t, "cluster") /\ p \in Now(t).of
    /\ \E fate \in Fates(keep, p, Now(t).to) :
         /\ disk' = IF fate = "carried"
                    THEN Over([s \in {Carried(x, keep) : x \in saves} |->
                                  disk[CHOOSE x \in saves : Carried(x, keep) = s]], Without(disk, saves))
                    ELSE disk
         /\ Then(t, <<[Now(t) EXCEPT !.of = @ \ {p},
                                     !.next = IF fate = "stays" THEN @ ELSE Append(@, p)]>> \o Later(t))
    /\ UNCHANGED <<trash, rows, purged>>

LosersDone(t) ==
    /\ Doing(t, "cluster") /\ Now(t).of = {}
    /\ Then(t, IF Now(t).next = <<>> THEN Later(t)
               ELSE <<Chore("keep", Now(t).at, None, Range(Now(t).next), <<>>)>> \o Later(t))
    /\ UNCHANGED store
-----------------------------------------------------------------------------
(* The conflicts of the plan *)

Renaming(p, q, guarded) == <<Chore("rename", p, q, guarded, <<>>)>>

\* apply_ra_conflicts: the plan is made when its turn comes.
PlanConflicts(t) ==
    /\ Doing(t, "conflicts")
    /\ Then(t, Each({p \in OnDisk : ~Discs(p)}, LAMBDA p : Chore("disk", p, Target(p), {}, <<>>))
               \o Each({b \in ByTarget : \A p \in b : ~Discs(p)},
                       LAMBDA b : Chore("collision", None, Target(CHOOSE p \in b : TRUE), b, <<>>))
               \o Later(t))
    /\ UNCHANGED store

RaAt(p) == IF Has(p) THEN RA(p) ELSE -1
\* The one with less achievements goes, the file of the plan when they have the same.
DiskConflict(t) ==
    LET p == Now(t).at
        q == Now(t).to
    IN
    /\ Doing(t, "disk")
    /\ Then(t, (IF ~On(p) \/ (RaAt(p) <= 0 /\ RaAt(q) <= 0) THEN <<>>
                ELSE IF RaAt(q) < RaAt(p) THEN <<Chore("discard", q, None, {}, Renaming(p, q, {}))>>
                ELSE Discarding({p})) \o Later(t))
    /\ UNCHANGED store

Collision(t) ==
    LET some == {p \in Now(t).of : On(p)} IN
    /\ Doing(t, "collision")
    /\ IF \A p \in some : RaAt(p) <= 0 THEN Then(t, Later(t))
       ELSE \E p \in some :
              /\ \A q \in some : RaAt(q) <= RaAt(p)
              /\ Then(t, Discarding(some \ {p}) \o Renaming(p, Now(t).to, {p}) \o Later(t))
    /\ UNCHANGED store

\* rename_rom_with_saves, and then its row; a save of the new name is set aside.
Rename(t) ==
    LET p == Now(t).at
        q == Now(t).to
        saves == SavesAt(p)
        old == {s \in {Carried(x, q) : x \in saves} : On(s)} \ saves
    IN
    /\ Doing(t, "rename")
    /\ IF ~On(p) \/ p = q \/ On(q) THEN UNCHANGED <<disk, rows>> /\ Then(t, Later(t))
       ELSE /\ \A s \in old : FreeBaks(s, q) # {}
            /\ disk' = Over([s \in {Carried(x, q) : x \in saves} |-> disk[CHOOSE x \in saves : Carried(x, q) = s]],
                       Over([b \in {BakOf(s, q) : s \in old} |-> disk[CHOOSE s \in old : BakOf(s, q) = b]],
                            Put(Without(disk, saves \cup {p}), q, disk[p])))
            /\ IF Has(q) /\ Has(p) THEN rows' = rows /\ Then(t, IF Now(t).of = {} THEN <<>> ELSE Later(t))
               ELSE /\ rows' = IF Has(p) THEN RowMoved(p, q) ELSE rows
                    /\ Then(t, Later(t))
    /\ UNCHANGED <<trash, purged>>
-----------------------------------------------------------------------------
(* Requests *)

\* GET /api/review-queue
OpenQueue(queue) ==
    /\ Does("review") /\ page # queue
    /\ page' = queue
    /\ UNCHANGED <<store, work, excluded, checked>>

ShaKey(p) == <<None, Sha(p)>>
\* POST /api/review-queue/exclude, a group; POST /api/duplicates/exclude, a SHA1.
Exclude ==
    /\ Does("exclude")
    /\ excluded' \in {excluded \cup {x} : x \in {g.key : g \in page} \cup {ShaKey(p) : p \in Roms}}
    /\ excluded' # excluded
    /\ UNCHANGED <<store, work, page, checked>>
\* POST /api/duplicates/exclusions/remove
Include ==
    /\ Does("exclude")
    /\ \E x \in excluded : excluded' = excluded \ {x}
    /\ UNCHANGED <<store, work, page, checked>>

KeepChore(g, p) == Chore("keep", p, None, g.entries \ {p}, <<>>)
InPlan(g) == g.reasons \cap {"disk", "collision"} # {}

\* verify_group_by_disc_hash: the .chd of the same data, or the same hash of the disc.  The
\* files are brought to one folder, and a data file that is there already is not brought.
Staged(d, p) ==
    LET same == {e \in DataOf(p) : e.stem = d.stem /\ e.ext = d.ext} IN
    IF same = {} THEN d ELSE CHOOSE e \in same : TRUE
StagedHash(q, p) ==
    LET c == Staged(Carrier(q), p) IN IF On(q) /\ On(c) THEN FactsAt(c).hash ELSE None
Verified(p, q) ==
    \/ ChdRaw(p) # None /\ ChdRaw(q) = ChdRaw(p)
    \/ StagedHash(p, p) # None /\ StagedHash(q, p) = StagedHash(p, p)

\* POST /api/resolve-duplicate-ra, from the page, for what the page recommends or the user
\* prefers; for the PlayStation, once POST /api/verify-duplicate-hash has answered.
Resolve(t) ==
    \E g \in page :
        /\ Does("review") /\ ~InPlan(g)
        /\ \E p \in IF Does("choose") THEN g.entries ELSE {g.best} :
             LET losers == {q \in g.entries \ {p} : g.key[1][1] = {"psx"} => Verified(p, q)} IN
             losers # {} /\ Start(t, <<KeepChore([g EXCEPT !.entries = losers], p)>>)
        /\ UNCHANGED <<store, dupVars>>

ConflictsChore == <<Chore("conflicts", None, None, {}, <<>>)>>

\* POST /api/review-queue/apply-all, over a queue of its own.  Of the requests that go over
\* the whole list one runs at a time: a page waits for the answer.
ApplyAll(t, queue) ==
    /\ Does("applyAll") /\ Idle
    /\ Start(t, Each({g \in queue : ~InPlan(g) /\ Cardinality(g.entries) > 1}, LAMBDA g : KeepChore(g, g.best))
                \o (IF \E g \in queue : InPlan(g) THEN ConflictsChore ELSE <<>>))
    /\ UNCHANGED <<store, dupVars>>

\* POST /api/apply-ra-conflicts
ApplyConflicts(t) == Does("conflicts") /\ Idle /\ Start(t, ConflictsChore) /\ UNCHANGED <<store, dupVars>>

\* resolve-duplicates --by-content, or --by-variant, which carries no save.
ByCommand(t, plans, carry) ==
    LET dropped == IF carry THEN UNION {x.losers : x \in plans} ELSE None IN
    /\ Start(t, Each(plans, LAMBDA x : Chore("cluster", x.keep, dropped, x.losers, <<>>)))
    /\ UNCHANGED <<store, dupVars>>
ByContent(t, queue) == Does("byContent") /\ ByCommand(t, UNION {ContentPlan(g) : g \in queue}, TRUE)
ByVariant(t, queue) == Does("byVariant") /\ ByCommand(t, UNION {VariantPlan(g) : g \in queue}, FALSE)

PathRank(p) == <<Tag(p).rank>>
\* get_duplicate_groups: rows of one SHA1, in the order of their paths.
ShaGroups == {b \in Several(Buckets(Known(Roms, Sha), Sha)) : ShaKey(CHOOSE p \in b : TRUE) \notin excluded}
AllButFirst(b) == {p \in b : \E q \in b : Before(PathRank(q), PathRank(p))}
Dropping(ps) == Each(ps, LAMBDA p : Chore("drop", p, None, {}, <<>>))

\* POST /api/duplicates/delete-all, and /delete for one row
DeleteAll(t) ==
    /\ Does("deleteAll")
    /\ Start(t, Dropping(UNION {AllButFirst(b) : b \in ShaGroups}))
    /\ UNCHANGED <<store, dupVars>>
Delete(t) ==
    /\ Does("delete")
    /\ \E p \in Roms : Start(t, Dropping({p}))
    /\ UNCHANGED <<store, dupVars>>

CheckSupport ==
    /\ Does("noSupport") /\ checked' = {p \in Roms : ~Supported(p)} /\ checked' # checked
    /\ UNCHANGED <<store, work, page, excluded>>
\* POST /api/ra-check/discard-no-support: what the last check of RetroAchievements said.
DiscardUnsupported(t) ==
    /\ checked # {}
    /\ Start(t, Discarding(checked))
    /\ UNCHANGED <<store, dupVars>>

DuplicatesChore(t) ==
    \/ Keep(t) \/ DiscardFile(t) \/ DiscardOnDevice(t) \/ DiscardGone(t) \/ DiscardFails(t)
    \/ Forget(t) \/ ForgetFails(t) \/ Drop(t) \/ (\E p \in Roms : Loser(t, p)) \/ LosersDone(t)
    \/ PlanConflicts(t) \/ DiskConflict(t) \/ Collision(t) \/ Rename(t)

\* What is done with the queue as it is now.
WithQueue(queue) ==
    \/ OpenQueue(queue)
    \/ \E t \in Threads : ApplyAll(t, queue) \/ ByContent(t, queue) \/ ByVariant(t, queue)

DuplicatesStep ==
    \/ WithQueue(Queue) \/ Exclude \/ Include \/ CheckSupport
    \/ \E t \in Threads :
         \/ Resolve(t) \/ ApplyConflicts(t) \/ DeleteAll(t) \/ Delete(t) \/ DiscardUnsupported(t)
         \/ DuplicatesChore(t) /\ UNCHANGED dupVars
=============================================================================

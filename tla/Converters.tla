------------------------------ MODULE Converters ------------------------------
(***************************************************************************)
(* Converting and extracting: convert-chd, clean-redundant-chd,            *)
(* convert-cso, convert-n64, extract-zip, cleanup-zips, cleanup-cue-bin,   *)
(* generate-cues and generate-m3u, as jobs of the server                   *)
(* (handlers/esde) or commands of the console.                             *)
(*                                                                         *)
(* A converter writes the new file beside the old one and, when asked to,  *)
(* deletes the old one for good: not to the trash.  A file is "torn" while *)
(* it is written and when its writer is stopped.                           *)
(***************************************************************************)
EXTENDS Library

CONSTANTS
    Made,        \* of a source: what chdman, maxcso or the byte swap make of it
    SheetFor,    \* of a .bin with the sectors of a CD: the .cue of one track for it
    StagedStem,  \* of a stem: the one of the corrected copy of its .cue
    ListOf       \* of the stems and extensions of some discs: their playlist

AsExt(p, ext) == [p EXCEPT !.ext = ext]
Writes(p, c) == disk' = Put(disk, p, c) /\ UNCHANGED <<trash, rows, purged>>
Removes(p) == disk' = Without(disk, {p}) /\ UNCHANGED <<trash, rows, purged>>
Task(do, p, del) == [do |-> do, at |-> p, del |-> del]
TasksOf(do, S, del) == Each(S, LAMBDA p : Task(do, p, del))
Source(t) == Now(t).at
Drops(t) == Now(t).del
Going(t, do) == <<[Now(t) EXCEPT !.do = do]>> \o Later(t)
-----------------------------------------------------------------------------
(* chdman: convert_to_chd and convert_bin_to_chd *)

Chd(p) == AsExt(p, "chd")
StagedCue(p) == At(p.dir, StagedStem[p.stem], "cue")
StagedText(p) == IF p.ext = "cue" THEN disk[p] ELSE SheetFor[disk[p]]
Whole(p) == On(p) /\ \A d \in DataOf(p) : On(d)
HashOf(p) == Fact(Carrier(p), "hash")

\* _unclaimed_bins: no .cue names them; a .gdi does not count.
Unclaimed == {p \in DOMAIN disk : p.ext = "bin"} \ UNION {DataOf(s) : s \in {q \in Sheets : q.ext = "cue"}}
Cues == {p \in DOMAIN disk : p.ext = "cue"}
\* find_bare_bin_files: those with a hash that can be computed.
BareBins == {p \in Unclaimed : disk[p] \in DOMAIN SheetFor /\ Fact(p, "hash") # None}

\* The job convert_chd looks for the bins without a sheet at once; the command, which is a
\* process of its own, when it is done with the sheets.
ConvertChd(t, del) ==
    /\ Does("chd")
    /\ \E bins \in {TasksOf("chd", BareBins, del), <<Task("bare", None, del)>>} :
         Start(t, TasksOf("chd", Cues, del) \o bins)
    /\ UNCHANGED store
Bare(t) ==
    /\ Doing(t, "bare")
    /\ Then(t, TasksOf("chd", BareBins, Drops(t)) \o Later(t)) /\ UNCHANGED store

\* The data first, the sheet last.
Unlinks(p) == TasksOf("unlink", DataOf(p), TRUE) \o <<Task("unlink", p, TRUE)>>
Unlink(t) == Doing(t, "unlink") /\ Removes(Source(t)) /\ Then(t, Later(t))

\* The hash of RetroAchievements of both, which must be known.
SameGame(p) == HashOf(p) # None /\ HashOf(p) = Fact(Chd(p), "hash")

\* There is a .chd: the source goes when it is verified, and the .chd stays anyway.
ChdThere(t) ==
    /\ Doing(t, "chd") /\ On(Source(t)) /\ On(Chd(Source(t)))
    /\ Then(t, (IF Drops(t) /\ SameGame(Source(t)) THEN Unlinks(Source(t)) ELSE <<>>) \o Later(t))
    /\ UNCHANGED store
ChdMissing(t) ==
    /\ Doing(t, "chd") /\ On(Source(t)) /\ ~On(Chd(Source(t))) /\ ~Whole(Source(t))
    /\ Then(t, Later(t)) /\ UNCHANGED store
\* A sheet that is gone ends the job: read_text raises; a .bin is passed over.
ChdGone(t) ==
    /\ Doing(t, "chd") /\ ~On(Source(t))
    /\ Then(t, IF Source(t).ext = "cue" THEN <<>> ELSE Later(t)) /\ UNCHANGED store
\* _stage_corrected_cue, and chdman opens its output.
Stage(t) ==
    LET p == Source(t) IN
    /\ Doing(t, "chd") /\ Whole(p) /\ ~On(Chd(p))
    /\ Writes(StagedCue(p), StagedText(p))
    /\ Then(t, Going(t, "open"))
ChdmanOpens(t) ==
    LET p == Source(t) IN
    /\ Doing(t, "open")
    /\ IF On(Chd(p)) \/ ~Whole(StagedCue(p))
       THEN Removes(StagedCue(p)) /\ Then(t, Later(t))
       ELSE Writes(Chd(p), "torn") /\ Then(t, Going(t, "chdman"))
\* It ends; when it fails its output stays.  The staged .cue goes either way.
Chdman(t) ==
    LET p == Source(t) IN
    /\ Doing(t, "chdman")
    /\ \/ /\ Whole(p)
          /\ disk' = Put(Without(disk, {StagedCue(p)}), Chd(p), Made[disk[p]])
          /\ UNCHANGED <<trash, rows, purged>> /\ Then(t, Going(t, "verify"))
       \/ /\ Fault("chdman") \/ ~Whole(p)
          /\ Removes(StagedCue(p)) /\ Then(t, Later(t))
\* _verify_ra_hash: the new .chd goes when its hash is another one, and only a hash that
\* was computed lets the source go.
VerifyChd(t) ==
    LET p == Source(t) IN
    /\ Doing(t, "verify")
    /\ IF HashOf(p) # None /\ ~SameGame(p) THEN Removes(Chd(p)) /\ Then(t, Later(t))
       ELSE Then(t, (IF Drops(t) /\ SameGame(p) THEN Unlinks(p) ELSE <<>>) \o Later(t)) /\ UNCHANGED store

\* clean-redundant-chd, on the device: the .chd is whole and has the hash of the source.
CleanRedundant(t) ==
    /\ Does("clean")
    /\ Start(t, TasksOf("clean", {p \in Cues : On(Chd(p))}, TRUE))
    /\ UNCHANGED store
Clean(t) ==
    LET p == Source(t)
        good == Whole(p) /\ On(Chd(p)) /\ disk[Chd(p)] # "torn" /\ SameGame(p) IN
    /\ Doing(t, "clean")
    /\ Then(t, (IF good THEN <<Task("unlink", p, TRUE)>> \o TasksOf("unlink", DataOf(p), TRUE) ELSE <<>>) \o Later(t))
    /\ UNCHANGED store
\* POST /api/cleanup-cue-bin: the sheets that have a .chd of their name, whatever is in it.
CleanupCueBin(t) ==
    /\ Does("cleanCueBin")
    /\ Start(t, TasksOf("cueBin", Cues, TRUE))
    /\ UNCHANGED store
CueBin(t) ==
    LET p == Source(t) IN
    /\ Doing(t, "cueBin")
    /\ Then(t, (IF On(p) /\ On(Chd(p)) THEN <<Task("unlink", p, TRUE)>> \o TasksOf("unlink", DataOf(p), TRUE)
                ELSE <<>>) \o Later(t))
    /\ UNCHANGED store
-----------------------------------------------------------------------------
(* maxcso, the byte swap of Nintendo 64 and the archives *)

\* The job convert_cso, one at a time, leaves the sets of arcade alone; convert-n64 takes
\* one file and never deletes it.
ConvertOthers(t, del) ==
    \/ /\ Does("cso") /\ Idle
       /\ Start(t, TasksOf("other", {p \in DOMAIN disk : p.ext = "cso" /\ Folder[p.dir] # "arcade"}, del))
       /\ UNCHANGED store
    \/ /\ Does("n64")
       /\ \E p \in {q \in DOMAIN disk : q.ext = "v64"} : Start(t, <<Task("other", p, FALSE)>>)
       /\ UNCHANGED store
Output(p) == AsExt(p, IF p.ext = "cso" THEN "iso" ELSE "z64")
OtherOpens(t) ==
    LET p == Source(t) IN
    /\ Doing(t, "other")
    /\ IF On(Output(p)) \/ ~On(p) THEN UNCHANGED store /\ Then(t, Later(t))
       ELSE Writes(Output(p), "torn") /\ Then(t, Going(t, "swap"))
\* maxcso leaves what it has written when it fails or is killed after 300 seconds; the byte
\* swap deletes it.
OtherEnds(t) ==
    LET p == Source(t) IN
    /\ Doing(t, "swap")
    /\ \/ On(p) /\ Writes(Output(p), Made[disk[p]])
          /\ Then(t, (IF Drops(t) THEN <<Task("unlink", p, TRUE)>> ELSE <<>>) \o Later(t))
       \/ /\ Fault("chdman") /\ Then(t, Later(t))
          /\ IF p.ext = "cso" THEN UNCHANGED store ELSE Removes(Output(p))

\* extract_zip: not the archive of a disc of a set, of an arcade folder, or with a sheet in it.
Extractable(p) ==
    /\ p.ext = "zip" /\ Tags[p.stem].disc = 0 /\ Folder[p.dir] # "arcade"
    /\ disk[p] \in DOMAIN Inner /\ \A m \in Inner[disk[p]] : m.ext \notin {"cue", "gdi"}
Extract(t, del) ==
    /\ Does("extract") /\ Idle
    /\ Start(t, TasksOf("zip", {p \in DOMAIN disk : Extractable(p)}, del))
    /\ UNCHANGED store
MemberAt(p, m) == At(p.dir, m.stem, m.ext)
\* The members that have no file of their name yet, and then the archive goes to the trash.
Unzip(t) ==
    LET p == Source(t) IN
    /\ Doing(t, "zip")
    /\ IF ~On(p) THEN Then(t, Later(t))
       ELSE LET new == {m \in Inner[disk[p]] : ~On(MemberAt(p, m))} IN
            Then(t, Each(new, LAMBDA m : [do |-> "member", at |-> p, del |-> m])
                    \o (IF Drops(t) THEN <<Task("toss", p, TRUE)>> ELSE <<>>) \o Later(t))
    /\ UNCHANGED store
MemberOpens(t) ==
    /\ Doing(t, "member")
    /\ Writes(MemberAt(Source(t), Now(t).del), "torn") /\ Then(t, Going(t, "fill"))
\* One that cannot be written keeps the archive, and what was written of it stays.
MemberEnds(t) ==
    LET m == Now(t).del IN
    /\ Doing(t, "fill")
    /\ \/ Writes(MemberAt(Source(t), m), m.content) /\ Then(t, Later(t))
       \/ /\ Fault("write") /\ UNCHANGED store
          /\ Then(t, SelectSeq(Later(t), LAMBDA k : k.do # "toss" \/ k.at # Source(t)))
Toss(t) ==
    /\ Doing(t, "toss") /\ Then(t, Later(t))
    /\ IF On(Source(t)) THEN Discard({Source(t)}) /\ UNCHANGED <<rows, purged>> ELSE UNCHANGED store
\* POST /api/cleanup-zips: every .zip, for good, when the user has confirmed it.
CleanupZips(t) ==
    /\ Does("cleanZips")
    /\ Start(t, TasksOf("unlink", {p \in DOMAIN disk : p.ext = "zip"}, TRUE))
    /\ UNCHANGED store
\* POST /api/stop-job: the files that have not begun.
CancelJob(t) ==
    /\ Fault("cancel") /\ todo[t] # <<>> /\ Now(t).do \in {"chd", "other", "zip"}
    /\ Then(t, <<>>) /\ UNCHANGED store
-----------------------------------------------------------------------------
(* Sheets and playlists that are missing *)

\* generate_missing_cues: one track for every .bin of CD sectors, if the name is free.
GenerateCues(t) ==
    /\ Does("cues")
    /\ Start(t, TasksOf("sheet", {p \in Unclaimed : disk[p] \in DOMAIN SheetFor /\ ~On(AsExt(p, "cue"))}, FALSE))
    /\ UNCHANGED store
WriteSheet(t) ==
    LET p == Source(t) IN
    /\ Doing(t, "sheet") /\ Then(t, Later(t))
    /\ IF On(p) /\ ~On(AsExt(p, "cue")) THEN Writes(AsExt(p, "cue"), SheetFor[disk[p]]) ELSE UNCHANGED store

\* find_disc_groups: the files of a folder whose names differ in the disc alone, sheets
\* and data alike; write_m3u replaces no playlist.
DiscExts == {"bin", "img", "iso", "chd", "gdi", "cue", "ccd", "sub"}
Groups == {g \in {{q \in DOMAIN disk : q.ext \in DiscExts /\ q.dir = p.dir /\ Tags[q.stem].disc # 0
                       /\ Tags[q.stem].kind # "track" /\ Tags[q.stem].base = Tags[p.stem].base} : p \in DOMAIN disk} :
             Cardinality(g) > 1}
Playlist(g) == LET p == CHOOSE q \in g : TRUE IN At(p.dir, Tags[p.stem].base, "m3u")
GenerateM3u ==
    /\ Does("m3u")
    /\ \E g \in Groups : ~On(Playlist(g)) /\ Writes(Playlist(g), ListOf[{<<p.stem, p.ext>> : p \in g}])
    /\ UNCHANGED work

ConvertersStep ==
    \/ \E t \in Threads, del \in BOOLEAN : ConvertChd(t, del) \/ ConvertOthers(t, del) \/ Extract(t, del)
    \/ \E t \in Threads :
         \/ Bare(t) \/ Unlink(t) \/ ChdThere(t) \/ ChdMissing(t) \/ ChdGone(t) \/ Stage(t) \/ ChdmanOpens(t) \/ Chdman(t) \/ VerifyChd(t)
         \/ CleanRedundant(t) \/ Clean(t) \/ CleanupCueBin(t) \/ CueBin(t) \/ CancelJob(t) \/ OtherOpens(t) \/ OtherEnds(t)
         \/ Unzip(t) \/ MemberOpens(t) \/ MemberEnds(t) \/ Toss(t) \/ GenerateCues(t) \/ WriteSheet(t) \/ CleanupZips(t)
    \/ GenerateM3u
=============================================================================

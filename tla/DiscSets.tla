------------------------------- MODULE DiscSets -------------------------------
(***************************************************************************)
(* The Library Doctor: the disc sets that lack files, what it repairs and  *)
(* what it withdraws (incomplete_sets_service), the saves without a game   *)
(* and the files out of place (handlers/esde/doctor.py, maintenance.py).   *)
(*                                                                         *)
(* A request lists the files, makes its plan and carries it out one file   *)
(* at a time; what is not as the plan says ends the request.               *)
(***************************************************************************)
EXTENDS Library

CONSTANTS
    TrackNo,    \* of the stems "... (Track n)": their number
    DataTracks, \* the contents that begin with a sector of data
    Rebuilt     \* of the name of some tracks: the .cue that build_cue makes for them

IsTrack(p) == p.ext = "bin" /\ p.stem \in DOMAIN TrackNo
GameKey(p) == <<Tags[p.stem].base, Tags[p.stem].region>>
SheetsOf(ext) == {p \in DOMAIN disk : p.ext = ext}

\* The files a sheet names are looked for in its folder, by name alone.
Refs(c) == FactsAt(c).data
InFolder(c, r) == At(c.dir, r.stem, r.ext)
Holds(c) == {InFolder(c, r) : r \in Refs(c)} \cap DOMAIN disk
Missing(c) == {r \in Refs(c) : ~On(InFolder(c, r))}
IsComplete(c) == Refs(c) # {} /\ Missing(c) = {}
CompleteCues == {c \in SheetsOf("cue") : IsComplete(c)}
BrokenCues == SheetsOf("cue") \ CompleteCues

InUse == UNION {Holds(c) : c \in CompleteCues \cup SheetsOf("gdi")}
NamedFiles == InUse \cup UNION {Holds(c) : c \in BrokenCues}

\* What can be played, as far as names tell.
ImageExts == {"chd", "iso", "img"}
WorkingKeys == {GameKey(p) : p \in CompleteCues \cup {q \in DOMAIN disk : q.ext \in ImageExts}
                      \cup {q \in DOMAIN disk : q.ext = "bin" /\ ~IsTrack(q) /\ q \notin NamedFiles}}

\* All that is missing is somewhere else.
Namesakes(r) == {p \in DOMAIN disk : p.stem = r.stem /\ p.ext = r.ext}
Recoverable(c) ==
    Missing(c) # {} /\ \A r \in Missing(c) : Namesakes(r) # {} /\ Namesakes(r) \cap Holds(c) = {}
AskedFor == UNION {Namesakes(r) : r \in UNION {Missing(c) : c \in {d \in BrokenCues : Recoverable(d)}}}

\* One candidate, which goes to the first sheet that asks for it.
Wanted == {w \in BrokenCues \X UNION {Refs(c) : c \in BrokenCues} :
              Recoverable(w[1]) /\ w[2] \in Missing(w[1]) /\ Cardinality(Namesakes(w[2])) = 1}
Moves ==
    {<<CHOOSE p \in Namesakes(w[2]) : TRUE, InFolder(w[1], w[2])>> :
        w \in {v \in Wanted : \A u \in Wanted : u[2] = v[2] => Tags[v[1].stem].rank <= Tags[u[1].stem].rank}}

\* Mutant: what another folder asks for too.
AnyStray(p) == IsTrack(p) /\ p \notin NamedFiles
\* The tracks that nothing uses, by the name of their game.
Stray(p) == IsTrack(p) /\ p \notin NamedFiles /\ p \notin AskedFor
Strays == {p \in DOMAIN disk : Stray(p)}
TrackGroups == {{q \in Strays : Tags[q.stem].base = Tags[p.stem].base} : p \in Strays}
NumbersOf(g) == {TrackNo[p.stem] : p \in g}
Rebuildable(g) ==
    /\ Cardinality(g) > 1 /\ Cardinality(NumbersOf(g)) = Cardinality(g)
    /\ NumbersOf(g) = 1 .. Cardinality(g)
    /\ \A p \in g : GameKey(p) \notin WorkingKeys
OrphanTracks == UNION {g \in TrackGroups : ~Rebuildable(g)}

BrokenLists == {m \in SheetsOf("m3u") : Refs(m) = {} \/ Missing(m) # {}}
BadChds == {p \in DOMAIN disk : p.ext = "chd" /\ disk[p] = "torn"}
\* to_remove: never what a complete set uses.
Unused(p) == p \notin InUse
ToRemove ==
    {p \in (UNION {{c} \cup Holds(c) : c \in {d \in BrokenCues : ~Recoverable(d)}})
              \cup BrokenLists \cup OrphanTracks \cup BadChds : Unused(p)}
-----------------------------------------------------------------------------
(* What the Doctor does *)

Fix(do, p, q, of) == [do |-> do, at |-> p, to |-> q, of |-> of]

\* POST /api/library-doctor/prune-incomplete
PruneIncomplete(t) ==
    /\ Does("prune") /\ ToRemove # {}
    /\ Start(t, Each(ToRemove, LAMBDA p : Fix("withdraw", p, None, {})))
    /\ UNCHANGED store
Withdraw(t) ==
    /\ Doing(t, "withdraw")
    /\ IF On(Now(t).at) THEN Discard({Now(t).at}) /\ UNCHANGED <<rows, purged>> /\ Then(t, Later(t))
       ELSE UNCHANGED store /\ Then(t, <<>>)

\* POST /api/library-doctor/repair-incomplete: the moves, then the sheets to write, on the
\* PlayStation alone.
RepairIncomplete(t) ==
    LET groups == {g \in TrackGroups : Rebuildable(g) /\ \A p \in g : Folder[p.dir] = "psx"} IN
    /\ Does("repair") /\ Moves \cup groups # {}
    /\ Start(t, Each(Moves, LAMBDA m : Fix("bring", m[1], m[2], {}))
                \o Each(groups, LAMBDA g : Fix("rebuild", None, None, g)))
    /\ UNCHANGED store
\* A file is never replaced; the row of a track stays where it was.
Bring(t) ==
    /\ Doing(t, "bring")
    /\ IF On(Now(t).at) /\ ~On(Now(t).to)
       THEN disk' = Moved(Now(t).at, Now(t).to) /\ UNCHANGED <<trash, rows, purged>> /\ Then(t, Later(t))
       ELSE UNCHANGED store /\ Then(t, <<>>)

FirstTrack(g) == CHOOSE p \in g : TrackNo[p.stem] = 1
\* A folder that has most of them.
MostIn(g) == {d \in {p.dir : p \in g} :
                 \A e \in {p.dir : p \in g} :
                     Cardinality({p \in g : p.dir = e}) <= Cardinality({p \in g : p.dir = d})}
RebuildSet(t) ==
    LET g == Now(t).of IN
    /\ Doing(t, "rebuild")
    /\ IF ~On(FirstTrack(g)) THEN Then(t, <<>>)
       ELSE IF disk[FirstTrack(g)] \notin DataTracks THEN Then(t, Later(t))
       ELSE \E home \in MostIn(g) :
              LET name == Tags[FirstTrack(g).stem].base IN
              Then(t, Each({p \in g : p.dir # home}, LAMBDA p : Fix("bring", p, [p EXCEPT !.dir = home], {}))
                      \o <<Fix("sheet0", At(home, name, "cue"), Rebuilt[name], {})>> \o Later(t))
    /\ UNCHANGED store
\* open("x")
WriteCue(t) ==
    /\ Doing(t, "sheet0")
    /\ IF On(Now(t).at) THEN UNCHANGED store /\ Then(t, <<>>)
       ELSE disk' = Put(disk, Now(t).at, Now(t).to) /\ UNCHANGED <<trash, rows, purged>> /\ Then(t, Later(t))
-----------------------------------------------------------------------------
(* Saves without a game, and files out of place *)

\* find_orphaned_saves
IsOrphan(s) == s.ext \in SaveExts /\ ~\E f \in DOMAIN disk : f.dir = s.dir /\ f.stem = s.stem /\ f.ext \notin SaveExts
\* POST /api/orphaned-saves/move: to the game the user names, if it has no such save.
AdoptSave ==
    /\ Does("saves")
    /\ \E s \in DOMAIN disk, g \in DOMAIN disk :
         /\ IsOrphan(s) /\ g.ext \notin SaveExts /\ ~On(At(g.dir, g.stem, s.ext))
         /\ disk' = Moved(s, At(g.dir, g.stem, s.ext))
    /\ UNCHANGED <<trash, rows, purged, work>>
\* .../move-to-archive: under the first free name.
ArchiveSave ==
    /\ Does("saves")
    /\ \E s \in DOMAIN disk, stem \in DOMAIN Tags :
         /\ IsOrphan(s) /\ s.dir # "huerfanos" /\ ~On(At("huerfanos", stem, s.ext))
         /\ \/ stem = s.stem
            \/ On(At("huerfanos", s.stem, s.ext)) /\ Tags[stem].kind = "numbered" /\ Tags[stem].base = s.stem
         /\ disk' = Moved(s, At("huerfanos", stem, s.ext))
    /\ UNCHANGED <<trash, rows, purged, work>>
\* .../delete: for good.
DeleteSave ==
    /\ Does("saves")
    /\ \E s \in DOMAIN disk :
         /\ IsOrphan(s)
         /\ disk' = Without(disk, {s}) /\ purged' = purged \cup {disk[s]}
    /\ UNCHANGED <<trash, rows, work>>
\* POST /api/doctor-move-rom: one file, to the folder of its platform; its row stays where
\* it was, and its saves too.
MoveRom ==
    /\ Does("moveRom")
    /\ \E p \in DOMAIN rows, d \in DOMAIN Folder :
         /\ On(p) /\ Folder[d] = rows[p].platform /\ Folder[p.dir] # Folder[d] /\ ~On([p EXCEPT !.dir = d])
         /\ disk' = Moved(p, [p EXCEPT !.dir = d])
    /\ UNCHANGED <<trash, rows, purged, work>>
\* POST /api/junk-delete: what the user has picked.
JunkDelete ==
    /\ Does("junk")
    /\ \E p \in DOMAIN disk : Discard({p})
    /\ UNCHANGED <<rows, purged, work>>

\* The games that play, or could: their files are all somewhere, under their names.
Mendable ==
    Playable \cup {FactsAt(c).game : c \in {d \in SheetsOf("cue") :
                                            \A r \in Refs(d) : \E p \in Namesakes(r) : disk[p] = r.content}}
    \cup {Facts[Rebuilt[Tags[FirstTrack(g).stem].base]].game : g \in {h \in TrackGroups : Rebuildable(h)}}

DoctorStep ==
    \/ \E t \in Threads :
         PruneIncomplete(t) \/ Withdraw(t) \/ RepairIncomplete(t) \/ Bring(t) \/ RebuildSet(t) \/ WriteCue(t)
    \/ AdoptSave \/ ArchiveSave \/ DeleteSave \/ MoveRom \/ JunkDelete
=============================================================================

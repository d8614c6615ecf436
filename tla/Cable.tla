-------------------------------- MODULE Cable --------------------------------
(***************************************************************************)
(* Cable synchronisation: the job "cable_sync" copies saves and ROMs       *)
(* between the library of the PC and a console, through adb or on its card *)
(* mounted as a folder.  A page starts it (web/handlers/sync_cable), or a  *)
(* daemon of web/cable_sync_daemon when the console is plugged in, when an *)
(* emulator of the console is closed, or when the card is inserted.        *)
(*                                                                         *)
(* A pass lists the files, then looks at one after the other, and last     *)
(* deletes what a mirror has too much.  Games are played and cables pulled *)
(* between any two files.                                                  *)
(***************************************************************************)
EXTENDS Integers, FiniteSetsExt, Functions

CONSTANTS
    None,
    Torn,        \* the content of a file that was not written to its end
    Slug,        \* the canonical folder of a platform folder
    Unwrap,      \* a folder without the prefix saves/ or states/ of the console
    Title,       \* of a stem, normalize_title_cross_format
    Beat,        \* what a play, or a pull, takes of the clock
    Grain,       \* the console keeps times in multiples of this
    Tolerance,   \* DEFAULT_MTIME_TOLERANCE_S
    Threshold,   \* clock_skew_threshold_s
    Stories,     \* the two sides at first, what is asked, and the faults
    MaxClock,    \* bound on the clock
    MaxPasses    \* bound on the passes

VARIABLES
    pc, dev,     \* of each place that holds a file, its content and its mtime
    kept,        \* the contents among the backups and in the trash of either side
    clock,
    link,        \* the console answers, or its card is mounted
    open,        \* an emulator runs on the console
    job,         \* what holds the slot cable_sync
    daemon,      \* what the loop of the daemon remembers
    passes,
    tale,
    due          \* observation: the plays that no later play replaced

files == <<pc, dev, kept, clock>>
vars == <<files, link, open, job, daemon, passes, tale, due>>

SaveExts == {"srm"}
DiscExts == {"chd", "cue", "gdi", "ccd", "iso"}
IsSave(p) == p.ext \in SaveExts
\* _cat_name: pictures and lists are neither.
Category(p) == IF IsSave(p) THEN "saves" ELSE IF p.ext \in {"txt", "png"} THEN "other" ELSE "roms"
SameName(p, q) == p.stem = q.stem /\ p.ext = q.ext

ASSUME ClockAssumption ==
    Beat \in Nat /\ Grain \in Nat \ {0} /\ Tolerance \in Nat /\ Torn \in Int

\* A path relative to the library, or to the root of the console.
Place == [dir : DOMAIN Slug, stem : DOMAIN Title, ext : STRING]
ASSUME PlaceAssumption ==
    /\ Slug \in [DOMAIN Slug -> DOMAIN Slug] /\ Unwrap \in [DOMAIN Slug -> DOMAIN Slug]
    /\ None \notin Place /\ None \notin {"adb", "card"}

\* What a game writes, on either side, are saves.
ASSUME StoryAssumption ==
    \A t \in Stories : /\ DOMAIN t.pc \cup DOMAIN t.dev \subseteq Place
                       /\ \A p \in t.playsPc \cup t.playsDev : IsSave(p)

Fault(what) == what \in tale.faults
Put(f, p, c) == [q \in {p} \cup DOMAIN f |-> IF q = p THEN c ELSE f[q]]
Drop(f, p) == Restrict(f, DOMAIN f \ {p})
\* The size of a name's content: saves have a fixed one, and what is torn another.
SameSize(a, b) == (a = Torn) <=> (b = Torn)
Grained(t) == t - (t % Grain)
DeviceTime == Grained(clock + tale.skew)

\* _wanted, without the folders that the user excludes
Wanted(ask, p) == Category(p) \in ask.what /\ p.dir \notin ask.excluded
Side(ask, f) == Restrict(f, {p \in DOMAIN f : Wanted(ask, p)})

\* canonical_rel_posix and canonical_download_rel_posix
Canonical(p) == [p EXCEPT !.dir = Slug[p.dir]]
Unwrapped(d) == [d EXCEPT !.dir = Unwrap[d.dir]]

\* Where a copy lands: the daemons upload under the raw path, and the one of the card knows
\* no canonical folder at all.
Up(p) == IF job.by = "hand" THEN Canonical(p) ELSE p
Down(d) == IF job.by = "card" THEN Unwrapped(d) ELSE Canonical(Unwrapped(d))
-----------------------------------------------------------------------------
(* What a pass has to look at *)

Op(p, d) == [p |-> p, d |-> d]

\* reconcile_newest_by_name: the same path, else the only file of that name.
Match(p, console) ==
    IF p \in DOMAIN console THEN p
    ELSE LET same == {d \in DOMAIN console : SameName(p, d)}
         IN IF Cardinality(same) = 1 THEN CHOOSE d \in same : TRUE ELSE None

Pairs(library, console) ==
    LET met == {Op(p, Match(p, console)) : p \in DOMAIN library}
    IN met \cup {Op(None, d) : d \in DOMAIN console \ {o.d : o \in met}}

\* Mutant: a tolerance as wide as a play.
NewerLoosely(o, library, console) ==
    IF o.p = None THEN "down" ELSE IF o.d = None THEN "up"
    ELSE LET diff == library[o.p].t - console[o.d].t
         IN IF diff > 4 * Tolerance THEN "up" ELSE IF diff < -4 * Tolerance THEN "down" ELSE "none"

\* Of a newest pair, which side is copied, by these times.
Newer(o, library, console) ==
    IF o.p = None THEN "down" ELSE IF o.d = None THEN "up"
    ELSE LET diff == library[o.p].t - console[o.d].t
         IN IF diff > Tolerance THEN "up" ELSE IF diff < -Tolerance THEN "down" ELSE "none"

OpsOf(ask, library, console) ==
    CASE ask.way = "up" -> {Op(p, None) : p \in DOMAIN library}
      [] ask.way = "down" -> {Op(None, d) : d \in DOMAIN console}
      [] ask.way = "newest" -> Pairs(library, console)
      [] OTHER -> {Op(p, None) : p \in ask.games}

\* What an upload needs of the free space, counted under the paths of the PC.
NeedsRoom(ask, console) ==
    {p \in DOMAIN Side(ask, pc) :
        ~(ask.skip /\ \E d \in DOMAIN console : SameName(p, d) /\ SameSize(console[d].v, pc[p].v))}

\* The drive of a card is a folder that is there or not; adb answers a console that is gone
\* with no line at all, which is the listing of an empty folder.
Listed(ask) == IF link THEN Side(ask, dev) ELSE <<>>

NotMounted(ask) == ask.via = "card" /\ ~link

\* A card that is not mounted, or too little room on the console: nothing is copied.
Refused(ask, console) ==
    \/ NotMounted(ask)
    \/ /\ ask.via = "adb" /\ ask.way = "up" /\ link
       /\ Cardinality(NeedsRoom(ask, console)) > tale.room

\* What the daemon of the card will copy is settled before its first copy.
Frozen(ops) ==
    IF job.by = "card" /\ job.ask.way = "newest" THEN [o \in ops |-> Newer(o, pc, dev)] ELSE <<>>

\* run(): the listing.
List ==
    /\ job # None /\ job.phase = "list"
    /\ LET console == Listed(job.ask)
           ops == OpsOf(job.ask, Side(job.ask, pc), console)
       IN job' = IF Refused(job.ask, console) THEN None
                 ELSE [job EXCEPT !.phase = "files", !.seen = console, !.todo = ops,
                                  !.frozen = Frozen(ops), !.blind = ~link]
    /\ UNCHANGED <<files, link, open, daemon, passes, tale, due>>
-----------------------------------------------------------------------------
(* One file *)

\* Mutant: nothing is kept of the console.
BackedOnPc(f, q) == IF f = pc /\ q \in DOMAIN f /\ IsSave(q) THEN kept \cup {f[q].v} ELSE kept
\* backup_save and backup_remote_save keep what a save is about to replace.
Backed(f, q) == IF q \in DOMAIN f /\ IsSave(q) THEN kept \cup {f[q].v} ELSE kept

\* AdbTransport.pull: a save comes through a .part that is verified, a ROM straight to its
\* place, from where a failure removes it.
Pull(d, q) ==
    \/ /\ link /\ d \in DOMAIN dev
       /\ clock' = clock + Beat
       /\ pc' = Put(pc, q, [v |-> dev[d].v, t |-> clock'])
       /\ kept' = Backed(pc, q)
       /\ UNCHANGED dev
    \/ /\ ~link \/ d \notin DOMAIN dev \/ Fault("transfer")
       /\ pc' = IF IsSave(q) THEN pc ELSE Drop(pc, q)
       /\ kept' = Backed(pc, q)
       /\ UNCHANGED <<dev, clock>>

\* AdbTransport.push, which keeps the time of the file: a save replaces by mv what was
\* there, a ROM that was cut short stays cut short.
Push(p, q) ==
    \/ /\ link /\ p \in DOMAIN pc
       /\ dev' = Put(dev, q, [v |-> pc[p].v, t |-> Grained(pc[p].t)])
       /\ kept' = Backed(dev, q)
       /\ UNCHANGED <<pc, clock>>
    \/ /\ ~link \/ p \notin DOMAIN pc \/ Fault("transfer")
       /\ dev' \in {dev} \cup (IF IsSave(q) \/ ~link \/ p \notin DOMAIN pc THEN {}
                              ELSE {Put(dev, q, [v |-> Torn, t |-> DeviceTime])})
       /\ kept' = IF link THEN Backed(dev, q) ELSE kept
       /\ UNCHANGED <<pc, clock>>

\* shutil.copy2: the time of the source is copied last, so that a torn copy is of now.
Copies(from, p, to, q, whole, now) ==
    IF p \notin DOMAIN from THEN {to}
    ELSE {Put(to, q, whole)}
         \cup (IF Fault("transfer") THEN {Put(to, q, [v |-> Torn, t |-> now])} ELSE {})

\* copy_item with its policy: safe_mode and skip_existing are those of the page.
Leaves(from, p, to, q) ==
    /\ p \in DOMAIN from /\ q \in DOMAIN to
    /\ \/ job.ask.safe
       \/ job.ask.skip /\ SameSize(from[p].v, to[q].v) /\ (IsSave(p) => from[p].v = to[q].v)

CardUp(p, q) ==
    IF ~link \/ Leaves(pc, p, dev, q) THEN UNCHANGED files
    ELSE /\ dev' \in Copies(pc, p, dev, q, [v |-> pc[p].v, t |-> Grained(pc[p].t)], DeviceTime)
         /\ kept' = Backed(dev, q) /\ UNCHANGED <<pc, clock>>
CardDown(d, q) ==
    IF ~link \/ Leaves(dev, d, pc, q) THEN UNCHANGED files
    ELSE /\ pc' \in Copies(dev, d, pc, q, dev[d], clock)
         /\ kept' = Backed(pc, q) /\ UNCHANGED <<dev, clock>>

\* _skip_existing_device: a candidate of the listing has the size, and a save also the MD5.
SkipsUp(p) ==
    /\ job.ask.skip /\ p \in DOMAIN pc
    /\ \E d \in DOMAIN job.seen :
         /\ SameName(p, d) /\ SameSize(job.seen[d].v, pc[p].v)
         /\ IsSave(p) => link /\ d \in DOMAIN dev /\ dev[d].v = pc[p].v
\* _skip_existing_pc
SkipsDown(d) ==
    /\ job.ask.skip
    /\ \E p \in DOMAIN pc :
         /\ SameName(p, d) /\ SameSize(job.seen[d].v, pc[p].v)
         /\ IsSave(d) => link /\ d \in DOMAIN dev /\ dev[d].v = pc[p].v

AdbUp(p) == IF SkipsUp(p) THEN UNCHANGED files ELSE Push(p, Up(p))

\* skip_sha1_dups: a ROM whose hash the table has stays where it is; through adb another one
\* is pulled aside and put under the very path of the console.
Known(d) == job.ask.dups /\ ~IsSave(d) /\ d \in DOMAIN dev /\ dev[d].v \in tale.known
PullAside(d) ==
    IF Known(d) \/ ~link \/ d \notin DOMAIN dev THEN UNCHANGED files
    ELSE /\ clock' = clock + Beat
         /\ pc' = Put(pc, d, [v |-> dev[d].v, t |-> clock'])
         /\ UNCHANGED <<dev, kept>>

AdbDown(d) ==
    IF job.ask.dups /\ ~IsSave(d) THEN PullAside(d)
    ELSE IF SkipsDown(d) THEN UNCHANGED files ELSE Pull(d, Down(d))
GoUp(p) == IF job.ask.via = "adb" THEN AdbUp(p) ELSE CardUp(p, Up(p))
GoDown(d) ==
    IF job.ask.via = "adb" THEN AdbDown(d)
    ELSE IF Known(d) THEN UNCHANGED files ELSE CardDown(d, Down(d))

\* newest compares the time of the PC now with that of the listing, or of the card now, and
\* knows nothing of skip_existing.
GoNewest(o) ==
    LET console == IF job.ask.via = "adb" \/ o.d \notin DOMAIN dev THEN job.seen ELSE dev
        way == IF job.frozen # <<>> THEN job.frozen[o]
               ELSE IF o.p # None /\ o.p \notin DOMAIN pc THEN "none" ELSE Newer(o, pc, console)
    IN CASE way = "up" -> IF job.ask.via = "adb" THEN Push(o.p, Up(o.p)) ELSE CardUp(o.p, Up(o.p))
         [] way = "down" -> IF job.ask.via = "adb" THEN Pull(o.d, Down(o.d)) ELSE CardDown(o.d, Down(o.d))
         [] OTHER -> UNCHANGED files

\* remove_selected: the saves of the game come to the PC, then the ROM goes from the console.
Removes(rom) ==
    LET saves == {s \in DOMAIN job.seen : IsSave(s) /\ s.dir = rom.dir /\ s.stem = rom.stem}
        there == saves \cap DOMAIN dev
    IN IF rom \notin DOMAIN job.seen \/ ~link THEN UNCHANGED files
       ELSE \/ /\ saves \subseteq DOMAIN dev
               /\ clock' = clock + Beat
               /\ pc' = [s \in saves \cup DOMAIN pc |->
                           IF s \in saves THEN [v |-> dev[s].v, t |-> clock'] ELSE pc[s]]
               /\ kept' = kept \cup {pc[s].v : s \in saves \cap DOMAIN pc}
               /\ dev' = Drop(dev, rom)
            \/ /\ Fault("transfer") \/ there # saves
               /\ kept' = kept \cup {pc[s].v : s \in saves \cap DOMAIN pc}
               /\ UNCHANGED <<pc, dev, clock>>

\* send_selected: a ROM of the games table that is there.
Sends(rom) == IF rom \notin DOMAIN pc THEN UNCHANGED files ELSE AdbUp(rom)

Look ==
    /\ job # None /\ job.phase = "files"
    /\ \E o \in job.todo :
         /\ \/ job.ask.way = "up" /\ GoUp(o.p)
            \/ job.ask.way = "down" /\ GoDown(o.d)
            \/ job.ask.way = "newest" /\ GoNewest(o)
            \/ job.ask.way = "remove" /\ Removes(o.p)
            \/ job.ask.way = "send" /\ Sends(o.p)
         /\ job' = [job EXCEPT !.todo = @ \ {o}]
    /\ UNCHANGED <<link, open, daemon, passes, tale, due>>
-----------------------------------------------------------------------------
(* The mirror *)

\* _is_cross_format_equivalent: the disc is there in another format.
CrossFormat(p, others) ==
    p.ext \in DiscExts /\ \E q \in others : q.ext \in DiscExts /\ Title[q.stem] = Title[p.stem]

\* What the mirror knows of the console: the listing of adb, or the folder of the card, in
\* which nothing is left when it was pulled out.
Console == DOMAIN (IF job.ask.via = "adb" THEN job.seen ELSE Listed(job.ask))

\* Mutant: the places of the console, as they are there.
RawRels == Console
\* The places of the console, as the files come down to the PC.
DownRels == {Down(d) : d \in Console}

\* What the destination has and the source does not, up and down.
ExtrasThere(library) ==
    {Op(None, d) : d \in {x \in Console : x \notin library /\ ~CrossFormat(x, library)}}
ExtrasHere(library) ==
    {Op(p, None) : p \in {x \in library : x \notin DownRels /\ ~CrossFormat(x, Console)}}

Extras ==
    LET library == DOMAIN Side(job.ask, pc)
    IN IF job.ask.way = "up" THEN ExtrasThere(library) ELSE ExtrasHere(library)

\* delete_extra, once every file was looked at and nobody cancelled.
Mirror ==
    /\ job # None /\ job.phase = "files" /\ job.todo = {}
    /\ job.ask.mirror /\ ~job.cancelled /\ job.ask.way \in {"up", "down"}
    /\ job' = [job EXCEPT !.phase = "mirror", !.todo = Extras,
                          !.blind = IF job.ask.via = "adb" THEN @ ELSE ~link]
    /\ UNCHANGED <<files, link, open, daemon, passes, tale, due>>

\* discard_to_trash, but adb removes for good what the user's mirror does not want.
DeleteExtra ==
    /\ job # None /\ job.phase = "mirror"
    /\ \E o \in job.todo :
         /\ IF o.p # None
            THEN /\ pc' = Drop(pc, o.p) /\ UNCHANGED <<dev, due>>
                 /\ kept' = IF o.p \in DOMAIN pc THEN kept \cup {pc[o.p].v} ELSE kept
            ELSE IF link /\ o.d \in DOMAIN dev
            THEN /\ dev' = Drop(dev, o.d) /\ UNCHANGED pc
                 /\ IF job.ask.via = "adb" THEN due' = due \ {dev[o.d].v} /\ UNCHANGED kept
                    ELSE kept' = kept \cup {dev[o.d].v} /\ UNCHANGED due
            ELSE UNCHANGED <<pc, dev, kept, due>>
         /\ job' = [job EXCEPT !.todo = @ \ {o}]
    /\ UNCHANGED <<clock, link, open, daemon, passes, tale>>

Finish ==
    /\ job # None /\ job.phase # "list" /\ job.todo = {}
    /\ job.phase = "files" => ~(job.ask.mirror /\ ~job.cancelled /\ job.ask.way \in {"up", "down"})
    /\ job' = None
    /\ UNCHANGED <<files, link, open, daemon, passes, tale, due>>

\* The page cancels: the loop over the files sees it; the daemons' passes never look.
Cancel ==
    /\ Fault("cancel") /\ job # None /\ job.by = "hand" /\ job.phase = "files"
    /\ job' = [job EXCEPT !.cancelled = TRUE, !.todo = {}]
    /\ UNCHANGED <<files, link, open, daemon, passes, tale, due>>
-----------------------------------------------------------------------------
(* Who starts a pass *)

Skewed == tale.skew > Threshold \/ tale.skew < -Threshold

\* disturbed and blind are observations: somebody played or pulled the cable meanwhile, and
\* what the pass knows of the console is the emptiness of one that is gone.
Started(by, ask) ==
    [by |-> by, ask |-> ask, phase |-> "list", seen |-> <<>>, todo |-> {}, frozen |-> <<>>,
     cancelled |-> FALSE, disturbed |-> FALSE, blind |-> FALSE]

\* Mutant: only that it can be read.
AnyClock(ask) == ask.via = "adb" /\ ask.way = "newest" => link
\* The clock of the console is checked before a pass that compares times through adb.
ClockOk(ask) == ask.via = "adb" /\ ask.way = "newest" => link /\ ~Skewed

\* POST /api/cable-sync
Ask ==
    /\ job = None /\ passes < MaxPasses
    /\ \E ask \in tale.asks : ClockOk(ask) /\ job' = Started("hand", ask)
    /\ passes' = passes + 1
    /\ UNCHANGED <<files, link, open, daemon, tale, due>>

\* Mutant: a probe that failed forgets what was seen.
WatchForgetting(answered) ==
    IF ~tale.watch \/ ~link \/ ~answered THEN [closed |-> FALSE, prev |-> FALSE]
    ELSE [closed |-> daemon.prev /\ ~open, prev |-> open]

\* _poll_android_watch: a probe that failed says nothing, and what was seen stays.
Watch(answered) ==
    IF ~tale.watch \/ ~link THEN [closed |-> FALSE, prev |-> FALSE]
    ELSE IF ~answered THEN [closed |-> FALSE, prev |-> daemon.prev]
    ELSE [closed |-> daemon.prev /\ ~open, prev |-> open]

\* _auto_sync_loop up to the launch: an edge is seen once, whatever comes of it.
Poll(answered) ==
    /\ tale.auto = "adb" /\ job = None /\ ~daemon.cool /\ daemon.want = None
    /\ ~answered => Fault("probe") /\ tale.watch /\ link
    /\ LET watch == Watch(answered)
           reason == IF link /\ ~daemon.last THEN "connect" ELSE IF watch.closed THEN "closed" ELSE None
       IN daemon' = [daemon EXCEPT !.last = link, !.prev = watch.prev,
                       !.want = IF ClockOk(tale.autoAsk) THEN reason ELSE None]
    /\ UNCHANGED <<files, link, open, job, passes, tale, due>>

\* _sd_card_sync_loop: the insertion is forgotten when a pass runs or ran a minute ago.
PollCard ==
    /\ tale.auto = "card" /\ daemon.want = None
    /\ daemon' = [daemon EXCEPT !.last = link,
                    !.want = IF link /\ ~daemon.last /\ ~daemon.cool THEN "inserted" ELSE None]
    /\ UNCHANGED <<files, link, open, job, passes, tale, due>>

\* JobManager.start refuses when the slot was taken meanwhile.
Launch ==
    /\ daemon.want # None
    /\ IF job = None /\ passes < MaxPasses
       THEN /\ job' = Started(IF tale.auto = "card" THEN "card" ELSE "auto", tale.autoAsk)
            /\ passes' = passes + 1
            /\ daemon' = [daemon EXCEPT !.want = None, !.cool = TRUE]
       ELSE daemon' = [daemon EXCEPT !.want = None] /\ UNCHANGED <<job, passes>>
    /\ UNCHANGED <<files, link, open, tale, due>>

CoolDown ==
    /\ daemon.cool /\ daemon' = [daemon EXCEPT !.cool = FALSE]
    /\ UNCHANGED <<files, link, open, job, passes, tale, due>>
-----------------------------------------------------------------------------
(* The players *)

Disturbed == job' = IF job = None THEN None ELSE [job EXCEPT !.disturbed = TRUE]
Played(old) == due' = (due \ old) \cup {clock'}

PlayPC ==
    /\ clock + Beat <= MaxClock
    /\ \E p \in tale.playsPc \cap DOMAIN pc :
         /\ clock' = clock + Beat
         /\ Played({pc[p].v})
         /\ pc' = Put(pc, p, [v |-> clock', t |-> clock'])
    /\ Disturbed /\ UNCHANGED <<dev, kept, link, open, daemon, passes, tale>>

\* A card in the reader of the PC is not in the console.
PlayDev ==
    /\ clock + Beat <= MaxClock
    /\ tale.auto = "card" => ~link
    /\ tale.watch => open
    /\ \E d \in tale.playsDev \cap DOMAIN dev :
         /\ clock' = clock + Beat
         /\ Played({dev[d].v})
         /\ dev' = Put(dev, d, [v |-> clock', t |-> Grained(clock' + tale.skew)])
    /\ Disturbed /\ UNCHANGED <<pc, kept, link, open, daemon, passes, tale>>

Plug ==
    /\ Fault("plug")
    /\ link' = ~link
    /\ Disturbed /\ UNCHANGED <<files, open, daemon, passes, tale, due>>

Emulator ==
    /\ tale.watch
    /\ open' = ~open
    /\ UNCHANGED <<files, link, job, daemon, passes, tale, due>>
-----------------------------------------------------------------------------
Init ==
    /\ tale \in Stories
    /\ pc = tale.pc /\ dev = tale.dev /\ kept = {}
    /\ clock = 0 /\ link = ~Fault("plug") /\ open = FALSE
    /\ job = None /\ passes = 0
    /\ daemon = [last |-> link, prev |-> FALSE, want |-> None, cool |-> FALSE]
    /\ due = {f.v : f \in Range(Restrict(pc, {p \in DOMAIN pc : IsSave(p)}))
                          \cup Range(Restrict(dev, {d \in DOMAIN dev : IsSave(d)}))}

Next ==
    \/ Ask \/ List \/ Look \/ Mirror \/ DeleteExtra \/ Finish \/ Cancel
    \/ (\E answered \in BOOLEAN : Poll(answered)) \/ PollCard \/ Launch \/ CoolDown
    \/ PlayPC \/ PlayDev \/ Plug \/ Emulator

\* The daemon polls for ever and adb answers in the end; a job's thread runs to its end.
Fairness ==
    /\ WF_vars(Poll(TRUE)) /\ WF_vars(Launch) /\ WF_vars(CoolDown)
    /\ WF_vars(List) /\ WF_vars(Look) /\ WF_vars(Mirror) /\ WF_vars(DeleteExtra) /\ WF_vars(Finish)

Spec == Init /\ [][Next]_vars /\ Fairness
-----------------------------------------------------------------------------
Here(f) == {x.v : x \in Range(f)}

\* Whatever is copied, cut short, cancelled or unplugged, the last play of every save is on
\* one of the sides, among the backups or in the trash, unless a mirror of the user through
\* adb removed it: backup_save before each replacement, .part and MD5 for each transfer.
SaveKept == due \subseteq Here(pc) \cup Here(dev) \cup kept

\* A save of the PC that the console has at two places, both of which come down to it.
Twofold(p) == \E d, e \in DOMAIN dev : d # e /\ Down(d) = p /\ Down(e) = p

\* A pass "newest" never puts an older save over a newer one, when nobody plays or pulls the
\* cable meanwhile: the tolerance, the guard on the clock and the pairing by name.  A copy
\* that was cut short on the card is of now, and is left out, as are the saves that the
\* console has at two places: the older one comes down as a file that the PC does not have.
NewestWins ==
    [][job # None /\ job.ask.way = "newest" /\ ~job.disturbed /\ Look =>
        \A p \in DOMAIN pc :
            IsSave(p) => pc'[p].v >= pc[p].v \/ pc'[p].v = Torn \/ Twofold(p)]_vars

\* The copy of a file of the PC, in the folder of another name that the upload gives it, is
\* not where the mirror looks for it.
Missed(p) == Up(p) # p

\* A mirror never takes from a side what the other side has of what was asked: not what the
\* pass has just copied, and not a disc that is there in another format; whoever plays,
\* cancels or pulls the cable, and wherever the copies land.  In two cases the code does take
\* it, and they are excepted: a console that is gone is read as an empty one, and the PC's
\* files follow it to the trash; and a mirror that goes up removes from the console the file
\* it has just copied there, where the folder of the PC has not the canonical name.
MirrorKeeps ==
    [][DeleteExtra =>
        /\ \A p \in DOMAIN pc \ DOMAIN pc' :
             job.blind \/ ~\E d \in DOMAIN Side(job.ask, dev) : p = Down(d) \/ CrossFormat(p, {d})
        /\ \A d \in DOMAIN dev \ DOMAIN dev' :
             ~\E p \in DOMAIN Side(job.ask, pc) :
                (d = Up(p) /\ ~Missed(p)) \/ CrossFormat(d, {p})]_vars

\* A pass "newest" that nobody disturbed and that copied everything leaves each save of the
\* PC the same as a copy of it on the console, wherever the console keeps it: the times that a
\* copy keeps or gets never make it stop half-way.
Level ==
    \A p \in DOMAIN pc :
        IsSave(p) => \E d \in DOMAIN dev : Down(d) = p /\ dev[d].v = pc[p].v
NewestLevels ==
    [][Finish /\ job.ask.way = "newest" /\ ~job.disturbed /\ ~job.cancelled
         /\ tale.faults \cap {"transfer", "plug"} = {} => Level]_vars

\* The watcher does not lose the end of a game: an emulator that a poll saw, and that was
\* closed with the cable in and stays so, is followed by a pass; a probe that fails and the
\* pause after the last pass only delay it.
SeenClosed == daemon.prev /\ ~open /\ link /\ ~Skewed /\ tale.auto = "adb" /\ passes < MaxPasses
CloseIsSynced == SeenClosed ~> job # None \/ open \/ ~link
=============================================================================

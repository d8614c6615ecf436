# Verification of the ROM manager

TLA+ models of the parts of the ROM manager where steps of several actors meet, or where a
failure in the middle of an operation can cost a player a save or a game: the synchronisation of
saves between PC, cloud, Android device and console, what triggers it, the background jobs, the
renamer, the Inbox, and what the server does to the library. TLC checks small instances, TLAPS
proves the results listed under *Proofs* for all values of the constants. All sources named below
are under `src/`; Python files without a path are under `src/src/rom_manager/`, Kotlin ones under
`src/android/app/src/main/java/com/retrovault/android/`.

    tlc -config PcSync_faults.cfg PcSync     # any run: module and cfg are listed under "Runs"
    tlapm PcSyncProofs.tla                   # any module named *Proofs

## The system

A Python application on the PC (web server, jobs in threads, SQLite) organises a library of ROMs
and synchronises the saves of the games with a cloud folder and, by cable, with a console. An
Android app (Kotlin) synchronises the saves of RetroArch on a device with the same cloud folder.

| component | state it keeps | operations | interacts with | correct means |
|---|---|---|---|---|
| PC save sync (`sync/save_syncer.py`, `conflict_resolver.py`, `delta_cache.py`, `sync_log.py`) | save folder, watermark per file (`save_sync_log`), delta cache, `.conflict-` copies | one pass: list both sides, decide per file, back up, preserve the loser, transfer, log, mark, commit | rclone, SQLite, emulators, other devices, tray icon | nothing a pass replaces is lost; empty saves never win; watermarks are true; the sides converge |
| Cloud jobs (`web/handlers/sync_cloud.py`, `web/server.py`, `cli.py`, `config.py`) | the list of sources, play logs, minutes per device | job, tray, command and restore walk over the sources | save sync, rclone, database | one bad source stops no other; each PC ends with what the cloud has; minutes counted once |
| Save backups (`backup/save_backup.py`) | versioned copies per save | `backup_save`, pruning | sync, cable, rename, restore | the copy just made survives its own pruning |
| Android save sync (`sync/SyncEngine.kt`, `DropboxTransport.kt`, ...) | saves, watermark per file (Room), one `.bak`, `.conflict-` copies | one run: scan, list, decide, transfer | Dropbox, RetroArch, overlapping runs | as for the PC |
| Android triggers (`SaveFileObserverManager.kt`, `SyncForegroundService.kt`, `PeriodicSyncScheduler.kt`, `SyncWorker.kt`) | dirty roots, `scheduled`, the looper's queue, running passes | `onEvent`, `fire`, a pass, the periodic work, life of the service | inotify, looper, coroutines, WorkManager | no event forgotten, every write synchronised, no echo |
| Background jobs (`web/jobs/manager.py`) | running flag, result, progress, cancel event per job | `start`, `update_progress`, `cancel`, `finish`, `get_status` | HTTP threads, daemons, job threads | one run per job; cancel and status belong to that run |
| Daemons (`web/daemons.py`) | last sample of the process list, signatures of pending files, date of the last health check | sample, compare, start a job | jobs, operating system | a close starts a sync, a week a check; no drop waits for ever |
| Rename with saves, disc sets (`renamer/file_renamer.py`) | the files, within one call | move ROM, saves, tracks, sheet; roll back | emulators, sync, file system | all or nothing; no save lost; the answer is true |
| Plan, apply, undo (`planner/`, `web/handlers/organize.py`) | `games`, `file_operations` | build plan, resolve collisions, rename and record each, undo the last batch | renamer, SQLite, extractor | no ROM overwritten; rows true; undo returns |
| Organiser (`web/handlers/organize.py`, `utils/health_checker.py`) | files, `games` | organise, migrate saves, relocate, repair platforms | renamer, SQLite | ROM and save stay together; no game lost |
| Inbox (`web/inbox_pipeline.py`, `zip_router.py`, `handlers/inbox.py`) | dropped files, pending conflicts | extract, identify, rename, move, resolve | jobs, converters, trash, watcher | each content ends in one place; rows true; no drop forgotten |
| Scanner, matching, catalogues (`scanner/`, `catalog/`, `handlers/scan.py`) | `games`, catalogue files | scan, hash, prune, match, download | repository, users who copy files | rows follow the disk; marks survive; titles are the catalogues' |
| Duplicates, trash (`builders/duplicates.py`, `services/ra_duplicates_service.py`, `duplicates_service.py`, `utils/trash.py`) | groups on the page, exclusions, trash | group, choose a keeper, discard, rename, restore, purge | repository, renamer | one copy always stays; its saves too |
| Disc sets (`services/incomplete_sets_service.py`, `handlers/esde/doctor.py`, `maintenance.py`) | files | repair, prune, orphaned saves, junk | trash | no piece another set needs is withdrawn |
| Converters and extraction (`converters/`) | ROM files | convert, verify, delete sources, extract, lists | trash, repository | a source goes only when its result is good |
| Cable sync (`web/handlers/sync_cable.py`, `sync/cable_engine.py`, `adb_transport.py`, `web/cable_sync_daemon.py`) | files and times of both sides, connection, daemon | pass up, down, newest; mirror; poll | adb, card, players, backups | the newer save wins; nothing lost; both sides level; a closed game is synchronised |
| Repository (`database/`) | SQLite tables | one method per query, one transaction per call | everything | constraints; one writer |

Google Drive, device profiles, patches, RetroAchievements, scraper, reports, ES-DE, configuration
pages, authentication, updates, the browser front end and the screens of the app are listed as not
modelled in `PROJECT.json`, with the reason for each (see *Not modelled*).

**What is hard here.** (1) Synchronisers that know nothing of each other share one folder without
versions or locks, and decide by modification times of clocks that differ. (2) Each pass, run or
request works on a listing that is old when it uses it, file after file, while others do the same.
(3) A pass may die, be stopped, or lose a transfer half-way, and commits at its end (PC, organiser)
or file by file (Android, renamer). (4) The job manager gives each kind of job a slot, but jobs of
different kinds, requests in threads of their own, the tray icon and the command line run beside
each other over the same files. (5) A rename is many file operations and two database writes, none
of which are atomic together. (6) "Discard" is a move to a trash, "delete the source" and the mirror
over ADB are not. Every place where this bites is listed, with its line, under `hazards` in
`PROJECT.json`.

## The modules

    ConflictResolver <- SyncBase <- PcSync (with BackupStore) <- CloudSync -> AndroidSync -> SyncBase
    ConflictResolver <- CloudJob <- CloudJobMC        CloudSuite -> CloudSync, CloudJob
    InstantSync, AndroidSync <- AndroidApp
    JobSlot <- JobManager <- EmulatorWatch <- Daemons
    AtomicRename, DiscSetMove, RenameApply <- RenamerSuite
    LibraryStore <- InboxPipeline <- InboxMC
    LibraryStore <- Library <- Duplicates, Scanner, Converters, DiscSets, Organizer <- LibraryRequests <- LibraryMC
    Cable <- CableMC
    proofs: PcSyncProofs (with BackupStore), AndroidAppProofs, JobManagerProofs, RenamerProofs, RenameApplyProofs,
            CableProofs, InboxProofs, LibraryProofs (of LibraryRequests)

*Synchronisation of saves*

**ConflictResolver** is `decide`, which `ConflictResolver.kt` ports line by line, with the empty-save
guard and the rule that names the winner of a conflict. Pure operators over modification times.

**SyncBase** holds what both synchronisers share: clock, cloud folder, the saves players have written.
A save is a content and a modification time. A content is the number of the session that wrote it,
`Blank` (0 bytes) or `Torn` (the prefix a broken download leaves). rclone and the Dropbox client carry
the modification time along, so a transfer moves the whole record. `superseded` observes the contents a
player replaced by playing on from them: losing those is what the player asked for.

**BackupStore** is `backup_save`: no copy when the newest one has the same content, a name made of the
second, pruning by name.

**PcSync** is `sync_saves`. A pass goes through the phases `list`, `next` (the loop picks a file),
`backup`, `preserve`, `transfer`, `log`, `mark`, `note` (an error or skipped row); each phase is one call
that touches a file, the network or the database, and everything else may happen between two of them.
`mine` and `theirs` are `local_saves` and `remote_entries`; decisions use them, transfers use the files as
they are by then. `watermark` is what `get_last_sync` returns, `logged` the `ok` rows that wait for the
commit in `Finish`; `dbWriter` is SQLite's write lock, taken by the first row of a pass and released by
its commit or rollback. The order in which files are taken is left open. Faults are switched on by the
constant `Faults`.

**AndroidSync** is `SyncEngine.sync` for the runs of `Runner`, which `SyncOrchestrator` counts but does not
exclude. A download is four steps, as in the code: the stream truncates the save, the content arrives, the
time is set, the watermark written. `versions` observes what Dropbox can restore.

**CloudSync** composes both over one cloud folder; the stand-ins each module has for "another device" are
not used. Its players play and touch, and do not truncate or delete.

**InstantSync** is when the app synchronises by itself. `events` are inotify events not delivered, `handling`
the `onEvent` between its two statements, `posted` and `firing` the looper, `todo` and `running` the passes.
Passes only scan, download and end. `stale` observes roots written since their last scan, `owed` those
whose write raised an event. Passes launched twice for a root before they scan are one member of `todo`.
**AndroidApp** chooses in the first state which half runs, triggers or passes, so that one run holds both.

**CloudJob** is the walk over the sources of a PC by the job, the tray icon, the command and `restore`: which
sources a runner lists (`Explicit`, then what `saves_remote` and the like imply), what it does at a missing
folder or an error of rclone, the single files of `sync_single_file`, the play logs `.lrtl` each device
writes, uploads and ingests. A folder of saves stands for one file, as its pass is PcSync. **CloudSuite** chooses in
the first state between the saves (CloudSync) and the sources (CloudJob) of two PCs and a console, where the second PC
is set up by a `restore` or runs the command; **CloudJobMC** is one PC with a folder that is synchronised whole.

**Cable** is the job `cable_sync`. `pc` and `dev` map each place that holds a file to its content and time;
`job` is a pass with its two listings, the files it has not looked at, and what a mirror found too much (`blind` observes that the console was gone when it was listed);
`daemon` is the state of the poll (last process list, edge, cooldown). Played saves are dated by the
clock of their side (`skew`) and, on the console, in multiples of `Grain`, as on a FAT card. `kept` are
backups and trash, `due` observes the last play of each save. **CableMC** gives the stories: what is on
both sides at first, what is asked, which faults may happen.

*Jobs*

**JobManager** is `web/jobs/manager.py`; what its lock covers is one step. `stage` is where a run (a job
thread) is: `spawning` lies between the flag and the thread, `lost` is a thread that could not be created.
Runs are numbered as they start. `/api/stop-job` sets the event of any job; only the jobs of `Cancellable`
look at it. `clear_result` has no caller and is left out. **JobSlot** is what the manager promises: a slot
per job, which one run takes when it is empty and leaves for ever; a run that died of an error may leave no result.
**EmulatorWatch** extends JobManager by the daemon loop and by an emulator that opens and closes, **Daemons** both by the
health scheduler: `overdue` is what `health_schedule.json` says, which a check rewrites before it finishes.

*Renamer*

**AtomicRename** is `rename_rom_with_saves`, one file operation per step, on a file system where `os.rename`
does not replace (Windows). Saves beside the ROM and in RetroArch's central folders are handled alike.
**DiscSetMove** is `move_disc_set_to_subfolder`, whose `shutil.move` does replace.
**RenameApply** is the jobs `apply` and `undo_apply` over the plan, the `games` table and
`file_operations`. A rename with its saves is one step, which happens or does not: AtomicRename and
DiscSetMove are its detail. Row and operation are one transaction after it; a crash in between leaves the
row false (`missed` observes it). `posix` says whether a rename replaces. `Resolve` gives each row of the plan
the action it will have, in the order of the plan.
**RenamerSuite** chooses in the first state between these parts, a rename, a set, or applies and undos, the last
on either system; the parts that did not start stay as they are.

*Library*

**LibraryStore** is what every job of the library works on: `disk` maps a path (folder, stem,
extension) to its content, `rows` is the games table, keyed by path, `trash` the `_descartados` folders, and
`_same_content`, `discard`, `upsert_game` are its operators.

**InboxPipeline** is a run of the Inbox, phase by phase. Each phase lists its files once (`Listing`) and looks
at one after the other (`Look`); what it decided is a later step (`hand`), so that whatever another actor
does in between is seen by nobody. The actors are the job `inbox`, the job `setup` of the wizard and the
watcher; the page resolves conflicts, the router sends archives in. `Poll` compares signatures as
the daemon does. **InboxMC** gives ten stories of what is dropped and who acts.

**Library** is the idea of a request: it reads what it needs, then carries out `todo[t]`, its chores, one
file at a time, in a thread that shares nothing with the others but the disk and the table; `Stop` ends the
server between any two chores. On it build **Duplicates** (`review_copies` and its buttons, achievements,
conflicts, deletions, exclusions, the commands), **Converters** (CHD with staging and verification,
CSO, N64 byte order, extraction, lists and the clean-ups), **DiscSets** (repair, prune, orphaned saves, junk) and
**Organizer** (organise, migrate, relocate, fix-platforms; `Sees` is the table as a transaction that is not
committed sees it). **Scanner** has the jobs `scan`, `match` and `download_dats` with a database
that one job at a time writes (`lock`, `draft`, committed as `games`), and a disk whose files have a `stamp`
(time and size) and change while it runs; `aged` observes a row whose stamp a quick scan moved on. **LibraryRequests** lets the threads make all these requests over one
library, and states the properties; a story says what there is and which requests are made. **LibraryMC** gives 46 stories: 16 of duplicates, 6 of scans, 11 of
conversions, 7 of disc sets, 6 of organising, each run by two threads.

## Runs

Model values stand for files, passes and names; the bounds are in the cfg and are named constants. A *story*
is a first state with what may be done in it: the stories of a run are its first states, so every action meets
the situations it was written for without the product of all of them.

| run | checks | bounds and faults, and why they are enough | states |
|---|---|---|---|
| `PcSync_faults` | `DownloadKeeps` | one file, a pass of the job (backup, delta cache) and one of the tray (neither) interleaved, two sessions, two instants, one backup kept; listings and transfers fail, the process dies, the user deletes saves and another device writes during passes. Files only meet in the database lock, so one file shows every interleaving of the two passes over it; one instant twice makes backups share a name | 1.6 million |
| `PcSync_quiet` | `UploadKeeps`, `EmptyNeverWins`, `WatermarkIsAncestor`, `QuietPassConverges` | one pass after the other, four instants and four sessions: enough for two syncs and a conflict after them; empty and deleted saves. All four are proved for any number of files, the first three of passes too | 195 000 |
| `AndroidApp_sync` (AndroidApp) | `NothingForgotten`, `InstantSyncs`, `EveryWriteScanned`, `EchoEnds`; `PassIsSafe`, `QuietRunConverges` | triggers: two roots that exist or not, three writes (one while the looper runs, one after), two saves from elsewhere. Passes: one runner, four instants, three sessions; listings, transfers and the copy of a loser fail, runs are stopped, saves are emptied and deleted, the PC uploads late | 1.2 million |
| `CloudSuite_converge` (CloudSuite) | `AllConverge`, `PlaytimeTold` | saves: one pass of the PC with its delta cache and one runner of the app at once, three instants, three sessions on either side. Sources: two PCs, one of them with job and tray, a restore or the command on the other, a console that uploads its log; a missing folder before the source that matters, one call of rclone that fails, two sessions | 479 000 |
| `Daemons_jobs` (Daemons) | `CancelledIfAsked`, `PollSeesEnd`, `SlotSpec`, `TriggersAct` | the jobs `sync` and `health_check`, of which the second can be cancelled, two runs (of one job, one after the other, or of both at once; the first three properties are proved for any number), a page that polls, two sessions, a schedule that expires, a system that may refuse a thread | 614 000 |
| `RenamerSuite_moves` (RenamerSuite) | `NoSaveLost`, `DiscsAreWhole`, `AnswersAreTrue`, `NothingOverwritten`, `RowsAreTrue`, `UndoReturns` | a rename: two names, a data track and another ROM, two kinds of save, three versions (one to move, one in the way, one `.bak`). A set: two places, two tracks, two saves. Applies: two games (one an archive) over five paths, two of them numbered, and five operations (an apply, its undo and the undo of that), on Windows and, without undo and `keep_both`, on POSIX. Moves and moves back fail, one crash. All are proved for any of these, the suite's `DiscsAreWhole` if the rewriting of the sheet does not fail | 3.1 million |
| `Inbox_runs` (InboxMC) | `NothingLost`, `OnlyLosersDiscarded`, `LibraryPathStays`, `RowsTell`, `NoDropForgotten` | ten stories of up to three drops, which arrive at any moment: copies of one title in conflict, archives with what is also there, 7z, the chips of two machines that share one and another chip under its name, a Mega Drive ROM, arcade sets, BIOS, collections, with page, wizard, router and watcher; one fault each, two runs: a second run is what a drop that arrives during the first one needs. `LibraryPathStays` is proved for any of these, `NothingLost` for those where no name is taken under an actor, `RowsTell` and `OnlyLosersDiscarded` for those where the job is alone | 429 000 |
| `Library_requests` (LibraryMC) | `NothingLost`, `GameStays`, `SavesServe`, `ScanCompletes`, `MarksStay`, `CatalogueHolds`, `PiecesStay` | 46 stories of two to six files; two requests in two threads, so every pair of what the page offers can overlap; the user may pick any keeper, files vanish or change twice, quick and full scans follow each other, moves, tools, network, database and reads fail, jobs are cancelled, the server stops. `MarksStay` and `ScanCompletes` are proved for any stories, `NothingLost` for those without converters | 471 000 |
| `Cable_passes` (CableMC) | `SaveKept`, `NewestWins`, `MirrorKeeps`, `NewestLevels`, `CloseIsSynced` | 21 stories: over adb and over the card, clocks that agree, differ by less than a grain and by more than the threshold, passes up, down and newest, with mirror, safe mode and skipping, aliases, a save in two folders of the console, one game in two disc formats, no room, the daemon of the plug and that of the emulator; three passes, two plays; copies break, cable and card are pulled before and during a pass, probes fail. `MirrorKeeps` and `SaveKept` are proved for any stories | 359 000 |
| `PcSync_late_write` (PcSync) | `UploadKeeps` is violated | see *Findings* | |
| `AndroidSync_torn` (AndroidSync) | `CloudIsWhole` is violated | see *Findings* | |
| `CloudJob_tray` (CloudJobMC) | `NeverDownloadsOlder` is violated | see *Findings* | |

What the properties say:

- `DownloadKeeps`: whatever a pass with a `backup_root` replaces on the PC can be found afterwards in a
  backup, a `.conflict-` copy, the cloud or the save, or its player gave it up, or the retention the user
  configured deleted it. The tray's pass has no `backup_root`; what it replaces itself is not kept.
- `UploadKeeps`: the same for the cloud, once a file has a watermark. At a first sync the newer side wins
  and the older cloud copy is not kept.
- `EmptyNeverWins`: no step of a pass puts an empty save where one with content was.
- `WatermarkIsAncestor`: a watermark becomes visible only while both sides hold the same content (on
  Android also the same time, so that nothing is transferred back).
- `PassIsSafe`: these three of a pass of the app: what it replaces is kept, empty saves do not win, watermarks are true.
- `QuietPassConverges`, `QuietRunConverges`, `AllConverge`: a pass or run in which nothing fails leaves both
  sides equal, whatever earlier ones left; and in the whole system, once the players stop, the copies become
  equal and stay so, on PC, cloud and device for the saves and on every PC for the other sources. Two saves
  whose times cannot be told apart are the exception the tolerance implies, an empty save that of the guard. The
  delta cache makes a third in `AllConverge` (`CacheHides`): a save that was opened but not changed on the PC, over a session
  of another device, is skipped by each pass, so that PC and cloud never level.
- `PlaytimeTold`: the database ends with the minutes of each device under that device, none twice.
- `NothingForgotten`, `InstantSyncs`, `EveryWriteScanned`, `EchoEnds`: an event on its way cannot fall
  between the observer thread and the looper; it is answered; a write nobody watched is found by the
  periodic work; passes do not trigger each other for ever.
- `CancelledIfAsked`, `PollSeesEnd`, `SlotSpec`: no run obeys another's cancel; a page that reads "not
  running" reads the result of the last run with it; and the refinement of JobSlot (one run per job).
- `TriggersAct`: a close that was sampled is followed by a sync, unless one is running or a session opened; a check that is due is started.
- `NoSaveLost`, `DiscsAreWhole`, `AnswersAreTrue`: no version of a save disappears in a rename; the `.cue` names its
  track and a set is in one folder unless the answer admits it; answers are true of the files.
- `NothingOverwritten`, `RowsAreTrue`, `UndoReturns`: no ROM is replaced; only a row whose commit was cut
  off is false; an undo without failures takes every ROM back, and its undo forth again.
- Inbox: `NothingLost` (every content is on the disk, in the trash, or inside an archive that is),
  `OnlyLosersDiscarded` (only what lost a conflict is in the trash alone), `LibraryPathStays` (a path of the
  library that held a file holds one, whatever the page and the run resolve at once), `RowsTell` (a row tells the
  content of its file), `NoDropForgotten` (no drop waits for ever while runs are left).
- Library: `NothingLost`; `GameStays`: one playable copy of each game stays whatever two requests decide at once, but
  for the two ways in which the code loses it, which `Excused` states file by file: a numbered disc goes while its title has a
  copy without a number (`Unnumbered`: three discs, "apply all" twice), or the user picked another keeper and each request
  discards what the other keeps (`Crossed`). `SavesServe`: a save stays with a ROM of its name, or on its shelf.
  `ScanCompletes`: a scan with hashes that reports no error leaves each file it found with the hash of its content, but for a row whose
  stamp an earlier quick scan moved on (`aged`). `MarksStay`: the row of a file that is there, with the user's marks, is
  not pruned, but by a cancelled scan of a folder that had not come to it (`CutOff`). `CatalogueHolds`: a title given by
  hash is that of an entry with the hash the row had, one given by name the only one the catalogues have; a
  catalogue is lost only by its own download, when it was due, or by an import (`InPlace`), MAME's not even then.
  `PiecesStay`: prune takes no piece of a set that could be mended.
- Cable: `SaveKept` (the last play of every save is on a side, in a backup or in the trash); `NewestWins` (a newest pass puts no
  older save over a newer one, unless the console has that save at two places, `Twofold`); `MirrorKeeps`: of what was asked a mirror
  removes nothing the other side has, under the name a copy gets there or in another format of the disc, but where
  the code does: a console that was gone was read as empty (`blind`), or, going up, the folder of the PC has another name than
  the canonical one (`Missed`). `NewestLevels` (an undisturbed newest pass leaves each save of the PC equal to a copy of it on the
  console), `CloseIsSynced` (a closed session is followed by a pass).

An exception is a definition of its own, as narrow as the code allows: the stories in which it bites are part of the run, and
without it TLC shows the behaviour.

Each property comes with a mutant: a second form of one definition, as a plausible mistake in that code
would make it (`SharedByAny`, `PrunedNewest`, `FireStartLate`, ...), kept beside the real one, marked "Mutant" and
used by no run. With the mutant in place TLC finds the property violated.

Deadlock is checked where some step is always possible (PcSync, AndroidApp, CloudSuite, Daemons). The
renamer, the Inbox, the library, the cable and CloudJobMC stop when their bounds are used up. `Library_requests` declares its
threads symmetric; its properties are invariants and properties of single steps, for which that is sound.

### Fairness

- `CloudSuite!SuiteSpec`: weak fairness of the steps of the PC's pass, of the app's run and of the walks over the sources, and of
  the upload of the console's log. A pass that has begun goes on (it is a thread that is scheduled), and passes begin again and
  again: the app's by its periodic worker, the PC's by the user, by scheduled tasks and by the watcher of closing
  emulators; the console uploads at every boot. Players owe nothing.
- `AndroidApp!AppSpec`: the observer thread, the looper and the coroutine dispatcher run what is queued,
  and passes end. Writes, news from the cloud and the life of the service are free. WorkManager may wait for
  battery and network, so its fairness is not part of the specification but a premise (`WorkManagerRuns`)
  of the one property that needs it.
- `Daemons!DaemonsSpec`: the two daemon loops run for ever, a thread is created or refused, and a run
  ends (every job thread calls `finish` in a `finally`). Users, emulators and pages are free.
- `InboxPipeline!Spec`: the threads of the two jobs and of the watcher go on; users and failures are free.
- `Cable!Spec`: the daemon polls for ever and adb answers in the end, its cooldown passes, and the thread of a job runs to
  its end. Players, cables, users and cancellations are free.

### Findings

- `PcSync_late_write`: `decide` compares the cloud file's own modification time with the time of the last
  pass. A session played on the console before that pass, but uploaded after it, counts as unchanged and is
  overwritten by the next upload without the `.conflict-` copy that `docs/sync/sync-cloud.md` promises.
- `AndroidSync_torn`: `DropboxTransport.download` streams into the save itself. A download that breaks leaves
  a fragment dated now, which the next run takes for the newer side and uploads over the good save.
  `DriveRestApi.kt` avoids exactly this with a `.part` file.
- `CloudJob_tray`: the sync of the tray icon gives every source the extensions of saves and does not look at
  `sync_all`, which `docs/sync/sync-cloud.md` says turns the filter off. The other files of such a folder look
  missing on the PC, and an older copy of the cloud is downloaded over the newer one of the PC.

### Limits met while modelling

The runs above leave out cases in which the properties are false, or in which the code does what a reader may not
expect. Most can be seen by changing a constant or by adding a story.

Synchronisation:

- `PcSync_quiet`, `Faults = {"blank", "listing"}`: `EmptyNeverWins` fails; a failed listing is read as an empty remote
  (`sync_single_file` does the same).
- `PcSync_faults` with `"pcrace"`: `DownloadKeeps` fails; a session that ends between backup and download is lost.
- `PcSync_quiet` with `"crash"`: `QuietPassConverges` fails; a crash after `mark_synced` loses the watermark but not the
  cache entry, so later an old save that was only touched is taken for the newer side, and its upload skipped. With
  `"late"` it fails as well: the file that came late does not look changed, the touched save looks newer, and its upload is skipped.
- `AllConverge` without `CacheHides` fails: an upload whose content the cache knows is skipped although the listing shows
  that the cloud holds something else (`save_syncer.py:198-207`).
- `AndroidSync`, two runners and `"cloudrace"`: `EmptyNeverWins` fails; one run uploads the save the other has truncated.
  The one `.bak` of a save is rewritten by the next download.
- `CloudJob`: two PCs that share one folder of play logs put each other's minutes back, so one has it here; the database as
  a single-file source is copied whole, newest wins. The walk of the tray ends its states with a caught TypeError and
  backs nothing up; a command of the console ends at the first error rclone does not raise.
- `Cable`: a mirror that goes down discards the PC's files when the console is gone: adb answers with no line
  (`adb_transport.py:331`, `sync_cable.py:1037-1064`), and the folder of a card that was pulled is walked as an empty one. One that goes up over ADB
  removes what it has just copied, when the PC's folder has not the canonical name (`sync_cable.py:937-958`). One that goes down discards the
  ROM that `skip_sha1_dups` has put under the raw path of the console (`sync_cable.py:1012`). Of a save in two folders of the console the older one
  comes down over the newer one. A mirror
  over ADB removes for good; a save written between listing and turn is not compared again; the clock of a card is not checked; a
  session shorter than the cooldown is not seen.

Jobs and renamer:

- `JobManager`, `Faults = {"thread"}`: a job whose thread was refused stays occupied for ever.
- `EmulatorWatch`: a close seen while a sync runs is dropped, even if that sync listed the saves before it.
- `Daemons`: a check that is cancelled writes the schedule too, so the next one is due in a week.
- `RenameApply` leaves out, where a rename replaces (`posix`), an apply with `keep_both` and the undo: there
  `NothingOverwritten` fails; the numbered name is not looked up, and an undo does not look at its target. Both jobs at once (drop `Idle` from `MayStart`):
  `RowsAreTrue` fails.
- `AtomicRename`: a rollback leaves saves it displaced under their `.bak` names. `DiscSetMove`: a save that already bears
  the new name is replaced.

Library:

- Inbox: a name looked up as free and taken before the move is replaced (`NothingLost` fails for a story where a file of
  that name is copied into the platform folder between the two); a move that fails after the destination was discarded leaves the
  path empty (`inbox_pipeline.py:193-220`); members whose name is taken go to the trash with their archive; a file dropped again unchanged before a poll is not tried again; page and
  pipeline may discard one copy each of a pair; a scan of the library during a run prunes rows of what the run organised after the walk.
- Duplicates: two applications of the conflicts at once discard the winner the first one renamed; with three discs and "apply all"
  pressed twice, or with two keepers picked at once, the last copy goes (`Unnumbered`, `Crossed`); "delete all" has no guard for a keeper; the page and `byVariant` choose different keepers.
- Matching: where a disc does not tell its serial, the first title with its number is given, be it of another region (`matcher.py:425-431`): two entries
  "Disc 1" of one game break `CatalogueHolds`.
- Scanner: a cancelled scan of a folder prunes what it had not reached, marks included (`rom_scanner.py:196`, although `scan.py:669-675`
  says a cancelled scan must not); a quick scan keeps the old hash of a changed file under the new stamp
  (`games.py:134`, `scan.py:431-435`), which the next full scan takes for known; an unplugged device lists nothing and is pruned; every
  catalogue but MAME's is downloaded in place, so a broken download replaces the good one and counts as fresh for a week.
- Converters: the clean-ups compare stems, not contents; a stop can leave a torn image that later counts as done; sources of a CSO are
  deleted without a verification.
- Disc sets: repair may take a track from a complete set, and prune discards what two sets share; a torn CHD counts as working.
- Organiser: rows are committed at the end, so a stop leaves them stale; a stop between a ROM and its save parts them;
  migrate and relocate never update rows; `fix-platforms` between two organise requests is not among the stories.

## Proofs

TLAPS proves, for every value of the constants that satisfies the named assumptions:

| theorem | says | argument |
|---|---|---|
| `PcSyncProofs!TypeCorrect` | `TypeOK` always | inductive as `Typed`: a pass in a phase that works on a file has one (`CurOK`) |
| `PcSyncProofs!DownloadsKeep` | `DownloadKeeps`, for any files, any number of passes with or without backups, any other faults, if `backup_save` does not fail and nobody plays during a pass (`Guarded`) | `KeepInv`: backups are not dated in the future (`Dated`); from its backup to its download, what the save holds is backed up, given up, or in the cloud (`Safe`). Other passes may change the save meanwhile, but only to what the cloud holds |
| `PcSyncProofs!WatermarksAreAncestors` | `WatermarkIsAncestor`, for any number of passes, if nobody else writes saves while one runs (`Unshared`) | `SyncedAgree`: a file that is logged, or about to be, has equal sides, because every transfer makes the sides of its file equal and nothing else touches them |
| `PcSyncProofs!EmptySavesNeverWin` | `EmptyNeverWins`, for any number of passes, if `Unshared`, no listing fails (`TrueListing`) and the user picks no side (`NoChoices`) | `Listed`: a file is as each pass has listed it or has become equal; so what a pass goes on with is not empty on one side only (`NotOneEmpty`) |
| `PcSyncProofs!UploadsKeep` | `UploadKeeps`, under the same hypotheses and `OnTime` (no late writes, the finding below is about those) | `Recent`: a cloud copy is what a player went on from, or is newer than the watermark, and then `decide` sees a conflict; `Going`: the loser of a conflict is in a copy, or still on a side, until it is replaced. Passes that meet on a file judge it alike (`Chosen`) |
| `PcSyncProofs!QuietPassesAgree` | `QuietPassConverges`, with any number of passes without a delta cache or one with it, if `Unshared`, no listing or transfer fails and no file is skipped; with the cache, also no crash and no late write (both are needed, see *Limits*) | `Settled`: what a pass is done with agrees and stays so; `AtHand`: the transfer ahead has a source, so the pass cannot fail; `CacheInv`: the cache holds the cloud copy, or that is newer than the watermark and the file is no upload |
| `AndroidAppProofs!PassesAreSafe` | `PassIsSafe`, for any files and faults, if one runner works alone with the saves and the copy to `.bak` does not fail (`Alone`) | `PassInv`: what a run has not taken is as it was listed (`Knows`); what earlier phases did for the file at hand, `.bak`, copy aside, torn prefix, is still so (`AtHand`) |
| `AndroidAppProofs!QuietPassesConverge` | `QuietRunConverges`, if `Alone` | `QuietInv`: a run that is still clean leaves only files whose sides agree behind it (`Settling`) |
| `PcSyncProofs!BackupSaveKeeps` | a backup survives its own pruning, for every bound on the copies | nothing in the store is newer, so the new copy is among the `keep_n` newest |
| `AndroidAppProofs!EventsKept`, `InstantTypeCorrect` | `NothingForgotten` and `TypeOK`, for any set of roots | inductive only with `ScheduledIsPosted`: `scheduled` without `posted` would let `onEvent` skip the post |
| `JobManagerProofs!OneRun` | `OneRunPerJob` | with `RunsHaveJobs`: a run past `new` has a job |
| `JobManagerProofs!ImplementsSlot` | `SlotSpec`: initial states map to initial states, `Start` to `Begin`, `Finish` to `End`, all else to a stutter | uses `OneRun`'s invariant: the holders of a job are one run, so the one that ends leaves the slot empty |
| `JobManagerProofs!OnlyAskedRunsStop` | `CancelledIfAsked` | `CancelIsForHolders`: an event that is set was set while the run that holds the job held it, because `Claim` clears it before the next run exists; it needs `OneRunPerJob` |
| `JobManagerProofs!PollsSeeTheEnd` | `PollSeesEnd` | `PInv`: runs start in order (`StartedInOrder`), so a stored result is older than any run that can still finish (`ResultIsOlder`), and what a page has copied is not newer than what it will read (`CopyIsOlder`) |
| `RenamerProofs!RenameLosesNothing`, `SavesAreKept` | `NoSaveLost` of AtomicRename and of the suite, for any names, saves and faults, rewriting of the sheet that fails included | `KeepInv`: a save that has moved left its old name free (`OldNamesFree`), so a move back replaces nothing |
| `RenamerProofs!RenameAnswersTruly`, `SheetStaysRight` | `AnswerIsTrue`; `SheetIsRight` if the rewriting of the sheet does not fail | `AnswerInv`: in each phase the moved saves are at the new name with their old contents, the others where they were (`Progress`); `SheetInv`: as the rewriting does not fail, it is one step with the move of its track, so the sheet names the track at every step, a rollback's included |
| `RenamerProofs!SetStaysWhole`, `SetAnswersTruly` | the set is in one folder unless the answer admits it; the answer of `DiscSetMove` is true | `SetInv`: unless a move back failed, what `setMoved` lists is in the new folder and all else where it was (`SetProgress`); the sheet moves last (`SheetInPlace`) |
| `RenamerProofs!SuiteRefines` | each behaviour of the suite is one of AtomicRename and of DiscSetMove, whichever part was chosen | a part that did not start stutters, and `Idle` parts satisfy the `Init` of their specification |
| `RenamerProofs!DiscsStayWhole`, `AnswersStayTrue` | `DiscsAreWhole` (if the rewriting of the sheet does not fail), `AnswersAreTrue` of the suite | the theorems on the parts, carried over by `SuiteRefines` |
| `RenameApplyProofs!NoRomIsLost` | `NothingOverwritten`, for any games, paths and number of operations, with crashes, on either system | `ApplyInv`: where a rename replaces, the targets a job has before it are free and different (`Free`), because `Resolve` skips every row whose target is taken or given, and each ROM is in one place (`OnePlace`) |
| `RenameApplyProofs!TableIsTrue` | `RowsAreTrue`: only a row whose commit was cut off is false | `ApplyInv`: the rows a job has before it say where it takes the ROMs from (`Doable`); the operations of one date are of different games, each where its row says it went (`Batch`), which is what an undo starts from |
| `RenameApplyProofs!UndosReturn` | `UndoReturns`, an undo of an undo included | `ReturnInv`: undoing the operations of the last date leads to `origin` (`OriginTrue`), those a running job has recorded to its `start` (`StartTrue`); while nothing fails an undo has each game at its goal or still before it (`GoalNear`). `ApplyInv` turns rows into places |
| `CableProofs!LastPlaysAreKept` | `SaveKept`, for any libraries, consoles, questions, clocks and faults, any number of passes and plays, if what a game writes are its saves (`StoryAssumption`) | `SafeInv`: the last play of a save that is not yet in a backup or the trash is on a side, at a place the code knows as a save, so whatever replaces or removes it there backs it up first |
| `CableProofs!NewestNeverLoses` | `NewestWins` (with no save left out), for any libraries, questions, number of passes and plays, cables pulled and transfers torn before the pass, in stories that are `Orderly`: a save has one place, its canonical one; the sides agree at first; and the clocks differ by less than a play takes (`ClocksAgree`), or by more than the threshold and times are compared through adb only, where the guard refuses | `TimesInv`: the copy with the later time is no older play (`LaterIsNewer`), which each play and each copy keeps because no time is of its side's future (`Timely`); `FreshInv`: while nobody disturbs a pass, what its listing said of the files it has not looked at holds |
| `CableProofs!NewestMakesEqual` | `NewestLevels`, in the same stories, if passes "newest" take all saves and none is in safe mode (`AllSaves`) | `TimesInv` again: where no transfer fails, copies with the same time are the same play (`SameTimeSame`), so "none" is right; `LevelInv`: a save of the PC is level or still to be looked at |
| `CableProofs!MirrorsKeepWhatIsShared` | `MirrorKeeps`, with its two exceptions and no other hypothesis: for any libraries, consoles, folders, exclusions, passes, plays and faults | `SeenInv`: the listing of a pass down that was answered still has all the wanted files of the console; `ExtraInv`: what is left to remove is on one side only, or the pass was `blind` |
| `InboxProofs!LibraryPathsStay` | `LibraryPathStays`, for any drops, archives, catalogues, users, faults and number of runs, if what is dropped or sits in a collection of archives lands where no phase takes a file out of the library (`NothingStray`: junk, a stray BIOS or archive in a platform folder is there to be taken away) | `StayInv`: each file, row, listed operation and act in hand is of a kind that says where it may come from and land (`Good`, `Movable`); so the only step that empties a settled path is the discard of a conflict's loser, and its actor then holds `enter` until it fills the path or it is cut off |
| `InboxProofs!OnlyClashesLose` | `NothingLost` of the Inbox, for the same, as long as no actor that is about to move or pack a file finds the name taken that was free when it looked (`NoClash`, which holds in every state of `Inbox_runs`) | `CameInv`: what came is on the disk, in the trash or among the `replaced`; each step either discards, or moves onto a free path, or writes over what it counts as replaced, and a rename sets a save in the way aside under a free `.bak` |
| `InboxProofs!AloneNothingIsLost` | `NothingLost` without that condition, with any drops at any moment, faults, crashes and runs by hand or by the watcher, if page, wizard, router and saves stay out and drops come to the Inbox and the root only (`Undisturbed`) | `Alone`: the job moves only to places where nothing is dropped and that nobody else writes to (`Beyond`), so a name it found free is free when it moves there (`StillFree`), whatever came meanwhile: `NoClash` |
| `InboxProofs!AloneRowsTell` | `RowsTell`, and that each row of the library has its file, with any drops at any moment, faults, crashes and any number of runs, if `Undisturbed` and no platform's folder is one of the Inbox (`Apart`) | `RowsInv`: only rows of Inbox paths are ever wrong, and only outside the phases between scan and organising (`RowsRight`); what a scan has listed is as it was read, or has been replaced (`SeenRight`); between a move and the row that follows, the file is under a name without a row, and the row of its old name tells it (`MidMove`) |
| `InboxProofs!AloneOnlyLosers` | `OnlyLosersDiscarded` for the same drops, faults, crashes and runs, if moreover what holds files is named like an archive and a set holds the chips it is packed from (`Packed`) | `TrashInv`: an archive that waits to be put away has each member, down to the archives in it, on the disk, in an archive outside the Inbox, or among what was left out or replaced (`WasteRight`, `ExtractRight`), is asked for once (`OnceRight`), and chips go only once their set is in place (`ChipsRight`); a file discarded as a copy has its equal at another path (`SameRight`) |
| `LibraryProofs!RowsAreTrue` | whatever quick, full and cancelled scans, matches, users, faults and stops do, a row of which the file has the stamp, and that is not `aged`, tells the content of that file (`TruthInv`), also in a transaction that is not committed | `IInv`: what a scan carries in its hands, drafts and batches is as true as the table (`DraftInv`, `TruthInv`, `KnownInv`), and the database's one writer keeps it so |
| `LibraryProofs!MarksAreKept` | `MarksStay`, for any library, any number of scans, faults and cancellations | a file that is there all along is listed by the walk, so a prune, which needs a row the scan did not see, passes it by, unless the walk was cut before it (`CutOff`) |
| `LibraryProofs!ScansComplete` | `ScanCompletes`, with quick scans, a match beside the scan and a user who writes and deletes files | `DoneInv`: what a scan has seen is hashed in the table or in its batch, or aged, or waits for its turn; `ListedInv`: what it listed is seen, waits, or was counted as an error; `AgedInv`: the table of a console has no aged rows |
| `LibraryProofs!NothingIsLost` | `NothingLost` of the library, for any files, contents, stories and number of threads that make requests at once, stops and moves that fail included, if nothing converts (`Careful`; see below) | `KInv`: each chore a thread has left is of a kind that replaces nothing and knows what it needs for that (`GoodTodo`); a file that a rollback could bring back finds its place free (`ReturnInv`); so a step discards a file, moves one onto a free path, or sets aside what is in the way of a save |
| `LibraryProofs!ListingStays` | `ListingKept`, of every catalogue, for any downloads and imports, cut short or not | `DatsInv`: what is written in place (`FetchOpen`, `FetchBody`) is the catalogue a download has at hand, which was due, and never the listing of MAME |
| `LibraryProofs!TitlesAreTold`, `CatalogueIsRight` | `OnlyTitle` and `CatalogueHolds`, for any table, files, names and catalogues, with scans, downloads, edits and requests beside the match, if no PlayStation disc changes while a match writes (`DiscsStay`) and no two titles that a file could have are of the number of its disc (`DiscsTell`) | `TitlesInv`: in a transaction of a match each new title is one that the hash it took, or the file, could have (`ByItsHash`, `NameFits`, about `MatchOf` for any finite catalogue), and a scan keeps the titles of the rows it writes |

The assumptions are the named `ASSUME`s of the modules (`None` is no file, bounds are naturals, and the like); every
run evaluates them. The theorems are about the specifications of PcSync, InstantSync, JobManager, RenameApply, Cable, InboxPipeline, LibraryRequests,
AtomicRename and DiscSetMove themselves and, for the app, about `AppSpec`, which chooses between triggers and passes; `RenamerSuite` is the one suite whose theorems say how it runs them side by side.
`OneRunPerJob`, the type invariants of PcSync, InstantSync and AtomicRename, and `SheetIsRight` and `AnswerIsTrue` of the single
parts are proved and therefore not run.

The hypotheses of the theorems about newest passes of the cable are those the stories of `Cable_passes` satisfy: all with such a pass are
`Orderly` and `AllSaves` (a skew of 20 by the guard) but the one with a save in two folders, which is only model-checked. The theorem
about mirrors has none, as the exceptions are part of `MirrorKeeps`.
`ClockAssumption` and `PlaceAssumption` give the times and places their types.

The theorems about the library need these hypotheses. The rows a story starts with are true, or aged (`RowsAssumption`). While a scan
works the other requests write no files, only the user does; and the table of a console, which has a database of its own, has no
rows aged by a scan of a folder: both are `ScansAssumption`. Quick scans over files that change, marks and cancellations are not restricted.
`Careful` leaves out of `NothingIsLost` the converters, the extraction and `cleanup-zips`, which unlink their sources or write over
names looked up earlier: what they lose is what their output, or the extracted copy, stands for, and TLC checks that. Where rows cannot always be
deleted (`"db"`) it leaves out all but scans, matches, downloads and the answers to the duplicates page: a rollback there moves the copy
back over whatever has taken its place meanwhile (`ra_duplicates_service.py:113`), so nothing else may put files there. The user's own
edits are excepted as in the property.
`DiscsStay` and `DiscsTell` hold in every state of the scan stories of `Library_requests`. Both are needed: the title of a disc that is replaced
between its match and the commit is that of the old one, and of two regions with a "Disc 1" each the first one wins (*Limits*). `DatsAssumption` says that
a catalogue is a finite list.

The theorems about the job alone need what they assume. With the page, a name that was free may be taken before the move, and
what the page moves under a name that was listed gets the row of what was there. `Apart` says that the folders
of the platforms are not those of the Inbox, which the code gives a root of its own. `Packed` is about the drops and the DATs: an archive without
the ending of one is moved or scanned as a ROM, and a set is packed from what its manifest lists. `Undisturbed`, `Apart` and `Packed` hold in
the stories `Parts`, `Drives` and `Bioses`; the excuse "was replaced" is that of the properties themselves: an upload that
arrives under a name in use, and a member that is extracted over a file which came meanwhile.

Only model-checked: everything else in the table of runs. In company, that is with page, wizard, router or saves, `OnlyLosersDiscarded`, `RowsTell`
and, where a name is taken under an actor, `NothingLost` of the Inbox hold for the stories of its run and not for any (see *Plan*). `GameStays`, `SavesServe` and `PiecesStay` speak of what a story is about,
and three threads or other stories break the first two (*Limits*). Then there are the liveness properties (`AllConverge`, `PlaytimeTold`,
`InstantSyncs`, `EveryWriteScanned`, `EchoEnds`, `TriggersAct`, `NoDropForgotten`, `CloseIsSynced`), which need fairness and `ENABLED`
and are out of the prover's reach.

## Not modelled

- `dry_run`, which changes nothing; `bind_remote` in PcSync, as there is one remote; `list_backups` and `restore_save`.
- Wording, logging, progress texts, the contents of files beyond what tells them apart; the syntax of DAT files and of names.
- A clock of the PC that jumps; other clocks differ through late writes (cloud) and by a constant (cable).
- Renames that only change upper and lower case; backups made before a rename, whose failure never blocks.
- `.conflict-` copies as files that might themselves be synchronised: their extension excludes them.
- Players who write during a rename.
- Google Drive: its transport keeps a cache of folders and allows two files of one name, which the contract AndroidSync has
  (Dropbox's) does not; it needs a second one.
- Device profiles, RetroArch configuration, patches, hash formulas: text or bytes rewritten by one call, with no state that steps relate.
- Of modelled components: the preview of the Inbox and what is sent on to a console; `create-library-structure` and
  `prune_orphans_outside_roots`; gamelists, assets, tags and dry runs of the cable; profile uploads and the OAuth dialogue;
  the boot receiver and the notifications; consolidation of saves and detection of devices; the repair of disc sets over ADB.
- Screens, browser front end (but for the loops of requests two of its buttons send), scraper, reports, authentication, updates, installer:
  rendering, queries, downloads and single checks.

## Plan

Done: saves first, the only data of the system that cannot be recreated, then what may lose a game. What is left:

1. `DriveTransport`: folder cache and duplicate names, with AndroidSync's promises as its abstract specification.
2. The lifecycle of the Android service (boot, mode switches) in InstantSync; two runners of AndroidSync over one root.
3. `restore_save` over BackupStore, beside a pass of PcSync.
4. Scanner and InboxPipeline over one table, as both jobs may run at once.
5. Patches and path tokens as pure functions against reference definitions.

What OnlyClashesLose leaves open is real: where the name a move found free is taken before it moves (a file copied into
the platform folder meanwhile, a conflict settled there), `shutil.move` replaces what is there. `OnlyLosersDiscarded` and
`RowsTell` of InboxPipeline are proved for the job alone; in company they hold for the stories of the run and not for any, names
kept free or not: a scan records the hash it read when it listed a file, whatever another actor has moved under that name since,
and the organiser goes by the row.

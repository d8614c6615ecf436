---------------------------- MODULE PcSyncProofs ----------------------------
(***************************************************************************)
(* Theorems about PcSync for every set of files, of passes and of faults.  *)
(***************************************************************************)
EXTENDS PcSync, FiniteSetTheorems, TLAPS

-----------------------------------------------------------------------------
(* What backup_save guarantees for every directory, content and retention *)

\* A directory whose backups are dated no later than t.
DatedBy(S, t) == \A b \in S : b.ts \in Int /\ b.ts <= t

\* Pruning never deletes a backup no other one is newer than, whatever
\* retention is configured (save_backup.py 153-171).
LEMMA PruneKeepsNewest ==
    ASSUME NEW S, NEW b \in S, NEW keepN \in Int,
           \A x \in S : x.ts \in Int /\ x.ts <= b.ts
    PROVE  b \in Pruned(S, keepN)
<1>1. CASE keepN <= 0
  BY <1>1 DEF Pruned
<1>2. CASE ~(keepN <= 0)
  <2>1. {x \in S : x.ts > b.ts} = {}
    OBVIOUS
  <2>2. Cardinality({x \in S : x.ts > b.ts}) = 0
    BY <2>1, FS_EmptySet
  <2>3. Cardinality({x \in S : x.ts > b.ts}) < keepN
    BY <1>2, <2>2
  <2>. QED
    BY <1>2, <2>3 DEF Pruned
<1>. QED
  BY <1>1, <1>2

LEMMA PrunedSubset ==
    ASSUME NEW S, NEW keepN
    PROVE  Pruned(S, keepN) \subseteq S
BY DEF Pruned

LEMMA StoredDated ==
    ASSUME NEW S, NEW ts \in Int, NEW c, DatedBy(S, ts)
    PROVE  DatedBy(Stored(S, ts, c), ts)
BY DEF DatedBy, Stored

\* The backups a call leaves are old ones or the new one.
LEMMA BackupSaveRange ==
    ASSUME NEW S, NEW ts, NEW c, NEW keepN
    PROVE  BackupSave(S, ts, c, keepN) \subseteq S \cup {[ts |-> ts, content |-> c]}
BY PrunedSubset DEF BackupSave, Stored

LEMMA BackupSaveDated ==
    ASSUME NEW S, NEW ts \in Int, NEW c, NEW keepN, DatedBy(S, ts)
    PROVE  DatedBy(BackupSave(S, ts, c, keepN), ts)
BY BackupSaveRange DEF DatedBy

\* After backup_save the saved content is among the backups: neither the
\* comparison with the newest backup nor the retention that follows may lose it
\* (save_backup.py 79-90), provided the clock never ran ahead of ts.
THEOREM BackupSaveKeeps ==
    ASSUME NEW S, NEW ts \in Int, NEW c, NEW keepN \in Int, DatedBy(S, ts)
    PROVE  c \in Contents(BackupSave(S, ts, c, keepN))
<1>1. CASE \E b \in S : IsNewest(S, b) /\ b.content = c
  BY <1>1 DEF BackupSave, Contents
<1>2. CASE ~(\E b \in S : IsNewest(S, b) /\ b.content = c)
  <2>. DEFINE T == Stored(S, ts, c)
              new == [ts |-> ts, content |-> c]
  <2>1. new \in T
    BY DEF Stored
  <2>2. \A x \in T : x.ts \in Int /\ x.ts <= new.ts
    BY StoredDated DEF DatedBy
  <2>3. new \in Pruned(T, keepN)
    BY <2>1, <2>2, PruneKeepsNewest
  <2>. QED
    BY <1>2, <2>3 DEF BackupSave, Contents
<1>. QED
  BY <1>1, <1>2

-----------------------------------------------------------------------------
(* A pass *)

\* The phases in which a pass works on the file cur.
Busy == {"backup", "preserve", "transfer", "log", "mark", "note"}

CurOK == \A p \in Pass : pass[p].phase \in Busy => pass[p].cur \in File

Typed == TypeOK /\ CurOK

-----------------------------------------------------------------------------
(* Type correctness *)

LEMMA Constants ==
    /\ MaxTime \in Nat /\ MaxVersion \in Nat /\ Tolerance \in Nat
    /\ None \notin Nat /\ Blank # None /\ Torn # None
    /\ Blank \notin Nat /\ Torn \notin Nat
    /\ KeepN \in Int /\ None \notin Pass /\ None \notin File
    /\ BackupPasses \subseteq Pass
BY BoundsAssumption, DamagedAssumption, ToleranceAssumption, NoneAssumption, PcAssumption

LEMMA SeenType == ASSUME NEW s \in Save \cup {None} PROVE Seen(s) \in Entry
BY Constants DEF Seen, Save, Entry

LEMMA IdleType == IdlePass \in PassState
<1>1. 0 \in 0 .. MaxTime
  BY Constants
<1>2. [f \in File |-> NotSeen] \in [File -> Entry]
  BY DEF NotSeen, Entry
<1>. QED
  BY <1>1, <1>2 DEF IdlePass, PassState, Phases, Actions

LEMMA StoredType ==
    ASSUME NEW S \in SUBSET Copy, NEW ts \in 0 .. MaxTime, NEW c \in Content
    PROVE  Stored(S, ts, c) \in SUBSET Copy
BY DEF Stored, Copy

LEMMA BackupType ==
    ASSUME NEW S \in SUBSET Copy, NEW ts \in 0 .. MaxTime, NEW c \in Content
    PROVE  BackupSave(S, ts, c, KeepN) \in SUBSET Copy
<1>1. [ts |-> ts, content |-> c] \in Copy
  BY DEF Copy
<1>. QED
  BY <1>1, BackupSaveRange

LEMMA InitTyped == Init => Typed
<1>. SUFFICES ASSUME Init PROVE Typed
  OBVIOUS
<1>1. BaseTypeOK
  BY Constants DEF Init, BaseInit, BaseTypeOK, Folder
<1>2. TypeOK
  BY <1>1, IdleType DEF Init, TypeOK, Folder
<1>3. CurOK
  BY DEF Init, CurOK, IdlePass, Busy
<1>. QED
  BY <1>2, <1>3 DEF Typed

\* The state of one pass is replaced by a well-formed one.
LEMMA UpdateTyped ==
    ASSUME Typed, NEW p \in Pass, NEW r \in PassState, r.phase \in Busy => r.cur \in File,
           pass' = [pass EXCEPT ![p] = r]
    PROVE  pass' \in [Pass -> PassState] /\ CurOK'
BY DEF Typed, TypeOK, CurOK

\* Changing the phase of a pass between two files or within one.
LEMMA GotoTyped ==
    ASSUME Typed, NEW p \in Pass, NEW ph \in Phases, Goto(p, ph),
           ph \in Busy => pass[p].phase \in Busy
    PROVE  pass' \in [Pass -> PassState] /\ CurOK'
<1>. DEFINE r == [pass[p] EXCEPT !.phase = ph]
<1>1. pass[p] \in PassState
  BY DEF Typed, TypeOK
<1>2. r \in PassState
  BY <1>1 DEF PassState
<1>3. r.phase \in Busy => r.cur \in File
  BY <1>1 DEF PassState, Typed, CurOK
<1>4. pass' = [pass EXCEPT ![p] = r]
  BY <1>1 DEF Goto
<1>. HIDE DEF r
<1>. QED
  BY <1>2, <1>3, <1>4, UpdateTyped

LEMMA StartTyped ==
    ASSUME Typed, NEW p \in Pass, Start(p) PROVE Typed'
<1>1. [f \in File |-> Seen(local[f])] \in [File -> Entry]
  BY SeenType DEF Typed, TypeOK, Folder
<1>2. now \in 0 .. MaxTime
  BY DEF Typed, TypeOK, BaseTypeOK
<1>. DEFINE r == [IdlePass EXCEPT !.phase = "list", !.ts = now,
                     !.mine = [f \in File |-> Seen(local[f])]]
<1>3. r \in PassState /\ r.phase \notin Busy
  BY <1>1, <1>2, IdleType DEF PassState, Phases, IdlePass, Busy
<1>4. pass' = [pass EXCEPT ![p] = r]
  BY DEF Start
<1>. HIDE DEF r
<1>5. pass' \in [Pass -> PassState] /\ CurOK'
  BY <1>3, <1>4, UpdateTyped
<1>. QED
  BY <1>5 DEF Typed, TypeOK, BaseTypeOK, Start, baseVars

LEMMA ListTyped ==
    ASSUME Typed, NEW p \in Pass, ListRemote(p) PROVE Typed'
<1>. DEFINE theirs(failed) == [f \in File |-> IF failed THEN NotSeen ELSE Seen(remote[f])]
            todo(failed) == {f \in File : \/ pass[p].mine[f].mtime # None
                                          \/ theirs(failed)[f].mtime # None}
            r(failed) == [pass[p] EXCEPT !.phase = "next", !.theirs = theirs(failed),
                                         !.todo = todo(failed)]
<1>1. PICK failed \in BOOLEAN : pass' = [pass EXCEPT ![p] = r(failed)]
  BY DEF ListRemote, Typed, TypeOK
<1>2. theirs(failed) \in [File -> Entry]
  BY SeenType DEF Typed, TypeOK, BaseTypeOK, Folder, NotSeen, Entry
<1>3. todo(failed) \in SUBSET File
  OBVIOUS
<1>4. pass[p] \in PassState
  BY DEF Typed, TypeOK
<1>. HIDE DEF theirs, todo
<1>5. r(failed) \in PassState /\ r(failed).phase \notin Busy
  BY <1>2, <1>3, <1>4 DEF PassState, Phases, Busy
<1>. HIDE DEF r
<1>6. pass' \in [Pass -> PassState] /\ CurOK'
  BY <1>1, <1>5, UpdateTyped
<1>. QED
  BY <1>6 DEF Typed, TypeOK, BaseTypeOK, ListRemote, baseVars

LEMMA SkipTyped ==
    ASSUME Typed, NEW p \in Pass, NEW f \in File, SkipFile(p, f) PROVE Typed'
<1>. DEFINE r == [pass[p] EXCEPT !.todo = @ \ {f}]
<1>1. pass[p] \in PassState /\ pass[p].phase = "next"
  BY DEF Typed, TypeOK, SkipFile
<1>2. pass' = [pass EXCEPT ![p] = r]
  BY <1>1 DEF SkipFile
<1>3. r \in PassState /\ r.phase \notin Busy
  BY <1>1 DEF PassState, Busy
<1>. HIDE DEF r
<1>4. pass' \in [Pass -> PassState] /\ CurOK'
  BY <1>2, <1>3, UpdateTyped
<1>. QED
  BY <1>4 DEF Typed, TypeOK, BaseTypeOK, SkipFile, baseVars

\* Starting to work on a file.
LEMMA TakeTyped ==
    ASSUME Typed, NEW p \in Pass, NEW f \in File, NEW ph \in Phases, NEW a \in Actions,
           NEW w \in BOOLEAN, Take(p, f, ph, a, w)
    PROVE  pass' \in [Pass -> PassState] /\ CurOK'
<1>. DEFINE r == [pass[p] EXCEPT !.todo = @ \ {f}, !.cur = f, !.phase = ph,
                                 !.action = a, !.localWins = w]
<1>1. pass[p] \in PassState
  BY DEF Typed, TypeOK
<1>2. pass' = [pass EXCEPT ![p] = r]
  BY <1>1 DEF Take
<1>3. r \in PassState /\ r.cur \in File
  BY <1>1 DEF PassState
<1>. HIDE DEF r
<1>. QED
  BY <1>2, <1>3, UpdateTyped

LEMMA OneWayTyped ==
    ASSUME Typed, NEW p \in Pass, NEW f \in File, TakeOneWay(p, f) PROVE Typed'
<1>1. pass' \in [Pass -> PassState] /\ CurOK'
  BY TakeTyped DEF TakeOneWay, Phases, Actions
<1>. QED
  BY <1>1 DEF Typed, TypeOK, BaseTypeOK, TakeOneWay, baseVars

LEMMA ConflictTyped ==
    ASSUME Typed, NEW p \in Pass, NEW f \in File, TakeConflict(p, f) PROVE Typed'
<1>1. PICK o \in OverrideChoices :
        \/ Take(p, f, "note", "conflict", FALSE)
        \/ Take(p, f, "backup", "conflict",
                LocalWins(o, Policy, pass[p].mine[f].mtime, pass[p].theirs[f].mtime))
  BY DEF TakeConflict
<1>2. LocalWins(o, Policy, pass[p].mine[f].mtime, pass[p].theirs[f].mtime) \in BOOLEAN
  BY DEF LocalWins
<1>3. pass' \in [Pass -> PassState] /\ CurOK'
  BY <1>1, <1>2, TakeTyped DEF Phases, Actions
<1>. QED
  BY <1>3 DEF Typed, TypeOK, BaseTypeOK, TakeConflict, baseVars

LEMMA ContentType == ASSUME NEW s \in Save \cup {None}, s # None PROVE s.content \in Content
BY DEF Save

LEMMA BackupTyped ==
    ASSUME Typed, NEW p \in Pass, Backup(p) PROVE Typed'
<1>. DEFINE f == pass[p].cur
            b == BackupSave(backups[f], now, local[f].content, KeepN)
<1>1. pass[p].phase = "backup" /\ f \in File /\ pass[p].phase \in Busy
  BY DEF Typed, CurOK, Busy, Backup
<1>2. pass' \in [Pass -> PassState] /\ CurOK'
  BY <1>1, GotoTyped DEF Backup, Phases, Busy
<1>3. CASE UNCHANGED <<backups, pruned>>
  BY <1>2, <1>3 DEF Typed, TypeOK, BaseTypeOK, Backup, baseVars
<1>4. CASE /\ local[f] # None
           /\ backups' = [backups EXCEPT ![f] = b]
           /\ pruned' = pruned \cup (Contents(backups[f]) \ Contents(b))
  <2>1. backups[f] \in SUBSET Copy /\ now \in 0 .. MaxTime /\ local[f].content \in Content
    BY <1>1, <1>4, ContentType DEF Typed, TypeOK, BaseTypeOK, Folder
  <2>2. b \in SUBSET Copy
    BY <2>1, BackupType
  <2>3. backups' \in [File -> SUBSET Copy]
    BY <1>1, <1>4, <2>2 DEF Typed, TypeOK
  <2>4. Contents(backups[f]) \subseteq Content
    BY <2>1 DEF Contents, Copy
  <2>5. pruned' \subseteq Content
    BY <1>4, <2>4 DEF Typed, TypeOK
  <2>. QED
    BY <1>2, <2>3, <2>5 DEF Typed, TypeOK, BaseTypeOK, Backup, baseVars
<1>. QED
  BY <1>3, <1>4 DEF Backup

LEMMA PreserveTyped ==
    ASSUME Typed, NEW p \in Pass, Preserve(p) PROVE Typed'
<1>. DEFINE f == pass[p].cur
<1>1. f \in File /\ pass[p].phase \in Busy /\ pass[p].ts \in 0 .. MaxTime
  BY DEF Typed, TypeOK, CurOK, Busy, Preserve, PassState
<1>2. pass' \in [Pass -> PassState] /\ CurOK'
  BY <1>1, GotoTyped DEF Preserve, Phases, Busy
<1>3. Loser(p, f) \in Save \cup {None} /\ Loser(p, f) # None
  BY <1>1 DEF Typed, TypeOK, BaseTypeOK, Folder, Loser, Preserve
<1>4. Stored(copies[f], pass[p].ts, Loser(p, f).content) \in SUBSET Copy
  BY <1>1, <1>3, ContentType, StoredType DEF Typed, TypeOK
<1>5. copies' \in [File -> SUBSET Copy]
  BY <1>1, <1>4 DEF Typed, TypeOK, Preserve
<1>. QED
  BY <1>2, <1>5 DEF Typed, TypeOK, BaseTypeOK, Preserve, baseVars

LEMMA UploadTyped ==
    ASSUME Typed, NEW p \in Pass, Upload(p) PROVE Typed'
<1>1. pass[p].cur \in File /\ pass[p].phase \in Busy
  BY DEF Typed, CurOK, Busy, Upload
<1>2. pass' \in [Pass -> PassState] /\ CurOK'
  BY <1>1, GotoTyped DEF Upload, AfterTransfer, Phases, Busy
<1>3. remote' \in Folder
  BY <1>1 DEF Typed, TypeOK, BaseTypeOK, Folder, Upload
<1>. QED
  BY <1>2, <1>3 DEF Typed, TypeOK, BaseTypeOK, Upload

LEMMA DownloadTyped ==
    ASSUME Typed, NEW p \in Pass, Download(p) PROVE Typed'
<1>1. pass[p].cur \in File /\ pass[p].phase \in Busy
  BY DEF Typed, CurOK, Busy, Download
<1>2. pass' \in [Pass -> PassState] /\ CurOK'
  BY <1>1, GotoTyped DEF Download, AfterTransfer, Phases, Busy
<1>3. local' \in Folder
  BY <1>1 DEF Typed, TypeOK, BaseTypeOK, Folder, Download
<1>. QED
  BY <1>2, <1>3 DEF Typed, TypeOK, BaseTypeOK, Download, baseVars

LEMMA FailsTyped ==
    ASSUME Typed, NEW p \in Pass, TransferFails(p) PROVE Typed'
<1>1. pass[p].cur \in File /\ pass[p].phase \in Busy
  BY DEF Typed, CurOK, Busy, TransferFails
<1>2. pass' \in [Pass -> PassState] /\ CurOK'
  BY <1>1, GotoTyped DEF TransferFails, Phases, Busy
<1>3. delta' \in [File -> Content \cup {None}]
  BY <1>1 DEF Typed, TypeOK, TransferFails
<1>. QED
  BY <1>2, <1>3 DEF Typed, TypeOK, BaseTypeOK, TransferFails, baseVars

LEMMA OtherTyped ==
    ASSUME Typed, NEW p \in Pass, LogOther(p) PROVE Typed'
<1>. DEFINE r == [pass[p] EXCEPT !.phase = "next", !.cur = None]
<1>1. pass[p] \in PassState
  BY DEF Typed, TypeOK
<1>2. pass' = [pass EXCEPT ![p] = r]
  BY <1>1 DEF LogOther
<1>3. r \in PassState /\ r.phase \notin Busy
  BY <1>1 DEF PassState, Phases, Busy
<1>. HIDE DEF r
<1>4. pass' \in [Pass -> PassState] /\ CurOK'
  BY <1>2, <1>3, UpdateTyped
<1>. QED
  BY <1>4 DEF Typed, TypeOK, BaseTypeOK, LogOther, baseVars

LEMMA OkTyped ==
    ASSUME Typed, NEW p \in Pass, LogOk(p) PROVE Typed'
<1>. DEFINE f == pass[p].cur
            conflict == pass[p].action = "conflict"
            r == [pass[p] EXCEPT !.logged = @ \cup {f},
                                 !.phase = IF conflict THEN "next" ELSE "mark",
                                 !.cur = IF conflict THEN None ELSE f]
<1>1. pass[p] \in PassState /\ f \in File
  BY DEF Typed, TypeOK, CurOK, Busy, LogOk
<1>2. pass' = [pass EXCEPT ![p] = r]
  BY <1>1 DEF LogOk
<1>3. r \in PassState /\ (r.phase \in Busy => r.cur \in File)
  BY <1>1 DEF PassState, Phases, Busy
<1>. HIDE DEF r
<1>4. pass' \in [Pass -> PassState] /\ CurOK'
  BY <1>2, <1>3, UpdateTyped
<1>. QED
  BY <1>4 DEF Typed, TypeOK, BaseTypeOK, LogOk, baseVars

LEMMA MarkTyped ==
    ASSUME Typed, NEW p \in Pass, MarkSynced(p) PROVE Typed'
<1>. DEFINE f == pass[p].cur
            conflict == pass[p].action = "conflict"
            r == [pass[p] EXCEPT !.phase = IF conflict THEN "log" ELSE "next",
                                 !.cur = IF conflict THEN f ELSE None]
<1>1. pass[p] \in PassState /\ f \in File
  BY DEF Typed, TypeOK, CurOK, Busy, MarkSynced
<1>2. pass' = [pass EXCEPT ![p] = r]
  BY <1>1 DEF MarkSynced
<1>3. r \in PassState /\ (r.phase \in Busy => r.cur \in File)
  BY <1>1 DEF PassState, Phases, Busy
<1>. HIDE DEF r
<1>4. pass' \in [Pass -> PassState] /\ CurOK'
  BY <1>2, <1>3, UpdateTyped
<1>5. local[f] # None => local[f].content \in Content
  BY <1>1, ContentType DEF Typed, TypeOK, Folder
<1>6. delta' \in [File -> Content \cup {None}]
  BY <1>1, <1>5 DEF Typed, TypeOK, MarkSynced
<1>. QED
  BY <1>4, <1>6 DEF Typed, TypeOK, BaseTypeOK, MarkSynced, baseVars

LEMMA IdleTyped ==
    ASSUME Typed, NEW p \in Pass, pass' = [pass EXCEPT ![p] = IdlePass]
    PROVE  pass' \in [Pass -> PassState] /\ CurOK'
BY IdleType, UpdateTyped DEF IdlePass, Busy

LEMMA FinishTyped ==
    ASSUME Typed, NEW p \in Pass, Finish(p) PROVE Typed'
<1>1. pass' \in [Pass -> PassState] /\ CurOK'
  BY IdleTyped DEF Finish
<1>2. pass[p].ts \in 0 .. MaxTime
  BY DEF Typed, TypeOK, PassState
<1>3. watermark' \in [File -> 0 .. MaxTime \cup {None}]
  BY <1>2 DEF Typed, TypeOK, Finish
<1>. QED
  BY <1>1, <1>3 DEF Typed, TypeOK, BaseTypeOK, Finish, baseVars

LEMMA AbortTyped ==
    ASSUME Typed, NEW p \in Pass, Abort(p) PROVE Typed'
<1>1. pass' \in [Pass -> PassState] /\ CurOK'
  BY IdleTyped DEF Abort, Rollback
<1>. QED
  BY <1>1 DEF Typed, TypeOK, BaseTypeOK, Abort, Rollback, baseVars

LEMMA PassStepTyped ==
    ASSUME Typed, NEW p \in Pass, PassStep(p) PROVE Typed'
BY StartTyped, ListTyped, SkipTyped, OneWayTyped, ConflictTyped, BackupTyped,
   PreserveTyped, UploadTyped, DownloadTyped, FailsTyped, OtherTyped, OkTyped,
   MarkTyped, FinishTyped, AbortTyped DEF PassStep

LEMMA CrashTyped == ASSUME Typed, Crash PROVE Typed'
<1>1. pass' \in [Pass -> PassState] /\ CurOK'
  BY IdleType DEF Crash, CurOK, IdlePass, Busy
<1>. QED
  BY <1>1 DEF Typed, TypeOK, BaseTypeOK, Crash, baseVars

\* The player's steps: the save of one file, the history, nothing else.
LEMMA LocalTyped ==
    ASSUME Typed, NEW f \in File, NEW s \in Save \cup {None},
           local' = [local EXCEPT ![f] = s],
           made' \in 0 .. MaxVersion, superseded' \subseteq Content, PcFileOnly
    PROVE  Typed'
<1>1. local' \in Folder
  BY DEF Typed, TypeOK, Folder
<1>. QED
  BY <1>1 DEF Typed, TypeOK, BaseTypeOK, CurOK, PcFileOnly

LEMMA ContentOfType == ASSUME NEW s \in Save \cup {None} PROVE ContentOf(s) \subseteq Content
BY ContentType DEF ContentOf

LEMMA EnvTyped == ASSUME Typed, PcEnv PROVE Typed'
<1>1. CASE Tick /\ UNCHANGED pcVars
  BY <1>1, Constants DEF Typed, TypeOK, BaseTypeOK, CurOK, Tick, pcVars
<1>2. ASSUME NEW f \in File, PcPlay(f) PROVE Typed'
  <2>1. made + 1 \in Version /\ now \in 0 .. MaxTime
    BY <1>2, Constants DEF PcPlay, Version, Typed, TypeOK, BaseTypeOK
  <2>2. [content |-> made + 1, mtime |-> now] \in Save
    BY <2>1 DEF Save, Content
  <2>3. superseded' \subseteq Content
    BY <1>2, ContentOfType DEF PcPlay, Typed, TypeOK, BaseTypeOK, Folder
  <2>4. made' \in 0 .. MaxVersion
    BY <1>2, <2>1, Constants DEF PcPlay, Version
  <2>. QED
    BY <1>2, <2>2, <2>3, <2>4, LocalTyped DEF PcPlay
<1>3. ASSUME NEW f \in File, PcTouch(f) PROVE Typed'
  <2>. DEFINE s == [local[f] EXCEPT !.mtime = now]
  <2>1. local[f] \in Save /\ now \in 0 .. MaxTime
    BY <1>3 DEF PcTouch, Typed, TypeOK, BaseTypeOK, Folder
  <2>2. s \in Save
    BY <2>1 DEF Save
  <2>3. local' = [local EXCEPT ![f] = s]
    BY <1>3 DEF PcTouch, Typed, TypeOK, Folder
  <2>. HIDE DEF s
  <2>. QED
    BY <1>3, <2>2, <2>3, LocalTyped DEF PcTouch, Typed, TypeOK, BaseTypeOK
<1>4. ASSUME NEW f \in File, PcTruncate(f) PROVE Typed'
  <2>1. [content |-> Blank, mtime |-> now] \in Save
    BY DEF Save, Content, Typed, TypeOK, BaseTypeOK
  <2>2. superseded' \subseteq Content
    BY <1>4, ContentOfType DEF PcTruncate, Typed, TypeOK, BaseTypeOK, Folder
  <2>. QED
    BY <1>4, <2>1, <2>2, LocalTyped DEF PcTruncate, Typed, TypeOK, BaseTypeOK
<1>5. ASSUME NEW f \in File, PcDelete(f) PROVE Typed'
  <2>1. superseded' \subseteq Content
    BY <1>5, ContentOfType DEF PcDelete, Typed, TypeOK, BaseTypeOK, Folder
  <2>. QED
    BY <1>5, <2>1, LocalTyped DEF PcDelete, Typed, TypeOK, BaseTypeOK
<1>6. ASSUME NEW f \in File, NEW m \in 0 .. now, RemoteWrite(f, m) PROVE Typed'
  <2>1. made + 1 \in Version /\ m \in 0 .. MaxTime
    BY <1>6, Constants DEF RemoteWrite, Version, Typed, TypeOK, BaseTypeOK
  <2>2. [content |-> made + 1, mtime |-> m] \in Save
    BY <2>1 DEF Save, Content
  <2>3. remote' \in Folder
    BY <1>6, <2>2 DEF RemoteWrite, Typed, TypeOK, BaseTypeOK, Folder
  <2>4. superseded' \subseteq Content
    BY <1>6, ContentOfType DEF RemoteWrite, Typed, TypeOK, BaseTypeOK, Folder
  <2>5. made' \in 0 .. MaxVersion
    BY <1>6, <2>1, Constants DEF RemoteWrite, Version
  <2>. QED
    BY <1>6, <2>3, <2>4, <2>5 DEF RemoteWrite, Typed, TypeOK, BaseTypeOK, CurOK, pcVars
<1>. QED
  BY <1>1, <1>2, <1>3, <1>4, <1>5, <1>6 DEF PcEnv

LEMMA NextTyped == Typed /\ [Next]_vars => Typed'
<1>. SUFFICES ASSUME Typed, [Next]_vars PROVE Typed'
  OBVIOUS
<1>1. CASE UNCHANGED vars
  BY <1>1 DEF Typed, TypeOK, BaseTypeOK, CurOK, vars, baseVars, pcVars
<1>. QED
  BY <1>1, CrashTyped, PassStepTyped, EnvTyped DEF Next

\* Every state of the program has the stated types.
THEOREM TypeCorrect == Spec => []TypeOK
<1>1. Spec => []Typed
  BY InitTyped, NextTyped, PTL DEF Spec
<1>. QED
  BY <1>1, PTL DEF Typed

-----------------------------------------------------------------------------
(* Downloads keep what they replace.  The argument: from the moment a pass  *)
(* has backed a save up until it downloads over it, the content of the save *)
(* is in a backup, or retention or its player gave it up, or it is in the   *)
(* cloud; other passes may change the save meanwhile, but only to what the  *)
(* cloud holds, and the cloud only loses what it holds to the local save or *)
(* to a player who went on from it.                                         *)

\* Backups do not fail and nobody plays while a pass runs.
Guarded == "backup" \notin Faults /\ "pcrace" \notin Faults

Dated == \A f \in File : DatedBy(backups[f], now)

Backed(f, c) ==
    \/ c \in superseded \/ c \in pruned
    \/ c \in Contents(backups[f])
    \/ c \in ContentOf(remote[f])

\* Past its backup, with the local save about to be replaced.
Replacing(p) == pass[p].phase \in {"preserve", "transfer"} /\ ~pass[p].localWins

Safe == \A p \in BackupPasses : Replacing(p) =>
            \A c \in ContentOf(local[pass[p].cur]) : Backed(pass[p].cur, c)

KeepInv == Typed /\ Dated /\ Safe

LEMMA DatedMono ==
    ASSUME NEW S, NEW t \in Int, NEW u \in Int, t <= u, DatedBy(S, t)
    PROVE  DatedBy(S, u)
BY DEF DatedBy

LEMMA DatedStep == Typed /\ Dated /\ [Next]_vars => Dated'
<1>. SUFFICES ASSUME Typed, Dated, [Next]_vars PROVE Dated'
  OBVIOUS
<1>1. now \in Int /\ now' \in Int
  BY NextTyped DEF Typed, TypeOK, BaseTypeOK
<1>2. CASE UNCHANGED backups /\ now' = now
  BY <1>2 DEF Dated
<1>3. CASE UNCHANGED backups /\ now' = now + 1
  BY <1>1, <1>3, DatedMono DEF Dated
<1>4. ASSUME NEW p \in Pass, Backup(p), ~UNCHANGED backups PROVE Dated'
  <2>. DEFINE f == pass[p].cur
              b == BackupSave(backups[f], now, local[f].content, KeepN)
  <2>1. backups' = [backups EXCEPT ![f] = b] /\ now' = now /\ f \in File
    BY <1>4 DEF Backup, Typed, CurOK, Busy, baseVars
  <2>2. DatedBy(b, now)
    BY <1>1, <2>1, BackupSaveDated DEF Dated
  <2>. QED
    BY <2>1, <2>2 DEF Dated, Typed, TypeOK
<1>5. ASSUME NEW p \in Pass, PassStep(p), ~Backup(p) PROVE UNCHANGED backups /\ now' = now
  BY <1>5 DEF PassStep, Start, ListRemote, SkipFile, TakeOneWay, TakeConflict, Preserve,
     Upload, Download, TransferFails, LogOther, LogOk, MarkSynced, Finish, Abort, baseVars
<1>6. CASE UNCHANGED vars
  BY <1>2, <1>6 DEF vars, pcVars, baseVars
<1>7. CASE Crash
  BY <1>2, <1>7 DEF Crash, baseVars
<1>8. CASE PcEnv
  BY <1>2, <1>3, <1>8 DEF PcEnv, Tick, PcPlay, PcTouch, PcTruncate, PcDelete, RemoteWrite,
     PcFileOnly, pcVars
<1>9. ASSUME NEW p \in Pass, Backup(p), UNCHANGED backups PROVE Dated'
  BY <1>2, <1>9 DEF Backup, baseVars
<1>. QED
  BY <1>2, <1>4, <1>5, <1>6, <1>7, <1>8, <1>9 DEF Next

\* A pass moves on and nothing a backup is about changes.
LEMMA SafeFrame ==
    ASSUME KeepInv, NEW p \in Pass, UNCHANGED <<local, remote, superseded, backups, pruned>>,
           \A q \in Pass \ {p} : pass'[q] = pass[q],
           Replacing(p)' => Replacing(p) /\ pass'[p].cur = pass[p].cur
    PROVE  Safe'
BY Constants DEF KeepInv, Safe, Replacing, Backed

LEMMA BackupSafe ==
    ASSUME Guarded, KeepInv, NEW p \in Pass, Backup(p) PROVE Safe'
<1>1. PICK f \in File : f = pass[p].cur
  BY DEF KeepInv, Typed, CurOK, Busy, Backup
<1>. DEFINE b == BackupSave(backups[f], now, local[f].content, KeepN)
<1>2. /\ \A q \in Pass : pass'[q].cur = pass[q].cur /\ pass'[q].localWins = pass[q].localWins
      /\ \A q \in Pass \ {p} : pass'[q] = pass[q]
  BY DEF KeepInv, Typed, TypeOK, PassState, Backup, Goto
<1>3. UNCHANGED <<local, remote, superseded>>
  BY DEF Backup, baseVars
<1>4. SUFFICES ASSUME NEW q \in BackupPasses, Replacing(q)', NEW g, g = pass[q].cur,
                      NEW c \in ContentOf(local[g])
               PROVE  Backed(g, c)'
  BY <1>2, <1>3, Constants DEF Safe, Backed
<1>5. CASE local[f] = None \/ p \notin BackupPasses
  <2>1. UNCHANGED <<backups, pruned>>
    BY <1>1, <1>5 DEF Backup
  <2>2. q # p /\ q \in Pass
    BY <1>1, <1>4, <1>5, Constants DEF ContentOf
  <2>3. Backed(g, c)
    BY <1>2, <1>4, <2>2 DEF KeepInv, Safe, Replacing
  <2>. QED
    BY <1>3, <2>1, <2>3 DEF Backed
<1>6. CASE local[f] # None /\ p \in BackupPasses
  <2>1. /\ backups' = [backups EXCEPT ![f] = b]
        /\ pruned' = pruned \cup (Contents(backups[f]) \ Contents(b))
    BY <1>1, <1>6 DEF Backup, Guarded
  <2>2. now \in Int
    BY DEF KeepInv, Typed, TypeOK, BaseTypeOK
  <2>3. local[f].content \in Contents(b)
    BY <2>2, Constants, BackupSaveKeeps DEF KeepInv, Dated
  <2>4. backups \in [File -> SUBSET Copy]
    BY DEF KeepInv, Typed, TypeOK
  <2>. HIDE DEF b
  <2>5. CASE q = p
    BY <1>1, <1>4, <1>6, <2>1, <2>3, <2>4, <2>5 DEF ContentOf, Backed
  <2>6. CASE q # p
    <3>1. Backed(g, c) /\ g \in File
      BY Constants, <1>2, <1>4, <2>6 DEF KeepInv, Safe, Replacing, Typed, CurOK, Busy
    <3>. QED
      BY <1>3, <2>1, <2>4, <3>1 DEF Backed
  <2>. QED
    BY <2>5, <2>6
<1>. QED
  BY <1>5, <1>6

\* Both transfers make the two sides of the file equal.
LEMMA TransferSafe ==
    ASSUME KeepInv, NEW p \in Pass, Upload(p) \/ Download(p) PROVE Safe'
<1>1. PICK f \in File : f = pass[p].cur
  BY DEF KeepInv, Typed, CurOK, Busy, Upload, Download
<1>2. pass \in [Pass -> PassState] /\ local \in Folder /\ remote \in Folder
  BY DEF KeepInv, Typed, TypeOK, BaseTypeOK
<1>3. Goto(p, AfterTransfer(p)) /\ AfterTransfer(p) \in {"mark", "log"}
  BY DEF Upload, Download, AfterTransfer
<1>4. \A q \in Pass \ {p} : pass'[q] = pass[q]
  BY <1>2, <1>3 DEF Goto
<1>5. ~Replacing(p)'
  BY <1>2, <1>3 DEF Goto, Replacing, PassState
<1>6. UNCHANGED <<superseded, backups, pruned>>
  BY DEF Upload, Download, baseVars
<1>7. local'[f] = remote'[f]
  BY <1>1, <1>2 DEF Upload, Download, Folder, baseVars
<1>8. \A g \in File \ {f} : local'[g] = local[g] /\ remote'[g] = remote[g]
  BY <1>1, <1>2 DEF Upload, Download, Folder, baseVars
<1>9. SUFFICES ASSUME NEW q \in BackupPasses, Replacing(q)', q # p, NEW g, g = pass[q].cur,
                      NEW c \in ContentOf(local'[g])
               PROVE  Backed(g, c)'
  BY <1>4, <1>5, Constants DEF Safe, Backed
<1>10. Replacing(q) /\ g \in File
  BY Constants, <1>4, <1>9 DEF Replacing, KeepInv, Typed, CurOK, Busy
<1>11. CASE g = f
  BY <1>7, <1>9, <1>11 DEF Backed
<1>12. CASE g # f
  <2>1. Backed(g, c)
    BY <1>8, <1>9, <1>10, <1>12 DEF KeepInv, Safe
  <2>. QED
    BY <1>6, <1>8, <1>10, <1>12, <2>1 DEF Backed
<1>. QED
  BY <1>11, <1>12

LEMMA PassStepSafe ==
    ASSUME Guarded, KeepInv, NEW p \in Pass, PassStep(p) PROVE Safe'
<1>1. pass \in [Pass -> PassState]
  BY DEF KeepInv, Typed, TypeOK
<1>2. CASE Backup(p)
  BY <1>2, BackupSafe
<1>3. CASE Upload(p) \/ Download(p)
  BY <1>3, TransferSafe
<1>4. CASE Start(p) \/ ListRemote(p) \/ Finish(p) \/ Abort(p)
  <2>1. \A q \in Pass \ {p} : pass'[q] = pass[q]
    BY <1>1, <1>4 DEF Start, ListRemote, Finish, Abort, Rollback
  <2>2. CASE Start(p)
    BY <1>1, <2>2, <2>1, SafeFrame DEF Start, IdlePass, Replacing, baseVars
  <2>3. CASE ListRemote(p)
    <3>. DEFINE theirs(failed) == [f \in File |-> IF failed THEN NotSeen ELSE Seen(remote[f])]
                todo(failed) == {f \in File : \/ pass[p].mine[f].mtime # None
                                              \/ theirs(failed)[f].mtime # None}
                r(failed) == [pass[p] EXCEPT !.phase = "next", !.theirs = theirs(failed),
                                             !.todo = todo(failed)]
    <3>1. PICK failed \in BOOLEAN : pass' = [pass EXCEPT ![p] = r(failed)]
      BY <1>1, <2>3 DEF ListRemote
    <3>. HIDE DEF theirs, todo
    <3>2. pass'[p].phase = "next"
      BY <1>1, <3>1 DEF PassState
    <3>. QED
      BY <2>1, <2>3, <3>2, SafeFrame DEF ListRemote, Replacing, baseVars
  <2>4. CASE Finish(p) \/ Abort(p)
    BY <1>1, <2>4, <2>1, SafeFrame DEF Finish, Abort, Rollback, IdlePass, Replacing, baseVars
  <2>. QED
    BY <1>4, <2>2, <2>3, <2>4
<1>5. ASSUME NEW f \in File, SkipFile(p, f) \/ TakeOneWay(p, f) \/ TakeConflict(p, f)
      PROVE  Safe'
  <2>1. ~Replacing(p)' /\ \A q \in Pass \ {p} : pass'[q] = pass[q]
    BY <1>1, <1>5 DEF SkipFile, TakeOneWay, TakeConflict, Take, Replacing, PassState
  <2>. QED
    BY <1>5, <2>1, SafeFrame DEF SkipFile, TakeOneWay, TakeConflict, baseVars
<1>6. CASE Preserve(p)
  <2>1. /\ \A q \in Pass \ {p} : pass'[q] = pass[q]
        /\ Replacing(p)' => Replacing(p) /\ pass'[p].cur = pass[p].cur
    BY <1>1, <1>6 DEF Preserve, Goto, Replacing, PassState
  <2>. QED
    BY <1>6, <2>1, SafeFrame DEF Preserve, baseVars
<1>7. CASE TransferFails(p) \/ LogOther(p) \/ LogOk(p) \/ MarkSynced(p)
  <2>1. ~Replacing(p)' /\ \A q \in Pass \ {p} : pass'[q] = pass[q]
    BY <1>1, <1>7 DEF TransferFails, LogOther, LogOk, MarkSynced, Goto, Replacing, PassState
  <2>. QED
    BY <1>7, <2>1, SafeFrame DEF TransferFails, LogOther, LogOk, MarkSynced, baseVars
<1>. QED
  BY <1>2, <1>3, <1>4, <1>5, <1>6, <1>7 DEF PassStep

LEMMA EnvSafe ==
    ASSUME Guarded, KeepInv, PcEnv PROVE Safe'
<1>1. CASE Idle /\ UNCHANGED pass
  <2>1. \A p \in Pass : ~Replacing(p)'
    BY <1>1 DEF Idle, Replacing
  <2>. QED
    BY <2>1, Constants DEF Safe
<1>2. CASE UNCHANGED <<pass, local, remote, superseded, backups, pruned>>
  BY <1>2 DEF KeepInv, Safe, Replacing, Backed
<1>4. ASSUME NEW f \in File, PcDelete(f) PROVE Safe'
  <2>1. /\ UNCHANGED <<pass, remote, backups, pruned>>
        /\ superseded \subseteq superseded'
        /\ ContentOf(local'[f]) = {}
        /\ \A g \in File \ {f} : local'[g] = local[g]
    BY <1>4 DEF PcDelete, PcFileOnly, ContentOf, KeepInv, Typed, TypeOK, Folder
  <2>2. ASSUME NEW g \in File, NEW c, Backed(g, c) PROVE Backed(g, c)'
    BY <2>1, <2>2 DEF Backed
  <2>3. \A p \in BackupPasses : Replacing(p) => pass[p].cur \in File
    BY Constants DEF KeepInv, Typed, CurOK, Busy, Replacing
  <2>. QED
    BY <2>1, <2>2, <2>3 DEF KeepInv, Safe, Replacing
<1>3. ASSUME NEW f \in File, NEW m \in 0 .. now, RemoteWrite(f, m) PROVE Safe'
  <2>1. /\ UNCHANGED <<pass, local, backups, pruned>>
        /\ superseded' = superseded \cup ContentOf(remote[f])
        /\ \A g \in File \ {f} : remote'[g] = remote[g]
    BY <1>3 DEF RemoteWrite, pcVars, KeepInv, Typed, TypeOK, BaseTypeOK, Folder
  <2>2. ASSUME NEW g \in File, NEW c, Backed(g, c) PROVE Backed(g, c)'
    BY <2>1, <2>2 DEF Backed
  <2>3. \A p \in BackupPasses : Replacing(p) => pass[p].cur \in File
    BY Constants DEF KeepInv, Typed, CurOK, Busy, Replacing
  <2>. QED
    BY <2>1, <2>2, <2>3 DEF KeepInv, Safe, Replacing
<1>. QED
  BY <1>1, <1>2, <1>3, <1>4 DEF PcEnv, Tick, PcPlay, PcTouch, PcTruncate, PcMayWrite,
     PcFileOnly, Guarded, pcVars

LEMMA KeepInit == Init => KeepInv
<1>. SUFFICES ASSUME Init PROVE KeepInv
  OBVIOUS
<1>1. Dated
  BY DEF Init, Dated, DatedBy
<1>2. Safe
  BY Constants DEF Init, Safe, Replacing, IdlePass
<1>. QED
  BY <1>1, <1>2, InitTyped DEF KeepInv

LEMMA KeepStep == ASSUME Guarded PROVE KeepInv /\ [Next]_vars => KeepInv'
<1>. SUFFICES ASSUME KeepInv, [Next]_vars PROVE Safe'
  BY NextTyped, DatedStep DEF KeepInv
<1>1. CASE UNCHANGED vars
  BY <1>1 DEF KeepInv, Safe, Replacing, Backed, vars, pcVars, baseVars
<1>2. CASE Crash
  BY <1>2, Constants DEF Crash, Safe, Replacing, IdlePass
<1>. QED
  BY <1>1, <1>2, PassStepSafe, EnvSafe DEF Next

\* A step of a pass with a backup_root keeps what it replaces on the PC.
LEMMA StepKeeps ==
    ASSUME KeepInv, [Next]_vars, NEW p \in BackupPasses, pass'[p] # pass[p],
           NEW f \in File, NEW c \in ContentOf(local[f])
    PROVE  Kept(f, c)'
<1>1. CASE UNCHANGED local
  BY <1>1 DEF Kept
<1>2. CASE Download(p)
  <2>1. pass[p].cur \in File /\ Replacing(p)
    BY <1>2, Constants DEF KeepInv, Typed, CurOK, Busy, Download, Replacing
  <2>2. CASE f = pass[p].cur
    <3>1. Backed(f, c)
      BY <2>1, <2>2 DEF KeepInv, Safe
    <3>. QED
      BY <1>2, <3>1 DEF Backed, Kept, Download, baseVars
  <2>3. CASE f # pass[p].cur
    BY <1>2, <2>1, <2>3 DEF Kept, Download, KeepInv, Typed, TypeOK, Folder
  <2>. QED
    BY <2>2, <2>3
<1>3. ASSUME NEW q \in Pass, PassStep(q), ~Download(q) PROVE UNCHANGED local
  BY <1>3 DEF PassStep, Start, ListRemote, SkipFile, TakeOneWay, TakeConflict, Backup,
     Preserve, Upload, TransferFails, LogOther, LogOk, MarkSynced, Finish, Abort, baseVars
<1>4. ASSUME NEW q \in Pass, Download(q) PROVE q = p
  BY <1>4 DEF Download, Goto, KeepInv, Typed, TypeOK
<1>5. ~PcEnv /\ ~UNCHANGED vars
  BY DEF PcEnv, PcPlay, PcTouch, PcTruncate, PcDelete, RemoteWrite, PcFileOnly,
     vars, pcVars
<1>6. CASE Crash
  BY <1>1, <1>6 DEF Crash
<1>. QED
  BY <1>1, <1>2, <1>3, <1>4, <1>5, <1>6 DEF Next

\* S29 for every number of files, passes, sessions and backups kept, with
\* failing listings and transfers, crashes, late and concurrent writes of other
\* devices, files the user deletes meanwhile, and passes without a backup_root
\* at work on the same files: a pass that has a backup_root never replaces a
\* save on the PC without keeping its content.
THEOREM DownloadsKeep == ASSUME Guarded PROVE Spec => DownloadKeeps
<1>. DEFINE Step == \A p \in BackupPasses, f \in File : pass'[p] # pass[p] =>
                        \A c \in ContentOf(local[f]) : Kept(f, c)'
<1>1. KeepInv /\ [Next]_vars => Step
  BY StepKeeps
<1>2. KeepInv /\ [Next]_vars => KeepInv'
  BY KeepStep
<1>3. Spec => [][Step]_vars
  BY <1>1, <1>2, KeepInit, PTL DEF Spec
<1>. QED
  BY <1>3 DEF DownloadKeeps
-----------------------------------------------------------------------------
(* What one step does.  Saves change under the hands of a pass only by the  *)
(* transfers of passes, each of which makes the two sides of a file equal.  *)

\* The passes are alone with the saves: nobody else writes them while one runs.
Unshared == Faults \cap {"pcrace", "pcdelete", "cloudrace"} = {}

Sides == <<local, remote>>

LEMMA PassStepOthers ==
    ASSUME Typed, NEW p \in Pass, PassStep(p)
    PROVE  \A q \in Pass \ {p} : pass'[q] = pass[q]
<1>1. pass \in [Pass -> PassState]
  BY DEF Typed, TypeOK
<1>2. CASE Start(p) \/ ListRemote(p) \/ (\E f \in File : SkipFile(p, f)) \/ LogOther(p) \/ LogOk(p)
  BY <1>1, <1>2 DEF Start, ListRemote, SkipFile, LogOther, LogOk
<1>3. CASE \E f \in File : TakeOneWay(p, f) \/ TakeConflict(p, f)
  BY <1>1, <1>3 DEF TakeOneWay, TakeConflict, Take
<1>4. CASE Backup(p) \/ Preserve(p) \/ Upload(p) \/ Download(p) \/ TransferFails(p)
  BY <1>1, <1>4 DEF Backup, Preserve, Upload, Download, TransferFails, Goto
<1>5. CASE MarkSynced(p) \/ Finish(p) \/ Abort(p)
  BY <1>1, <1>5 DEF MarkSynced, Finish, Abort, Rollback
<1>. QED
  BY <1>2, <1>3, <1>4, <1>5 DEF PassStep

LEMMA PassStepSides ==
    ASSUME Typed, NEW p \in Pass, PassStep(p)
    PROVE  \A f \in File : \/ local'[f] = remote'[f]
                           \/ local'[f] = local[f] /\ remote'[f] = remote[f]
<1>1. CASE UNCHANGED Sides
  BY <1>1 DEF Sides
<1>2. CASE Upload(p) \/ Download(p)
  BY <1>2 DEF Upload, Download, baseVars, Typed, TypeOK, BaseTypeOK, Folder
<1>3. PassStep(p) /\ ~Upload(p) /\ ~Download(p) => UNCHANGED Sides
  BY DEF PassStep, Start, ListRemote, SkipFile, TakeOneWay, TakeConflict, Backup, Preserve,
     TransferFails, LogOther, LogOk, MarkSynced, Finish, Abort, baseVars, Sides
<1>. QED
  BY <1>1, <1>2, <1>3

\* What a pass has listed stays as it is until the next pass lists again.
LEMMA PassStepListing ==
    ASSUME Typed, NEW p \in Pass, PassStep(p), ~Start(p), ~ListRemote(p)
    PROVE  pass'[p].phase # "idle" =>
             /\ pass[p].phase \notin {"idle", "list"} /\ pass'[p].phase # "list"
             /\ pass'[p].mine = pass[p].mine /\ pass'[p].theirs = pass[p].theirs
<1>1. pass \in [Pass -> PassState]
  BY DEF Typed, TypeOK
<1>2. CASE \E f \in File : SkipFile(p, f)
  BY <1>1, <1>2 DEF SkipFile, PassState
<1>3. CASE \E f \in File : TakeOneWay(p, f) \/ TakeConflict(p, f)
  BY <1>1, <1>3 DEF TakeOneWay, TakeConflict, Take, PassState
<1>4. CASE Backup(p) \/ Preserve(p) \/ Upload(p) \/ Download(p) \/ TransferFails(p)
  BY <1>1, <1>4 DEF Backup, Preserve, Upload, Download, TransferFails, Goto, AfterTransfer,
     PassState
<1>5. CASE LogOther(p) \/ LogOk(p) \/ MarkSynced(p)
  BY <1>1, <1>5 DEF LogOther, LogOk, MarkSynced, PassState
<1>6. CASE Finish(p) \/ Abort(p)
  BY <1>1, <1>6 DEF Finish, Abort, Rollback, IdlePass
<1>. QED
  BY <1>2, <1>3, <1>4, <1>5, <1>6 DEF PassStep

LEMMA EnvAlone ==
    ASSUME Unshared, PcEnv
    PROVE  pass' = pass /\ watermark' = watermark /\ (Idle \/ UNCHANGED Sides)
BY DEF Unshared, PcEnv, Tick, PcPlay, PcTouch, PcTruncate, PcDelete, RemoteWrite, PcMayWrite,
   PcFileOnly, pcVars, Sides

-----------------------------------------------------------------------------
(* Watermarks are common ancestors.  The argument: when a file is logged, or *)
(* about to be, a transfer has made its sides equal, and only transfers that *)
(* do the same touch them until the pass ends.                               *)

Same(f) == ContentOf(local[f]) = ContentOf(remote[f])

\* The files a pass has transferred and will give a watermark.
Synced(p) == pass[p].logged \cup (IF pass[p].phase \in {"log", "mark"} THEN {pass[p].cur} ELSE {})

SyncedAgree ==
    \A p \in Pass : /\ \A f \in Synced(p) : Same(f)
                    /\ pass[p].phase = "idle" => pass[p].logged = {}

AncestorInv == Typed /\ SyncedAgree

LEMMA SyncedTyped == ASSUME Typed, NEW p \in Pass PROVE Synced(p) \subseteq File
BY DEF Synced, Typed, TypeOK, CurOK, Busy, PassState

LEMMA AncestorInit == Init => AncestorInv
<1>. SUFFICES ASSUME Init PROVE SyncedAgree
  BY InitTyped DEF AncestorInv
<1>. QED
  BY DEF Init, IdlePass, SyncedAgree, Synced

\* What a pass has synchronised grows by its transfers only.
LEMMA SyncedGrows ==
    ASSUME Typed, NEW p \in Pass, PassStep(p), ~Upload(p), ~Download(p)
    PROVE  /\ Synced(p)' \subseteq Synced(p)
           /\ pass'[p].phase = "idle" => pass'[p].logged = {}
<1>1. pass \in [Pass -> PassState]
  BY DEF Typed, TypeOK
<1>2. CASE Start(p) \/ Finish(p) \/ Abort(p)
  <2>1. pass'[p].phase \in {"idle", "list"} /\ pass'[p].logged = {}
    <3>1. CASE Start(p)
      BY <1>1, <3>1 DEF Start, IdlePass
    <3>2. CASE Finish(p) \/ Abort(p)
      BY <1>1, <3>2 DEF Finish, Abort, Rollback, IdlePass
    <3>. QED
      BY <1>2, <3>1, <3>2
  <2>. QED
    BY <2>1 DEF Synced
<1>3. CASE ListRemote(p)
  <2>. DEFINE theirs(failed) == [f \in File |-> IF failed THEN NotSeen ELSE Seen(remote[f])]
              todo(failed) == {f \in File : \/ pass[p].mine[f].mtime # None
                                            \/ theirs(failed)[f].mtime # None}
  <2>1. PICK failed \in BOOLEAN :
          pass' = [pass EXCEPT ![p].phase = "next", ![p].theirs = theirs(failed),
                               ![p].todo = todo(failed)]
    BY <1>3 DEF ListRemote
  <2>. HIDE DEF theirs, todo
  <2>2. pass'[p].phase = "next" /\ pass'[p].logged = pass[p].logged
    BY <1>1, <2>1 DEF PassState
  <2>. QED
    BY <2>2 DEF Synced
<1>4. CASE \E f \in File : SkipFile(p, f) \/ TakeOneWay(p, f) \/ TakeConflict(p, f)
  BY <1>1, <1>4 DEF SkipFile, TakeOneWay, TakeConflict, Take, PassState, Synced
<1>5. CASE Backup(p) \/ Preserve(p) \/ TransferFails(p)
  BY <1>1, <1>5 DEF Backup, Preserve, TransferFails, Goto, PassState, Synced
<1>6. CASE LogOther(p) \/ LogOk(p) \/ MarkSynced(p)
  BY <1>1, <1>6 DEF LogOther, LogOk, MarkSynced, PassState, Synced
<1>. QED
  BY <1>2, <1>3, <1>4, <1>5, <1>6 DEF PassStep

LEMMA TransferSynced ==
    ASSUME Typed, NEW p \in Pass, Upload(p) \/ Download(p)
    PROVE  /\ Synced(p)' \subseteq Synced(p) \cup {pass[p].cur}
           /\ pass'[p].phase # "idle"
           /\ pass[p].cur \in File /\ local'[pass[p].cur] = remote'[pass[p].cur]
<1>1. pass \in [Pass -> PassState] /\ pass[p].cur \in File
  BY DEF Typed, TypeOK, CurOK, Busy, Upload, Download
<1>2. /\ pass'[p].phase \in {"log", "mark"}
      /\ pass'[p].cur = pass[p].cur /\ pass'[p].logged = pass[p].logged
  BY <1>1 DEF Upload, Download, Goto, AfterTransfer, PassState
<1>3. local'[pass[p].cur] = remote'[pass[p].cur]
  BY <1>1 DEF Upload, Download, baseVars, Typed, TypeOK, BaseTypeOK, Folder
<1>. QED
  BY <1>1, <1>2, <1>3 DEF Synced

LEMMA AncestorStep == ASSUME Unshared PROVE AncestorInv /\ [Next]_vars => AncestorInv'
<1>. SUFFICES ASSUME AncestorInv, [Next]_vars PROVE SyncedAgree'
  BY NextTyped DEF AncestorInv
<1>1. Typed
  BY DEF AncestorInv
<1>2. ASSUME NEW p \in Pass, PassStep(p) PROVE SyncedAgree'
  <2>1. \A f \in File : Same(f) => Same(f)'
    BY <1>1, <1>2, PassStepSides DEF Same
  <2>2. ASSUME NEW q \in Pass \ {p}
        PROVE  (\A f \in Synced(q)' : Same(f)') /\ (pass'[q].phase = "idle" => pass'[q].logged = {})
    <3>1. pass'[q] = pass[q]
      BY <1>1, <1>2, PassStepOthers
    <3>2. Synced(q)' = Synced(q) /\ Synced(q) \subseteq File
      BY <1>1, <3>1, SyncedTyped DEF Synced
    <3>. QED
      BY <2>1, <3>1, <3>2 DEF AncestorInv, SyncedAgree
  <2>3. (\A f \in Synced(p)' : Same(f)') /\ (pass'[p].phase = "idle" => pass'[p].logged = {})
    <3>1. CASE Upload(p) \/ Download(p)
      <4>1. PICK g \in File : g = pass[p].cur /\ local'[g] = remote'[g]
        BY <1>1, <3>1, TransferSynced
      <4>2. Same(g)'
        BY <4>1 DEF Same
      <4>3. Synced(p)' \subseteq Synced(p) \cup {g} /\ pass'[p].phase # "idle"
        BY <1>1, <3>1, <4>1, TransferSynced
      <4>. QED
        BY <1>1, <2>1, <4>2, <4>3, SyncedTyped DEF AncestorInv, SyncedAgree
    <3>2. CASE ~Upload(p) /\ ~Download(p)
      BY <1>1, <1>2, <2>1, <3>2, SyncedGrows, SyncedTyped DEF AncestorInv, SyncedAgree
    <3>. QED
      BY <3>1, <3>2
  <2>. QED
    BY <2>2, <2>3 DEF SyncedAgree
<1>3. CASE PcEnv
  <2>1. pass' = pass
    BY <1>3, EnvAlone
  <2>2. \A p \in Pass : Synced(p)' = Synced(p)
    BY <2>1 DEF Synced
  <2>3. CASE Idle
    <3>1. \A p \in Pass : Synced(p) = {}
      BY <2>3 DEF Idle, AncestorInv, SyncedAgree, Synced
    <3>. QED
      BY <2>1, <2>2, <3>1 DEF AncestorInv, SyncedAgree
  <2>4. CASE UNCHANGED Sides
    <3>1. \A f : Same(f)' <=> Same(f)
      BY <2>4 DEF Sides, Same
    <3>. QED
      BY <2>1, <2>2, <3>1 DEF AncestorInv, SyncedAgree
  <2>. QED
    BY <1>3, <2>3, <2>4, EnvAlone
<1>4. CASE Crash
  BY <1>4 DEF Crash, SyncedAgree, Synced, IdlePass
<1>5. CASE UNCHANGED vars
  BY <1>5 DEF vars, pcVars, baseVars, AncestorInv, SyncedAgree, Synced, Same
<1>. QED
  BY <1>2, <1>3, <1>4, <1>5 DEF Next

\* However many passes run at once, and whatever listings, transfers and backups fail, a
\* watermark becomes visible only while the two sides of its file hold the same content.
THEOREM WatermarksAreAncestors == ASSUME Unshared PROVE Spec => WatermarkIsAncestor
<1>. DEFINE Step == \A f \in File : watermark'[f] # watermark[f] => Same(f)
<1>1. AncestorInv /\ [Next]_vars => Step
  <2>. SUFFICES ASSUME AncestorInv, [Next]_vars, NEW f \in File, watermark'[f] # watermark[f]
                PROVE  Same(f)
    OBVIOUS
  <2>1. PICK p \in Pass : Finish(p)
    BY EnvAlone DEF Next, PassStep, Start, ListRemote, SkipFile, TakeOneWay, TakeConflict, Backup,
       Preserve, Upload, Download, TransferFails, LogOther, LogOk, MarkSynced, Abort, Crash,
       vars, pcVars
  <2>2. f \in pass[p].logged
    BY <2>1 DEF Finish
  <2>. QED
    BY <2>2 DEF AncestorInv, SyncedAgree, Synced
<1>2. AncestorInv /\ [Next]_vars => AncestorInv'
  BY AncestorStep
<1>3. Spec => [][Step]_vars
  BY <1>1, <1>2, AncestorInit, PTL DEF Spec
<1>. QED
  BY <1>3 DEF WatermarkIsAncestor, Same
-----------------------------------------------------------------------------
(* What a pass has listed is true.  However many passes run at once, a file *)
(* is as a pass has listed it, or its sides are equal.                      *)

TrueListing == "listing" \notin Faults

Knows(p, f) ==
    \/ local[f] = remote[f]
    \/ /\ pass[p].mine[f] = Seen(local[f])
       /\ pass[p].phase # "list" => pass[p].theirs[f] = Seen(remote[f])

Listed == \A p \in Pass : pass[p].phase # "idle" => \A f \in File : Knows(p, f)

LEMMA ListedInit == Init => Listed
BY DEF Init, IdlePass, Listed

LEMMA ListingIs ==
    ASSUME TrueListing, Typed, NEW p \in Pass, ListRemote(p)
    PROVE  /\ pass'[p].phase = "next" /\ pass[p].phase = "list" /\ pass'[p].mine = pass[p].mine
           /\ \A f \in File : pass'[p].theirs[f] = Seen(remote[f])
<1>. DEFINE todo == {f \in File : \/ pass[p].mine[f].mtime # None
                                  \/ Seen(remote[f]).mtime # None}
            theirs == [f \in File |-> Seen(remote[f])]
<1>1. pass \in [Pass -> PassState]
  BY DEF Typed, TypeOK
<1>2. \E t : pass' = [pass EXCEPT ![p].phase = "next", ![p].theirs = theirs, ![p].todo = t]
  BY DEF ListRemote, TrueListing
<1>3. PICK t : pass' = [pass EXCEPT ![p].phase = "next", ![p].theirs = theirs, ![p].todo = t]
  BY <1>2
<1>. HIDE DEF theirs
<1>4. pass'[p].phase = "next" /\ pass'[p].mine = pass[p].mine /\ pass'[p].theirs = theirs
  BY <1>1, <1>3 DEF PassState
<1>. QED
  BY <1>4 DEF theirs, ListRemote

LEMMA ListedStep == ASSUME Unshared, TrueListing PROVE Typed /\ Listed /\ [Next]_vars => Listed'
<1>. SUFFICES ASSUME Typed, Listed, [Next]_vars PROVE Listed'
  OBVIOUS
<1>1. ASSUME NEW p \in Pass, PassStep(p) PROVE Listed'
  <2>1. \A q \in Pass \ {p} : pass'[q] = pass[q]
    BY <1>1, PassStepOthers
  <2>2. ASSUME NEW q \in Pass \ {p}, pass'[q].phase # "idle", NEW f \in File PROVE Knows(q, f)'
    <3>1. Knows(q, f) /\ pass'[q] = pass[q]
      BY <2>1, <2>2 DEF Listed
    <3>. QED
      BY <1>1, <3>1, PassStepSides DEF Knows
  <2>3. ASSUME pass'[p].phase # "idle", NEW f \in File PROVE Knows(p, f)'
    <3>1. CASE Start(p)
      <4>1. pass'[p].mine[f] = Seen(local[f]) /\ pass'[p].phase = "list" /\ local' = local
        BY <3>1 DEF Start, IdlePass, Typed, TypeOK
      <4>. QED
        BY <4>1 DEF Knows
    <3>2. CASE ListRemote(p)
      <4>1. UNCHANGED Sides /\ Knows(p, f)
        BY <3>2, ListingIs DEF ListRemote, baseVars, Sides, Listed
      <4>. QED
        BY <3>2, <4>1, ListingIs DEF Knows, Sides
    <3>3. CASE ~Start(p) /\ ~ListRemote(p)
      <4>1. /\ pass[p].phase \notin {"idle", "list"} /\ pass'[p].phase # "list"
            /\ pass'[p].mine = pass[p].mine /\ pass'[p].theirs = pass[p].theirs
        BY <1>1, <2>3, <3>3, PassStepListing
      <4>2. Knows(p, f)
        BY <4>1 DEF Listed
      <4>. QED
        BY <1>1, <4>1, <4>2, PassStepSides DEF Knows
    <3>. QED
      BY <3>1, <3>2, <3>3
  <2>. QED
    BY <2>2, <2>3 DEF Listed
<1>2. CASE PcEnv
  <2>1. CASE Idle
    BY <1>2, <2>1, EnvAlone DEF Idle, Listed
  <2>2. CASE UNCHANGED Sides
    BY <1>2, <2>2, EnvAlone DEF Sides, Listed, Knows
  <2>. QED
    BY <1>2, <2>1, <2>2, EnvAlone
<1>3. CASE Crash
  BY <1>3 DEF Crash, IdlePass, Listed
<1>4. CASE UNCHANGED vars
  BY <1>4 DEF vars, pcVars, baseVars, Listed, Knows
<1>. QED
  BY <1>1, <1>2, <1>3, <1>4 DEF Next

\* What a pass reads of the two sides when it takes up a file.
LEMMA KnownTimes ==
    ASSUME Typed, Listed, NEW p \in Pass, pass[p].phase \notin {"idle", "list"}, NEW f \in File,
           local[f] # remote[f]
    PROVE  /\ pass[p].mine[f] = Seen(local[f]) /\ pass[p].theirs[f] = Seen(remote[f])
           /\ (pass[p].mine[f].mtime = None <=> local[f] = None)
           /\ (pass[p].theirs[f].mtime = None <=> remote[f] = None)
           /\ local[f] # None => /\ pass[p].mine[f].mtime = local[f].mtime
                                 /\ pass[p].mine[f].empty = (local[f].content = Blank)
           /\ remote[f] # None => /\ pass[p].theirs[f].mtime = remote[f].mtime
                                  /\ pass[p].theirs[f].empty = (remote[f].content = Blank)
<1>1. pass[p].mine[f] = Seen(local[f]) /\ pass[p].theirs[f] = Seen(remote[f])
  BY DEF Listed, Knows
<1>2. local[f] \in Save \cup {None} /\ remote[f] \in Save \cup {None}
  BY DEF Typed, TypeOK, BaseTypeOK, Folder
<1>3. \A s \in Save \cup {None} :
         /\ Seen(s).mtime = None <=> s = None
         /\ s # None => Seen(s).mtime = s.mtime /\ Seen(s).empty = (s.content = Blank)
  <2>. SUFFICES ASSUME NEW s \in Save \cup {None}
                PROVE  /\ Seen(s).mtime = None <=> s = None
                       /\ s # None => Seen(s).mtime = s.mtime /\ Seen(s).empty = (s.content = Blank)
    OBVIOUS
  <2>1. s # None => s.mtime \in 0 .. MaxTime /\ s.mtime # None
    BY Constants DEF Save
  <2>2. s = None => Seen(s).mtime = None
    BY DEF Seen
  <2>3. s # None => Seen(s).mtime = s.mtime /\ Seen(s).empty = (s.content = Blank)
    BY DEF Seen
  <2>. QED
    BY <2>1, <2>2, <2>3
<1>. QED
  BY <1>1, <1>2, <1>3

-----------------------------------------------------------------------------
(* Empty saves do not win.  The argument: a pass that goes on with a file    *)
(* has seen that not one of its sides is empty and the other not; until it   *)
(* transfers, the sides are what it has seen, or have become equal.          *)

OneEmpty(f) ==
    /\ local[f] # None /\ remote[f] # None
    /\ (local[f].content = Blank) # (remote[f].content = Blank)

NotOneEmpty ==
    \A p \in Pass : pass[p].phase \in {"backup", "preserve", "transfer"} => ~OneEmpty(pass[p].cur)

\* The user does not choose a side for a file.
NoChoices == OverrideChoices \subseteq {"none", "skip"}

EmptyInv == Typed /\ Listed /\ NotOneEmpty

LEMMA EmptyInit == Init => EmptyInv
BY InitTyped, ListedInit DEF Init, IdlePass, NotOneEmpty, EmptyInv

\* A pass takes up a file only if it is not suspect.
LEMMA TakenNotEmpty ==
    ASSUME NoChoices, Typed, Listed, NEW p \in Pass, NEW f \in File,
           TakeOneWay(p, f) \/ TakeConflict(p, f), pass'[p].phase # "note"
    PROVE  pass'[p].cur = f /\ UNCHANGED Sides /\ ~OneEmpty(f)
<1>1. pass \in [Pass -> PassState]
  BY DEF Typed, TypeOK
<1>2. UNCHANGED Sides /\ pass[p].phase = "next"
  BY DEF TakeOneWay, TakeConflict, baseVars, Sides
<1>3. pass'[p].cur = f
  BY <1>1 DEF TakeOneWay, TakeConflict, Take, PassState
<1>4. ~IsSuspect(p, f) /\ Decision(p, f) # "up_to_date"
  <2>1. CASE TakeOneWay(p, f)
    BY <2>1 DEF TakeOneWay
  <2>2. CASE TakeConflict(p, f)
    <3>1. PICK o \in OverrideChoices :
            IF o = "skip" \/ (o = "none" /\ IsSuspect(p, f))
            THEN Take(p, f, "note", "conflict", FALSE)
            ELSE Take(p, f, "backup", "conflict",
                      LocalWins(o, Policy, pass[p].mine[f].mtime, pass[p].theirs[f].mtime))
      BY <2>2 DEF TakeConflict
    <3>2. ~(Take(p, f, "note", "conflict", FALSE))
      BY <1>1 DEF Take, PassState
    <3>3. ~IsSuspect(p, f)
      BY <3>1, <3>2 DEF NoChoices
    <3>. QED
      BY <2>2, <3>3 DEF TakeConflict
  <2>. QED
    BY <2>1, <2>2
<1>5. ~OneEmpty(f)
  <2>. SUFFICES ASSUME OneEmpty(f) PROVE FALSE
    OBVIOUS
  <2>1. local[f] # remote[f]
    BY DEF OneEmpty
  <2>. QED
    BY <1>2, <1>4, <2>1, KnownTimes DEF OneEmpty, IsSuspect, Suspect
<1>. QED
  BY <1>2, <1>3, <1>5

\* Between taking up a file and its transfer a pass works on that file.
LEMMA WorkGoesOn ==
    ASSUME Typed, NEW p \in Pass, PassStep(p),
           pass'[p].phase \in {"backup", "preserve", "transfer"},
           ~(\E f \in File : TakeOneWay(p, f) \/ TakeConflict(p, f))
    PROVE  /\ pass[p].phase \in {"backup", "preserve"} /\ pass'[p].cur = pass[p].cur
           /\ pass'[p].action = pass[p].action /\ pass'[p].localWins = pass[p].localWins
           /\ Backup(p) \/ Preserve(p)
<1>1. pass \in [Pass -> PassState]
  BY DEF Typed, TypeOK
<1>2. CASE Backup(p) \/ Preserve(p)
  BY <1>1, <1>2 DEF Backup, Preserve, Goto, PassState
<1>3. ASSUME Start(p) \/ Finish(p) \/ Abort(p) PROVE FALSE
  <2>1. CASE Start(p)
    BY <1>1, <2>1 DEF Start, IdlePass
  <2>2. CASE Finish(p) \/ Abort(p)
    BY <1>1, <2>2 DEF Finish, Abort, Rollback, IdlePass
  <2>. QED
    BY <1>3, <2>1, <2>2
<1>4. ASSUME ListRemote(p) PROVE FALSE
  <2>1. \E t, u : pass' = [pass EXCEPT ![p].phase = "next", ![p].theirs = t, ![p].todo = u]
    BY <1>4 DEF ListRemote
  <2>2. PICK t, u : pass' = [pass EXCEPT ![p].phase = "next", ![p].theirs = t, ![p].todo = u]
    BY <2>1
  <2>. QED
    BY <1>1, <2>2 DEF PassState
<1>5. ASSUME NEW f \in File, SkipFile(p, f) PROVE FALSE
  BY <1>1, <1>5 DEF SkipFile, PassState
<1>6. ASSUME Upload(p) \/ Download(p) \/ TransferFails(p) PROVE FALSE
  BY <1>1, <1>6 DEF Upload, Download, TransferFails, Goto, AfterTransfer, PassState
<1>7. ASSUME LogOther(p) \/ LogOk(p) \/ MarkSynced(p) PROVE FALSE
  BY <1>1, <1>7 DEF LogOther, LogOk, MarkSynced, PassState
<1>. QED
  BY <1>2, <1>3, <1>4, <1>5, <1>6, <1>7 DEF PassStep

LEMMA EmptyStep ==
    ASSUME Unshared, TrueListing, NoChoices PROVE EmptyInv /\ [Next]_vars => EmptyInv'
<1>. SUFFICES ASSUME EmptyInv, [Next]_vars PROVE NotOneEmpty'
  BY NextTyped, ListedStep DEF EmptyInv
<1>. USE DEF EmptyInv
<1>1. ASSUME NEW p \in Pass, PassStep(p) PROVE NotOneEmpty'
  <2>1. \A f \in File : ~OneEmpty(f) => ~OneEmpty(f)'
    BY <1>1, PassStepSides DEF OneEmpty
  <2>2. ASSUME NEW q \in Pass, pass'[q].phase \in {"backup", "preserve", "transfer"}
        PROVE  \E f \in File : f = pass'[q].cur /\ ~OneEmpty(f)'
    <3>1. CASE q # p
      <4>1. pass'[q] = pass[q] /\ pass[q].cur \in File
        BY <1>1, <2>2, <3>1, PassStepOthers DEF Typed, CurOK, Busy
      <4>. QED
        BY <2>1, <2>2, <4>1 DEF NotOneEmpty
    <3>2. CASE q = p /\ \E f \in File : TakeOneWay(p, f) \/ TakeConflict(p, f)
      BY <2>1, <2>2, <3>2, TakenNotEmpty
    <3>3. CASE q = p /\ ~(\E f \in File : TakeOneWay(p, f) \/ TakeConflict(p, f))
      <4>1. pass[p].phase \in {"backup", "preserve"} /\ pass'[p].cur = pass[p].cur
        BY <1>1, <2>2, <3>3, WorkGoesOn
      <4>2. pass[p].cur \in File
        BY <4>1 DEF Typed, CurOK, Busy
      <4>. QED
        BY <2>1, <3>3, <4>1, <4>2 DEF NotOneEmpty
    <3>. QED
      BY <3>1, <3>2, <3>3
  <2>. QED
    BY <2>2 DEF NotOneEmpty
<1>2. CASE PcEnv
  <2>1. CASE Idle
    BY <1>2, <2>1, EnvAlone DEF Idle, NotOneEmpty
  <2>2. CASE UNCHANGED Sides
    BY <1>2, <2>2, EnvAlone DEF Sides, NotOneEmpty, OneEmpty
  <2>. QED
    BY <1>2, <2>1, <2>2, EnvAlone
<1>3. CASE Crash
  BY <1>3 DEF Crash, IdlePass, NotOneEmpty
<1>4. CASE UNCHANGED vars
  BY <1>4 DEF vars, pcVars, baseVars, NotOneEmpty, OneEmpty
<1>. QED
  BY <1>1, <1>2, <1>3, <1>4 DEF Next

\* However many passes run at once, and whatever transfers and backups fail, no step of a
\* pass puts an empty save where one with content was, unless the user chose that side.
THEOREM EmptySavesNeverWin ==
    ASSUME Unshared, TrueListing, NoChoices PROVE Spec => EmptyNeverWins
<1>. DEFINE Step == \A f \in File : SyncerActs =>
              /\ (ContentOf(remote'[f]) = {Blank} => ContentOf(remote[f]) \in {{}, {Blank}})
              /\ (ContentOf(local'[f]) = {Blank} => ContentOf(local[f]) \in {{}, {Blank}})
<1>1. EmptyInv /\ [Next]_vars => Step
  <2>. SUFFICES ASSUME EmptyInv, [Next]_vars, NEW f \in File, SyncerActs
         PROVE  /\ (ContentOf(remote'[f]) = {Blank} => ContentOf(remote[f]) \in {{}, {Blank}})
                /\ (ContentOf(local'[f]) = {Blank} => ContentOf(local[f]) \in {{}, {Blank}})
    OBVIOUS
  <2>1. CASE local'[f] = local[f] /\ remote'[f] = remote[f]
    BY <2>1 DEF ContentOf
  <2>2. ASSUME NEW p \in Pass, Upload(p) \/ Download(p), f = pass[p].cur
        PROVE  /\ (ContentOf(remote'[f]) = {Blank} => ContentOf(remote[f]) \in {{}, {Blank}})
               /\ (ContentOf(local'[f]) = {Blank} => ContentOf(local[f]) \in {{}, {Blank}})
    <3>1. ~OneEmpty(f)
      BY <2>2 DEF EmptyInv, NotOneEmpty, Upload, Download
    <3>2. CASE Upload(p) /\ local[f] # None /\ remote'[f] = local[f] /\ local'[f] = local[f]
      BY <3>1, <3>2 DEF OneEmpty, ContentOf
    <3>3. CASE Download(p) /\ remote[f] # None /\ local'[f] = remote[f] /\ remote'[f] = remote[f]
      BY <3>1, <3>3 DEF OneEmpty, ContentOf
    <3>. QED
      BY <2>2, <3>2, <3>3 DEF Upload, Download, baseVars, EmptyInv, Typed, TypeOK, BaseTypeOK,
         Folder
  <2>3. ASSUME NEW p \in Pass, PassStep(p), ~(Upload(p) \/ Download(p)) PROVE UNCHANGED Sides
    BY <2>3 DEF PassStep, Start, ListRemote, SkipFile, TakeOneWay, TakeConflict, Backup, Preserve,
       TransferFails, LogOther, LogOk, MarkSynced, Finish, Abort, baseVars, Sides
  <2>4. ASSUME NEW p \in Pass, Upload(p) \/ Download(p), f # pass[p].cur
        PROVE  local'[f] = local[f] /\ remote'[f] = remote[f]
    BY <2>4 DEF Upload, Download, baseVars, EmptyInv, Typed, TypeOK, BaseTypeOK, Folder
  <2>5. CASE Crash
    BY <2>1, <2>5 DEF Crash, baseVars
  <2>6. ~PcEnv /\ ~UNCHANGED vars
    BY EnvAlone DEF SyncerActs, vars, pcVars
  <2>. QED
    BY <2>1, <2>2, <2>3, <2>4, <2>5, <2>6 DEF Next, Sides
<1>2. EmptyInv /\ [Next]_vars => EmptyInv'
  BY EmptyStep
<1>3. Spec => [][Step]_vars
  BY <1>1, <1>2, EmptyInit, PTL DEF Spec
<1>. QED
  BY <1>3 DEF EmptyNeverWins
-----------------------------------------------------------------------------
(* Uploads keep what they replace.  The argument: a watermark separates what *)
(* a player went on from from what is newer in the cloud, so an upload that  *)
(* is no conflict replaces the former, and the loser of a conflict is copied *)
(* before; passes that meet on a file judge it alike.                        *)

\* Writes of other devices reach the cloud before the next pass, dated after the last one.
OnTime == "late" \notin Faults

\* Nothing is lost when the cloud copy of f goes.
Unlost(f) == ContentOf(remote[f]) \subseteq superseded \cup ContentOf(local[f])

RecentAt(f) ==
    watermark[f] # None =>
      Unlost(f) \/ ChangedSince(remote[f].mtime, watermark[f])
Recent == \A f \in File : RecentAt(f)

ChosenBy(r) ==
    r.phase \in {"backup", "preserve", "transfer"} =>
      /\ r.action = "conflict" =>
           r.localWins = LocalWins("none", Policy, r.mine[r.cur].mtime, r.theirs[r.cur].mtime)
      /\ r.action # "conflict" /\ r.localWins => r.phase = "transfer"
      /\ r.action # "conflict" => r.phase # "preserve"
Chosen == \A p \in Pass : ChosenBy(pass[p])

\* The cloud copy that the upload a pass is about to make replaces.
Replaced(r, f) ==
    r.phase = "transfer" /\ r.localWins /\ r.cur = f =>
      IF r.action = "conflict"
      THEN ContentOf(remote[f]) \subseteq Contents(copies[f]) \cup ContentOf(local[f])
      ELSE watermark[f] # None => Unlost(f)
Going == \A p \in Pass, f \in File : Replaced(pass[p], f)

UploadInv == Typed /\ SyncedAgree /\ Listed /\ Recent /\ Chosen /\ Going

LEMMA UploadInit == Init => UploadInv
<1>. SUFFICES ASSUME Init PROVE UploadInv
  OBVIOUS
<1>1. Typed /\ SyncedAgree /\ Listed
  BY AncestorInit, ListedInit DEF AncestorInv
<1>2. Recent /\ Chosen /\ Going
  BY DEF Init, IdlePass, Recent, RecentAt, Chosen, ChosenBy, Going, Replaced
<1>. QED
  BY <1>1, <1>2 DEF UploadInv

LEMMA WatermarksOf ==
    ASSUME Typed, NEW p \in Pass, PassStep(p)
    PROVE  \A f \in File : watermark'[f] = watermark[f] \/ (Finish(p) /\ f \in pass[p].logged)
<1>1. CASE Finish(p)
  BY <1>1 DEF Finish
<1>2. CASE ~Finish(p)
  BY <1>2 DEF PassStep, Start, ListRemote, SkipFile, TakeOneWay, TakeConflict, Backup,
     Preserve, Upload, Download, TransferFails, LogOther, LogOk, MarkSynced, Abort
<1>. QED
  BY <1>1, <1>2

LEMMA PassStepWorld ==
    ASSUME NEW p \in Pass, PassStep(p)
    PROVE  superseded' = superseded /\ (copies' = copies \/ Preserve(p))
BY DEF PassStep, Start, ListRemote, SkipFile, TakeOneWay, TakeConflict, Backup, Upload, Download,
   TransferFails, LogOther, LogOk, MarkSynced, Finish, Abort, baseVars, Preserve

\* What passes do keeps a file recent, and its cloud copy unlost once it is.
LEMMA PassStepRecent ==
    ASSUME Typed, SyncedAgree, NEW p \in Pass, PassStep(p), NEW f \in File
    PROVE  /\ Unlost(f) => Unlost(f)'
           /\ RecentAt(f) => RecentAt(f)'
           /\ watermark'[f] # watermark[f] => Unlost(f)'
<1>1. superseded' = superseded
  BY PassStepWorld
<1>2. CASE local'[f] = remote'[f]
  BY <1>2 DEF Unlost, RecentAt
<1>3. CASE local'[f] = local[f] /\ remote'[f] = remote[f]
  <2>1. Unlost(f)' <=> Unlost(f)
    BY <1>1, <1>3 DEF Unlost
  <2>2. CASE watermark'[f] = watermark[f]
    BY <1>3, <2>1, <2>2 DEF RecentAt
  <2>3. CASE Finish(p) /\ f \in pass[p].logged
    <3>1. Same(f)
      BY <2>3 DEF SyncedAgree, Synced
    <3>. QED
      BY <2>1, <3>1 DEF Same, Unlost, RecentAt
  <2>. QED
    BY <2>1, <2>2, <2>3, WatermarksOf
<1>. QED
  BY <1>2, <1>3, PassStepSides

LEMMA EnvRecent ==
    ASSUME OnTime, Typed, Recent, PcEnv PROVE Recent'
<1>. SUFFICES ASSUME NEW f \in File PROVE RecentAt(f)'
  BY DEF Recent
<1>1. RecentAt(f)
  BY DEF Recent
<1>2. watermark' = watermark
  BY DEF PcEnv, PcPlay, PcTouch, PcTruncate, PcDelete, PcFileOnly, RemoteWrite, pcVars
<1>3. CASE Tick /\ UNCHANGED pcVars
  BY <1>1, <1>3 DEF Tick, pcVars, RecentAt, Unlost
<1>4. ASSUME NEW g \in File, PcPlay(g) \/ PcTruncate(g) \/ PcDelete(g) PROVE RecentAt(f)'
  <2>1. remote' = remote /\ superseded' = superseded \cup ContentOf(local[g])
    BY <1>4 DEF PcPlay, PcTruncate, PcDelete, PcFileOnly
  <2>2. f # g => local'[f] = local[f]
    BY <1>4 DEF PcPlay, PcTruncate, PcDelete, Typed, TypeOK, Folder
  <2>3. Unlost(f) => Unlost(f)'
    BY <2>1, <2>2 DEF Unlost
  <2>. QED
    BY <1>1, <1>2, <2>1, <2>3 DEF RecentAt
<1>5. ASSUME NEW g \in File, PcTouch(g) PROVE RecentAt(f)'
  <2>1. remote' = remote /\ superseded' = superseded
    BY <1>5 DEF PcTouch, PcFileOnly
  <2>2. ContentOf(local'[f]) = ContentOf(local[f])
    <3>1. f # g => local'[f] = local[f]
      BY <1>5 DEF PcTouch, Typed, TypeOK, Folder
    <3>2. f = g => local[f] # None /\ local'[f] = [local[f] EXCEPT !.mtime = now]
      BY <1>5 DEF PcTouch, Typed, TypeOK, Folder
    <3>3. f = g => local'[f] # None /\ local'[f].content = local[f].content
      <4>1. f = g => local[f] \in Save /\ now \in 0 .. MaxTime
        BY <3>2 DEF Typed, TypeOK, BaseTypeOK, Folder
      <4>2. f = g => local'[f].mtime = now /\ local'[f].content = local[f].content
        BY <3>2, <4>1 DEF Save
      <4>3. f = g => local'[f] \in Save
        BY <3>2, <4>1 DEF Save
      <4>. QED
        BY <4>2, <4>3, NoFileAssumption
    <3>. QED
      BY <3>1, <3>2, <3>3 DEF ContentOf
  <2>. QED
    BY <1>1, <1>2, <2>1, <2>2 DEF RecentAt, Unlost
<1>6. ASSUME NEW g \in File, NEW m \in 0 .. now, RemoteWrite(g, m) PROVE RecentAt(f)'
  <2>1. local' = local /\ superseded \subseteq superseded'
    BY <1>6 DEF RemoteWrite, pcVars
  <2>2. CASE f # g
    <3>1. remote'[f] = remote[f]
      BY <1>6, <2>2 DEF RemoteWrite, Typed, TypeOK, BaseTypeOK, Folder
    <3>. QED
      BY <1>1, <1>2, <2>1, <3>1 DEF RecentAt, Unlost
  <2>3. CASE f = g
    <3>1. remote'[f] = [content |-> made + 1, mtime |-> m] /\ ~Late(f, m)
      BY <1>6, <2>3 DEF RemoteWrite, Typed, TypeOK, BaseTypeOK, Folder, OnTime
    <3>2. remote'[f].mtime = m
      BY <3>1
    <3>. QED
      BY <1>2, <3>1, <3>2 DEF Late, RecentAt
  <2>. QED
    BY <2>2, <2>3
<1>. QED
  BY <1>3, <1>4, <1>5, <1>6 DEF PcEnv

\* How a pass takes up a file: the rule alone picks the winner.
LEMMA TakenAs ==
    ASSUME NoChoices, Typed, NEW p \in Pass, NEW f \in File,
           TakeOneWay(p, f) \/ TakeConflict(p, f), pass'[p].phase # "note"
    PROVE  /\ pass[p].phase = "next" /\ pass'[p].cur = f
           /\ pass'[p].mine = pass[p].mine /\ pass'[p].theirs = pass[p].theirs
           /\ \/ /\ pass'[p].phase = "transfer" /\ pass'[p].action = "upload"
                 /\ pass'[p].localWins /\ Decision(p, f) = "upload"
              \/ pass'[p].phase = "backup" /\ pass'[p].action = "download" /\ ~pass'[p].localWins
              \/ /\ pass'[p].phase = "backup" /\ pass'[p].action = "conflict"
                 /\ pass'[p].localWins = LocalWins("none", Policy, pass[p].mine[f].mtime,
                                                   pass[p].theirs[f].mtime)
<1>1. pass \in [Pass -> PassState]
  BY DEF Typed, TypeOK
<1>2. pass[p].phase = "next"
  BY DEF TakeOneWay, TakeConflict
<1>3. CASE TakeOneWay(p, f)
  BY <1>1, <1>2, <1>3 DEF TakeOneWay, Take, PassState
<1>4. CASE TakeConflict(p, f)
  <2>. DEFINE wins == LocalWins("none", Policy, pass[p].mine[f].mtime, pass[p].theirs[f].mtime)
  <2>1. \/ Take(p, f, "note", "conflict", FALSE)
        \/ Take(p, f, "backup", "conflict", wins)
    BY <1>4 DEF TakeConflict, NoChoices
  <2>. HIDE DEF wins
  <2>2. /\ pass'[p].cur = f /\ pass'[p].mine = pass[p].mine /\ pass'[p].theirs = pass[p].theirs
        /\ \/ pass'[p].phase = "note"
           \/ pass'[p].phase = "backup" /\ pass'[p].action = "conflict" /\ pass'[p].localWins = wins
    BY <1>1, <2>1 DEF Take, PassState
  <2>. QED
    BY <1>2, <2>2 DEF wins
<1>. QED
  BY <1>3, <1>4

LEMMA ChosenStep == ASSUME NoChoices PROVE Typed /\ Chosen /\ [Next]_vars => Chosen'
<1>. SUFFICES ASSUME Typed, Chosen, [Next]_vars PROVE Chosen'
  OBVIOUS
<1>1. ASSUME NEW p \in Pass, PassStep(p) PROVE Chosen'
  <2>1. ASSUME NEW q \in Pass \ {p} PROVE ChosenBy(pass'[q])
    BY <1>1, <2>1, PassStepOthers DEF Chosen
  <2>2. ASSUME pass'[p].phase \in {"backup", "preserve", "transfer"} PROVE ChosenBy(pass'[p])
    <3>1. CASE \E f \in File : TakeOneWay(p, f) \/ TakeConflict(p, f)
      <4>1. PICK f \in File : TakeOneWay(p, f) \/ TakeConflict(p, f)
        BY <3>1
      <4>. QED
        BY <2>2, <4>1, TakenAs DEF ChosenBy
    <3>2. CASE ~(\E f \in File : TakeOneWay(p, f) \/ TakeConflict(p, f))
      <4>1. /\ pass[p].phase \in {"backup", "preserve"} /\ pass'[p].cur = pass[p].cur
            /\ pass'[p].action = pass[p].action /\ pass'[p].localWins = pass[p].localWins
            /\ Backup(p) \/ Preserve(p)
        BY <1>1, <2>2, <3>2, WorkGoesOn
      <4>2. pass'[p].mine = pass[p].mine /\ pass'[p].theirs = pass[p].theirs
        BY <1>1, <2>2, <4>1, PassStepListing DEF Start, ListRemote
      <4>3. ChosenBy(pass[p])
        BY DEF Chosen
      <4>4. pass'[p].phase = "preserve" => pass[p].action = "conflict"
        BY <4>1 DEF Backup, Preserve, Goto, Typed, TypeOK, PassState
      <4>5. pass[p].action # "conflict" => ~pass[p].localWins
        BY <4>1, <4>3 DEF ChosenBy
      <4>6. pass[p].action = "conflict" => pass[p].localWins =
              LocalWins("none", Policy, pass[p].mine[pass[p].cur].mtime,
                        pass[p].theirs[pass[p].cur].mtime)
        BY <4>1, <4>3 DEF ChosenBy
      <4>. QED
        BY <4>1, <4>2, <4>4, <4>5, <4>6 DEF ChosenBy
    <3>. QED
      BY <3>1, <3>2
  <2>3. ChosenBy(pass'[p])
    BY <2>2 DEF ChosenBy
  <2>. QED
    BY <2>1, <2>3 DEF Chosen
<1>2. CASE PcEnv
  BY <1>2 DEF PcEnv, PcPlay, PcTouch, PcTruncate, PcDelete, PcFileOnly, RemoteWrite, pcVars, Chosen
<1>3. CASE Crash
  BY <1>3 DEF Crash, IdlePass, Chosen, ChosenBy
<1>4. CASE UNCHANGED vars
  BY <1>4 DEF vars, pcVars, Chosen
<1>. QED
  BY <1>1, <1>2, <1>3, <1>4 DEF Next

\* An upload that is no conflict finds the cloud copy unchanged since the last sync.
LEMMA UploadNotNewer ==
    ASSUME NEW l \in Nat, NEW r \in Nat, NEW w \in Nat, Decide(l, r, w) = "upload"
    PROVE  ~ChangedSince(r, w)
<1>1. l # None /\ r # None /\ w # None
  BY NoneAssumption
<1>2. ~BothChanged(l, r, w) /\ ~SameTime(l, r) /\ l > r
  BY <1>1 DEF Decide
<1>. QED
  BY <1>1, <1>2, ToleranceAssumption DEF BothChanged, ChangedSince

LEMMA TakenUnlost ==
    ASSUME Typed, Listed, Recent, NEW p \in Pass, pass[p].phase = "next", NEW f \in File,
           Decision(p, f) = "upload", watermark[f] # None
    PROVE  Unlost(f)
<1>1. CASE local[f] = remote[f]
  BY <1>1 DEF Unlost
<1>2. CASE remote[f] = None
  BY <1>2 DEF Unlost, ContentOf
<1>3. CASE local[f] # remote[f] /\ remote[f] # None
  <2>. DEFINE l == pass[p].mine[f].mtime
              r == pass[p].theirs[f].mtime
  <2>1. Decide(l, r, watermark[f]) = "upload"
    BY DEF Decision
  <2>2. r # None /\ r = remote[f].mtime /\ (l = None <=> local[f] = None)
        /\ (local[f] # None => l = local[f].mtime)
    BY <1>3, KnownTimes
  <2>3. l # None
    BY <2>1, <2>2 DEF Decide
  <2>4. l \in Nat /\ r \in Nat /\ watermark[f] \in Nat
    BY <1>3, <2>2, <2>3, Constants DEF Typed, TypeOK, BaseTypeOK, Folder, Save
  <2>5. ~ChangedSince(r, watermark[f])
    BY <2>1, <2>4, UploadNotNewer
  <2>. QED
    BY <2>2, <2>5 DEF Recent, RecentAt
<1>. QED
  BY <1>1, <1>2, <1>3

LEMMA StoredContent == ASSUME NEW S, NEW ts, NEW c PROVE c \in Contents(Stored(S, ts, c))
<1>. DEFINE b == [ts |-> ts, content |-> c]
<1>1. b \in Stored(S, ts, c)
  BY DEF Stored
<1>2. b.content = c
  OBVIOUS
<1>. QED
  BY <1>1, <1>2 DEF Contents

\* The conflict copies of f change under a pass that is about to upload it only to hold the
\* cloud copy.
LEMMA PreserveCopies ==
    ASSUME Typed, Listed, Chosen, NEW p \in Pass, NEW q \in Pass, NEW f \in File, Preserve(p),
           local[f] # remote[f], q # p \/ pass[p].cur = f,
           pass[q].phase \in {"preserve", "transfer"}, pass[q].localWins, pass[q].cur = f,
           pass[q].action = "conflict"
    PROVE  \/ copies'[f] = copies[f] /\ q # p
           \/ ContentOf(remote[f]) \subseteq Contents(copies'[f])
<1>1. CASE pass[p].cur # f
  BY <1>1 DEF Preserve, Typed, TypeOK
<1>2. CASE pass[p].cur = f
  <2>1. pass[p].phase = "preserve" /\ pass[p].action = "conflict"
    BY DEF Preserve, Chosen, ChosenBy
  <2>2. /\ pass[p].mine[f] = Seen(local[f]) /\ pass[p].theirs[f] = Seen(remote[f])
        /\ pass[q].mine[f] = Seen(local[f]) /\ pass[q].theirs[f] = Seen(remote[f])
    BY <2>1 DEF Listed, Knows
  <2>3. /\ pass[p].localWins = LocalWins("none", Policy, pass[p].mine[f].mtime,
                                         pass[p].theirs[f].mtime)
        /\ pass[q].localWins = LocalWins("none", Policy, pass[q].mine[f].mtime,
                                         pass[q].theirs[f].mtime)
    BY <1>2, <2>1 DEF Chosen, ChosenBy
  <2>4. pass[p].localWins
    BY <2>2, <2>3
  <2>5. copies'[f] = Stored(copies[f], pass[p].ts, remote[f].content)
    BY <1>2, <2>4 DEF Preserve, Loser, Typed, TypeOK
  <2>6. remote[f].content \in Contents(copies'[f])
    BY <2>5, StoredContent
  <2>. QED
    BY <2>6 DEF ContentOf
<1>. QED
  BY <1>1, <1>2

LEMMA GoingStep ==
    ASSUME Unshared, TrueListing, NoChoices PROVE UploadInv /\ [Next]_vars => Going'
<1>. SUFFICES ASSUME UploadInv, [Next]_vars PROVE Going'
  OBVIOUS
<1>. USE DEF UploadInv
<1>1. ASSUME NEW p \in Pass, PassStep(p) PROVE Going'
  <2>. SUFFICES ASSUME NEW q \in Pass, NEW f \in File, pass'[q].phase = "transfer",
                       pass'[q].localWins, pass'[q].cur = f, local'[f] # remote'[f]
                PROVE  IF pass'[q].action = "conflict"
                       THEN ContentOf(remote'[f]) \subseteq
                              Contents(copies'[f]) \cup ContentOf(local'[f])
                       ELSE watermark'[f] # None => Unlost(f)'
    BY DEF Going, Replaced, Unlost
  <2>1. local'[f] = local[f] /\ remote'[f] = remote[f]
    BY <1>1, PassStepSides
  <2>2. CASE q # p
    <3>1. pass'[q] = pass[q] /\ Replaced(pass[q], f)
      BY <1>1, <2>2, PassStepOthers DEF Going
    <3>2. CASE pass[q].action = "conflict"
      <4>1. ContentOf(remote[f]) \subseteq Contents(copies[f]) \cup ContentOf(local[f])
        BY <3>1, <3>2 DEF Replaced
      <4>2. copies' = copies \/ Preserve(p)
        BY <1>1, PassStepWorld
      <4>3. \/ copies'[f] = copies[f]
            \/ ContentOf(remote[f]) \subseteq Contents(copies'[f])
        BY <2>1, <2>2, <3>1, <3>2, <4>2, PreserveCopies
      <4>. QED
        BY <2>1, <3>1, <3>2, <4>1, <4>3
    <3>3. CASE pass[q].action # "conflict"
      BY <1>1, <3>1, <3>3, PassStepRecent DEF Replaced
    <3>. QED
      BY <3>2, <3>3
  <2>3. CASE q = p /\ \E g \in File : TakeOneWay(p, g) \/ TakeConflict(p, g)
    <3>1. /\ pass[p].phase = "next" /\ pass'[p].action = "upload" /\ Decision(p, f) = "upload"
      BY <2>3, TakenAs
    <3>2. watermark' = watermark /\ UNCHANGED Sides
      BY <2>3 DEF TakeOneWay, TakeConflict, baseVars, Sides
    <3>3. watermark[f] # None => Unlost(f)
      BY <3>1, TakenUnlost
    <3>. QED
      BY <1>1, <2>3, <3>1, <3>2, <3>3, PassStepRecent
  <2>4. CASE q = p /\ ~(\E g \in File : TakeOneWay(p, g) \/ TakeConflict(p, g))
    <3>1. /\ pass[p].phase \in {"backup", "preserve"} /\ pass[p].cur = f
          /\ pass'[p].action = pass[p].action /\ pass[p].localWins
          /\ Backup(p) \/ Preserve(p)
      BY <1>1, <2>4, WorkGoesOn
    <3>2. pass[p].action = "conflict"
      BY <3>1 DEF Chosen, ChosenBy
    <3>3. Preserve(p) /\ pass[p].phase = "preserve"
      BY <2>4, <3>1, <3>2 DEF Backup, Preserve, Goto, Typed, TypeOK, PassState
    <3>4. ContentOf(remote[f]) \subseteq Contents(copies'[f])
      BY <2>1, <3>1, <3>2, <3>3, PreserveCopies
    <3>. QED
      BY <2>1, <2>4, <3>1, <3>2, <3>4
  <2>. QED
    BY <2>2, <2>3, <2>4
<1>2. CASE PcEnv
  <2>1. pass' = pass /\ watermark' = watermark /\ (Idle \/ UNCHANGED Sides)
    BY <1>2, EnvAlone
  <2>2. CASE Idle
    BY <2>1, <2>2 DEF Idle, Going, Replaced
  <2>3. CASE UNCHANGED Sides
    <3>1. copies' = copies /\ superseded \subseteq superseded'
      BY <1>2 DEF PcEnv, Tick, PcPlay, PcTouch, PcTruncate, PcDelete, PcFileOnly, RemoteWrite,
         pcVars
    <3>. QED
      BY <2>1, <2>3, <3>1 DEF Sides, Going, Replaced, Unlost
  <2>. QED
    BY <2>1, <2>2, <2>3
<1>3. CASE Crash
  BY <1>3 DEF Crash, IdlePass, Going, Replaced
<1>4. CASE UNCHANGED vars
  BY <1>4 DEF vars, pcVars, baseVars, Going, Replaced, Unlost
<1>. QED
  BY <1>1, <1>2, <1>3, <1>4 DEF Next

LEMMA UploadStep ==
    ASSUME Unshared, TrueListing, OnTime, NoChoices PROVE UploadInv /\ [Next]_vars => UploadInv'
<1>. SUFFICES ASSUME UploadInv, [Next]_vars PROVE UploadInv'
  OBVIOUS
<1>1. Typed' /\ SyncedAgree' /\ Listed'
  BY AncestorStep, ListedStep DEF UploadInv, AncestorInv
<1>2. Chosen' /\ Going'
  BY ChosenStep, GoingStep DEF UploadInv
<1>3. Recent'
  <2>1. CASE PcEnv
    BY <2>1, EnvRecent DEF UploadInv
  <2>2. ASSUME NEW p \in Pass, PassStep(p) PROVE Recent'
    BY <2>2, PassStepRecent DEF UploadInv, Recent
  <2>3. CASE Crash
    BY <2>3 DEF Crash, baseVars, UploadInv, Recent, RecentAt, Unlost
  <2>4. CASE UNCHANGED vars
    BY <2>4 DEF vars, pcVars, baseVars, UploadInv, Recent, RecentAt, Unlost
  <2>. QED
    BY <2>1, <2>2, <2>3, <2>4 DEF Next
<1>. QED
  BY <1>1, <1>2, <1>3 DEF UploadInv

\* However many passes run at once, and whatever transfers and backups fail, what a pass
\* replaces in the cloud after the first sync of a file is kept or was played on from.
THEOREM UploadsKeep ==
    ASSUME Unshared, TrueListing, OnTime, NoChoices PROVE Spec => UploadKeeps
<1>. DEFINE Step == \A f \in File : SyncerActs /\ watermark[f] # None =>
              \A c \in ContentOf(remote[f]) : Kept(f, c)'
<1>1. UploadInv /\ [Next]_vars => Step
  <2>. SUFFICES ASSUME UploadInv, [Next]_vars, NEW f \in File, SyncerActs, watermark[f] # None,
                       NEW c \in ContentOf(remote[f])
                PROVE  Kept(f, c)'
    OBVIOUS
  <2>1. CASE remote'[f] = remote[f]
    BY <2>1 DEF Kept
  <2>2. ASSUME NEW p \in Pass, Upload(p), f = pass[p].cur PROVE Kept(f, c)'
    <3>1. /\ remote'[f] = local[f] /\ superseded' = superseded /\ copies' = copies
          /\ pass[p].phase = "transfer" /\ pass[p].localWins
      BY <2>2 DEF Upload, UploadInv, Typed, TypeOK, BaseTypeOK, Folder
    <3>2. Replaced(pass[p], f)
      BY DEF UploadInv, Going
    <3>. QED
      BY <2>2, <3>1, <3>2 DEF Replaced, Unlost, Kept
  <2>3. ASSUME NEW p \in Pass, PassStep(p), ~Upload(p) PROVE remote' = remote
    BY <2>3 DEF PassStep, Start, ListRemote, SkipFile, TakeOneWay, TakeConflict, Backup, Preserve,
       Download, TransferFails, LogOther, LogOk, MarkSynced, Finish, Abort, baseVars
  <2>4. ASSUME NEW p \in Pass, Upload(p), f # pass[p].cur PROVE remote'[f] = remote[f]
    BY <2>4 DEF Upload, UploadInv, Typed, TypeOK, BaseTypeOK, Folder
  <2>5. CASE Crash
    BY <2>1, <2>5 DEF Crash, baseVars
  <2>6. ~PcEnv /\ ~UNCHANGED vars
    BY EnvAlone DEF SyncerActs, vars, pcVars
  <2>. QED
    BY <2>1, <2>2, <2>3, <2>4, <2>5, <2>6 DEF Next
<1>2. UploadInv /\ [Next]_vars => UploadInv'
  BY UploadStep
<1>3. Spec => [][Step]_vars
  BY <1>1, <1>2, UploadInit, PTL DEF Spec
<1>. QED
  BY <1>3 DEF UploadKeeps
-----------------------------------------------------------------------------
(* A quiet pass converges.  The argument: what a pass has listed is still    *)
(* there when it transfers, so no transfer lacks its source; a file it is    *)
(* done with has equal sides, and no transfer of any pass parts them.  What  *)
(* the delta cache holds is the cloud copy, or the cloud copy is newer than  *)
(* the watermark, and then the file is no upload.                            *)

\* No listing and no transfer fails, and no file is left to the user.
NothingFails == Faults \cap {"listing", "transfer"} = {} /\ "skip" \notin OverrideChoices

\* The delta cache serves one thread, no crash parts it from the log, and no write is late.
SoleCached == /\ \A p, q \in Pass : p = q
              /\ DeltaPasses = Pass
              /\ Faults \cap {"crash", "late"} = {}

\* What was there when a pass listed it is still there.
Present(r) ==
    \A f \in File :
      /\ r.phase # "idle" /\ r.mine[f].mtime # None => local[f] # None
      /\ r.phase \notin {"idle", "list"} /\ r.theirs[f].mtime # None => remote[f] # None

\* The file a pass works on: the transfer ahead of it has a source.
AtHand(r) ==
    /\ r.phase \in {"backup", "preserve", "transfer"} =>
         /\ r.localWins \/ r.action = "conflict" => local[r.cur] # None
         /\ ~r.localWins \/ r.action = "conflict" => remote[r.cur] # None
         /\ r.phase = "preserve" => r.action = "conflict"
    /\ r.phase \in {"log", "mark"} => local[r.cur] # None
    /\ r.phase = "note" => Agree(r.cur)

\* A pass leaves behind it only files whose sides agree.
Settled(r) ==
    r.phase \notin {"idle", "list"} =>
      \A f \in File \ r.todo : (r.phase \in Busy /\ r.cur = f) \/ Agree(f)

HandInv == \A p \in Pass : Present(pass[p]) /\ AtHand(pass[p]) /\ Settled(pass[p])

\* mark_synced has yet to hash f.
Unhashed(r, f) ==
    r.cur = f /\ (r.phase = "mark" \/ (r.phase = "log" /\ r.action # "conflict"))

CachedAt(f) ==
    \/ delta[f] = None
    \/ remote[f] # None /\ remote[f].content = delta[f]
    \/ /\ remote[f] # None /\ watermark[f] # None
       /\ ChangedSince(remote[f].mtime, watermark[f])
       /\ \A p \in Pass : f \notin Synced(p)
    \/ \E p \in Pass : Unhashed(pass[p], f)

\* The cache is no older than the log.
CacheInv ==
    /\ \A f \in File : CachedAt(f)
    /\ \A f \in File : delta[f] # None => watermark[f] # None \/ \E p \in Pass : f \in Synced(p)
    /\ \A p \in Pass : pass[p].phase = "mark" /\ pass[p].action # "conflict" =>
                         pass[p].cur \in pass[p].logged

\* An upload the delta cache calls off would change nothing.
SkipsAgree ==
    \A p \in Pass, f \in File :
      pass[p].phase = "next" /\ Decision(p, f) = "upload" /\ DeltaSkip(p, f) => Agree(f)

LEMMA DecisionOn ==
    ASSUME NEW l, NEW r, NEW w
    PROVE  /\ Decide(l, r, w) = "upload" => l # None
           /\ Decide(l, r, w) = "download" => r # None
           /\ Decide(l, r, w) = "conflict" => l # None /\ r # None
           /\ Decide(l, r, w) = "up_to_date" /\ (l # None \/ r # None) =>
                l # None /\ r # None /\ SameTime(l, r)
<1>1. CASE l = None \/ r = None
  BY <1>1 DEF Decide
<1>2. CASE l # None /\ r # None
  BY <1>2 DEF Decide
<1>. QED
  BY <1>1, <1>2

LEMMA SavesStay ==
    ASSUME Typed, NEW p \in Pass, PassStep(p)
    PROVE  \A f \in File : /\ local[f] # None => local'[f] # None
                           /\ remote[f] # None => remote'[f] # None
                           /\ Agree(f) => Agree(f)'
<1>. SUFFICES ASSUME NEW f \in File
              PROVE  /\ local[f] # None => local'[f] # None
                     /\ remote[f] # None => remote'[f] # None
                     /\ Agree(f) => Agree(f)'
  OBVIOUS
<1>1. CASE local'[f] = local[f] /\ remote'[f] = remote[f]
  BY <1>1 DEF Agree
<1>2. CASE Upload(p) \/ Download(p)
  <2>1. \/ local'[f] = local[f] /\ remote'[f] = remote[f]
        \/ local'[f] = remote'[f] /\ local'[f] # None
    BY <1>2 DEF Upload, Download, baseVars, Typed, TypeOK, BaseTypeOK, Folder
  <2>. QED
    BY <1>1, <2>1 DEF Agree
<1>3. PassStep(p) /\ ~Upload(p) /\ ~Download(p) => UNCHANGED Sides
  BY DEF PassStep, Start, ListRemote, SkipFile, TakeOneWay, TakeConflict, Backup, Preserve,
     TransferFails, LogOther, LogOk, MarkSynced, Finish, Abort, baseVars, Sides
<1>. QED
  BY <1>1, <1>2, <1>3 DEF Sides

\* How a pass takes up a file, whoever decides its conflicts.
LEMMA TakenHow ==
    ASSUME NothingFails, Typed, NEW p \in Pass, NEW f \in File,
           TakeOneWay(p, f) \/ TakeConflict(p, f)
    PROVE  /\ pass[p].phase = "next" /\ pass'[p].cur = f /\ pass'[p].todo = pass[p].todo \ {f}
           /\ pass'[p].mine = pass[p].mine /\ pass'[p].theirs = pass[p].theirs
           /\ pass'[p].logged = pass[p].logged
           /\ \/ /\ pass'[p].phase = "transfer" /\ pass'[p].action = "upload"
                 /\ pass'[p].localWins /\ Decision(p, f) = "upload"
              \/ /\ pass'[p].phase = "backup" /\ pass'[p].action = "download"
                 /\ ~pass'[p].localWins /\ Decision(p, f) = "download"
              \/ /\ pass'[p].phase = "backup" /\ pass'[p].action = "conflict"
                 /\ Decision(p, f) = "conflict" \/ IsSuspect(p, f)
              \/ pass'[p].phase = "note" /\ IsSuspect(p, f)
<1>1. pass \in [Pass -> PassState]
  BY DEF Typed, TypeOK
<1>2. pass[p].phase = "next"
  BY DEF TakeOneWay, TakeConflict
<1>3. CASE TakeOneWay(p, f)
  BY <1>1, <1>2, <1>3 DEF TakeOneWay, Take, PassState
<1>4. CASE TakeConflict(p, f)
  <2>1. PICK o \in OverrideChoices :
          IF o = "skip" \/ (o = "none" /\ IsSuspect(p, f))
          THEN Take(p, f, "note", "conflict", FALSE)
          ELSE Take(p, f, "backup", "conflict",
                    LocalWins(o, Policy, pass[p].mine[f].mtime, pass[p].theirs[f].mtime))
    BY <1>4 DEF TakeConflict
  <2>. DEFINE wins == LocalWins(o, Policy, pass[p].mine[f].mtime, pass[p].theirs[f].mtime)
  <2>2. \/ Take(p, f, "note", "conflict", FALSE) /\ IsSuspect(p, f)
        \/ Take(p, f, "backup", "conflict", wins)
    BY <2>1 DEF NothingFails
  <2>. HIDE DEF wins
  <2>3. Decision(p, f) = "conflict" \/ IsSuspect(p, f)
    BY <1>4 DEF TakeConflict
  <2>. QED
    BY <1>1, <1>2, <2>2, <2>3 DEF Take, PassState
<1>. QED
  BY <1>3, <1>4

\* What a pass knows of a file is enough for what it is about to do with it.
LEMMA TakenInHand ==
    ASSUME NothingFails, Typed, Listed, NEW p \in Pass, NEW f \in File, Present(pass[p]),
           TakeOneWay(p, f) \/ TakeConflict(p, f)
    PROVE  /\ pass'[p].phase \in {"backup", "transfer"} =>
                /\ pass'[p].localWins \/ pass'[p].action = "conflict" => local[f] # None
                /\ ~pass'[p].localWins \/ pass'[p].action = "conflict" => remote[f] # None
           /\ pass'[p].phase \notin {"preserve", "log", "mark"}
           /\ pass'[p].phase = "note" => Agree(f)
<1>. DEFINE l == pass[p].mine[f].mtime
            r == pass[p].theirs[f].mtime
<1>1. pass[p].phase = "next"
  BY TakenHow
<1>2. (l # None => local[f] # None) /\ (r # None => remote[f] # None)
  BY <1>1 DEF Present
<1>3. /\ Decision(p, f) = "upload" => l # None
      /\ Decision(p, f) = "download" => r # None
      /\ Decision(p, f) = "conflict" \/ IsSuspect(p, f) => l # None /\ r # None
  BY DecisionOn DEF Decision, IsSuspect
<1>4. IsSuspect(p, f) => Agree(f)
  <2>1. CASE local[f] = remote[f]
    BY <2>1 DEF Agree
  <2>2. CASE local[f] # remote[f] /\ IsSuspect(p, f)
    <3>1. pass[p].mine[f].empty # pass[p].theirs[f].empty
      BY <2>2 DEF IsSuspect, Suspect
    <3>2. local[f] # None /\ remote[f] # None
      BY <1>2, <1>3, <2>2
    <3>3. /\ pass[p].mine[f].empty = (local[f].content = Blank)
          /\ pass[p].theirs[f].empty = (remote[f].content = Blank)
      BY <1>1, <2>2, <3>2, KnownTimes
    <3>. QED
      BY <3>1, <3>2, <3>3 DEF Agree
  <2>. QED
    BY <2>1, <2>2
<1>. QED
  BY <1>2, <1>3, <1>4, TakenHow

LEMMA SkippedAgree ==
    ASSUME Typed, Listed, SkipsAgree, NEW p \in Pass, NEW f \in File, Present(pass[p]),
           SkipFile(p, f)
    PROVE  Agree(f)
<1>1. pass[p].phase = "next"
  BY DEF SkipFile
<1>2. CASE local[f] = remote[f]
  BY <1>2 DEF Agree
<1>3. CASE Decision(p, f) = "upload"
  BY <1>1, <1>3 DEF SkipFile, SkipsAgree
<1>4. CASE Decision(p, f) = "up_to_date" /\ local[f] # remote[f]
  <2>. DEFINE l == pass[p].mine[f].mtime
              r == pass[p].theirs[f].mtime
  <2>1. l # None /\ r # None /\ SameTime(l, r)
    <3>1. l # None \/ r # None
      BY <1>1, <1>4, KnownTimes
    <3>. QED
      BY <1>4, <3>1, DecisionOn DEF Decision
  <2>2. local[f] # None /\ remote[f] # None /\ l = local[f].mtime /\ r = remote[f].mtime
    BY <1>1, <1>4, <2>1, KnownTimes
  <2>. QED
    BY <2>1, <2>2 DEF Agree
<1>. QED
  BY <1>2, <1>3, <1>4 DEF SkipFile

LEMMA ListingTodo ==
    ASSUME TrueListing, Typed, Listed, NEW p \in Pass, ListRemote(p), NEW f \in File,
           f \notin pass'[p].todo
    PROVE  local[f] = remote[f]
<1>. DEFINE todo(T) == {g \in File : pass[p].mine[g].mtime # None \/ T[g].mtime # None}
            theirs == [g \in File |-> Seen(remote[g])]
<1>1. pass \in [Pass -> PassState]
  BY DEF Typed, TypeOK
<1>2. pass' = [pass EXCEPT ![p].phase = "next", ![p].theirs = theirs, ![p].todo = todo(theirs)]
  BY DEF ListRemote, TrueListing
<1>3. pass'[p].todo = todo(theirs)
  <2>. HIDE DEF todo, theirs
  <2>. QED
    BY <1>1, <1>2 DEF PassState
<1>4. pass[p].mine[f].mtime = None /\ Seen(remote[f]).mtime = None
  BY <1>3
<1>5. CASE local[f] # remote[f]
  <2>1. pass[p].mine[f] = Seen(local[f])
    BY <1>5 DEF ListRemote, Listed, Knows
  <2>2. \A s \in Save \cup {None} : Seen(s).mtime = None => s = None
    BY Constants DEF Seen, Save
  <2>. QED
    BY <1>4, <2>1, <2>2 DEF Typed, TypeOK, BaseTypeOK, Folder
<1>. QED
  BY <1>5

LEMMA SeenPresent == \A s : Seen(s).mtime # None => s # None
<1>. SUFFICES ASSUME NEW s, s = None PROVE Seen(s).mtime = None
  OBVIOUS
<1>. QED
  BY DEF Seen

LEMMA HandInit == Init => HandInv
BY DEF Init, IdlePass, HandInv, Present, AtHand, Settled

\* A pass keeps for itself what it needs to know.
LEMMA HandOwnStep ==
    ASSUME Unshared, NothingFails, Typed, SyncedAgree, Listed, SkipsAgree, HandInv,
           NEW p \in Pass, PassStep(p)
    PROVE  (Present(pass[p]) /\ AtHand(pass[p]) /\ Settled(pass[p]))'
<1>. USE DEF HandInv
<1>0. pass \in [Pass -> PassState] /\ local' \in [File -> Save \cup {None}]
  BY NextTyped DEF Typed, TypeOK, Next, Folder
<1>a. Present(pass[p]) /\ AtHand(pass[p]) /\ Settled(pass[p])
  OBVIOUS
<1>b. \A f \in File : /\ local[f] # None => local'[f] # None
                      /\ remote[f] # None => remote'[f] # None
                      /\ Agree(f) => Agree(f)'
  BY SavesStay
<1>c. TrueListing
  BY DEF NothingFails, TrueListing
<1>1. CASE Start(p)
  <2>1. /\ pass'[p].phase = "list" /\ local' = local
        /\ \A f \in File : pass'[p].mine[f] = Seen(local[f])
    BY <1>0, <1>1 DEF Start, IdlePass
  <2>. QED
    BY <2>1, SeenPresent DEF Present, AtHand, Settled, Busy
<1>2. CASE ListRemote(p)
  <2>1. /\ pass'[p].phase = "next" /\ pass'[p].mine = pass[p].mine /\ pass[p].phase = "list"
        /\ \A f \in File : pass'[p].theirs[f] = Seen(remote[f])
    BY <1>2, <1>c, ListingIs
  <2>2. UNCHANGED Sides
    BY <1>2 DEF ListRemote, baseVars, Sides
  <2>3. \A f \in File : f \notin pass'[p].todo => local[f] = remote[f]
    BY <1>2, <1>c, ListingTodo
  <2>4. Present(pass[p])'
    BY <1>a, <2>1, <2>2, SeenPresent DEF Present, Sides
  <2>5. Settled(pass[p])'
    BY <2>2, <2>3 DEF Settled, Sides, Agree
  <2>. QED
    BY <2>1, <2>4, <2>5 DEF AtHand
<1>3. ASSUME NEW f \in File, SkipFile(p, f)
      PROVE  (Present(pass[p]) /\ AtHand(pass[p]) /\ Settled(pass[p]))'
  <2>1. Agree(f)
    BY <1>3, SkippedAgree
  <2>2. /\ pass[p].phase = "next" /\ pass'[p].phase = "next" /\ pass'[p].todo = pass[p].todo \ {f}
        /\ pass'[p].mine = pass[p].mine /\ pass'[p].theirs = pass[p].theirs
    BY <1>0, <1>3 DEF SkipFile, PassState
  <2>. QED
    BY <1>a, <1>b, <2>1, <2>2 DEF Present, AtHand, Settled, Busy
<1>4. ASSUME NEW f \in File, TakeOneWay(p, f) \/ TakeConflict(p, f)
      PROVE  (Present(pass[p]) /\ AtHand(pass[p]) /\ Settled(pass[p]))'
  <2>1. /\ pass[p].phase = "next" /\ pass'[p].cur = f /\ pass'[p].todo = pass[p].todo \ {f}
        /\ pass'[p].mine = pass[p].mine /\ pass'[p].theirs = pass[p].theirs
        /\ pass'[p].phase \in {"transfer", "backup", "note"}
    BY <1>4, TakenHow
  <2>2. AtHand(pass[p])'
    BY <1>4, <1>b, <2>1, TakenInHand DEF AtHand
  <2>3. Present(pass[p])'
    BY <1>a, <1>b, <2>1 DEF Present
  <2>4. Settled(pass[p])'
    BY <1>a, <1>b, <2>1 DEF Settled, Busy
  <2>. QED
    BY <2>2, <2>3, <2>4
<1>5. CASE Backup(p) \/ Preserve(p)
  <2>1. /\ pass[p].phase \in {"backup", "preserve"} /\ pass'[p].phase \in {"preserve", "transfer"}
        /\ pass'[p].phase = "preserve" => pass[p].action = "conflict"
        /\ pass'[p].cur = pass[p].cur /\ pass'[p].action = pass[p].action
        /\ pass'[p].localWins = pass[p].localWins /\ pass'[p].todo = pass[p].todo
        /\ pass'[p].mine = pass[p].mine /\ pass'[p].theirs = pass[p].theirs
    BY <1>0, <1>5 DEF Backup, Preserve, Goto, PassState
  <2>2. pass[p].cur \in File
    BY <2>1 DEF Typed, CurOK, Busy
  <2>3. AtHand(pass[p])'
    BY <1>a, <1>b, <2>1, <2>2 DEF AtHand
  <2>4. Present(pass[p])'
    BY <1>a, <1>b, <2>1 DEF Present
  <2>5. Settled(pass[p])'
    BY <1>a, <1>b, <2>1 DEF Settled, Busy
  <2>. QED
    BY <2>3, <2>4, <2>5
<1>6. CASE Upload(p) \/ Download(p)
  <2>1. /\ pass[p].phase = "transfer" /\ pass'[p].phase \in {"log", "mark"}
        /\ pass'[p].cur = pass[p].cur /\ pass'[p].todo = pass[p].todo
        /\ pass'[p].mine = pass[p].mine /\ pass'[p].theirs = pass[p].theirs
    BY <1>0, <1>6 DEF Upload, Download, Goto, AfterTransfer, PassState
  <2>2. local'[pass[p].cur] # None
    BY <1>6, <2>1 DEF Upload, Download, Typed, TypeOK, CurOK, Busy, Folder
  <2>3. AtHand(pass[p])'
    BY <2>1, <2>2 DEF AtHand
  <2>4. Present(pass[p])'
    BY <1>a, <1>b, <2>1 DEF Present
  <2>5. Settled(pass[p])'
    BY <1>a, <1>b, <2>1 DEF Settled, Busy
  <2>. QED
    BY <2>3, <2>4, <2>5
<1>7. ~TransferFails(p)
  BY <1>a DEF TransferFails, NothingFails, AtHand
<1>8. CASE LogOther(p) \/ LogOk(p) \/ MarkSynced(p)
  <2>1. /\ pass[p].phase \in {"note", "log", "mark"} /\ pass'[p].todo = pass[p].todo
        /\ pass'[p].mine = pass[p].mine /\ pass'[p].theirs = pass[p].theirs
        /\ \/ pass'[p].phase = "next"
           \/ /\ pass'[p].phase \in {"log", "mark"} /\ pass[p].phase \in {"log", "mark"}
              /\ pass'[p].cur = pass[p].cur
    BY <1>0, <1>8 DEF LogOther, LogOk, MarkSynced, PassState
  <2>2. UNCHANGED Sides
    BY <1>8 DEF LogOther, LogOk, MarkSynced, baseVars, Sides
  <2>3. pass[p].cur \in File
    BY <2>1 DEF Typed, CurOK, Busy
  <2>4. Agree(pass[p].cur)
    <3>1. CASE pass[p].phase = "note"
      BY <1>a, <3>1 DEF AtHand
    <3>2. CASE pass[p].phase \in {"log", "mark"}
      BY <3>2 DEF SyncedAgree, Synced, Same, Agree
    <3>. QED
      BY <2>1, <3>1, <3>2
  <2>5. AtHand(pass[p])'
    BY <1>a, <1>b, <2>1, <2>3 DEF AtHand
  <2>6. Present(pass[p])'
    BY <1>a, <1>b, <2>1 DEF Present
  <2>7. Settled(pass[p])'
    BY <1>a, <1>b, <2>1, <2>4 DEF Settled, Busy
  <2>. QED
    BY <2>5, <2>6, <2>7
<1>9. CASE Finish(p) \/ Abort(p)
  <2>1. pass'[p].phase = "idle"
    BY <1>0, <1>9 DEF Finish, Abort, Rollback, IdlePass
  <2>. QED
    BY <2>1 DEF Present, AtHand, Settled
<1>. QED
  BY <1>1, <1>2, <1>3, <1>4, <1>5, <1>6, <1>7, <1>8, <1>9 DEF PassStep

LEMMA HandStep ==
    ASSUME Unshared, NothingFails
    PROVE  Typed /\ SyncedAgree /\ Listed /\ SkipsAgree /\ HandInv /\ [Next]_vars => HandInv'
<1>. SUFFICES ASSUME Typed, SyncedAgree, Listed, SkipsAgree, HandInv, [Next]_vars PROVE HandInv'
  OBVIOUS
<1>1. ASSUME NEW p \in Pass, PassStep(p) PROVE HandInv'
  <2>1. (Present(pass[p]) /\ AtHand(pass[p]) /\ Settled(pass[p]))'
    BY <1>1, HandOwnStep
  <2>2. ASSUME NEW q \in Pass \ {p} PROVE (Present(pass[q]) /\ AtHand(pass[q]) /\ Settled(pass[q]))'
    <3>1. pass'[q] = pass[q]
      BY <1>1, PassStepOthers
    <3>2. \A f \in File : /\ local[f] # None => local'[f] # None
                          /\ remote[f] # None => remote'[f] # None
                          /\ Agree(f) => Agree(f)'
      BY <1>1, SavesStay
    <3>3. pass[q].phase \in Busy => pass[q].cur \in File
      BY DEF Typed, CurOK
    <3>4. Present(pass[q]) /\ AtHand(pass[q]) /\ Settled(pass[q])
      BY DEF HandInv
    <3>5. Present(pass[q])'
      BY <3>1, <3>2, <3>4 DEF Present
    <3>6. AtHand(pass[q])'
      BY <3>1, <3>2, <3>3, <3>4 DEF AtHand, Busy
    <3>7. Settled(pass[q])'
      BY <3>1, <3>2, <3>4 DEF Settled
    <3>. QED
      BY <3>5, <3>6, <3>7
  <2>. QED
    BY <2>1, <2>2 DEF HandInv
<1>2. CASE PcEnv
  <2>1. CASE Idle
    BY <1>2, <2>1, EnvAlone DEF Idle, HandInv, Present, AtHand, Settled
  <2>2. CASE UNCHANGED Sides
    BY <1>2, <2>2, EnvAlone DEF Sides, HandInv, Present, AtHand, Settled, Agree
  <2>. QED
    BY <1>2, <2>1, <2>2, EnvAlone
<1>3. CASE Crash
  BY <1>3 DEF Crash, IdlePass, HandInv, Present, AtHand, Settled
<1>4. CASE UNCHANGED vars
  BY <1>4 DEF vars, pcVars, baseVars, HandInv, Present, AtHand, Settled, Agree
<1>. QED
  BY <1>1, <1>2, <1>3, <1>4 DEF Next
LEMMA CacheInit == Init => CacheInv
BY DEF Init, IdlePass, CacheInv, CachedAt

LEMMA CacheSkips ==
    ASSUME Typed, Listed, CacheInv, SoleCached PROVE SkipsAgree
<1>. SUFFICES ASSUME NEW p \in Pass, NEW f \in File, pass[p].phase = "next",
                     Decision(p, f) = "upload", DeltaSkip(p, f), local[f] # remote[f]
              PROVE  Agree(f)
  BY DEF SkipsAgree, Agree
<1>1. \A q \in Pass : ~Unhashed(pass[q], f)
  BY DEF SoleCached, Unhashed
<1>2. local[f] # None /\ delta[f] # None /\ local[f].content = delta[f]
  BY DEF DeltaSkip
<1>3. CASE remote[f] # None /\ remote[f].content = delta[f]
  BY <1>2, <1>3 DEF Agree, ContentOf
<1>4. CASE remote[f] # None /\ watermark[f] # None /\ ChangedSince(remote[f].mtime, watermark[f])
  <2>. DEFINE l == pass[p].mine[f].mtime
              r == pass[p].theirs[f].mtime
  <2>1. l = local[f].mtime /\ r = remote[f].mtime
    BY <1>2, <1>4, KnownTimes
  <2>2. l \in Nat /\ r \in Nat /\ watermark[f] \in Nat
    BY <1>2, <1>4, <2>1, Constants DEF Typed, TypeOK, BaseTypeOK, Folder, Save
  <2>3. Decide(l, r, watermark[f]) = "upload"
    BY DEF Decision
  <2>4. ~ChangedSince(r, watermark[f])
    BY <2>2, <2>3, UploadNotNewer
  <2>. QED
    BY <1>4, <2>1, <2>4
<1>. QED
  BY <1>1, <1>2, <1>3, <1>4 DEF CacheInv, CachedAt

LEMMA CacheOwnStep ==
    ASSUME SoleCached, NothingFails, Typed, SyncedAgree, HandInv, CacheInv,
           NEW p \in Pass, PassStep(p)
    PROVE  CacheInv'
<1>. DEFINE cached(f) ==
              \/ delta[f] = None
              \/ remote[f] # None /\ remote[f].content = delta[f]
              \/ /\ remote[f] # None /\ watermark[f] # None
                 /\ ChangedSince(remote[f].mtime, watermark[f])
                 /\ f \notin Synced(p)
              \/ Unhashed(pass[p], f)
            dated(f) == delta[f] # None => watermark[f] # None \/ f \in Synced(p)
            logged == pass[p].phase = "mark" /\ pass[p].action # "conflict" =>
                        pass[p].cur \in pass[p].logged
<1>1. pass \in [Pass -> PassState] /\ \A q \in Pass : q = p
  BY DEF Typed, TypeOK, SoleCached
<1>2. /\ \A f \in File : cached(f) /\ dated(f)
      /\ logged
  BY <1>1 DEF CacheInv, CachedAt
<1>3. AtHand(pass[p])
  BY DEF HandInv
<1>. SUFFICES /\ \A f \in File : cached(f)' /\ dated(f)'
              /\ logged'
  BY <1>1 DEF CacheInv, CachedAt
<1>4. CASE /\ remote' = remote /\ delta' = delta /\ watermark' = watermark
           /\ Synced(p)' = Synced(p) /\ logged'
           /\ \A f \in File : Unhashed(pass[p], f)' <=> Unhashed(pass[p], f)
  BY <1>2, <1>4
<1>5. CASE Start(p) \/ ListRemote(p)
  <2>1. /\ pass[p].phase \in {"idle", "list"} /\ pass'[p].phase \in {"list", "next"}
        /\ pass[p].phase = "list" => pass'[p].logged = pass[p].logged
        /\ pass[p].phase = "idle" => pass'[p].logged = {}
    <3>1. CASE Start(p)
      BY <1>1, <3>1 DEF Start, IdlePass, PassState
    <3>2. CASE ListRemote(p)
      <4>. DEFINE theirs(x) == [f \in File |-> IF x THEN NotSeen ELSE Seen(remote[f])]
                  todo(x) == {f \in File : \/ pass[p].mine[f].mtime # None
                                           \/ theirs(x)[f].mtime # None}
      <4>1. PICK x \in BOOLEAN : pass' = [pass EXCEPT ![p].phase = "next", ![p].theirs = theirs(x),
                                                      ![p].todo = todo(x)]
        BY <3>2 DEF ListRemote
      <4>. HIDE DEF theirs, todo
      <4>2. pass[p].phase = "list"
        BY <3>2 DEF ListRemote
      <4>. QED
        BY <1>1, <4>1, <4>2 DEF PassState
    <3>. QED
      BY <1>5, <3>1, <3>2
  <2>2. pass[p].phase = "idle" => pass[p].logged = {}
    BY DEF SyncedAgree
  <2>3. /\ remote' = remote /\ delta' = delta /\ watermark' = watermark
    BY <1>5 DEF Start, ListRemote, baseVars
  <2>. QED
    BY <1>4, <2>1, <2>2, <2>3 DEF Synced, Unhashed
<1>6. ASSUME NEW g \in File, SkipFile(p, g) \/ TakeOneWay(p, g) \/ TakeConflict(p, g)
      PROVE  (\A f \in File : cached(f)' /\ dated(f)') /\ logged'
  <2>1. /\ pass[p].phase = "next" /\ pass'[p].phase \notin {"log", "mark"}
        /\ pass'[p].logged = pass[p].logged
    <3>1. CASE SkipFile(p, g)
      BY <1>1, <3>1 DEF SkipFile, PassState
    <3>. QED
      BY <1>6, <3>1, TakenHow
  <2>2. /\ remote' = remote /\ delta' = delta /\ watermark' = watermark
    BY <1>6 DEF SkipFile, TakeOneWay, TakeConflict, baseVars
  <2>. QED
    BY <1>4, <2>1, <2>2 DEF Synced, Unhashed
<1>7. CASE Backup(p) \/ Preserve(p) \/ LogOther(p)
  <2>1. /\ pass[p].phase \notin {"log", "mark"} /\ pass'[p].phase \notin {"log", "mark"}
        /\ pass'[p].logged = pass[p].logged
    BY <1>1, <1>7 DEF Backup, Preserve, LogOther, Goto, PassState
  <2>2. /\ remote' = remote /\ delta' = delta /\ watermark' = watermark
    BY <1>7 DEF Backup, Preserve, LogOther, baseVars
  <2>. QED
    BY <1>4, <2>1, <2>2 DEF Synced, Unhashed
<1>8. CASE Upload(p) \/ Download(p)
  <2>. PICK c : c = pass[p].cur
    OBVIOUS
  <2>1. /\ pass[p].phase = "transfer" /\ pass'[p].cur = c
        /\ pass'[p].logged = pass[p].logged /\ pass'[p].action = pass[p].action
        /\ pass'[p].phase = IF pass[p].action = "conflict" THEN "mark" ELSE "log"
    BY <1>1, <1>8 DEF Upload, Download, Goto, AfterTransfer, PassState
  <2>2. /\ delta' = delta /\ watermark' = watermark
        /\ \A f \in File \ {c} : remote'[f] = remote[f]
    BY <1>8 DEF Upload, Download, baseVars, Typed, TypeOK, BaseTypeOK, Folder
  <2>3. Synced(p) = pass[p].logged /\ Synced(p)' = pass[p].logged \cup {c}
    BY <2>1 DEF Synced
  <2>4. Unhashed(pass[p], c)' /\ logged'
    BY <2>1 DEF Unhashed
  <2>5. \A f \in File : ~Unhashed(pass[p], f)
    BY <2>1 DEF Unhashed
  <2>. QED
    BY <1>2, <2>2, <2>3, <2>4, <2>5
<1>9. CASE LogOk(p)
  <2>1. /\ pass[p].phase = "log" /\ pass'[p].logged = pass[p].logged \cup {pass[p].cur}
        /\ pass'[p].action = pass[p].action
        /\ \/ pass[p].action = "conflict" /\ pass'[p].phase = "next"
           \/ /\ pass[p].action # "conflict" /\ pass'[p].phase = "mark"
              /\ pass'[p].cur = pass[p].cur
    BY <1>1, <1>9 DEF LogOk, PassState
  <2>2. /\ remote' = remote /\ delta' = delta /\ watermark' = watermark
    BY <1>9 DEF LogOk, baseVars
  <2>. QED
    BY <1>4, <2>1, <2>2 DEF Synced, Unhashed
<1>10. CASE MarkSynced(p)
  <2>. PICK c : c = pass[p].cur
    OBVIOUS
  <2>1. /\ pass[p].phase = "mark" /\ pass'[p].logged = pass[p].logged
        /\ pass'[p].action = pass[p].action
        /\ \/ pass[p].action # "conflict" /\ pass'[p].phase = "next"
           \/ pass[p].action = "conflict" /\ pass'[p].phase = "log" /\ pass'[p].cur = c
    BY <1>1, <1>10 DEF MarkSynced, PassState
  <2>2. c \in File /\ local[c] # None /\ p \in DeltaPasses /\ Same(c)
    BY <1>3, <2>1 DEF AtHand, Typed, CurOK, Busy, SoleCached, SyncedAgree, Synced
  <2>3. /\ remote' = remote /\ watermark' = watermark
        /\ delta' = [delta EXCEPT ![c] = local[c].content]
    BY <1>10, <2>2 DEF MarkSynced, baseVars
  <2>4. remote[c] # None /\ remote[c].content = local[c].content
    BY <2>2 DEF Same, ContentOf
  <2>5. delta'[c] = local[c].content /\ \A f \in File \ {c} : delta'[f] = delta[f]
    BY <2>2, <2>3 DEF Typed, TypeOK
  <2>6. Synced(p) = pass[p].logged \cup {c} /\ Synced(p)' = Synced(p)
    BY <1>2, <2>1 DEF Synced
  <2>7. \A f \in File \ {c} : ~Unhashed(pass[p], f)
    BY DEF Unhashed
  <2>8. logged'
    BY <2>1
  <2>9. ASSUME NEW f \in File \ {c} PROVE cached(f)' /\ dated(f)'
    BY <1>2, <2>3, <2>5, <2>6, <2>7
  <2>10. cached(c)' /\ dated(c)'
    BY <2>3, <2>4, <2>5, <2>6
  <2>. QED
    BY <2>8, <2>9, <2>10
<1>11. CASE Finish(p)
  <2>1. /\ pass[p].phase = "next" /\ pass'[p].phase = "idle" /\ pass'[p].logged = {}
        /\ remote' = remote /\ delta' = delta
        /\ \A f \in File : watermark'[f] = IF f \in pass[p].logged THEN pass[p].ts
                                           ELSE watermark[f]
    BY <1>1, <1>11 DEF Finish, IdlePass, baseVars
  <2>2. pass[p].ts # None
    BY <1>1, Constants DEF PassState
  <2>3. Synced(p) = pass[p].logged /\ Synced(p)' = {}
    BY <2>1 DEF Synced
  <2>4. \A f \in File : ~Unhashed(pass[p], f)
    BY <2>1 DEF Unhashed
  <2>. QED
    BY <1>2, <2>1, <2>2, <2>3, <2>4
<1>12. ~TransferFails(p)
  BY <1>3 DEF TransferFails, NothingFails, AtHand
<1>13. ~Abort(p)
  <2>1. ~FileGone(p)
    BY <1>3 DEF FileGone, AtHand
  <2>2. MayWriteDb(p)
    BY <1>1 DEF MayWriteDb, Typed, TypeOK
  <2>. QED
    BY <2>1, <2>2 DEF Abort
<1>. QED
  BY <1>5, <1>6, <1>7, <1>8, <1>9, <1>10, <1>11, <1>12, <1>13 DEF PassStep

LEMMA CacheStep ==
    ASSUME SoleCached, Unshared, NothingFails
    PROVE  Typed /\ SyncedAgree /\ HandInv /\ CacheInv /\ [Next]_vars => CacheInv'
<1>. SUFFICES ASSUME Typed, SyncedAgree, HandInv, CacheInv, [Next]_vars PROVE CacheInv'
  OBVIOUS
<1>1. ASSUME NEW p \in Pass, PassStep(p) PROVE CacheInv'
  BY <1>1, CacheOwnStep
<1>2. CASE PcEnv
  <2>1. pass' = pass /\ watermark' = watermark
    BY <1>2, EnvAlone
  <2>2. delta' = delta
    BY <1>2 DEF PcEnv, PcPlay, PcTouch, PcTruncate, PcDelete, PcFileOnly, RemoteWrite, pcVars
  <2>3. CASE remote' = remote
    BY <2>1, <2>2, <2>3 DEF CacheInv, CachedAt, Synced, Unhashed
  <2>4. ASSUME NEW g \in File, NEW m \in 0 .. now, RemoteWrite(g, m) PROVE CacheInv'
    <3>1. Idle
      BY <2>4 DEF RemoteWrite, Unshared
    <3>2. \A p \in Pass : Synced(p) = {}
      BY <3>1 DEF Idle, SyncedAgree, Synced
    <3>3. \A f \in File \ {g} : remote'[f] = remote[f]
      BY <2>4 DEF RemoteWrite, Typed, TypeOK, BaseTypeOK, Folder
    <3>4. remote'[g] = [content |-> made + 1, mtime |-> m] /\ ~Late(g, m)
      BY <2>4 DEF RemoteWrite, SoleCached, Typed, TypeOK, BaseTypeOK, Folder
    <3>5. made + 1 \in Version /\ m \in 0 .. MaxTime
      BY <2>4, BoundsAssumption DEF RemoteWrite, Typed, TypeOK, BaseTypeOK, Version
    <3>6. remote'[g] \in Save /\ remote'[g].mtime = m
      BY <3>4, <3>5 DEF Save, Content
    <3>7. remote'[g] # None
      BY <3>6, NoFileAssumption
    <3>8. CachedAt(g)'
      <4>1. watermark[g] = None => delta[g] = None
        BY <3>2 DEF CacheInv
      <4>2. watermark[g] # None => ChangedSince(m, watermark[g])
        BY <3>4 DEF Late
      <4>3. \A p \in Pass : g \notin Synced(p)'
        BY <2>1, <3>2 DEF Synced
      <4>. QED
        BY <2>1, <2>2, <3>6, <3>7, <4>1, <4>2, <4>3 DEF CachedAt
    <3>9. ASSUME NEW f \in File \ {g} PROVE CachedAt(f)'
      BY <2>1, <2>2, <3>3, <3>9 DEF CacheInv, CachedAt, Synced, Unhashed
    <3>. QED
      BY <2>1, <2>2, <3>8, <3>9 DEF CacheInv, Synced
  <2>. QED
    BY <1>2, <2>3, <2>4 DEF PcEnv, Tick, PcPlay, PcTouch, PcTruncate, PcDelete, PcFileOnly
<1>3. CASE UNCHANGED vars
  BY <1>3 DEF vars, pcVars, baseVars, CacheInv, CachedAt, Synced, Unhashed
<1>. QED
  BY <1>1, <1>2, <1>3 DEF Next, Crash, SoleCached

ConvergeInv == Typed /\ SyncedAgree /\ Listed /\ HandInv /\ (SoleCached => CacheInv)

LEMMA ConvergeStep ==
    ASSUME Unshared, NothingFails, DeltaPasses = {} \/ SoleCached
    PROVE  ConvergeInv /\ [Next]_vars => ConvergeInv'
<1>. SUFFICES ASSUME ConvergeInv, [Next]_vars PROVE ConvergeInv'
  OBVIOUS
<1>. USE DEF ConvergeInv
<1>1. Typed' /\ SyncedAgree' /\ Listed'
  BY AncestorStep, ListedStep DEF AncestorInv, NothingFails, TrueListing
<1>2. SkipsAgree
  BY CacheSkips DEF SkipsAgree, DeltaSkip
<1>3. HandInv'
  BY <1>2, HandStep
<1>4. SoleCached => CacheInv'
  BY CacheStep
<1>. QED
  BY <1>1, <1>3, <1>4 DEF SoleCached

\* Whatever earlier passes left in the folders, the log and the delta cache: a pass beside
\* which nobody writes and in which no listing and no transfer fails ends with both sides of
\* every file equal, or with no way to tell which is newer.
THEOREM QuietPassesAgree ==
    ASSUME Unshared, NothingFails, DeltaPasses = {} \/ SoleCached
    PROVE  Spec => QuietPassConverges
<1>. DEFINE Done == \A p \in Pass :
              (/\ pass[p].phase = "next" /\ pass[p].todo = {}
               /\ \A q \in Pass \ {p} : pass[q].phase = "idle")
              => \A f \in File : Agree(f)
<1>1. Init => ConvergeInv
  BY AncestorInit, ListedInit, HandInit, CacheInit DEF AncestorInv, ConvergeInv
<1>2. ConvergeInv /\ [Next]_vars => ConvergeInv'
  BY ConvergeStep
<1>3. ConvergeInv => Done
  BY DEF ConvergeInv, HandInv, Settled, Busy
<1>4. Spec => [][Done]_vars
  BY <1>1, <1>2, <1>3, PTL DEF Spec
<1>. QED
  BY <1>4 DEF QuietPassConverges
=============================================================================

----------------------------- MODULE Durability -----------------------------
(***************************************************************************)
(* The files of one in-memory database: the write-ahead log a commit       *)
(* appends to, the snapshots, the retention that deletes both, the         *)
(* replacement of everything by another snapshot (RECOVER SNAPSHOT, or a   *)
(* snapshot sent by the main), and the recovery at start-up, with the      *)
(* process or the machine failing between any two steps.                   *)
(*                                                                         *)
(* A transaction is its timestamp and an identity: after a restart a       *)
(* timestamp may be given out again, to another transaction.  Replaying a  *)
(* transaction adds it to the data.  Operations on directories are taken   *)
(* to be durable in their order.                                           *)
(*                                                                         *)
(* There are two numberings.  Durability timestamps are those of the main: *)
(* a main's own commit timestamps, on a replica those it was sent.  The    *)
(* clock is local: every transaction, a replica's too, takes one id for    *)
(* its start and one for its commit, and the accessor of a snapshot one.   *)
(* A snapshot file stores the local start id (start) and the last durable  *)
(* timestamp (ts) of its accessor.  Builds do not check DMG_ASSERT here.   *)
(***************************************************************************)
EXTENDS Integers, FiniteSets, SequencesExt

CONSTANTS
    FlushEvery,     \* storage_wal_file_flush_every_n_tx
    FileSize,       \* transactions that make a WAL file large enough to finalize
    Retention,      \* storage_snapshot_retention_count
    MaxTx,          \* bounds: transactions and promotions together,
    MaxSnapshots,   \*         snapshots taken, received or renamed,
    MaxReplaces,    \*         replacements,
    MaxPromotions,  \*         promotions,
    MaxCrashes      \*         failures

ASSUME DurabilityConstants ==
    /\ {FlushEvery, FileSize, Retention} \subseteq Nat \ {0}
    /\ {MaxTx, MaxSnapshots, MaxReplaces, MaxPromotions, MaxCrashes} \subseteq Nat

VARIABLES
    wals,   \* the WAL files in the order of their creation; the last is wal_file_ if mem.open
    snaps,  \* the files of the snapshot directory
    mem,    \* the storage in memory
    com,    \* the transaction being committed
    snp,    \* the snapshot being taken
    rep,    \* the replacement under way
    role,   \* "main" or "replica"; kept over a restart
    up,     \* "up", "down", or "refused": the instance did not start
    sent,   \* transactions the main is known to have (on a replica)
    used    \* how much of each bound is used, whether the power was lost, and whether
            \* a main began below a durable timestamp of its storage or its files

vars == <<wals, snaps, mem, com, snp, rep, role, up, sent, used>>

Txn(e) == [id |-> e.id, ts |-> e.ts]
LastTs(data) == Max({t.ts : t \in data} \cup {0})

NoTxn == [id |-> 0, ts |-> 0]
ComIdle == [pc |-> "idle", two |-> FALSE, txn |-> NoTxn]
SnpIdle == [pc |-> "idle", name |-> 0, start |-> 0, ts |-> 0, data |-> {}]
RepIdle == [pc |-> "idle", name |-> 0, query |-> FALSE, old |-> {}]

-----------------------------------------------------------------------------
(* Recovery: a function of the files. *)

From(w) == w.txns[1].ts
To(w) == w.txns[Len(w.txns)].ts

\* The order of WalDurabilityInfo; paths begin with the time of creation.
Before(v, w) ==
    \/ v.seq < w.seq
    \/ v.seq = w.seq /\ From(v) < From(w)
    \/ v.seq = w.seq /\ From(v) = From(w) /\ To(v) < To(w)
    \/ v.seq = w.seq /\ From(v) = From(w) /\ To(v) = To(w) /\ v.path < w.path

\* A file without a complete transaction is not readable.
Readable(ws) == SelectSeq(ws, LAMBDA w : w.linked /\ w.txns # <<>>)

GetWalFiles(ws) == SortSeq(Readable(ws), Before)

Newest(ss) == CHOOSE s \in ss : \A t \in ss : t.name <= s.name

LoadWal(acc, w) ==
    LET new == {i \in DOMAIN w.txns : w.txns[i].commit /\ w.txns[i].ts > acc.last}
    IN  IF To(w) <= acc.last \/ new = {} THEN acc
        ELSE [data |-> acc.data \cup {Txn(w.txns[i]) : i \in new},
              last |-> w.txns[Max(new)].ts,
              next |-> Max({acc.next} \cup {w.txns[i].ts + 1 : i \in new})]

\* What RecoverData makes of WAL files ws and snapshot files ss: the newest
\* snapshot that can be loaded, then the WAL files in their order.  It refuses,
\* and the process ends, if snapshots are there and none loads, if the first
\* WAL file is not the first one written and does not reach back to the
\* snapshot, or if a sequence number is missing.  The clock is the one of the
\* snapshot's accessor, raised by the transactions of the WAL files that are newer
\* than the snapshot is durable.
RecoverData(ws, ss) ==
    LET good  == {s \in ss : s.ok}
        files == GetWalFiles(ws)
        n     == Len(files)
        base  == IF good = {} THEN [data |-> {}, last |-> 0, next |-> 0]
                 ELSE LET s == Newest(good) IN [data |-> s.data, last |-> s.ts, next |-> s.start + 1]
        end   == FoldLeft(LoadWal, base, files)
    IN  [refused |-> \/ ss # {} /\ good = {}
                     \/ n > 0 /\ files[1].seq # 0 /\ (ss = {} \/ From(files[1]) > base.last)
                     \/ \E i \in 1..n-1 : files[i+1].seq - files[i].seq > 1,
         data    |-> end.data,
         next    |-> end.next,
         ldt     |-> end.last,
         seq     |-> IF n = 0 THEN 0 ELSE files[n].seq + 1]

-----------------------------------------------------------------------------
(* Failures: what of the WAL files is left. *)

\* The process ends: what the operating system has is kept; of the buffer, what
\* was written because the buffer was full.
AfterCrash(w) ==
    {[w EXCEPT !.txns = SubSeq(w.txns, 1, n), !.os = n] : n \in w.os..Len(w.txns)}

\* The machine stops: what was synced is kept and any part of the rest that the
\* system has written back; a commit flag that was updated in place may be old.
AfterPowerLoss(w) ==
    UNION {{[w EXCEPT !.txns = [i \in 1..n |-> [w.txns[i] EXCEPT !.commit = @ /\ i \notin old]],
                      !.os = n, !.sync = n]
              : old \in SUBSET {i \in w.sync + 1..n : w.txns[i].two}}
           : n \in w.sync..Len(w.txns)}

Outcomes(After(_)) ==
    FoldLeft(LAMBDA left, w : {Append(ws, v) : ws \in left, v \in After(w)}, {<<>>}, wals)

\* A snapshot that was copied and not synced may be gone.
SnapshotsAfterPowerLoss == {ss \in SUBSET snaps : {s \in snaps : s.sync} \subseteq ss}

-----------------------------------------------------------------------------
Storage(next, ldt, seq, data) ==
    [data |-> data, clock |-> next, ldt |-> ldt, seq |-> seq, unsynced |-> 0, open |-> FALSE,
     lost |-> FALSE]
Cleared == Storage(0, 0, 0, {})

Init ==
    /\ wals = <<>> /\ snaps = {} /\ sent = {}
    /\ mem = Cleared
    /\ com = ComIdle /\ snp = SnpIdle /\ rep = RepIdle
    /\ role \in {"main", "replica"} /\ up = "up"
    /\ used = [tx |-> 0, snapshots |-> 0, replaces |-> 0, promotions |-> 0, crashes |-> 0,
               power |-> FALSE, behind |-> FALSE]

\* The commit timestamps of the main that replicates to this instance: between two
\* of them read-only and aborted transactions use ids.
NextTs(ts) == ts + 3

\* The next transaction: a main's own at the next commit timestamp of its clock;
\* on a replica the next one the main is known to have, or a new one of the main.
NextTxns ==
    LET ahead == {t \in sent : t.ts > mem.ldt}
        new(ts) == IF used.tx + used.promotions < MaxTx THEN {[id |-> used.tx + 1, ts |-> ts]} ELSE {}
    IN  IF role = "main" THEN new(mem.clock + 1)
        ELSE IF ahead = {} THEN new(NextTs(Max({mem.ldt, LastTs(sent)})))
        ELSE {CHOOSE t \in ahead : \A u \in ahead : t.ts <= u.ts}

cur == Len(wals)

NewWalFile(txns) ==
    [seq |-> mem.seq, path |-> Max({wals[i].path : i \in DOMAIN wals} \cup {0}) + 1,
     txns |-> txns, os |-> 0, sync |-> 0, linked |-> TRUE]

\* PrepareForCommitPhase under engine_lock_: a commit timestamp, a WAL file if
\* there is none (InitializeWalFile, which syncs the header), and the whole
\* transaction written to it, with commit flag FALSE if replicas vote on it.
AppendTransaction(t, two) ==
    /\ up = "up" /\ com.pc = "idle" /\ rep.pc = "idle"
    /\ LET e == [id |-> t.id, ts |-> t.ts, two |-> two, commit |-> ~two]
       IN  /\ wals' = IF mem.open THEN [wals EXCEPT ![cur].txns = Append(@, e)]
                      ELSE Append(wals, NewWalFile(<<e>>))
           /\ mem' = [mem EXCEPT !.open = TRUE, !.seq = IF mem.open THEN @ ELSE @ + 1,
                                 !.clock = @ + 2]
           /\ com' = [pc |-> IF two THEN "voting" ELSE "logged", two |-> two, txn |-> t]
           /\ used' = [used EXCEPT !.tx = Max({@, t.id})]
    /\ UNCHANGED <<snaps, snp, rep, role, up, sent>>

\* The vote went well: FinalizeCommitPhase updates the flag in place (the moves
\* of the file position write the buffer out) and commits in memory; a replica
\* takes a second commit timestamp from its clock.
UpdateCommitStatus ==
    /\ up = "up" /\ com.pc = "voting"
    /\ LET n == Len(wals[cur].txns)
       IN  wals' = [wals EXCEPT ![cur].txns[n].commit = TRUE, ![cur].os = n]
    /\ mem' = [mem EXCEPT !.data = @ \cup {com.txn}, !.ldt = com.txn.ts,
                          !.clock = IF role = "replica" THEN @ + 1 ELSE @]
    /\ com' = [com EXCEPT !.pc = "logged"]
    /\ UNCHANGED <<snaps, snp, rep, role, up, sent, used>>

\* The vote failed: the flag stays FALSE.
VoteFailed ==
    /\ up = "up" /\ com.pc = "voting" /\ com.txn \notin sent
    /\ com' = [com EXCEPT !.pc = "logged"]
    /\ UNCHANGED <<wals, snaps, mem, snp, rep, role, up, sent, used>>

\* WalFile::FinalizeWal syncs and renames the file.
FinalizeWal ==
    IF mem.open THEN [wals EXCEPT ![cur].os = Len(wals[cur].txns), ![cur].sync = Len(wals[cur].txns)]
    ELSE wals

\* Mutant: a large file is finalized instead of being synced.
FinalizeWalFileUnsynced ==
    /\ up = "up" /\ com.pc = "logged"
    /\ LET n     == Len(wals[cur].txns)
           large == n >= FileSize
           sync  == ~large /\ mem.unsynced + 1 >= FlushEvery
       IN  /\ wals' = [wals EXCEPT ![cur].os = n, ![cur].sync = IF sync THEN n ELSE @]
           /\ mem' = [mem EXCEPT !.unsynced = IF sync \/ large THEN 0 ELSE @ + 1, !.open = ~large]
    /\ com' = [com EXCEPT !.pc = "durable"]
    /\ UNCHANGED <<snaps, snp, rep, role, up, sent, used>>

\* Sync after every FlushEvery transactions; finalize (sync and rename) a large
\* file; otherwise give the buffer to the operating system.
FinalizeWalFile ==
    /\ up = "up" /\ com.pc = "logged"
    /\ LET n     == Len(wals[cur].txns)
           sync  == mem.unsynced + 1 >= FlushEvery
           large == n >= FileSize
       IN  /\ wals' = [wals EXCEPT ![cur].os = n, ![cur].sync = IF sync \/ large THEN n ELSE @]
           /\ mem' = [mem EXCEPT !.unsynced = IF sync \/ large THEN 0 ELSE @ + 1, !.open = ~large]
    /\ com' = [com EXCEPT !.pc = "durable"]
    /\ UNCHANGED <<snaps, snp, rep, role, up, sent, used>>

\* The end of a commit: without a vote the transaction is committed in memory
\* now (FinalizeCommitPhase); the client is answered.
FinishCommit ==
    /\ up = "up" /\ com.pc = "durable"
    /\ mem' = IF com.two THEN mem
              ELSE [mem EXCEPT !.data = @ \cup {com.txn}, !.ldt = com.txn.ts]
    /\ com' = ComIdle
    /\ UNCHANGED <<wals, snaps, snp, rep, role, up, sent, used>>

-----------------------------------------------------------------------------
(* Snapshots and retention. *)

\* CreateSnapshot, on a main or a replica: a read transaction, which engine_lock_
\* keeps out of a commit (on a replica a commit in two phases does not hold it in
\* between, nor while the WAL file is finalized).
TakeSnapshot ==
    /\ up = "up" /\ snp.pc = "idle" /\ rep.pc = "idle" /\ used.snapshots < MaxSnapshots
    /\ com.pc = "idle" \/ (com.two /\ role = "replica")
    /\ snp' = [pc |-> "taken", name |-> 2 * used.snapshots + 2, start |-> mem.clock,
               ts |-> mem.ldt, data |-> mem.data]
    /\ mem' = [mem EXCEPT !.clock = @ + 1]
    /\ used' = [used EXCEPT !.snapshots = @ + 1]
    /\ UNCHANGED <<wals, snaps, com, rep, role, up, sent>>

\* The file is complete when its offsets are written; Finalize syncs it.  Until
\* then it cannot be read and counts for nothing.
WriteSnapshot ==
    /\ up = "up" /\ snp.pc = "taken"
    /\ snaps' = snaps \cup {[name |-> snp.name, start |-> snp.start, ts |-> snp.ts,
                             data |-> snp.data, ok |-> TRUE, sync |-> TRUE]}
    /\ snp' = [snp EXCEPT !.pc = "written"]
    /\ UNCHANGED <<wals, mem, com, rep, role, up, sent, used>>

\* A replica that receives a snapshot aborts its own.
AbortSnapshot ==
    /\ up = "up" /\ snp.pc = "taken"
    /\ snp' = SnpIdle
    /\ UNCHANGED <<wals, snaps, mem, com, rep, role, up, sent, used>>

OldSnapshotFiles == {s \in snaps : s.name # snp.name}

\* EnsureRetentionCountSnapshotsExist, one file at a time.
DeleteOldSnapshotFile ==
    /\ up = "up" /\ snp.pc = "written"
    /\ Cardinality(OldSnapshotFiles) >= Retention
    /\ LET oldest == CHOOSE s \in OldSnapshotFiles : \A t \in OldSnapshotFiles :
                         s.ts < t.ts \/ (s.ts = t.ts /\ s.name <= t.name)
       IN  snaps' = snaps \ {oldest}
    /\ UNCHANGED <<wals, mem, com, snp, rep, role, up, sent, used>>

\* What EnsureNecessaryWalFilesExist finds in the directory.
FilesOnDisk ==
    GetWalFiles([i \in DOMAIN wals |-> [wals[i] EXCEPT !.txns = SubSeq(@, 1, wals[i].os)]])

\* The first file that begins after the oldest snapshot that is kept.
FirstLate ==
    LET oldest == IF OldSnapshotFiles = {} THEN snp.ts
                  ELSE Min({s.ts : s \in OldSnapshotFiles})
    IN  Min({i \in DOMAIN FilesOnDisk : From(FilesOnDisk[i]) > oldest}
            \cup {Len(FilesOnDisk) + 1})

\* Mutant: all files that begin at or before the oldest snapshot.
UnneededWalFilesAll ==
    {FilesOnDisk[i] : i \in 1..FirstLate - 1}

\* EnsureNecessaryWalFilesExist: of the files that begin at or before the oldest
\* snapshot that is kept, all but the last.
UnneededWalFiles ==
    {FilesOnDisk[i] : i \in 1..FirstLate - 2}

\* The file that is open for writing goes on without a name.
DeleteWalFile ==
    /\ up = "up" /\ snp.pc = "written"
    /\ Cardinality(OldSnapshotFiles) = Retention - 1
    /\ UnneededWalFiles # {}
    /\ LET first == CHOOSE w \in UnneededWalFiles : \A v \in UnneededWalFiles : w = v \/ Before(w, v)
       IN  wals' = IF mem.open /\ wals[cur].path = first.path THEN [wals EXCEPT ![cur].linked = FALSE]
                   ELSE SelectSeq(wals, LAMBDA w : w.path # first.path)
    /\ UNCHANGED <<snaps, mem, com, snp, rep, role, up, sent, used>>

EndSnapshot ==
    /\ up = "up" /\ snp.pc = "written"
    /\ Cardinality(OldSnapshotFiles) < Retention
    /\ Cardinality(OldSnapshotFiles) = Retention - 1 => UnneededWalFiles = {}
    /\ snp' = SnpIdle
    /\ UNCHANGED <<wals, snaps, mem, com, rep, role, up, sent, used>>

-----------------------------------------------------------------------------
(* Replacing everything by a snapshot. *)

\* RECOVER SNAPSHOT ... FORCE of a file of the snapshot directory on a main, with
\* UNIQUE access: no commit, no snapshot.
RecoverSnapshot(s) ==
    /\ up = "up" /\ role = "main" /\ com.pc = "idle" /\ snp.pc = "idle" /\ rep.pc = "idle"
    /\ used.replaces < MaxReplaces
    /\ rep' = [pc |-> "placed", name |-> s.name, query |-> TRUE, old |-> mem.data]
    /\ sent' = {}
    /\ used' = [used EXCEPT !.replaces = @ + 1]
    /\ UNCHANGED <<wals, snaps, mem, com, snp, role, up>>

\* The main's data: what this replica has, and more, perhaps the transaction
\* this replica has prepared.
MainData(more) ==
    LET known == mem.data \cup sent
        new   == IF com.pc = "voting" THEN com.txn
                 ELSE [id |-> used.tx + 1, ts |-> NextTs(LastTs(known))]
    IN  known \cup {new : x \in 1..more}

\* The start id of the main's snapshot: taken as a main its clock was above what
\* was durable, taken as a replica it counts what that replica had applied.
StartIds(data) == {LastTs(data) + 1, 2 * Cardinality(data)}

\* SnapshotHandler: a prepared transaction is aborted and the WAL file finalized,
\* then the received file is renamed into the directory.  Its name may sort
\* before that of the replica's newest (they carry wall-clock times).  It may
\* turn out not to load.
ReceiveSnapshot(more, ok, newest) ==
    /\ up = "up" /\ role = "replica" /\ com.pc \in {"idle", "voting"} /\ snp.pc = "idle" /\ rep.pc = "idle"
    /\ used.replaces < MaxReplaces /\ used.snapshots < MaxSnapshots /\ used.tx + used.promotions + more <= MaxTx
    /\ wals' = FinalizeWal
    /\ mem' = [mem EXCEPT !.open = FALSE]
    /\ com' = ComIdle
    /\ LET data == MainData(more)
           name == 2 * used.snapshots + (IF newest THEN 2 ELSE -1)
       IN  /\ \E start \in StartIds(data) :
                snaps' = snaps \cup {[name |-> name, start |-> start, ts |-> LastTs(data),
                                      data |-> data, ok |-> ok, sync |-> TRUE]}
           /\ rep' = [pc |-> "placed", name |-> name, query |-> FALSE, old |-> mem.data]
           /\ sent' = data
           /\ used' = [used EXCEPT !.replaces = @ + 1, !.snapshots = @ + 1,
                                   !.tx = Max({@} \cup {t.id : t \in data})]
    /\ UNCHANGED <<snp, role, up>>

Replacement == CHOOSE s \in snaps : s.name = rep.name

\* A main whose clock is not above its last durable timestamp.
Behind(m) == role = "main" /\ m.ldt > 0 /\ m.clock <= m.ldt

\* A file holds a durable timestamp above that of the storage.
FilesAhead ==
    \/ \E s \in snaps : s.ok /\ s.ts > mem.ldt
    \/ \E w \in Range(wals) : \E e \in Range(w.txns) : e.commit /\ e.ts > mem.ldt

\* The received file stays where it is when the main lock is not to be had.
GiveUp ==
    /\ up = "up" /\ rep.pc = "placed" /\ ~rep.query
    /\ rep' = RepIdle
    /\ UNCHANGED <<wals, snaps, mem, com, snp, role, up, sent, used>>

\* Clear and LoadSnapshot.  When loading fails the storage stays empty and the
\* files are left alone.
ClearAndLoad ==
    /\ up = "up" /\ rep.pc = "placed"
    /\ wals' = Readable(IF mem.open THEN [wals EXCEPT ![cur].os = Len(wals[cur].txns)] ELSE wals)
    /\ mem' = IF Replacement.ok
              THEN Storage(Replacement.start + 1, Replacement.ts, 0, Replacement.data)
              ELSE [Cleared EXCEPT !.lost = TRUE]
    /\ rep' = IF Replacement.ok THEN [rep EXCEPT !.pc = "moving"] ELSE RepIdle
    /\ used' = [used EXCEPT !.behind = @ \/ Behind(mem') \/ (role = "main" /\ mem'.lost)]
    /\ UNCHANGED <<snaps, com, snp, role, up, sent>>

\* Mutant: the WAL files go before the other snapshots.
MoveFileWalsFirst ==
    /\ up = "up" /\ rep.pc = "moving"
    /\ IF wals # <<>>
       THEN /\ \E i \in DOMAIN wals : wals' = RemoveAt(wals, i)
            /\ UNCHANGED snaps
       ELSE /\ \E s \in snaps \ {Replacement} : snaps' = snaps \ {s}
            /\ UNCHANGED wals
    /\ UNCHANGED <<mem, com, snp, rep, role, up, sent, used>>

\* The other files are moved away or deleted one by one: first the snapshots,
\* then the WAL files, each in the order the directory lists them.
MoveFile ==
    /\ up = "up" /\ rep.pc = "moving"
    /\ IF snaps # {Replacement}
       THEN /\ \E s \in snaps \ {Replacement} : snaps' = snaps \ {s}
            /\ UNCHANGED wals
       ELSE /\ \E i \in DOMAIN wals : wals' = RemoveAt(wals, i)
            /\ UNCHANGED snaps
    /\ UNCHANGED <<mem, com, snp, rep, role, up, sent, used>>

\* The end.  A query gives the file a new name; the file is locked, so it is
\* copied and the original deleted, and the copy is not synced.
FinishReplace ==
    /\ up = "up" /\ rep.pc = "moving" /\ snaps = {Replacement} /\ wals = <<>>
    /\ snaps' = IF rep.query
                THEN {[Replacement EXCEPT !.name = 2 * used.snapshots + 2, !.sync = FALSE]} ELSE snaps
    /\ used' = [used EXCEPT !.snapshots = IF rep.query THEN @ + 1 ELSE @]
    /\ rep' = RepIdle
    /\ UNCHANGED <<wals, mem, com, snp, role, up, sent>>

-----------------------------------------------------------------------------
(* Failure and start-up. *)

\* Nothing but the files is left.  Files without a complete transaction are not
\* readable any more and are dropped from the model.
Fail(ws, ss, power) ==
    /\ up = "up" /\ used.crashes < MaxCrashes
    /\ wals' = Readable(ws)
    /\ snaps' = ss
    /\ mem' = Cleared /\ com' = ComIdle /\ snp' = SnpIdle /\ rep' = RepIdle
    /\ up' = "down"
    /\ used' = [used EXCEPT !.crashes = @ + 1, !.power = @ \/ power]
    /\ UNCHANGED <<role, sent>>

Crash == \E ws \in Outcomes(AfterCrash) : Fail(ws, snaps, FALSE)

PowerLoss == \E ws \in Outcomes(AfterPowerLoss), ss \in SnapshotsAfterPowerLoss : Fail(ws, ss, TRUE)

\* RecoverData at start-up, in the role the instance had.
Restart ==
    /\ up = "down"
    /\ LET r == RecoverData(wals, snaps)
       IN  IF r.refused THEN up' = "refused" /\ UNCHANGED mem
           ELSE up' = "up" /\ mem' = Storage(r.next, r.ldt, r.seq, r.data)
    /\ used' = [used EXCEPT !.behind = @ \/ Behind(mem')]
    /\ UNCHANGED <<wals, snaps, com, snp, rep, role, sent>>

\* Mutant: the clock stays what it was on the replica.
PromoteToMainKeepingClock ==
    /\ up = "up" /\ role = "replica" /\ com.pc \in {"idle", "voting"} /\ rep.pc = "idle"
    /\ used.promotions < MaxPromotions /\ used.tx + used.promotions < MaxTx
    /\ wals' = FinalizeWal
    /\ mem' = [mem EXCEPT !.open = FALSE]
    /\ com' = ComIdle
    /\ role' = "main" /\ sent' = {}
    /\ used' = [used EXCEPT !.promotions = @ + 1, !.behind = @ \/ FilesAhead]
    /\ UNCHANGED <<snaps, snp, rep, up>>

\* DoToMainPromotion, with the replication server stopped: a prepared transaction
\* is aborted, the WAL file finalized, and the clock moved above what is durable.
\* It does not know of a snapshot that was received and not loaded, nor of the
\* WAL files that are kept when loading fails.
PromoteToMain ==
    /\ up = "up" /\ role = "replica" /\ com.pc \in {"idle", "voting"} /\ rep.pc = "idle"
    /\ used.promotions < MaxPromotions /\ used.tx + used.promotions < MaxTx
    /\ wals' = FinalizeWal
    /\ mem' = [mem EXCEPT !.open = FALSE, !.clock = Max({@, mem.ldt + 1})]
    /\ com' = ComIdle
    /\ role' = "main" /\ sent' = {}
    /\ used' = [used EXCEPT !.promotions = @ + 1, !.behind = @ \/ FilesAhead]
    /\ UNCHANGED <<snaps, snp, rep, up>>

Next ==
    \/ \E t \in NextTxns, two \in BOOLEAN : AppendTransaction(t, two)
    \/ UpdateCommitStatus \/ VoteFailed \/ FinalizeWalFile \/ FinishCommit
    \/ TakeSnapshot \/ WriteSnapshot \/ AbortSnapshot
    \/ DeleteOldSnapshotFile \/ DeleteWalFile \/ EndSnapshot
    \/ \E s \in snaps : RecoverSnapshot(s)
    \/ \E more \in 0..1, ok, newest \in BOOLEAN : ReceiveSnapshot(more, ok, newest)
    \/ GiveUp \/ ClearAndLoad \/ MoveFile \/ FinishReplace
    \/ Crash \/ PowerLoss \/ Restart \/ PromoteToMain

Spec == Init /\ [][Next]_vars

-----------------------------------------------------------------------------
(* Properties. *)

\* A transaction that is being committed without a vote may be found or not.
Undecided == IF com.pc \in {"logged", "durable"} /\ ~com.two THEN {com.txn} ELSE {}

\* What recovery may find: nothing that was not committed here or on the main.
Possible == mem.data \cup sent \cup Undecided

\* It has every transaction up to its last.
Gapless(data, line) == \A t \in line : t.ts <= LastTs(data) => t \in data

\* If a snapshot is in the directory, one can be loaded.
Loadable == snaps # {} => \E s \in snaps : s.ok

\* Nothing is being replaced, and the files are those of the storage in memory:
\* when a received snapshot did not load, the storage is empty and its files are
\* kept; when no file of the snapshot directory loads, no start succeeds.
Settled == up = "up" /\ rep.pc # "moving" /\ ~mem.lost /\ Loadable

CrashKeeps ==
    \A ws \in Outcomes(AfterCrash) :
      LET r == RecoverData(ws, snaps)
      IN  /\ ~r.refused
          /\ mem.data \subseteq r.data /\ r.data \subseteq Possible
          /\ Gapless(mem.data, sent) => Gapless(r.data, sent)

\* If the process ended now, the next one would start and have every
\* acknowledged transaction and none that was refused or is still being voted
\* on, however often it failed before, over promotions and while retention
\* deletes files.  Left out are what Settled leaves out, and an instance that began
\* as a main below a durable timestamp: the clock of a snapshot a replica took is
\* (CrashKeepsAlways), and so are the files of a received snapshot that was not
\* loaded before the promotion (FilesAhead).
CrashKeepsCommits == Settled /\ ~used.behind => CrashKeeps

\* The same without the second exception, though a promotion is to "take bigger
\* timestamp not to lose durability ordering" (replication_handler.cpp:297).  It
\* fails: a main that starts from a snapshot it took as a replica has a clock below
\* the durable timestamp, so that acknowledged transactions are numbered below it
\* and the next start skips them.
CrashKeepsAlways == Settled => CrashKeeps

\* When a received snapshot does not load, its "Snapshot and WAL files are preserved
\* so you can restore your data by restarting instance" (replication_handlers.cpp:708):
\* if the WAL files hold a commit, the next start succeeds.  It fails: if that file is the
\* only snapshot there is, the start refuses, whatever the WAL files hold.
RestartRestores ==
    up = "up" /\ mem.lost /\ (\E w \in Range(wals) : \E e \in Range(w.txns) : e.commit) =>
      \A ws \in Outcomes(AfterCrash) : ~RecoverData(ws, snaps).refused

\* The committed transactions of the part of each file that is synced.
Synced ==
    UNION {{Txn(wals[i].txns[k]) : k \in {j \in 1..wals[i].sync : wals[i].txns[j].commit}}
           : i \in DOMAIN wals}

\* What is not synced was written by this process, and no flag in it has been
\* updated in place.
OwnTail ==
    \A i \in DOMAIN wals : \A k \in wals[i].sync + 1..Len(wals[i].txns) :
        (used.crashes = 0 \/ (mem.open /\ i = cur)) /\ ~wals[i].txns[k].two

\* If the machine stopped now, recovery would find no transaction that was not
\* committed, and, unless it refuses, every synced one.  If what is not
\* synced is this process's own, it does not refuse, and finds all but less than
\* FlushEvery of the acknowledged transactions, without a gap.  It leaves out what
\* CrashKeepsCommits leaves out, and a replacement that is not finished.
\* (storage_wal_file_flush_every_n_tx promises this.  After a process crash the
\* old files are not synced again; a flag updated in place may be lost and a
\* later transaction not; the copy RECOVER SNAPSHOT makes is not synced.)
PowerLossKeepsSynced ==
    Settled /\ ~used.behind /\ rep.pc = "idle" /\ (\A s \in snaps : s.sync) =>
      \A ws \in Outcomes(AfterPowerLoss) :
        LET r == RecoverData(ws, snaps)
        IN  /\ r.data \subseteq Possible
            /\ r.refused \/ Synced \cap mem.data \subseteq r.data
            /\ OwnTail => /\ ~r.refused
                          /\ Cardinality(mem.data \ (r.data \cup {com.txn})) < FlushEvery
                          /\ Gapless(r.data, mem.data)

\* If the process ends while the other files are being moved away, the next one
\* has the new data or a beginning of the old, never a mixture.  It starts as
\* long as another snapshot is left; after that it may find a sequence number
\* missing and refuse, because the directory's order decides which WAL file goes
\* first.  (An earlier power loss may have
\* left a transaction in a snapshot only, so that the WAL files have a hole; with
\* a clock that fell behind, timestamps do not follow the history.)
ReplaceYieldsHistory ==
    up = "up" /\ rep.pc = "moving" /\ ~used.power /\ ~used.behind =>
      \A ws \in Outcomes(AfterCrash) :
        LET r == RecoverData(ws, snaps)
        IN  \/ r.refused /\ snaps = {Replacement}
            \/ ~r.refused /\ \/ r.data = mem.data
                             \/ r.data = {t \in rep.old : t.ts <= LastTs(r.data)}
=============================================================================

------------------------- MODULE TimestampLifecycle -------------------------
(***************************************************************************)
(* How the in-memory storage uses its commit log: which ids it hands out   *)
(* (Storage::timestamp_), when it reports them finished and how often.     *)
(*                                                                         *)
(* The garbage collector frees whatever only transactions older than       *)
(* OldestActive() could need, so a wrong answer of the log is a use after  *)
(* free, and an id that is never reported stops collection for good.       *)
(*                                                                         *)
(* An accessor's life is split where another thread may come between: at   *)
(* every call of the commit log (it has its own spin lock) and wherever    *)
(* engine_lock_ is taken or released.  The clock and last durable          *)
(* timestamp only change under engine_lock_.                               *)
(*                                                                         *)
(* Of the files the model keeps what the clock of a restart depends on:    *)
(* the start timestamp of the newest snapshot, which is an id of the clock *)
(* of the instance that wrote it, and the durable timestamp stored with    *)
(* it.  On a replica the two have nothing to do with each other.           *)
(*                                                                         *)
(* Builds are taken to check DMG_ASSERT; what the others make of a durable *)
(* timestamp that goes down is in module Durability.                       *)
(***************************************************************************)
EXTENDS CommitLogOps

CONSTANTS
  Accessors,   \* storage accessors (slots: an accessor that ended is reused)
  NoOne        \* nobody holds engine_lock_

ASSUME NoOneAssumption == NoOne \notin Accessors

VARIABLES
  log,         \* commit_log_
  timestamp,   \* the next id, Storage::timestamp_
  ldt,         \* last durable timestamp; on a replica the main's numbering
  role,        \* "main" or "replica"
  engine,      \* who holds engine_lock_ between two steps
  acc,         \* the accessors
  crashed,     \* a failed assertion ended the process
  history,     \* what this log went through: see Report, ReportRange, RecoverSnapshot
  snap,        \* the newest snapshot: the id after its start, its durable timestamp
  behind       \* a main loaded a snapshot and its clock was not above ldt

files == <<snap, behind>>
vars == <<log, timestamp, ldt, role, engine, acc, crashed, history, snap, behind>>

(* "marked" is the accessor of a transaction without deltas after          *)
(* PrepareForCommitPhase: its id is reported, is_transaction_active_ is    *)
(* still true.  "recovered" is the accessor of a RECOVER SNAPSHOT query,   *)
(* whose own id the recovery has reported with all others.  "prepared" is  *)
(* the cached accessor of a STRICT_SYNC replica between the two phases.    *)
(* "undo" and "undone" are the two halves of AbortAndResetCommitTs.        *)
(* The other phases are "none", "active", "committing" and "committed".    *)

(* A user's accessor, one that holds main_lock_ alone (UniqueAccess), the  *)
(* accessor of a replica's replication handlers and that of CreateSnapshot *)
(* (which remembers the last durable timestamp of its beginning).          *)
Kinds == {"user", "unique", "repl", "snapshot"}

Ended == [phase |-> "none", start |-> 0, commit |-> 0, kind |-> "user", durable |-> 0]

NoSnapshot == [next |-> 0, durable |-> 0]

Init ==
  /\ log = EmptyLog /\ timestamp = 0 /\ ldt = 0
  /\ role \in {"main", "replica"}
  /\ engine = NoOne
  /\ acc = [a \in Accessors |-> Ended]
  /\ crashed = FALSE /\ history = {}
  /\ snap = NoSnapshot /\ behind = FALSE

-----------------------------------------------------------------------------
Up == ~crashed
At(a, phase) == Up /\ acc[a].phase = phase
Others(a) == Accessors \ {a}
Quiet(S) == \A a \in S : acc[a].phase = "none"
Replicating(a) == acc[a].kind = "repl"
Snapshotting(a) == acc[a].kind = "snapshot"

(* MarkFinished(id) on the storage's log.  A "below" call names a          *)
(* block that is gone, an "ahead" call an id the clock has not handed out. *)
Report(id) ==
  /\ log' = MarkFinished(log, id)
  /\ history' = history \cup (IF id < log.headStart THEN {"below"} ELSE {})
                       \cup (IF id >= timestamp THEN {"ahead"} ELSE {})

(* MarkFinishedInRange(from, to) on lg, which went through past; a walk    *)
(* that misses its end block ends the process.                             *)
ReportRange(lg, past, from, to) ==
  /\ crashed' = ~RangeSurvives(lg, from, to)
  /\ log' = IF crashed' THEN lg ELSE MarkFinishedInRange(lg, from, to)
  /\ history' = past \cup (IF from < lg.headStart THEN {"range"} ELSE {})

Step(a, phase) == acc' = [acc EXCEPT ![a].phase = phase]

(* CreateTransaction, in a new accessor, or at the end of PeriodicCommit   *)
(* in the accessor whose last transaction had no deltas.  main_lock_ is    *)
(* held from before this step until the accessor ends.                     *)
Begin(a, kind) ==
  /\ At(a, "none") \/ (At(a, "marked") /\ kind = acc[a].kind)
  /\ kind = "unique" => Quiet(Others(a))
  /\ kind = "repl" => role = "replica" /\ \A b \in Others(a) : ~Replicating(b)
  /\ kind = "snapshot" => \A b \in Others(a) : ~Snapshotting(b)
  /\ \A b \in Others(a) : acc[b].kind # "unique"
  /\ engine = NoOne
  /\ timestamp <= MaxId
  /\ timestamp' = timestamp + 1
  /\ acc' = [acc EXCEPT ![a] = [phase |-> "active", start |-> timestamp, commit |-> 0,
                                kind |-> kind,
                                durable |-> IF kind = "snapshot" THEN ldt ELSE 0]]
  /\ UNCHANGED <<log, ldt, role, engine, crashed, history>>

(* PrepareForCommitPhase without deltas. *)
CommitNothing(a) ==
  /\ At(a, "active") \/ At(a, "recovered")
  /\ ~Replicating(a) /\ ~Snapshotting(a)
  /\ Report(acc[a].start)
  /\ Step(a, "marked")
  /\ UNCHANGED <<timestamp, ldt, role, engine, crashed>>

(* Abort before a commit timestamp was taken, and the accessor ends.  The  *)
(* destructor of a "marked" accessor finds is_transaction_active_ and      *)
(* aborts as well.                                                         *)
Abort(a) ==
  /\ At(a, "active") \/ At(a, "marked") \/ At(a, "recovered")
  /\ Report(acc[a].start)
  /\ acc' = [acc EXCEPT ![a] = Ended]
  /\ UNCHANGED <<timestamp, ldt, role, engine, crashed>>

(* PrepareForCommitPhase with deltas, up to the commit timestamp.  A user  *)
(* transaction on a replica is aborted instead (durability_allowed).       *)
TakeCommitTimestamp(a) ==
  /\ At(a, "active")
  /\ Replicating(a) <=> role = "replica"
  /\ ~Snapshotting(a)
  /\ engine = NoOne
  /\ timestamp <= MaxId
  /\ timestamp' = timestamp + 1
  /\ acc' = [acc EXCEPT ![a].phase = "committing", ![a].commit = timestamp]
  /\ engine' = a
  /\ UNCHANGED <<log, ldt, role, crashed, history>>

(* A unique constraint is violated, or a STRICT_SYNC replica votes no.     *)
RefuseCommit(a) ==
  /\ At(a, "committing") /\ engine = a
  /\ engine' = NoOne
  /\ Step(a, "undo")
  /\ UNCHANGED <<log, timestamp, ldt, role, crashed, history>>

(* AbortAndResetCommitTs: Abort, then the commit timestamp.                *)
AbortCommit(a) ==
  /\ At(a, "undo")
  /\ Report(acc[a].start)
  /\ Step(a, "undone")
  /\ UNCHANGED <<timestamp, ldt, role, engine, crashed>>

ResetCommitTimestamp(a) ==
  /\ At(a, "undone")
  /\ Report(acc[a].commit)
  /\ acc' = [acc EXCEPT ![a] = Ended]
  /\ UNCHANGED <<timestamp, ldt, role, engine, crashed>>

(* FinalizeCommitPhase: the main is durable at its own commit timestamp,   *)
(* a replica at the one the main sent with the transaction.                *)
FinalizeCommitPhase(a) ==
  /\ At(a, "committing") /\ engine = a
  /\ Replicating(a) \/ acc[a].commit >= ldt
  /\ IF Replicating(a) THEN \E d \in ldt + 1 .. MaxId : ldt' = d
                    ELSE ldt' = acc[a].commit
  /\ Report(acc[a].start)
  /\ Step(a, "committed")
  /\ engine' = NoOne
  /\ UNCHANGED <<timestamp, role, crashed>>

(* The commit timestamp is below the last durable one: the process ends at *)
(* DMG_ASSERT "LDT not monotonically increasing".                          *)
FailLdtAssertion(a) ==
  /\ At(a, "committing") /\ engine = a
  /\ ~Replicating(a) /\ acc[a].commit < ldt
  /\ crashed' = TRUE
  /\ UNCHANGED <<log, timestamp, ldt, role, engine, acc, history>>

(* FinalizeTransaction, from the destructor of a committed accessor.       *)
FinalizeTransaction(a) ==
  /\ At(a, "committed")
  /\ Report(acc[a].commit)
  /\ acc' = [acc EXCEPT ![a] = Ended]
  /\ UNCHANGED <<timestamp, ldt, role, engine, crashed>>

-----------------------------------------------------------------------------
(* Two-phase commit on a replica: PrepareForCommitPhase returns without    *)
(* committing and the accessor is cached.                                  *)
VoteYes(a) ==
  /\ At(a, "committing") /\ engine = a /\ Replicating(a)
  /\ engine' = NoOne
  /\ Step(a, "prepared")
  /\ UNCHANGED <<log, timestamp, ldt, role, crashed, history>>

(* Mutant: the commit timestamp of the first phase is forgotten.           *)
FinalizeCommitHandlerForgets(a) ==
  /\ At(a, "prepared") /\ role = "replica"
  /\ engine = NoOne
  /\ timestamp <= MaxId
  /\ timestamp' = timestamp + 1
  /\ acc' = [acc EXCEPT ![a].phase = "committing", ![a].commit = timestamp]
  /\ engine' = a
  /\ UNCHANGED <<log, ldt, role, crashed, history>>

(* FinalizeCommitHandler, decision to commit: a new commit timestamp       *)
(* replaces the old one; FinalizeCommitPhase follows under the same lock.  *)
FinalizeCommitHandler(a) ==
  /\ At(a, "prepared") /\ role = "replica"
  /\ engine = NoOne
  /\ timestamp <= MaxId
  /\ Report(acc[a].commit)
  /\ timestamp' = timestamp + 1
  /\ acc' = [acc EXCEPT ![a].phase = "committing", ![a].commit = timestamp]
  /\ engine' = a
  /\ UNCHANGED <<ldt, role, crashed>>

(* DestroyReplAccessor (the next prepare, snapshot or WAL request, or a    *)
(* promotion, came first) and the decision to abort.                       *)
DestroyReplAccessor(a) ==
  /\ At(a, "prepared")
  /\ Step(a, "undo")
  /\ UNCHANGED <<log, timestamp, ldt, role, engine, crashed, history>>

(* Mutant: the range starts at 0 instead of the clock.                     *)
PromoteFromZero ==
  /\ Up /\ role = "replica"
  /\ \A a \in Accessors : ~Replicating(a)
  /\ engine = NoOne
  /\ role' = "main"
  /\ IF ldt >= timestamp
     THEN ReportRange(log, history, 0, ldt) /\ timestamp' = ldt + 1
     ELSE UNCHANGED <<log, timestamp, crashed, history>>
  /\ UNCHANGED <<ldt, engine, acc>>

(* Mutant: the clock stays where the replica's was.                        *)
PromoteKeepingClock ==
  /\ Up /\ role = "replica"
  /\ \A a \in Accessors : ~Replicating(a)
  /\ engine = NoOne
  /\ role' = "main"
  /\ UNCHANGED <<log, timestamp, crashed, history, ldt, engine, acc>>

(* DoToMainPromotion, after the replication server stopped: the ids up to  *)
(* the last durable timestamp are skipped.                                 *)
PromoteToMain ==
  /\ Up /\ role = "replica"
  /\ \A a \in Accessors : ~Replicating(a)
  /\ engine = NoOne
  /\ role' = "main"
  /\ IF ldt >= timestamp
     THEN ReportRange(log, history, timestamp, ldt) /\ timestamp' = ldt + 1
     ELSE UNCHANGED <<log, timestamp, crashed, history>>
  /\ UNCHANGED <<ldt, engine, acc>>

(* The main becomes a replica; commits hold the replication state's lock.  *)
DemoteToReplica ==
  /\ Up /\ role = "main"
  /\ \A a \in Accessors : acc[a].phase # "committing"
  /\ role' = "replica"
  /\ UNCHANGED <<log, timestamp, ldt, engine, acc, crashed, history>>

(* CreateSnapshot, on a main or a replica: the new file replaces older     *)
(* ones.  The accessor is then aborted, as it is when the snapshot was     *)
(* aborted or there was nothing new to write.                              *)
WriteSnapshot(a) ==
  /\ At(a, "active") /\ Snapshotting(a)
  /\ snap' = [next |-> acc[a].start + 1, durable |-> acc[a].durable]
  /\ UNCHANGED <<log, timestamp, ldt, role, engine, acc, crashed, history, behind>>

(* Clear and then a snapshot whose start timestamp is next - 1 and which   *)
(* is durable up to durable: RECOVER SNAPSHOT FORCE and SnapshotHandler.   *)
LoadIntoCleared(past, next, durable) ==
  /\ timestamp' = next
  /\ ldt' = durable
  /\ ReportRange(EmptyLog, past, 0, next - 1)

(* RECOVER SNAPSHOT on a main, from the query's own accessor, which holds  *)
(* main_lock_ alone; without FORCE only while nothing was ever durable,    *)
(* and on the log as it is.                                                *)
RecoverSnapshot(a, next, durable) ==
  /\ At(a, "active") /\ acc[a].kind = "unique" /\ role = "main"
  /\ \/ LoadIntoCleared({"recovery"}, next, durable)
     \/ /\ ldt = 0
        /\ timestamp' = IF next > timestamp THEN next ELSE timestamp
        /\ ldt' = durable
        /\ ReportRange(log, history \cup {"recovery"}, 0, timestamp' - 1)
  /\ Step(a, "recovered")
  /\ snap' = [next |-> next, durable |-> durable]
  /\ behind' = (timestamp' <= ldt')
  /\ UNCHANGED <<role, engine>>

(* SnapshotHandler on a replica: main_lock_ is held, without a transaction.*)
SnapshotHandler(next, durable) ==
  /\ Up /\ role = "replica"
  /\ Quiet(Accessors)
  /\ LoadIntoCleared({}, next, durable)
  /\ snap' = [next |-> next, durable |-> durable]
  /\ behind' = FALSE
  /\ UNCHANGED <<role, engine, acc>>

(* The clock of a storage that was recovered: the transactions durable     *)
(* above the newest snapshot are in the WAL and raise it.                  *)
RecoveredClock ==
  IF ldt > snap.durable /\ ldt >= snap.next THEN ldt + 1 ELSE snap.next

(* The process stops, or has failed an assertion, and starts again from    *)
(* its newest snapshot and the WAL, in the role it had.                    *)
Restart ==
  /\ timestamp' = RecoveredClock
  /\ log' = IF timestamp' = 0 THEN EmptyLog ELSE NewLog(timestamp')
  /\ acc' = [a \in Accessors |-> Ended]
  /\ engine' = NoOne /\ crashed' = FALSE /\ history' = {}
  /\ behind' = (role = "main" /\ ldt # 0 /\ timestamp' <= ldt)
  /\ UNCHANGED <<ldt, role, snap>>

AccessorStep(a) ==
  \/ \E kind \in Kinds : Begin(a, kind)
  \/ CommitNothing(a) \/ Abort(a)
  \/ TakeCommitTimestamp(a) \/ RefuseCommit(a) \/ AbortCommit(a) \/ ResetCommitTimestamp(a)
  \/ FinalizeCommitPhase(a) \/ FailLdtAssertion(a) \/ FinalizeTransaction(a)
  \/ VoteYes(a) \/ FinalizeCommitHandler(a) \/ DestroyReplAccessor(a)

Next ==
  \/ \E a \in Accessors : AccessorStep(a) /\ UNCHANGED files
  \/ (PromoteToMain \/ DemoteToReplica) /\ UNCHANGED files
  \/ \E a \in Accessors : WriteSnapshot(a)
  \/ Restart
  \/ \E next \in 1 .. MaxId + 1 : \E durable \in 0 .. MaxId :
       \/ \E a \in Accessors : RecoverSnapshot(a, next, durable)
       \/ SnapshotHandler(next, durable)

Spec == Init /\ [][Next]_vars

-----------------------------------------------------------------------------
(* The ids still in use: the start timestamp of every transaction that     *)
(* runs, and every commit timestamp until the accessor gives it up.        *)
OpenStart(a)  == acc[a].phase \in {"active", "committing", "prepared", "undo"}
OpenCommit(a) == acc[a].phase \in {"committing", "prepared", "undo", "undone", "committed"}
OpenIds == {acc[a].start : a \in {b \in Accessors : OpenStart(b)}}
             \cup {acc[a].commit : a \in {b \in Accessors : OpenCommit(b)}}

(* OldestActive never passes an id that is in use: what the collector      *)
(* relies on (commit_log.hpp:22, the log provides "the oldest active       *)
(* transaction (minimal transaction ID which could still be active)").     *)
(* It fails after RECOVER SNAPSHOT: Clear made a new log under the query's *)
(* own accessor, which then reports an id that the new clock hands out     *)
(* again.                                                                  *)
ActiveIdsProtected == \A id \in OpenIds : log.oldestActive <= id

(* The same without RECOVER SNAPSHOT.  It fails as well: a transaction     *)
(* without deltas is reported at its commit and again at the end of its    *)
(* accessor, and when its block is gone by then the second report marks    *)
(* the id at the same place of the head block.                             *)
ProtectedWithoutRecovery == "recovery" \notin history => ActiveIdsProtected

(* The same, as long as every call named ids that the log held open:       *)
(* two-phase commit, refused commits, promotion, the recovery of a replica *)
(* and restarts keep the log exact under every interleaving.               *)
Exact == ~crashed /\ history \subseteq {"recovery"}
ProtectedWhileExact == Exact => ActiveIdsProtected

(* Nothing is held back for ever: when OldestActive is not an id in use it *)
(* has reached the clock.  A timestamp nobody reports (a refused commit, a *)
(* replaced commit timestamp of two-phase commit, the gap a promotion      *)
(* skips) would stop garbage collection until the next restart.            *)
NothingHeldBack ==
  Exact => log.oldestActive >= timestamp \/ log.oldestActive \in OpenIds

(* DMG_ASSERT "LDT not monotonically increasing" (storage.cpp:1206): no    *)
(* main commits below what is durable, across demotions, promotions and    *)
(* restarts, unless the snapshot it was last recovered from left its clock *)
(* at or below the durable timestamp (see LdtMonotonic).                   *)
CommitsBelow(a) == At(a, "committing") /\ ~Replicating(a) /\ acc[a].commit <= ldt
DurableGrows == ~behind => \A a \in Accessors : ~CommitsBelow(a)

(* The assertion itself, whatever the main was recovered from.  It fails:  *)
(* a snapshot written on a replica stores the replica's own start          *)
(* timestamp next to the durable timestamp of the main.                    *)
LdtMonotonic ==
  \A a \in Accessors : At(a, "committing") /\ ~Replicating(a) => acc[a].commit >= ldt

(* MG_ASSERT "Same path leads to two different end blocks in commit log"   *)
(* (commit_log.cpp:126) holds in every promotion.  It fails when the last  *)
(* durable timestamp is the first id of a block and the clock is two or    *)
(* more blocks below.                                                      *)
PromotionSurvives ==
  Up /\ role = "replica" /\ engine = NoOne /\ ldt >= timestamp => RangeSurvives(log, timestamp, ldt)
=============================================================================

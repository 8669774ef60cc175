# Memgraph: TLA+ models of storage, replication and fail-over

This directory holds TLA+ models of the parts of Memgraph in which several threads,
processes or failures meet, the TLC configurations that check them, and machine-checked
proofs. Module and definition names follow the C++ code; `PROJECT.json` maps every
definition to its lines.

## 1. The system

Memgraph is an in-memory property-graph database. Queries run on a pool of threads; each
opens a storage *accessor*, which is one transaction. Commits are logged to files and
shipped to replicas; coordinators watch the instances and replace a main that fails.

| component | state it keeps | operations | what makes it hard | model |
|---|---|---|---|---|
| **Resource lock** (`utils/resource_lock.hpp`), `Storage::main_lock_` | holder counters per mode, pending READ_ONLY count, wait set | lock, try_lock, timed variants, unlock, downgrade | wake-ups decided by counters; timeouts; notify outside the mutex | §3.1 |
| **Commit log** (`storage/v2/commit_log.*`) | list of bit-field blocks, `oldest_active_` | MarkFinished, MarkFinishedInRange, OldestActive, constructors | block boundaries, blocks dropped from the head, ids below the head | §3.2 |
| **Timestamps and transaction lifetimes** (`inmemory/storage.cpp`, replication handlers) | `timestamp_`, last durable timestamp, role, accessors, cached two-phase transaction | begin, commit, abort, two-phase commit, promotion, demotion, recovery, restart | ids reported from a dozen places, once, twice or in ranges | §3.3 |
| **MVCC delta chains**, **garbage collector** (`mvcc.hpp`, `delta.hpp`, `vertex_accessor.cpp`, `CollectGarbage`) | per vertex: value, head delta, flag; per delta: timestamps, links; lists of containers | writes, edge creation, reads, commit, abort, unlink, free | readers walk chains without the lock; interleaved edge deltas; a horizon that ages while it is used | §3.4 |
| **Replication client, transaction and replica handlers** (`storage/v2/replication/`, `replication_handlers.cpp`) | state per replica, task queue, RPC stream, cached accessor | start, ship, prepare, finalize, heartbeat, recover by snapshot and WAL | lost and late answers, recovery against commits, two phases | §3.5 |
| **Coordination** (`coordination/`), role handling (`replication_handler/`) | Raft-replicated cluster state, instance states, epochs, histories | health callbacks, fail-over, promotion, demotion, reconciliation | leader changes, callbacks out of date, diverged data | §3.6 |
| **Gatekeeper, DBMS handler, async indexer** (`utils/gatekeeper.hpp`, `dbms/`, `async_indexer.cpp`) | reference count, deletion mark, map of names, queue of deferred deletions, request queue | access, copy, move, create, rename, drop, index | deletion against accesses; condition variables; destructors that wait | §3.7 |
| **Durability** (`storage/v2/durability/`, `FinalizeWalFile`, `RecoverSnapshot`) | WAL and snapshot files, sequence numbers, unsynced count | append, sync, rotate, snapshot, retain, replace, recover | a failure between any two steps; files of two histories | §3.8 |
| In-memory indices, constraints | skip lists, registered constraints | populate, publish, validate | population and validation against concurrent writers | not modelled |
| On-disk storage, query engine, planner, communication, RPC, auth, streams, key-value store, telemetry, memory, modules, Rust port | | | not concurrency protocols of this code base, or delegated to libraries | `components` in `PROJECT.json` |

How they interact. An accessor of a database (counted by its gatekeeper) takes `main_lock_`,
then a start timestamp under `engine_lock_`. Its writes link undo deltas into the vertices;
other transactions read through the chains. A commit takes `engine_lock_` and a commit
timestamp, writes itself to the WAL, ships its deltas to the replicas, collects their votes if
there are STRICT_SYNC ones, then stores the timestamp in its `CommitInfo`. It reports its ids to
the commit log and hands its deltas to the collector. A replica applies transactions through the
same accessors and logs them to its own files; what it missed it gets from a pool thread of the
main as snapshot and WAL files. Coordinators check every instance each second, write the chosen
main to Raft, and promote and demote; an epoch is made at each promotion, and the history of
epochs tells a main whether a replica's data continues its own.

What makes it correct:

* lock: incompatible modes are never held together; a request that can be granted is not
  forgotten; counters survive time-outs and downgrades;
* commit log and timestamps: `OldestActive()` is the minimum of the unfinished ids, never passes
  an id in use, and no id stays unreported;
* MVCC and collector: reads return the snapshot plus own writes; no lost updates; aborts undo
  exactly their own writes; no reader reaches a freed delta; every delta is freed eventually;
* replication: no gap on a replica; READY means current; acknowledged means replicated; the files
  kept reach back far enough; a replica catches up;
* coordination: acknowledged commits survive fail-over; diverged data is noticed; no replica obeys
  two mains; the cluster repairs itself;
* databases: nobody uses a database that is gone; counts are exact; a drop ends;
* durability: a restart finds every acknowledged transaction and no refused one; a power loss costs
  at most the transactions not yet synced; replacing the data leaves one history, never two.

## 2. Modules

```
ResourceLockSpec  <- ResourceLock <- ResourceLockProofs       lock: promise, code, proofs
CommitLogOps      <- CommitLog, TimestampLifecycle            log: its methods as operators
                  <- CommitLogOpsProofs                       what the methods compute
CommitLogSpec     <- CommitLog <- CommitLogProofs             log: promise, exercised alone, proofs
TimestampLifecycle <- TimestampProofs                         storage as the log's user
DeltaChain        <- Mvcc <- MCMvcc <- MCMvccInstances        chains; transactions + collector
                  <- MvccInvariants <- MvccProofs             inductive invariants, proofs
Replication       <- ReplicationProofs                        commits + client + pool + replica
Failover          <- FailoverProofs                           coordinators + instances + epochs
Databases         <- DatabasesProofs                          gatekeepers + sessions + drops + indexers
Durability                                                    commits + files + snapshots + failures
```

Each of the last four models composes several components of the code. They meet at these seams:
`Replication` has the steps of a commit and of a recovery, which are one step each in `Failover`;
the branching test that `Replication` leaves out is in `Failover`; `Durability` has the files
whose retained chain `Replication` assumes can be read (`ChainUnbroken` states it there, and
`CrashKeepsCommits` here for the process that restarts). `TimestampLifecycle` composes the
accessors with the real commit log; `Mvcc` uses the abstract one (a set of unfinished ids): that
the real one implements it is what `CommitLog` checks, and where the storage calls it outside that
contract is what `TimestampLifecycle` checks.

## 3. The models and the code

### 3.1 ResourceLock

One step is one stretch of code under `mtx`. A `cv.wait` is split into the test before
it (`Lock`), the sleep (`pc = "asleep"`), and the test after a wake-up (`Recheck`) or an
expired timer (`Expire`, `FinishTimedWait`). A notification is sent after `mtx` is
released and is therefore a step of its own (`note`, `Notify`); `notify_one` picks any
sleeper, and sleepers may wake spuriously. `count` holds `r_count`, `w_count`, `ro_count`.
The counters are natural numbers: the code's 64-bit counters count threads.
`ro_pending_count` is raised and lowered within one step by a request that is granted at
once, so only sleeping requests show in it. `Compatible` in `ResourceLockSpec` is what the
accessors of the storage assume.

### 3.2 CommitLogOps, CommitLog, CommitLogSpec

The list is a sequence of blocks, a field the set of its 1-bits. Every method is an
operator from log to log, because each runs under the log's own lock. `BlockIndex` keeps
the walk's behaviour for ids below the head (they land in the head block), `LoopEnd` the
loop over intermediate blocks whose end the code asserts; `RangeSurvives` says whether
that assertion holds, and `crashed` that it did not; `MarksExactly` says for which ranges it fails. `CommitLog` calls the methods as the
interface allows: a fresh id, a range that begins in a block the log still has.
`CommitLogSpec` is the set of the class comment. Left out: allocation failure, destruction.

### 3.3 TimestampLifecycle

An accessor slot moves through phases; its steps are cut at every call of the commit log
and wherever `engine_lock_` is taken or released. Roles, the cached transaction of
two-phase commit (`VoteYes`, `FinalizeCommitHandler`, `DestroyReplAccessor`), promotion
(`PromoteToMain`, the range over skipped ids), `RECOVER SNAPSHOT` with and without FORCE,
the replica's `SnapshotHandler` and `Restart` are actions. `history` records, per log,
whether a call named an id whose block was gone (`below`), an id not handed out (`ahead`),
a range that begins below the head (`range`), or whether a snapshot was recovered under an
open accessor (`recovery`). A replica's durable timestamps are the main's and are inputs.

`snap` is the newest snapshot file: the local start timestamp of the accessor that wrote it and the
durable timestamp stored beside it. `WriteSnapshot` runs on mains and replicas
(`storage.cpp:3967` has no test of the role), and on a replica the two numbers are unrelated. A
restart takes its clock from the first, raised by WAL transactions that are newer than the second
(`RecoveredClock`); a recovered snapshot may have any pair of them. `behind` records that a main
loaded one that left its clock at or below its durable timestamp. A main that then commits below it
fails a DMG_ASSERT (`FailLdtAssertion`): this module models the builds that check it, `Durability`
those that go on.

### 3.4 DeltaChain, Mvcc

A vertex has one property, a set of edge entries, a head delta, the flag
`has_uncommitted_non_sequential_deltas` and its lock (`readers`). A delta records what to
undo, its chain state, command id, and links. A transaction's `ts` is its `CommitInfo`.
`SetProperty` stands for every write guarded by `PrepareForWrite`; `CreateEdge` links two
deltas, on two vertices or twice on one (a loop).

Steps are cut where the code lets another thread in: a reader copies the vertex under the
lock (`ReadBegin`) and then visits one delta per step, with the lock only if the flag was
on; a commit stores its timestamp, handles propagation, refreshes the flag vertex by
vertex, leaves `engine_lock_` (perhaps after a fast discard), reports, and hands over; an
abort processes one run of deltas per step; the collector reads its horizon, empties the
waiting room, pops and swaps the lists, unlinks one delta per step and ends.

`where` says which list a transaction's container is in. `db` and `snap` are history
variables for the properties only: the committed value of each vertex, and what it was
when each transaction began.

Merged steps, and why nothing is lost: the waiting-room walk is one step, because what
lies below a non-sequential delta of a committed transaction only commits or shrinks
meanwhile; freeing old garbage and swapping `committed_transactions_` are one step,
because they touch different lists and commute with everything between them.

### 3.5 Replication

One `ReplicationStorageClient` with its mode, the commits of the main, the client's one-threaded
pool, the frequent checker and the replica. The other replicas appear as their vote, because
clients meet only under `engine_lock_` and in the decision of two-phase commit. A transaction
is its durability timestamp. The commit's steps are `TakeTimestamp`, the outcomes of
`StartTransactionReplication` (`StartReady`, `StartNotReady`, `StartMissesLock`,
`StartNotConnected`), shipping, `SendPrepare`, `TakeAnswer`, and the ends of the three modes.
The pool's steps are the heartbeat, `CompareTimestamps`, `StartRecovery` with
`GetRecoverySteps`, and one step per file group sent. An RPC is lost before it is handled,
handled but unanswered, refused, or answered; the server's single worker handles requests in
order. `wal` holds the first timestamps of the files, `snapshots` their durable timestamps;
`CreateSnapshot` runs the retention of `snapshot.cpp`.

The open WAL file is sent in two steps. `DisableFlushing` compares its sequence number under the
engine lock and takes the file's flush lock; `SendCurrentWal` uses `wal_file_` after the engine lock
was let go (`replication_client.cpp:800,804`). What keeps a commit from closing that file meanwhile is
only that `OutputFile::Write` (`utils/file.cpp:434`) needs the flush lock: `Writable`, a guard of the
commit's steps that write. `SentFileIsOpen` says that it suffices. A refused heartbeat
(`replication_client.cpp:129`) changes the state of the instance's client, which the system-level check
repairs, and not that of this one.

Abstractions: the client's cached `commit_ts_info_` is left out; DIVERGED and the branching test are
in `Failover`; the main does not crash; `ForceRecoverReplica`, and a replica that restarts after a
failed snapshot, are not modelled.

### 3.6 Failover

`raft` is the sequence of committed cluster states (current main and its uuid); NuRaft is external,
and `view` says how far each coordinator has applied it. `task` is what the holder of
`coord_instance_lock_` does, `pend` the answers of state checks whose callback has not run,
`job` the promotion a data instance executes. Each callback, `TryFailover`,
`SetReplicationInstanceToMain`, `DemoteInstanceToReplica`, `ReconcileClusterState`, every RPC
they make and every handler of an instance is an action. A deposed leader's thread goes on with
its old view. A commit is named by its epoch, so data is a sequence of epochs, and the durable
timestamp and the number of commits are its length; `SaveLatestHistory`, `BranchingPoint`
and `RecoverHistory` are the operators on epochs. After a restart the epoch is that of the last
WAL file (`durability.cpp:677,759`), as in the code.

Abstractions: one database; every instance a SYNC replica, so the lag limit and the exclusion of
ASYNC instances do not arise; commit and recovery in one step each; adding and removing
instances, registering replicas one by one by a coordinator
(`coordinator_instance.cpp:1172-1212`) and configuration updates are left
out; in `SetReplicationInstanceToMain` the SwapUUID calls and the Raft append
(`coordinator_instance.cpp:657-668`) are one step, so that a failure between them shows only as the
failure of the whole command; files survive crashes (that is `Durability`).

### 3.7 Databases

`items` is the map of the handler, `name` the name the protector factory of a database was made
with, `life` the state of its gatekeeper, `owner` the database of each accessor: a session's
current one, its query's, an indexer's protector, a drop's. A step is what runs under one mutex; a
drop holds the handler's `lock_` from first to last step. `Reset`, `CopyAccessor` and
`MoveAssign` are the accessor's operations, with what they notify. `BeginTryDelete`,
`Destroy` and `GiveUp` are the immediate drop, `BeginDelete` and `TakeDeferred`/`Drain`
the deferred one. The indexer thread tests, parks, picks, takes an accessor and builds
(`Look`, `Park`, `Protect`, `TakeAccess`, `CreateIndex`), or its access times out and it tries
again, without a look at the stop request (`AccessTimesOut`); `SetStorageMode` waits for it.
`main_lock_` is held by a `SetStorageMode` (UNIQUE), by an indexer (READ_ONLY) and by the write
transactions of clients (`BeginWrite`, `EndWrite`, `Enqueue` in a commit), which stay open as long as
the client likes. `missed` records notifications that came too early or not at all.

The `UniqueAccess` of the indexer in analytical mode, whose timeout nobody catches, is not reached:
`CompleteRemaining` leaves no request behind, and commits make requests in transactional mode only
(`storage.cpp:1230`). A `SetStorageMode` that throws because of constraints changes nothing and is not
an action.

Abstractions: streams, triggers and TTL of a database, persistence and replication of the drop
are left out; `Update` is a deletion and a creation; releasing and re-taking the accessor between
`Delete_` and `DeferDelete` is one step; indexers of databases outside `Indexed` start asleep.

### 3.8 Durability

`wals` is the sequence of WAL files, each with its transactions and how many of them the
operating system has (`os`) and how many are synced (`sync`); a file being written may have lost
its name to retention (`linked`). A transaction in a file carries the commit flag, which two-phase commit writes as FALSE
and updates in place. Commit steps are `AppendTransaction`, `UpdateCommitStatus` or
`VoteFailed`, `FinalizeWalFile`, `FinishCommit`. A snapshot is taken, written, and then deletes
old snapshots and WAL files one by one. `RecoverSnapshot` (the query) and `ReceiveSnapshot`
(a replica's `SnapshotHandler`) replace everything: `ClearAndLoad`, then `MoveFile` per old file in any order within its directory,
snapshots first. `RecoverData` is the recovery at start-up as a function of the
files, so that the invariants can ask in *every* state what a restart would find.

A crash keeps what the system has and any beginning of the buffer; a power loss keeps what is
synced and any further part, and may take back a flag updated in place. `sent` is what the main
is known to have, on a replica.

There are two numberings. Durability timestamps are the main's; the clock is local, and on a replica
each applied transaction takes two ids of it (three in two phases), so it falls behind them. A snapshot
file stores a start id of the clock of the instance that wrote it (`start`) and its durable timestamp
(`ts`); recovery, `RECOVER SNAPSHOT` and the replica's handler take the clock from the first.
`PromoteToMain` raises it. `used.behind` records that a main began at or below a durable timestamp of its
storage or its files. DMG_ASSERT is not checked here.

Abstractions: demotion is left out; directory operations are durable in their order; a snapshot that is not complete is
not readable and not in the model; `ok = FALSE` is a received file whose header reads and which
does not load; a transaction's data is its identity; files of other UUIDs, failing backup
directories, `WalFilesHandler` with `reset_needed` and diverged replicas are left out. Epochs are
in `Failover`.

## 4. Runs

"States" are distinct states; a passing run takes up to three minutes with two workers. Each
property is described in words at its definition.

| run | instance | states | shows |
|---|---|---|---|
| `commit_log` | blocks of 2 fields x 2 bits, ids 0..9 | 1,986 | list = set, for every order of marks and ranges; for which ranges the assertion fails |
| `timestamps` | blocks of 2 x 1, ids 0..5, two accessors | 1,402,635 | ids in use are protected and nothing is held back, as long as calls name ids the log has; a main commits above what is durable, unless a snapshot left its clock behind |
| `resource_lock` | three threads, one request each | 58,939 | exclusion, counters, wake-ups, refinement, liveness |
| `mvcc` | two instances: two writers that read, two vertices, 3 deltas each; writers 1 and 3 and reader 2 of one vertex, 2 deltas each | 846,862 | aborts, flag, first committer wins, everything freed; the property and the edges of an old snapshot while the chain changes under the reader, no freed delta reached |
| `replication` | each mode, three commits, one fault, retention 1 | 828,275 | no gap, READY is current, acknowledged is replicated, the file being sent stays open, the chain of files holds, the replica catches up |
| `databases` | two databases, three names, two sessions, one indexer with two labels | 176,946 | no dangling accessor, exact counts, the indexer stops first; a drop and a deferred deletion end except in the ways of §7 |
| `failover` | two instances, two coordinators, two commits, two disturbances | 196,612 | acknowledged commits survive, divergence is noticed, one main per uuid, the cluster repairs itself |
| `durability` | three transactions, or two and a promotion, files of two, sync every two, two snapshots, retention 1, one replacement, one failure | 3,022,551 | what a restart would find, in every state and for every outcome of a failure |
| `timestamp_ldt`, `mvcc_snapshot`, `mvcc_handover`, `failover_writes` | | | violations, §7 |

Further configurations, for TLC by hand:

| configuration | module | property | shows |
|---|---|---|---|
| `MvccReader.cfg` | `MCMvcc` | `ReadsProperty`, `NoDanglingRead` | the second instance of `mvcc` with reads by all three transactions and two commands in the first (1,699,897 states, holds) |
| `MvccWriters.cfg` | `MCMvcc` | `ReadsProperty` | three writers at one vertex, the instance of `mvcc_snapshot` (649,822, holds) |
| `MvccRuns.cfg` | `MCMvcc` | `ReadsProperty` | a transaction with two runs in one chain, the instance of `MvccAbort.cfg` (1,287,901, holds) |
| `DatabasesPool.cfg` | `Databases` | `PooledEnds` | three databases, two of them deferred: the one thread of the pool gets to every database that is let go of (10,093, holds) |
| `TimestampRange.cfg`, `TimestampTwice.cfg`, `TimestampActive.cfg`, `MvccAbort.cfg`, `ReplicationStrict.cfg`, `ReplicationRewound.cfg`, `DatabasesWriter.cfg`, `DatabasesStop.cfg`, `DatabasesProtector.cfg`, `DatabasesMode.cfg`, `DatabasesDrain.cfg`, `DurabilityClock.cfg`, `DurabilityReload.cfg` | `MCMvcc` or the model of the name | one each | violations, §7 |

Why the bounds are enough for what is asked.

*Commit log*: three blocks of two fields of two bits have every boundary the code distinguishes.
*Timestamps*: six ids over blocks of two let every block be dropped while an accessor is open,
and two slots let one accessor's report race the other's. *Lock*: the interesting cases need one
holder, one sleeper of each conflicting kind and one thread that takes the wake-up. The safety
part is proved for any number (§6). *MVCC*: an interleaving of non-sequential deltas needs two
writers, an observer a third; the collector runs against two writers and a reader of an age
between them. A third writer and a second run of one transaction in a chain have configurations of their own,
without the collector (`SpecBetweenRuns`: two of its runs are an interval apart).

*Replication*: a gap needs one commit the replica has, one it missed and one that is sent; one
fault puts it anywhere among them, and retention 1 lets a snapshot delete the files that a
recovery counts on. *Failover*: a wrong main needs one crash and one lost call or election; two
commits let both sides of a branch have one. Three disturbances (safety only) and three instances
with one coordinator were checked by hand without a further violation. *Databases*: two sessions let one use what
the other drops; three names let a rename free a name that is taken again; three databases with
one session have a configuration of their own for the pool. *Durability*: three transactions fill one file and begin
another, two snapshots make one that retention deletes and one that is kept, and the failure may come before or
after the replacement. Checked by hand besides: retention 2 with three snapshots and files of one transaction; two failures without a replacement.

`CHECK_DEADLOCK FALSE` appears where the instance may stop because its inputs are used up, or
(`databases`) because the code may hang, which the temporal properties describe.

### Fairness

`resource_lock`: weak fairness of each thread's `Progress`: a runnable thread is scheduled, a
woken one gets `mtx` back and a holder releases eventually (accessors are scoped guards). No timer
has to fire and no spurious wake-up has to happen. Requests are bounded: the lock is not fair, and
an endless stream of readers does starve UNIQUE.

`mvcc`: weak fairness of the collector (a periodic task) and of nothing else. Nobody is forced to go on
with a transaction or to end it: `EventuallyFreed` assumes that they all have ended.

`replication`: the thread of a commit under way, the pool's thread, the checker (periodic) when it
can have the RPC lock, and an operator who restarts a stopped replica. No commit has to begin.

`databases`: weak fairness of the drop, the pool's thread, a thread inside `CompleteRemaining`, and the
indexers. A client never has to end a transaction or release anything: the properties say themselves
what they need of clients (`DropEndsUnlessStuck` that no transaction stays open or comes back for ever,
since a timed access may miss every gap; `PooledEnds` that accessors go).

`failover`: every thread that holds a lock or executes a promotion, and every checking thread,
runs (the `Calm` form: without a new disturbance); a leader is elected; stopped instances are
restarted; a client ends its transaction. Disturbances are bounded and never forced.

## 5. Mutants

Every property of every passing run has a mutant in `PROJECT.json`: a definition `as` that
replaces the mapped definition `of`, changes it as a plausible slip would (a dropped guard,
a half-open mask, one wake-up instead of all, a missing sync), and makes TLC violate the
property. They stand in the modules just before what they replace, under "Mutant:".

## 6. Proofs

The runs look at small instances; the theorems hold for every value of the constants that the
named assumptions allow. Each proof module extends its model, states the inductive invariant
`IInv` as a conjunction of named parts (those of `Mvcc` fill a module of their own, `MvccInvariants`),
has one lemma per action, and ends in temporal steps. Every
`IInv` was checked with TLC before it was proved. None of the properties is inductive by itself; the
paragraphs below say what had to be added and why.

| Module | Theorems | For any |
| --- | --- | --- |
| `ResourceLockProofs` | `Invariance`, `TypeCorrect` (`TypeOK`), `ModesExclude` (`Exclusion`), `CountersExact` (`CountsAgree`), `WakeupsKept` (`NoLostWakeup`), `Refinement` (`ImplementsModes`) | finite set of threads, number of requests |
| `CommitLogProofs` | `CommitLogTypes` (`TypeOK`), `MarksAreExact` (`MarksExactly`), `ListImplementsSet` (`ImplementsSet`) | size of blocks and fields, number of ids |
| `TimestampProofs` | `ActiveIdsAreProtected` (`ProtectedWhileExact`), `NothingIsHeldBack` (`NothingHeldBack`), `DurableTimestampGrows` (`DurableGrows`) | set of accessors, size of blocks and fields, number of ids |
| `MvccProofs` | `MvccTypes` (`TypeOK`), `FirstCommitterWins` (`NoLostUpdate`), `FlagIsTrustworthy` (`FlagCovers`), `AbortsRestore` (`AbortRestores`) | number of transactions, deltas, commands; finite set of vertices |
| `DatabasesProofs` | `DatabasesTypes`, `AccessNeverDangles` (`NoDanglingAccess`), `CountIsExact` (`CountExact`), `IndexerStopsBeforeFree` (`IndexerStopsFirst`), `NamesAreLive` | finite sets of databases and sessions, set of names and labels |
| `FailoverProofs` | `FailoverTypes` (`TypeOK`), `WritersHaveOwnUuid` (`OneMainPerUuid`), `MainsAreNamedByRaft` | set of instances and coordinators, number of steps and disturbances |
| `ReplicationProofs` | `ReplicationTypes` (`TypeOK`), `WalChainIsUnbroken` (`ChainUnbroken`), `ReadyReplicaIsCurrent` (`ReadyIsCurrent`), `ReplicaIsAPrefix` (`GaplessPrefix`), `AckedCommitsAreReplicated` (`AckedIsReplicated`), `SentFileStaysOpen` (`SentFileIsOpen`) | number of commits, faults, waiting checks, retained snapshots |

The bounds of the models (`MaxTs`, `MaxFaults`, `MaxId`, `MaxRequests` and so on) are constants with
no assumption but their type, so a theorem speaks of behaviours of any length.

*Resource lock.* The thread that is up and can take the lock may be one
that will wake only one sleeper later. `IInv` separates the two kinds of sleepers.
`SharedWake`: a shared request that could be granted while it sleeps waits for a
notify-all that is on its way; `UniqueWake`: only a UNIQUE request may depend on a
notify-one, and then either a notification is on its way or a thread that is up can take
the lock. The argument needs the exact counters (`CountsAgree`, with cardinality facts about
adding and removing a thread), `Exclusion` (a WRITE holder's release is the last obstacle for
READ_ONLY and the other way round) and `NotesSentFirst` (a thread that has a notification
to send is not asleep). `Refinement` rests on `GrantFits`: whatever `lock_guard_condition` grants is
compatible with every mode held.

*Commit log.* `CommitLogOpsProofs` has no temporal theorem but the lemmas on which two modules rest.
Bits and ids correspond one to one (`BitIsId`, `IdIsBit`) if the head of the list starts at a
multiple of the size of a block, for the code computes the field and the bit from the id alone; this
alignment is part of `WellFormed`. `UpdateCorrect` shows that `UpdateOldestActive` may skip the fields
before `oldest_active_`, because everything below it is finished, and drops finished blocks only;
`MarkCorrect` and `RangeCorrect` that the two operations finish what they are given and nothing else.
`SurvivesUnlessShort` counts the steps of the walk over the blocks of a range: it ends at the block of
`end_id` unless that is the first id of a block two or more blocks on, which `MarksExactly` states.
The invariant adds `OldestIsLeast`: `oldest_active_` is the least unfinished id over all ids, not only
over those of the instance. The refinement `ListImplementsSet` follows operation by operation. That a
set of ids has a least element comes from the well-foundedness of `<` on the naturals, a theorem of the
proof library.

*Timestamps.* `Good` says that an id is finished exactly if the clock has passed it and no accessor
uses it, and that no two uses share an id. Sharing is what would let one accessor's report end the
protection of another's id; the ids still to be reported a second time (an accessor without deltas) are
part of it. `Good` holds while every call named ids the log held open (`Exact`); `Disciplined` holds
always, and says what the locks guarantee: who may exist while somebody has `main_lock_` alone, that the one accessor
that commits holds the engine lock, and that on a main its timestamp is above the last durable
one unless the clock was left behind (`behind`), which is `DurableTimestampGrows`. For that the clock
itself must be above the last durable timestamp on such a main, through snapshots taken while the
instance was a replica: a restart whose newest snapshot stores a lower clock sets `behind`, and a
promotion raises the clock, so the case is exactly the one `timestamp_ldt` shows.

*MVCC.* A write is admitted by a look at the head delta and the flag, while edge creations interleave,
aborts take deltas out of the middle and the collector cuts chains. `NoLostUpdate` needs three things
about the chain. Nobody gets on top of an uncommitted property write: the head is then the writer's
own, and is that write or a FORCED_SEQUENTIAL edge creation (`WriterOnTop`). A committed property write that is
not older than every transaction at work is still reached from the head over deltas that are no
older (`Covered`); so if the head is older than a writer's start, every property write is. And a head that is
closed to others was put there by a transaction that began after the last committed property write
(`ClosedIsLast`). They rest on the structure of the list (a rank that falls along `next`, back links, heads) and
on the life cycle of ids: the clock counts the transactions that began and that took a commit timestamp, which
bounds it, and the horizon of the collector is not above the start of anybody at work. What a walk
along a chain visits is described step by step, and a least index at which the description fails
gives a contradiction. `FlagCovers` needs more: the flag is recomputed by a walk from the head that stops
at the first sequential delta of another, so it is right only if every uncommitted non-sequential delta
is reached before such a one. This is `Threaded`: from the head down to an uncommitted delta there is a
stretch of mutually linked deltas, all of them non-sequential if that one is and its owner is at
work, and the committed ones among them committed after the owner began.
It survives a cut by the collector (which cuts below what is older than everybody at work) and an abort out of
the middle (which takes out a run as a whole, `Solo`). `AbortRestores` follows from what a vertex holds at any time (`Stored`): its edges are those of the linked
deltas; its value is the newest uncommitted one or else the committed one, and each uncommitted
property write keeps the value before it, the oldest one the committed value. One transaction at a
time has uncommitted property writes on a vertex and nobody is above them, so the run an abort takes
out has all of them or none, and undoing it ends at the committed value.
From the constants the proofs need `PointerConstants` (a null pointer and a
vertex are no deltas) and `MvccConstants`.

*Databases.* The count is a cardinality, so each move of an accessor is a lemma about finite sets. The
invariant adds that the drop under way holds an accessor of the database it drops, that an indexer
has its protector exactly while it works, that a database in the deletion pool or at the pool's
thread has a stopped indexer and no name, and that the default database stays. With these, only the
drop that holds the lock of a database with the count at one can destroy it.

*Failover.* Two instances that write and share a uuid could come from two promotions under way, by two
leaders. The invariant says where uuids come from: a committed cluster state that names a main
carries the uuid of its own position in the log, so a uuid belongs to one instance; each promotion
under way, and each instance that is main, has a uuid that was made for it.

*Replication.* The properties relate the main and the replica, and what relates the two is under way: a
commit, a task of the pool, an answer not taken yet, the rest of a recovery. The header of
`ReplicationProofs` lists the parts of the invariant. The two arguments that carry it: (1) a
transaction waiting in the pool keeps the RPC lock, so at most one is on its way, and it follows what
the replica was sent before it (`LockInv`, `RepInv`), unless the client's state says MAYBE_BEHIND;
(2) `GetRecoverySteps` leaves no gap between what the replica has and its first step, nor between steps
(`StepsLeaveNoGap`), and this stays true while the main commits, snapshots are taken and files are
closed, until the last step (`GapStep`); it rests on `ChainUnbroken`, the retention of WAL files.
The prefix and acknowledgement theorems hold until a snapshot takes the replica back (`rewound`),
see §7. `SentFileStaysOpen` rests on `SendInv`: while the flush lock is held by a recovery the commit
under way, if any, has not got past its first write.

Only model-checked:

* liveness (`RequestAnswered`, `EventuallyFreed`, `EventuallyCurrent`, `DropEndsUnlessStuck`,
  `DeferredEnds`, `PooledEnds`, `EventuallyRepaired`): fairness and ENABLED are outside the prover;
* what a fold over a log such as `RecoverData` computes for every input needs induction over data,
  which the installed provers cannot do. This concerns the properties of `Failover` that compare the
  data of instances (`DivergedIsNoticed`, `ReadyIsEqual`, `AckedSurvives`) and those of
  `Durability`;
* `ReadsProperty` and `NoDanglingRead` of `Mvcc`. The first holds in every instance that was checked; the
  second fails in that of `mvcc_handover`.

## 7. Where the code and its documentation disagree

Runs that show a violation:

* `timestamp_ldt`: a main that starts from a snapshot it took as a replica, or
  loads one taken on a replica, has a clock at or below its durable timestamp. Its next commit fails the
  assertion on the durable timestamp in a debug build; in a release build it is acknowledged, and the
  next recovery skips it (`CrashKeepsAlways`, `DurabilityClock.cfg`). `DurableGrows`, `CrashKeepsCommits` and
  `PowerLossKeepsSynced` leave out a main
  in that state (`behind`), which is entered only this way and, in `Durability`, by a promotion or a query
  while a file holds a later timestamp than the storage (`FilesAhead`).
* `mvcc_snapshot`: a write is admitted by looking at the head delta and the flag. With T2's
  edge above T1's on one vertex, T2 committed before T3 began and T1 after, T3's write
  becomes a sequential delta on top, where T3's reads stop: they show T1's edge.
* `mvcc_handover`: a commit reports its timestamp before its deltas are in a list. Another
  commit in between sees an empty log, discards and frees its own deltas, and the first one's
  deltas still lead to them. It needs two writers and a later reader.
* `failover_writes`: a transaction that is open while its main is promoted again commits with
  the clients registered so far, is acknowledged, and is lost if a registration fails and another
  instance becomes main. `AckedSurvives` shows that this is the only way.

The other configurations that show one (the property, and the line it quotes, are in the module):

* `TimestampRange.cfg` (`PromotionSurvives`): `MarkFinishedInRange` fails its own assertion
  (`commit_log.cpp:126`) when the range ends on the first id
  of a block two or more blocks on; a promotion reaches such a range. `MarksExactly` states which
  ranges these are; in `ImplementsSet` the log of a process that ended so stays as it was.
* `TimestampActive.cfg` (`ActiveIdsProtected`): `RECOVER SNAPSHOT` clears the commit log and the clock under the query's own
  accessor, which at its end reports its old id; the new clock hands that id out again, and
  `OldestActive` has passed it. `TimestampTwice.cfg` (`ProtectedWithoutRecovery`): a transaction without deltas is reported at its commit
  and at the end of its accessor. If it was the last of its block, the second report sets the same bit of
  the next block. `ProtectedWhileExact` shows that protection is lost only through calls of these kinds.
* `MvccAbort.cfg` (`ReadsSnapshot`): an abort takes its runs of deltas out one by one, and after the first recomputes the
  flag without its own deltas. A reader in between finds the flag off, lets the vertex go and misses the
  delta that would undo the aborting transaction's second edge. This and `mvcc_snapshot` show an edge too many;
  `ReadsProperty` says that the property is right and no edge is missing in the same instances.
* `ReplicationStrict.cfg` (`HeartbeatRecovers`): a STRICT_SYNC replica that missed the second phase keeps a READY client, which
  the checker does not ask. `EventuallyCurrent`, `ReadyIsCurrent` (which is about SYNC and ASYNC) and the last
  commit of `AckedIsReplicated` leave it out.
* `ReplicationRewound.cfg` (`ReadyIsRecovered`): `RecoverReplica` checks the state and then uses the timestamp its task was made
  with. A task that waited while the snapshot of another failed to load and left the replica empty sends
  only later WAL files: a gap, and the client is READY. `GaplessPrefix` and `AckedIsReplicated` leave out a
  replica taken back (`rewound`).
* `DatabasesWriter.cfg`, `DatabasesStop.cfg`, `DatabasesProtector.cfg`, `DatabasesMode.cfg`
  (`DropNeedsNoClient`, `StopIsSeen`, `DropNeedsNoProtector`, `ModeChangeEnds`): a drop waits for the
  indexer with the handler's lock held, and the indexer does not stop: an idle client's write transaction
  keeps it in its retry loop; the stop request came between its test and its sleep; it needs the
  Gatekeeper's mutex, which `try_delete` holds over `~Database`; a `SetStorageMode` waits for it with the
  UNIQUE access it needs (and waits for ever itself). `DropEndsUnlessStuck` shows that there is no fifth way.
* `DatabasesDrain.cfg` (`DrainIsNoticed`): a move assignment lowers the count without a notification, so a deferred deletion
  sleeps on. `DeferredEnds` and `PooledEnds` show that nothing else holds one back.
* `DurabilityReload.cfg` (`RestartRestores`): a received snapshot that does not load stays in the directory; if no other is there
  the next start refuses, although `replication_handlers.cpp:708` tells the user to restart.

What the models show besides, where no line promises otherwise or an exception in a property stands for it:

* *Failover*: a deposed leader's late promotion makes a replica main for a moment; if it commits
  and is demoted before the next ping, its READY client hides the branch (`ReadyIsEqual`; it needs
  three disturbances). Recovery may list an epoch twice, which leads to a needless full reset. With manual replication (no coordinator), an
  old main that restarts takes its epoch from its last WAL file, and a branch under the same epoch is not recognised.
* *Databases*: after a rename the protector factory looks the old name up. A request's notification may
  be lost until the next one.
* *Durability*: (a) old WAL files are moved in directory order; a crash in between can leave a gap
  in the sequence numbers, and the next start refuses (`ReplaceYieldsHistory` says when).
  (b) After a failed load the storage is empty and numbers its WAL
  files from 0 again beside the old ones; new commits may be skipped at the next start or deleted by
  retention (`lost`). (c) The unsynced end of a file that a crashed process left is never synced
  again; a later power loss can leave a gap. (d) A commit flag updated in place may be lost while a later transaction survives
  (`OwnTail` excepts both). (e) The copy that `RECOVER SNAPSHOT` makes of its file is not
  synced.

## 8. Not modelled, and the plan

The models cover a small share of a repository of about 300,000 lines, and most of the rest
is not for TLA+: parsing, planning, the operators of the query engine, value types, file and wire formats,
the API headers, authentication and integrations transform data sequentially or do input and
output; they have no interleavings or failures of their own for a model to explore. The reasons
are given per part in `components`.

Within the modelled parts: object creation and deletion, edge objects and edge deletion, isolation
levels below snapshot isolation, analytical mode, commit callbacks that throw, index and schema
clean-up in the collector and the aggressive collector under `main_lock_`; manual registration of
replicas; the abstractions of §3.5 to §3.8.

In the order of the plan:

1. *MVCC*: deletion of vertices and edges, commit callbacks, publication of indices.
2. *Constraints and indices*: population and validation against concurrent commits.
3. *Durability*: `WalFilesHandler` with reset, diverged replicas' files.

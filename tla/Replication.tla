---------------------------- MODULE Replication ----------------------------
(***************************************************************************)
(* One ReplicationStorageClient of a main, the commits that ship their      *)
(* deltas through it, the one-threaded task pool that checks and recovers   *)
(* the replica, the frequent checker, and the replica's RPC handlers.       *)
(*                                                                         *)
(* The clients of a main meet in two places only: they are served under one *)
(* engine lock, and in a cluster with STRICT_SYNC replicas they decide      *)
(* together.  The other clients are therefore their vote.                   *)
(*                                                                         *)
(* A transaction is its durability timestamp.  An RPC is sent, handled and  *)
(* answered under the client's RPC lock; the replica's server has a single  *)
(* worker, so a request that outlives its sender's patience is handled      *)
(* before any later one ("unanswered").                                     *)
(***************************************************************************)
EXTENDS Integers, Sequences, FiniteSets

CONSTANTS
  Modes,      \* the replication modes of the client that are looked at
  MaxTs,      \* bound: the commits of a behaviour
  MaxFaults,  \* bound: lost messages, refusals, restarts and failed checks
  MaxChecks,  \* bound: tasks waiting when the checker adds one
  Retention   \* storage.snapshot_retention_count

ASSUME BoundsAssumption ==
  /\ Modes \subseteq {"SYNC", "ASYNC", "STRICT_SYNC"}
  /\ MaxTs \in Nat \ {0} /\ MaxFaults \in Nat
  /\ MaxChecks \in Nat \ {0} /\ Retention \in Nat \ {0}

VARIABLES
  mode,       \* ReplicationClient::mode_
  twoPC,      \* TransactionReplication::run_two_phase_commit
  clock,      \* the commit timestamps handed out
  committed,  \* the transactions the main has committed
  ldt,        \* the main's commit_ts_info_.ldt_
  wal,        \* the WAL: first timestamps of the finalized files and of wal_file_
  snapshots,  \* durable timestamps of the snapshot files
  txn,        \* the commit that holds engine_lock_
  state,      \* ReplicationStorageClient::replica_state_
  tasks,      \* ReplicationClient::thread_pool_, its queue
  work,       \* what its only thread is doing
  rpc,        \* who keeps the lock of rpc_client_ from one step to the next
  rep,        \* the replica: its transactions, its ldt and two_pc_cache_
  up,         \* the replica process runs and can be reached
  acked,      \* commits reported to their client without a failure
  rewound,    \* history: a snapshot took transactions from the replica
  faults

cluster == <<mode, twoPC>>
main == <<clock, committed, ldt, wal, snapshots>>
client == <<state, tasks, rpc>>
vars == <<cluster, main, txn, client, work, rep, up, acked, rewound, faults>>

States == {"READY", "REPLICATING", "RECOVERY", "MAYBE_BEHIND"}
Timestamps == 0..MaxTs
ts == clock     \* the timestamp of the commit under way

NoTxn == [pc |-> "idle", prev |-> 0, stream |-> FALSE, answer |-> "none",
          failed |-> FALSE, decision |-> FALSE]
EngineFree == txn.pc = "idle"

(* Tasks of the pool: check the replica, recover it from a timestamp, send  *)
(* the transaction ts of an ASYNC client.                                  *)
Check == [kind |-> "check", from |-> 0, ts |-> 0, prev |-> 0]
Recover(from) == [Check EXCEPT !.kind = "recover", !.from = from]
Finalize(t, prev) == [Check EXCEPT !.kind = "finalize", !.ts = t, !.prev = prev]

(* Its thread: the timestamp it believes the replica has, the transaction    *)
(* it sends, and the recovery steps still to do (0: there is none): a       *)
(* snapshot, the WAL files lo..hi, the WAL file that was open; and whether   *)
(* it has disabled the flushing of that file, to send it.                  *)
Idle == [pc |-> "idle", from |-> 0, ts |-> 0, prev |-> 0, answer |-> "none",
         snap |-> 0, lo |-> 0, hi |-> 0, seq |-> 0, sending |-> FALSE]

(* The replica and its client at registration: a cluster with STRICT_SYNC    *)
(* or with SYNC replicas, either with ASYNC ones.                          *)
Init ==
  /\ mode \in Modes /\ twoPC \in BOOLEAN
  /\ mode = "SYNC" => ~twoPC
  /\ mode = "STRICT_SYNC" => twoPC
  /\ clock = 0 /\ committed = {} /\ ldt = 0
  /\ wal = [files |-> {}, cur |-> 0] /\ snapshots = {}
  /\ txn = NoTxn /\ acked = {}
  /\ state = "MAYBE_BEHIND" /\ rpc = "free"
  /\ tasks = <<Check>> /\ work = Idle
  /\ rep = [applied |-> {}, ldt |-> 0, prepared |-> 0]
  /\ up = TRUE /\ rewound = FALSE /\ faults = 0

-----------------------------------------------------------------------------
(* The replica's handlers, on its state r.                                 *)

(* PrepareCommitHandler with ReadAndApplyDeltasSingleTxn: the transaction   *)
(* left over is aborted; a replica that missed the previous commit refuses. *)
PrepareAccepted(r, prev) == prev <= r.ldt
PrepareCommit(r, t, prev) ==
  LET clean == [r EXCEPT !.prepared = 0]
  IN  IF ~PrepareAccepted(r, prev) THEN clean
      ELSE IF mode = "STRICT_SYNC" THEN [clean EXCEPT !.prepared = t]
      ELSE [applied |-> r.applied \cup {t}, ldt |-> t, prepared |-> 0]

(* FinalizeCommitHandler answers success whether or not it finds the        *)
(* transaction in its cache.                                               *)
FinalizeCommit(r, t, decision) ==
  IF r.prepared # t THEN r
  ELSE IF decision THEN [applied |-> r.applied \cup {t}, ldt |-> t, prepared |-> 0]
  ELSE [r EXCEPT !.prepared = 0]

(* SnapshotHandler replaces everything the replica holds.  A snapshot that   *)
(* cannot be loaded leaves an empty storage.                               *)
LoadSnapshot(s) == [applied |-> {t \in committed : t <= s}, ldt |-> s, prepared |-> 0]
ClearedStorage == LoadSnapshot(0)

(* LoadWal: of the files lo..hi, the committed transactions newer than what  *)
(* the replica has, one after the other, up to h.                          *)
Missing(r, lo, hi) == {t \in committed : lo <= t /\ t <= hi /\ r.ldt < t}
LoadWal(r, lo, h) == [applied |-> r.applied \cup Missing(r, lo, h), ldt |-> h, prepared |-> 0]

-----------------------------------------------------------------------------
(* Requests.  ok: handled and answered; lost: never handled; unanswered:    *)
(* handled, and the sender gives up; refused: answered with a failure for a *)
(* reason of the replica's own.  A replica that is down costs no fault.     *)
Outcomes == {"ok", "lost", "unanswered", "refused"}
Outcome(o) ==
  /\ o = "ok" => up
  /\ o = "lost" => ~up \/ faults < MaxFaults
  /\ o \in {"unanswered", "refused"} => up /\ faults < MaxFaults
  /\ faults' = IF up /\ o # "ok" THEN faults + 1 ELSE faults
Handled(o) == o \in {"ok", "unanswered"}

(* What the sender of a PrepareCommit learns.                              *)
Answer(o, prev) ==
  CASE o = "ok" -> IF PrepareAccepted(rep, prev) THEN "yes" ELSE "no"
    [] o = "refused" -> "no"
    [] OTHER -> "none"

(* Mutant: a late answer makes READY a client that missed the next one.      *)
StateAfterUnchecked(answer) == IF answer = "yes" THEN "READY" ELSE "MAYBE_BEHIND"

(* The state after it: only a client still REPLICATING becomes READY.      *)
StateAfter(answer) ==
  IF state = "REPLICATING" /\ answer = "yes" THEN "READY"
  ELSE IF state = "REPLICATING" \/ answer = "none" THEN "MAYBE_BEHIND"
  ELSE state

-----------------------------------------------------------------------------
(* The commit, in the thread that holds engine_lock_.                      *)

(* PrepareForCommitPhase up to StartPrepareCommitPhase: the lock, the        *)
(* timestamp and the WAL file.                                             *)
TakeTimestamp ==
  /\ EngineFree /\ clock < MaxTs
  /\ clock' = clock + 1
  /\ wal' = IF wal.cur = 0 THEN [wal EXCEPT !.cur = clock + 1] ELSE wal
  /\ UNCHANGED <<cluster, committed, ldt, snapshots, work, rep, up, acked, rewound>>

Started(stream, failed) ==
  txn' = [NoTxn EXCEPT !.pc = "ship", !.prev = ldt, !.stream = stream,
                       !.failed = failed /\ mode # "ASYNC"]

(* StartTransactionReplication when the replica is not READY: the           *)
(* transaction is not sent.                                                *)
StartNotReady ==
  /\ TakeTimestamp /\ state # "READY" /\ Started(FALSE, TRUE)
  /\ state' = IF state = "REPLICATING" THEN "MAYBE_BEHIND" ELSE state
  /\ tasks' = IF state = "MAYBE_BEHIND" THEN Append(tasks, Check) ELSE tasks
  /\ UNCHANGED <<rpc, faults>>

(* The same when it is READY: the stream is opened and keeps the RPC lock.  *)
StartReady ==
  /\ TakeTimestamp /\ state = "READY" /\ rpc = "free" /\ up /\ Started(TRUE, FALSE)
  /\ state' = "REPLICATING" /\ rpc' = "txn"
  /\ UNCHANGED <<tasks, faults>>

(* An ASYNC client gives up when others, the checker or the pool, have the   *)
(* lock for too long.                                                      *)
StartMissesLock ==
  /\ TakeTimestamp /\ state = "READY" /\ mode = "ASYNC" /\ Started(FALSE, TRUE)
  /\ state' = "MAYBE_BEHIND"
  /\ UNCHANGED <<tasks, rpc, faults>>

StartNotConnected ==
  /\ TakeTimestamp /\ state = "READY" /\ rpc = "free" /\ Outcome("lost") /\ Started(FALSE, TRUE)
  /\ state' = "MAYBE_BEHIND"
  /\ UNCHANGED <<tasks, rpc>>

ReleaseStream == IF txn.stream THEN "free" ELSE rpc

(* Mutant: a transaction that is not sent any more is not a failure.        *)
NotReplicatingUnreported(pc) ==
  /\ state # "REPLICATING"
  /\ txn' = [txn EXCEPT !.pc = pc]
  /\ UNCHANGED client

(* FinalizePrepareCommitPhase and FinalizeTransactionReplication when the    *)
(* state has left REPLICATING since: nothing is sent.                      *)
NotReplicating(pc) ==
  /\ state # "REPLICATING"
  /\ state' = IF state = "READY" THEN "MAYBE_BEHIND" ELSE state
  /\ rpc' = IF state = "READY" THEN ReleaseStream ELSE rpc
  /\ txn' = [txn EXCEPT !.pc = pc, !.stream = @ /\ state # "READY", !.failed = mode # "ASYNC"]
  /\ UNCHANGED tasks

(* FinalizeTransactionReplication of an ASYNC client: the stream, and the    *)
(* RPC lock with it, moves into a task of the pool.                        *)
HandToPool(pc) ==
  /\ state = "REPLICATING"
  /\ IF txn.stream
     THEN rpc' = "pool" /\ tasks' = Append(tasks, Finalize(ts, txn.prev)) /\ UNCHANGED state
     ELSE state' = "MAYBE_BEHIND" /\ UNCHANGED <<rpc, tasks>>
  /\ txn' = [txn EXCEPT !.pc = pc, !.stream = FALSE]

(* Mutant: a write does not wait for the flush lock.                        *)
WritableAlways == TRUE

(* OutputFile::Write and FlushBuffer: while the pool's thread sends the open  *)
(* file it holds the flush lock of it shared, and the commit waits in        *)
(* AppendTransactionStart, before anything is shipped.                     *)
Writable == ~work.sending

(* ShipDeltas.  In a cluster with STRICT_SYNC replicas an ASYNC one waits   *)
(* for the decision.                                                       *)
ShipDeltas ==
  /\ txn.pc = "ship" /\ Writable
  /\ \/ mode = "ASYNC" /\ twoPC /\ txn' = [txn EXCEPT !.pc = "decide"] /\ UNCHANGED client
     \/ mode = "ASYNC" /\ ~twoPC /\ HandToPool("decide")
     \/ ~(mode = "ASYNC" /\ twoPC) /\ NotReplicating("decide")
  /\ UNCHANGED <<cluster, main, work, rep, up, acked, rewound, faults>>

(* ReplicaStream::Finalize of a SYNC or STRICT_SYNC client.                *)
SendPrepare ==
  /\ txn.pc = "ship" /\ Writable /\ mode # "ASYNC" /\ state = "REPLICATING"
  /\ \E o \in Outcomes :
       /\ Outcome(o)
       /\ rep' = IF Handled(o) THEN PrepareCommit(rep, ts, txn.prev) ELSE rep
       /\ txn' = [txn EXCEPT !.pc = "sent", !.answer = Answer(o, txn.prev)]
  /\ UNCHANGED <<cluster, main, client, work, up, acked, rewound>>

(* A STRICT_SYNC client keeps its stream for the second phase when there     *)
(* was an answer.                                                          *)
TakeAnswer ==
  /\ txn.pc = "sent"
  /\ LET keep == mode = "STRICT_SYNC" /\ txn.answer # "none"
     IN  /\ rpc' = IF keep THEN rpc ELSE "free"
         /\ txn' = [txn EXCEPT !.pc = "decide", !.stream = keep,
                               !.failed = ~(state = "REPLICATING" /\ txn.answer = "yes")]
  /\ state' = StateAfter(txn.answer)
  /\ UNCHANGED <<cluster, main, tasks, work, rep, up, acked, rewound, faults>>

(* FinalizeWalFile closes the file when it has grown too large.            *)
WalAfterCommit == {wal, [files |-> wal.files \cup {wal.cur}, cur |-> 0]}

(* The end of a commit without two phases: the main commits whatever the    *)
(* replicas said.                                                          *)
CommitAlone ==
  /\ txn.pc = "decide" /\ ~twoPC
  /\ committed' = committed \cup {ts} /\ ldt' = ts /\ wal' \in WalAfterCommit
  /\ acked' = IF txn.failed THEN acked ELSE acked \cup {ts}
  /\ rpc' = ReleaseStream /\ txn' = NoTxn
  /\ UNCHANGED <<cluster, clock, snapshots, state, tasks, work, rep, up, rewound, faults>>

(* The decision of a two-phase commit; the other replicas vote as well.    *)
Decide ==
  /\ txn.pc = "decide" /\ twoPC
  /\ \E others \in BOOLEAN :
       LET yes == others /\ ~txn.failed
       IN  /\ committed' = IF yes THEN committed \cup {ts} ELSE committed
           /\ ldt' = IF yes THEN ts ELSE ldt
           /\ txn' = [txn EXCEPT !.pc = "finalize", !.decision = yes]
  /\ wal' \in WalAfterCommit
  /\ UNCHANGED <<cluster, clock, snapshots, client, work, rep, up, acked, rewound, faults>>

(* Mutant: the client is not told that its transaction was aborted.         *)
AcknowledgeAlways == acked' = acked \cup {ts}
Acknowledge == acked' = IF txn.decision THEN acked \cup {ts} ELSE acked

(* SendFinalizeCommitRpc.  A failure of the second phase is not reported,   *)
(* and the state stays as it is.                                           *)
FinalizeStrict ==
  /\ txn.pc = "finalize" /\ mode = "STRICT_SYNC"
  /\ IF txn.stream
     THEN \E o \in Outcomes \ {"refused"} :
            /\ Outcome(o)
            /\ rep' = IF Handled(o) THEN FinalizeCommit(rep, ts, txn.decision) ELSE rep
     ELSE UNCHANGED <<rep, faults>>
  /\ rpc' = ReleaseStream /\ txn' = NoTxn /\ Acknowledge
  /\ UNCHANGED <<cluster, main, state, tasks, work, up, rewound>>

(* FinalizeTransaction for an ASYNC replica.  After an abort the stream is  *)
(* dropped; the state stays as it is.                                      *)
FinalizeAsync ==
  /\ txn.pc = "finalize" /\ mode = "ASYNC"
  /\ \/ txn.decision /\ NotReplicating("end")
     \/ txn.decision /\ HandToPool("end")
     \/ /\ ~txn.decision /\ rpc' = ReleaseStream
        /\ txn' = [txn EXCEPT !.pc = "end", !.stream = FALSE]
        /\ UNCHANGED <<state, tasks>>
  /\ UNCHANGED <<cluster, main, work, rep, up, acked, rewound, faults>>

EndAsync ==
  /\ txn.pc = "end" /\ Acknowledge
  /\ rpc' = ReleaseStream /\ txn' = NoTxn
  /\ UNCHANGED <<cluster, main, state, tasks, work, rep, up, rewound, faults>>

Commit ==
  \/ StartNotReady \/ StartReady \/ StartMissesLock \/ StartNotConnected
  \/ ShipDeltas \/ SendPrepare \/ TakeAnswer \/ CommitAlone \/ Decide
  \/ FinalizeStrict \/ FinalizeAsync \/ EndAsync

-----------------------------------------------------------------------------
(* The thread of the pool.                                                 *)

StartOf(kind) == CASE kind = "check" -> "heartbeat"
                   [] kind = "recover" -> "recover"
                   [] kind = "finalize" -> "send"

TakeTask ==
  /\ work.pc = "idle" /\ tasks # <<>>
  /\ LET t == Head(tasks)
     IN  work' = [Idle EXCEPT !.pc = StartOf(t.kind), !.from = t.from, !.ts = t.ts, !.prev = t.prev]
  /\ tasks' = Tail(tasks)
  /\ UNCHANGED <<cluster, main, txn, state, rpc, rep, up, acked, rewound, faults>>

(* The PrepareCommit of an ASYNC client, out of the pool.                  *)
SendPrepareAsync ==
  /\ work.pc = "send"
  /\ \E o \in Outcomes :
       /\ Outcome(o)
       /\ rep' = IF Handled(o) THEN PrepareCommit(rep, work.ts, work.prev) ELSE rep
       /\ work' = [Idle EXCEPT !.pc = "sent", !.answer = Answer(o, work.prev)]
  /\ UNCHANGED <<cluster, main, txn, client, up, acked, rewound>>

TakeAnswerAsync ==
  /\ work.pc = "sent"
  /\ state' = StateAfter(work.answer)
  /\ rpc' = "free" /\ work' = Idle
  /\ UNCHANGED <<cluster, main, txn, tasks, rep, up, acked, rewound, faults>>

(* UpdateReplicaState up to the engine lock: the RPC lock is not kept.  A    *)
(* refusal (the replica lacks the database, or has another main) ends the   *)
(* check and leaves this state as it is.                                   *)
Heartbeat ==
  /\ work.pc = "heartbeat" /\ rpc = "free"
  /\ \E o \in Outcomes :
       /\ Outcome(o)
       /\ work' = IF o = "ok" THEN [Idle EXCEPT !.pc = "compare", !.from = rep.ldt] ELSE Idle
       /\ state' = IF o \in {"ok", "refused"} THEN state ELSE "MAYBE_BEHIND"
  /\ UNCHANGED <<cluster, main, txn, tasks, rpc, rep, up, acked, rewound>>

(* Mutant: it waits for the lock.                                          *)
HeartbeatWaits ==
  /\ work.pc = "heartbeat" /\ mode = "ASYNC" /\ rpc = "free" /\ ~up
  /\ work' = Idle
  /\ UNCHANGED <<cluster, main, txn, client, rep, up, acked, rewound, faults>>

(* rpc::Client::TryStream: the heartbeat of an ASYNC client gives up.       *)
HeartbeatMissesLock ==
  /\ work.pc = "heartbeat" /\ mode = "ASYNC" /\ rpc # "free"
  /\ work' = Idle
  /\ UNCHANGED <<cluster, main, txn, client, rep, up, acked, rewound, faults>>

(* The rest of it, under the engine lock, on an answer that may be old.     *)
CompareTimestamps ==
  /\ work.pc = "compare" /\ EngineFree
  /\ IF work.from >= ldt
     THEN state' = "READY" /\ UNCHANGED tasks
     ELSE state' = "RECOVERY" /\ tasks' = Append(tasks, Recover(work.from))
  /\ work' = Idle
  /\ UNCHANGED <<cluster, main, txn, rpc, rep, up, acked, rewound, faults>>

-----------------------------------------------------------------------------
(* RecoverReplica.  A finalized WAL file ends where the next one begins.    *)

Largest(S) == CHOOSE x \in S : \A y \in S : y <= x
Smallest(S) == CHOOSE x \in S : \A y \in S : x <= y

LastFinalized == IF wal.cur = 0 THEN clock ELSE wal.cur - 1
EndOf(f) ==
  LET later == {g \in wal.files : f < g}
  IN  IF later = {} THEN LastFinalized ELSE Smallest(later) - 1
LatestSnapshot == IF snapshots = {} THEN 0 ELSE Largest(snapshots)

(* Mutant: a file that begins one transaction too late will do.             *)
CoveringLate(from) == {f \in wal.files : f <= from + 2}

(* GetWalChainInfo: the newest file that begins at or before the first       *)
(* transaction the replica lacks.                                          *)
Covering(from) == {f \in wal.files : f <= from + 1}
WalsBehind(from) == wal.files # {} /\ LastFinalized > from
UsesSnapshot(from) ==
  LatestSnapshot > from /\ (WalsBehind(from) => Covering(from) = {})
UsefulWals(from) ==
  IF ~WalsBehind(from) THEN {}
  ELSE IF Covering(from) # {} THEN {f \in wal.files : f >= Largest(Covering(from))}
  ELSE IF LatestSnapshot > from THEN {f \in wal.files : EndOf(f) > LatestSnapshot}
  ELSE wal.files

(* GetRecoverySteps: the finalized files if they reach back to the replica, *)
(* else the latest snapshot and the files after it; then the open file.     *)
GetRecoverySteps(from) ==
  LET wals == UsefulWals(from)
      durable == IF UsesSnapshot(from) THEN LatestSnapshot ELSE 0
  IN  [Idle EXCEPT !.pc = "steps", !.from = from, !.snap = durable,
                   !.lo = IF wals = {} THEN 0 ELSE Smallest(wals),
                   !.hi = IF wals = {} THEN 0 ELSE LastFinalized,
                   !.seq = IF wal.cur # 0 /\ durable < clock THEN wal.cur ELSE 0]

StartRecovery ==
  /\ work.pc = "recover" /\ EngineFree
  /\ work' = IF state = "RECOVERY" THEN GetRecoverySteps(work.from) ELSE Idle
  /\ UNCHANGED <<cluster, main, txn, client, rep, up, acked, rewound, faults>>

InSteps == work.pc = "steps"
RecoveryFailed == state' = "MAYBE_BEHIND" /\ work' = Idle

(* SnapshotRpc.                                                            *)
SendSnapshot ==
  /\ InSteps /\ work.snap # 0 /\ rpc = "free"
  /\ \E o \in Outcomes :
       /\ Outcome(o)
       /\ \/ Handled(o) /\ rep' = LoadSnapshot(work.snap)
          \/ ~Handled(o) /\ UNCHANGED rep
          \/ o = "refused" /\ rep' = ClearedStorage
       /\ IF o = "ok" THEN work' = [work EXCEPT !.from = work.snap, !.snap = 0] /\ UNCHANGED state
          ELSE RecoveryFailed
  /\ rewound' = (rewound \/ rep'.ldt < rep.ldt)
  /\ UNCHANGED <<cluster, main, txn, tasks, rpc, up, acked>>

(* WalFilesRpc and CurrentWalRpc carry the files lo..hi.  A file that does   *)
(* not load to its end leaves what was loaded.                             *)
SendWal(lo, hi, o, h) ==
  LET news == Missing(rep, lo, hi)
  IN  /\ Outcome(o)
      /\ h \in {rep.ldt} \cup news
      /\ Handled(o) => \A t \in news : t <= h
      /\ o = "lost" => h = rep.ldt
      /\ rep' = IF o = "lost" THEN rep ELSE LoadWal(rep, lo, h)

SendWals ==
  /\ InSteps /\ work.snap = 0 /\ work.lo # 0 /\ rpc = "free"
  /\ \E o \in Outcomes, h \in Timestamps :
       /\ SendWal(work.lo, work.hi, o, h)
       /\ IF o = "ok" THEN work' = [work EXCEPT !.from = h, !.lo = 0, !.hi = 0] /\ UNCHANGED state
          ELSE RecoveryFailed
  /\ UNCHANGED <<cluster, main, txn, tasks, rpc, up, acked, rewound>>

(* The open file, under the engine lock: if it is still the one that was     *)
(* seen, its flushing is disabled; else there is nothing to send.          *)
DisableFlushing ==
  /\ InSteps /\ work.snap = 0 /\ work.lo = 0 /\ work.seq # 0 /\ ~work.sending /\ EngineFree
  /\ work' = IF wal.cur = work.seq THEN [work EXCEPT !.sending = TRUE] ELSE [work EXCEPT !.seq = 0]
  /\ UNCHANGED <<cluster, main, txn, client, rep, up, acked, rewound, faults>>

(* The file is sent without the engine lock, and its flushing enabled again; *)
(* CurrentWalHandler answers with what was loaded even if that is not all.  *)
SendCurrentWal ==
  /\ InSteps /\ work.sending /\ rpc = "free"
  /\ \E o \in Outcomes, h \in Timestamps :
       /\ SendWal(wal.cur, clock, o, h)
       /\ IF o \in {"ok", "refused"}
          THEN work' = [work EXCEPT !.from = h, !.seq = 0, !.sending = FALSE] /\ UNCHANGED state
          ELSE RecoveryFailed
  /\ UNCHANGED <<cluster, main, txn, tasks, rpc, up, acked, rewound>>

StepMissesLock ==
  /\ InSteps /\ mode = "ASYNC" /\ rpc # "free"
  /\ work.snap # 0 \/ work.lo # 0 \/ work.sending
  /\ RecoveryFailed
  /\ UNCHANGED <<cluster, main, txn, tasks, rpc, rep, up, acked, rewound, faults>>

(* The exit, under the engine lock.                                        *)
EndRecovery ==
  /\ InSteps /\ work.snap = 0 /\ work.lo = 0 /\ work.seq = 0 /\ EngineFree
  /\ state' = IF ldt <= work.from THEN "READY" ELSE "MAYBE_BEHIND"
  /\ work' = Idle
  /\ UNCHANGED <<cluster, main, txn, tasks, rpc, rep, up, acked, rewound, faults>>

Pool ==
  \/ TakeTask \/ SendPrepareAsync \/ TakeAnswerAsync
  \/ Heartbeat \/ HeartbeatMissesLock \/ CompareTimestamps
  \/ StartRecovery \/ SendSnapshot \/ SendWals \/ DisableFlushing \/ SendCurrentWal
  \/ StepMissesLock \/ EndRecovery

-----------------------------------------------------------------------------
(* StartFrequentCheck and its two callbacks.                               *)
CheckerSucceeds ==
  /\ up /\ state = "MAYBE_BEHIND" /\ Len(tasks) < MaxChecks
  /\ tasks' = Append(tasks, Check)
  /\ UNCHANGED <<cluster, main, txn, state, rpc, work, rep, up, acked, rewound, faults>>

CheckerFails ==
  /\ state # "MAYBE_BEHIND" /\ state' = "MAYBE_BEHIND"
  /\ ~up \/ faults < MaxFaults
  /\ faults' = IF up THEN faults + 1 ELSE faults
  /\ UNCHANGED <<cluster, main, txn, tasks, rpc, work, rep, up, acked, rewound>>

(* The replica's process stops and starts: the transaction in two_pc_cache_ *)
(* is in its WAL without the commit flag, and is not recovered.            *)
ReplicaStops ==
  /\ up /\ faults < MaxFaults /\ faults' = faults + 1
  /\ up' = FALSE /\ rep' = [rep EXCEPT !.prepared = 0]
  /\ UNCHANGED <<cluster, main, txn, client, work, acked, rewound>>

ReplicaStarts ==
  /\ ~up /\ up' = TRUE
  /\ UNCHANGED <<cluster, main, txn, client, work, rep, acked, rewound, faults>>

(* EnsureRetentionCountSnapshotsExist: the older snapshots that stay beside  *)
(* a new one.                                                              *)
OldSnapshots == {s \in snapshots : Cardinality({t \in snapshots : s < t}) < Retention - 1}

(* Mutant: every file that begins before the oldest snapshot goes.          *)
NecessaryWalsStrict(oldest) == {f \in wal.files : f > oldest}

(* EnsureNecessaryWalFilesExist: of the files that begin before the oldest   *)
(* snapshot one stays, the open one if it is that.                         *)
NecessaryWals(oldest) ==
  LET before == {f \in wal.files \cup ({wal.cur} \ {0}) : f <= oldest}
  IN  {f \in wal.files : before # {} => f >= Largest(before)}

CreateSnapshot ==
  /\ LatestSnapshot < ldt
  /\ snapshots' = OldSnapshots \cup {ldt}
  /\ wal' = IF Cardinality(OldSnapshots) = Retention - 1
            THEN [wal EXCEPT !.files = NecessaryWals(Smallest(snapshots'))]
            ELSE wal
  /\ UNCHANGED <<cluster, clock, committed, ldt, txn, client, work, rep, up, acked, rewound, faults>>

Next ==
  \/ Commit \/ Pool \/ CheckerSucceeds \/ CheckerFails
  \/ ReplicaStops \/ ReplicaStarts \/ CreateSnapshot

Spec == Init /\ [][Next]_vars

(* The thread that commits and the pool's thread go on when they can, the   *)
(* checker, which needs the RPC lock, comes round again, and a replica that  *)
(* stopped is started.                                                     *)
Fairness ==
  /\ WF_vars(Commit /\ ~EngineFree) /\ WF_vars(Pool)
  /\ WF_vars(CheckerSucceeds /\ rpc = "free") /\ WF_vars(CheckerFails /\ ~up)
  /\ WF_vars(ReplicaStarts)
FairSpec == Spec /\ Fairness

-----------------------------------------------------------------------------
Tasks == [kind : {"check", "recover", "finalize"}, from : Timestamps, ts : Timestamps, prev : Timestamps]
Works == [pc : {"idle", "heartbeat", "compare", "recover", "send", "sent", "steps"},
          from : Timestamps, ts : Timestamps, prev : Timestamps, answer : {"none", "yes", "no"},
          snap : Timestamps, lo : Timestamps, hi : Timestamps, seq : Timestamps,
          sending : BOOLEAN]

TypeOK ==
  /\ mode \in {"SYNC", "ASYNC", "STRICT_SYNC"} /\ twoPC \in BOOLEAN
  /\ clock \in Timestamps /\ committed \subseteq 1..clock /\ ldt \in Timestamps
  /\ wal \in [files : SUBSET (1..clock), cur : 0..clock] /\ snapshots \subseteq 1..ldt
  /\ txn \in [pc : {"idle", "ship", "sent", "decide", "finalize", "end"},
              prev : Timestamps, stream : BOOLEAN, answer : {"none", "yes", "no"},
              failed : BOOLEAN, decision : BOOLEAN]
  /\ state \in States /\ tasks \in Seq(Tasks) /\ work \in Works
  /\ rpc \in {"free", "txn", "pool"}
  /\ rep \in [applied : SUBSET (1..clock), ldt : Timestamps, prepared : Timestamps]
  /\ up \in BOOLEAN /\ acked \subseteq committed /\ rewound \in BOOLEAN /\ faults \in Nat

(* What the main has committed, and what it is certain to commit.          *)
Certain == committed \cup (IF EngineFree \/ twoPC THEN {} ELSE {ts})

(* The replica holds exactly the transactions of the main up to the          *)
(* timestamp it reports.                                                    *)
PrefixOfMain == rep.applied = {t \in Certain : t <= rep.ldt}

(* RecoverReplica, GetRecoverySteps and PrepareCommitHandler: whatever is    *)
(* lost, late, refused or restarted, the replica has no gap and nothing that *)
(* the main aborts, as long as no snapshot took the replica back (a task     *)
(* that waited in the pool then recovers from a timestamp no longer true,    *)
(* see ReadyIsRecovered).                                                   *)
GaplessPrefix == ~rewound => PrefixOfMain

(* UpdateReplicaState and the exit of RecoverReplica: outside a commit the    *)
(* replica of a READY client has the main's last transaction, whatever the   *)
(* order of commits, late answers, checks and recovery tasks.  STRICT_SYNC   *)
(* is left out: there it fails once the second phase is lost, see            *)
(* HeartbeatRecovers.                                                       *)
ReadyIsCurrent ==
  state = "READY" /\ EngineFree /\ mode # "STRICT_SYNC" => rep.ldt = ldt

(* What the comment above RecoverReplica promises ("The replica will be       *)
(* considered as READY if it gets fully recovered"), without GaplessPrefix's *)
(* exception: it holds all the main has committed.  Violated: a recovery     *)
(* task that waited while a snapshot failed to load there leaves a gap.     *)
ReadyIsRecovered ==
  state = "READY" /\ EngineFree /\ mode # "STRICT_SYNC" => rep.applied = committed

(* FinalizeTransactionReplication and the two phases of STRICT_SYNC: a       *)
(* commit reported without a failure is on the SYNC replica; on a            *)
(* STRICT_SYNC replica only the last one may be missing, since the next      *)
(* commit is refused there.                                                *)
AckedIsReplicated ==
  ~rewound => /\ mode = "SYNC" => acked \subseteq rep.applied
              /\ mode = "STRICT_SYNC" => acked \subseteq rep.applied \cup {ldt}

(* RecoverReplica reads wal_file_ after it has let the engine lock go: the   *)
(* file it sends is still the open one it compared, and no commit has closed *)
(* it or opened another.                                                    *)
SentFileIsOpen == work.sending => wal.cur # 0 /\ wal.cur = work.seq

(* MG_ASSERT "Broken data chain." of GetRecoverySteps, and its error          *)
(* "Replication steps incomplete": the WAL files that retention leaves reach *)
(* back to the latest snapshot, or to the beginning.                        *)
ChainUnbroken ==
  LET files == wal.files \cup ({wal.cur} \ {0})
  IN  files # {} => 1 \in files \/ (snapshots # {} /\ Smallest(files) <= LatestSnapshot)

(* The checker and the pool: a replica has everything once the commits and   *)
(* the faults end; in particular the pool's thread never waits for the RPC   *)
(* lock that a task behind it in the queue holds.  One replica may stay       *)
(* behind: a STRICT_SYNC one that missed the second phase, whose client      *)
(* stays READY, and the checker asks only a client that is MAYBE_BEHIND.    *)
EventuallyCurrent == <>[](rep.ldt = ldt \/ (mode = "STRICT_SYNC" /\ state = "READY"))

(* What the comment in SendFinalizeCommitRpc promises of that replica too     *)
(* ("Frequent heartbeat should trigger the recovery"): it gets everything    *)
(* once the commits and the faults end.  Violated.                          *)
HeartbeatRecovers == <>[](rep.ldt = ldt)
=============================================================================

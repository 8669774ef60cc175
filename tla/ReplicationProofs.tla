------------------------- MODULE ReplicationProofs -------------------------
(***************************************************************************)
(* Proofs about module Replication, for any number of commits, faults,      *)
(* waiting checks and retained snapshots.                                  *)
(*                                                                         *)
(* None of the properties is inductive: each speaks of the main and the     *)
(* replica, and what relates the two is under way, in a commit, a task, an   *)
(* answer or a recovery.  The invariant says of each of these what it can    *)
(* still rely on:                                                          *)
(*  - MainInv, WalInv: the last durable timestamp is that of the last        *)
(*    commit, and the WAL files left reach back to a snapshot;              *)
(*  - LockInv: the RPC lock is with the commit, with one transaction in the  *)
(*    pool, or free, so two transactions are never on their way at once;     *)
(*  - SendInv: the open WAL file that is being sent stays open, since the      *)
(*    commit waits for the flush lock;                                      *)
(*  - RepInv: a transaction that waits to be sent follows what the replica   *)
(*    was sent before it;                                                  *)
(*  - StateInv, BeliefInv: what READY and REPLICATING promise, and that a     *)
(*    timestamp somebody remembers of the replica is not above its own;     *)
(*  - RecoverInv: the recovery steps that are left reach back to the replica *)
(*    and to each other;                                                   *)
(*  - AckInv: what the votes of a commit say of the replica.                *)
(* The last two hold until a snapshot takes the replica back (rewound).      *)
(***************************************************************************)
EXTENDS Replication, WellFoundedInduction, TLAPS

(* The least and the largest element of a set of timestamps.               *)
LEMMA SmallestIsLeast ==
  ASSUME NEW S \in SUBSET Nat, S # {}
  PROVE  Smallest(S) \in S /\ \A y \in S : Smallest(S) <= y
<1> DEFINE R == OpToRel(<, Nat)
<1>1. IsWellFoundedOn(R, Nat)
  BY NatLessThanWellFounded
<1>2. \A x, y \in S : <<y, x>> \in R <=> y < x
  BY DEF OpToRel
<1> HIDE DEF R
<1>3. PICK x \in S : \A y \in S : <<y, x>> \notin R
  BY <1>1, WFMin
<1>4. \A y \in S : x <= y
  <2>1. \A y \in S : ~(y < x)
    BY <1>2, <1>3
  <2> QED BY <2>1
<1>5. \E z \in S : \A y \in S : z <= y
  BY <1>4
<1> QED BY <1>5, Zenon DEF Smallest

(* The same from above, for a bounded set.                                  *)
LEMMA LargestIsGreatest ==
  ASSUME NEW n \in Nat, NEW S \in SUBSET (0..n), S # {}
  PROVE  Largest(S) \in S /\ \A y \in S : y <= Largest(S)
<1> DEFINE T == {n - x : x \in S}
<1>0. S \subseteq 0..n
  OBVIOUS
<1>1. T \in SUBSET Nat /\ T # {}
  <2>1. \A x \in S : n - x \in Nat
    BY <1>0
  <2> QED BY <2>1
<1>2. Smallest(T) \in T /\ \A y \in T : Smallest(T) <= y
  BY <1>1, SmallestIsLeast
<1>3. PICK x \in S : Smallest(T) = n - x
  BY <1>2
<1>4. ASSUME NEW y \in S PROVE y <= x
  <2>1. n - y \in T
    OBVIOUS
  <2>2. n - x <= n - y
    BY <1>2, <1>3, <2>1
  <2> QED BY <1>0, <2>2
<1>5. \E z \in S : \A y \in S : y <= z
  BY <1>4
<1> QED BY <1>5, Zenon DEF Largest

-----------------------------------------------------------------------------
(* The main: what it has committed, and the commit under way.              *)

Answers == {"none", "yes", "no"}
Txns == [pc : {"idle", "ship", "sent", "decide", "finalize", "end"},
         prev : Timestamps, stream : BOOLEAN, answer : Answers,
         failed : BOOLEAN, decision : BOOLEAN]

MainTypes ==
  /\ mode \in {"SYNC", "ASYNC", "STRICT_SYNC"} /\ twoPC \in BOOLEAN
  /\ clock \in Timestamps /\ committed \subseteq 1..clock /\ ldt \in Timestamps
  /\ wal \in [files : SUBSET (1..clock), cur : 0..clock] /\ snapshots \subseteq 1..ldt
  /\ txn \in Txns /\ acked \subseteq committed

(* The commit that holds the engine lock is not decided yet.               *)
Undecided == txn.pc \in {"ship", "sent", "decide"}

(* The main's last durable timestamp is that of its last commit, and the     *)
(* next one carries it as its predecessor.                                 *)
MainInv ==
  /\ MainTypes
  /\ mode = "SYNC" => ~twoPC
  /\ mode = "STRICT_SYNC" => twoPC
  /\ ldt \in committed \cup {0} /\ \A x \in committed : x <= ldt
  /\ Undecided => clock \notin committed /\ txn.prev = ldt /\ wal.cur # 0
  /\ txn.pc \in {"finalize", "end"} => twoPC /\ (txn.decision => ldt = clock)
  /\ txn.pc = "finalize" => \A x \in committed : x < clock => x <= txn.prev
  /\ ~EngineFree => clock > 0
  /\ txn.pc = "sent" => mode # "ASYNC"
  /\ txn.pc = "end" => mode = "ASYNC"
  /\ snapshots \subseteq committed

(* The WAL files that are left: there is one as soon as there was a commit,  *)
(* and the open one is the last.                                           *)
AllFiles == wal.files \cup ({wal.cur} \ {0})
WalInv ==
  /\ ChainUnbroken
  /\ clock > 0 => AllFiles # {}
  /\ wal.cur # 0 => \A f \in wal.files : f < wal.cur

(* Everything of the main's but the clients.                               *)
mainVars == <<cluster, main, txn, acked>>

(* The bound is a positive number.                                          *)
LEMMA MaxTsType == MaxTs \in Nat /\ MaxTs >= 1 /\ Timestamps = 0..MaxTs
BY BoundsAssumption DEF Timestamps

(* What the beginning of a commit changes.                                 *)
LEMMA StartMain ==
  ASSUME MainInv, NEW stream \in BOOLEAN, NEW failed \in BOOLEAN,
         TakeTimestamp, Started(stream, failed)
  PROVE  MainInv'
<1>1. /\ clock' = clock + 1 /\ clock' \in Timestamps /\ txn' \in Txns
      /\ txn'.pc = "ship" /\ txn'.prev = ldt
      /\ UNCHANGED <<mode, twoPC, committed, ldt, snapshots, acked>>
  <2> DEFINE b == failed /\ mode # "ASYNC"
  <2>1. b \in BOOLEAN /\ ldt \in Timestamps
    BY DEF MainInv, MainTypes
  <2>2. txn' = [NoTxn EXCEPT !.pc = "ship", !.prev = ldt, !.stream = stream, !.failed = b]
    BY DEF Started
  <2> HIDE DEF b
  <2>3. txn' \in Txns /\ txn'.pc = "ship" /\ txn'.prev = ldt
    BY <2>1, <2>2, MaxTsType DEF NoTxn, Txns, Answers
  <2>4. clock' = clock + 1 /\ clock' \in Timestamps
    BY MaxTsType DEF MainInv, MainTypes, TakeTimestamp
  <2> QED BY <2>3, <2>4 DEF TakeTimestamp, cluster
<1>2. wal' \in [files : SUBSET (1..clock'), cur : 0..clock'] /\ wal'.cur # 0
  <2>1. wal \in [files : SUBSET (1..clock), cur : 0..clock] /\ clock \in Nat
    BY MaxTsType DEF MainInv, MainTypes
  <2>2. wal \in [files : SUBSET (1..clock'), cur : 0..clock']
    BY <1>1, <2>1
  <2>3. wal' = IF wal.cur = 0 THEN [wal EXCEPT !.cur = clock'] ELSE wal
    BY <1>1 DEF TakeTimestamp
  <2> QED BY <1>1, <2>1, <2>2, <2>3
<1>3. committed \subseteq 1..clock' /\ clock' \notin committed /\ clock' > 0
  BY <1>1, MaxTsType DEF MainInv, MainTypes
<1>4. MainTypes'
  BY <1>1, <1>2, <1>3 DEF MainInv, MainTypes
<1> QED BY <1>1, <1>2, <1>3, <1>4 DEF MainInv, Undecided, EngineFree

(* A step of the commit that changes the transaction only.                 *)
LEMMA TxnMain ==
  ASSUME MainInv, txn' \in Txns, UNCHANGED <<cluster, main, acked>>,
         ~EngineFree,
         Undecided' => Undecided /\ txn'.prev = txn.prev,
         txn'.pc # "finalize",
         txn'.pc = "end" => txn.pc = "finalize" /\ txn'.decision = txn.decision,
         txn'.pc = "sent" => mode # "ASYNC",
         txn'.pc = "end" => mode = "ASYNC"
  PROVE  MainInv'
<1>1. UNCHANGED <<mode, twoPC, clock, committed, ldt, wal, snapshots>>
  BY DEF cluster, main
<1>2. MainTypes'
  BY <1>1 DEF MainInv, MainTypes
<1> QED BY <1>1, <1>2 DEF MainInv, EngineFree

(* No commit is under way.                                                  *)
LEMMA NoTxnType == NoTxn \in Txns /\ NoTxn.pc = "idle" /\ NoTxn.stream = FALSE
BY MaxTsType DEF NoTxn, Txns, Answers

(* The WAL file may be closed at the end.                                  *)
LEMMA WalAfterType ==
  ASSUME MainInv, Undecided, NEW w \in WalAfterCommit
  PROVE  w \in [files : SUBSET (1..clock), cur : 0..clock]
BY MaxTsType DEF WalAfterCommit, MainInv, MainTypes

(* ShipDeltas, FinalizeAsync: what the transaction becomes.                *)
LEMMA NotReplicatingTxn ==
  ASSUME MainTypes, NEW pc \in {"decide", "end"}, NotReplicating(pc)
  PROVE  /\ txn' \in Txns /\ txn'.pc = pc /\ txn'.prev = txn.prev
         /\ txn'.decision = txn.decision /\ txn'.answer = txn.answer
         /\ txn'.stream = (txn.stream /\ state # "READY")
         /\ txn'.failed = (mode # "ASYNC")
<1> DEFINE a == txn.stream /\ state # "READY"
           b == mode # "ASYNC"
<1>1. txn' = [txn EXCEPT !.pc = pc, !.stream = a, !.failed = b]
  BY DEF NotReplicating
<1>2. a \in BOOLEAN /\ b \in BOOLEAN /\ txn \in Txns
  BY DEF MainTypes
<1>3. /\ txn' \in Txns /\ txn'.pc = pc /\ txn'.prev = txn.prev
      /\ txn'.decision = txn.decision /\ txn'.answer = txn.answer
      /\ txn'.stream = a /\ txn'.failed = b
  <2> HIDE DEF a, b
  <2> QED BY <1>1, <1>2 DEF Txns
<1> QED BY <1>3

(* A commit whose stream moved into the pool.                               *)
LEMMA HandToPoolTxn ==
  ASSUME MainTypes, NEW pc \in {"decide", "end"}, HandToPool(pc)
  PROVE  /\ txn' \in Txns /\ txn'.pc = pc /\ txn'.prev = txn.prev
         /\ txn'.decision = txn.decision /\ txn'.stream = FALSE
BY DEF HandToPool, MainTypes, Txns

(* The deltas of a commit change nothing of the main's.                     *)
LEMMA ShipMain ==
  ASSUME MainInv, ShipDeltas
  PROVE  MainInv' /\ txn.pc = "ship" /\ txn'.pc = "decide"
<1>1. txn.pc = "ship" /\ UNCHANGED <<cluster, main, acked>>
  BY DEF ShipDeltas
<1>2. txn' \in Txns /\ txn'.pc = "decide" /\ txn'.prev = txn.prev
  <2>1. CASE txn' = [txn EXCEPT !.pc = "decide"]
    BY <2>1 DEF MainInv, MainTypes, Txns
  <2>2. CASE HandToPool("decide")
    BY <2>2, HandToPoolTxn DEF MainInv
  <2>3. CASE NotReplicating("decide")
    BY <2>3, NotReplicatingTxn DEF MainInv
  <2> QED BY <2>1, <2>2, <2>3 DEF ShipDeltas
<1> QED BY <1>1, <1>2, TxnMain DEF Undecided, EngineFree

(* Nor does a prepare that was sent.                                        *)
LEMMA SendPrepareMain ==
  ASSUME MainInv, SendPrepare
  PROVE  MainInv'
<1>1. txn.pc = "ship" /\ mode # "ASYNC" /\ UNCHANGED <<cluster, main, acked>>
  BY DEF SendPrepare
<1>2. PICK o \in Outcomes : txn' = [txn EXCEPT !.pc = "sent", !.answer = Answer(o, txn.prev)]
  BY DEF SendPrepare
<1>3. Answer(o, txn.prev) \in Answers
  BY DEF Answer, Answers
<1>4. txn' \in Txns /\ txn'.pc = "sent" /\ txn'.prev = txn.prev
  BY <1>2, <1>3 DEF MainInv, MainTypes, Txns
<1> QED BY <1>1, <1>4, TxnMain DEF Undecided, EngineFree

(* What a commit remembers of its answer.                                   *)
LEMMA TakeAnswerTxn ==
  ASSUME MainTypes, TakeAnswer
  PROVE  /\ txn' \in Txns /\ txn'.pc = "decide" /\ txn'.prev = txn.prev
         /\ txn'.stream = (mode = "STRICT_SYNC" /\ txn.answer # "none")
         /\ txn'.failed = ~(state = "REPLICATING" /\ txn.answer = "yes")
<1> DEFINE a == mode = "STRICT_SYNC" /\ txn.answer # "none"
           b == ~(state = "REPLICATING" /\ txn.answer = "yes")
<1>1. txn' = [txn EXCEPT !.pc = "decide", !.stream = a, !.failed = b]
  BY DEF TakeAnswer
<1>2. a \in BOOLEAN /\ b \in BOOLEAN /\ txn \in Txns
  BY DEF MainTypes
<1>3. /\ txn' \in Txns /\ txn'.pc = "decide" /\ txn'.prev = txn.prev
      /\ txn'.stream = a /\ txn'.failed = b
  <2> HIDE DEF a, b
  <2> QED BY <1>1, <1>2 DEF Txns
<1> QED BY <1>3

(* The answer brings it to the decision.                                    *)
LEMMA TakeAnswerMain ==
  ASSUME MainInv, TakeAnswer
  PROVE  MainInv'
<1>1. txn.pc = "sent" /\ UNCHANGED <<cluster, main, acked>>
  BY DEF TakeAnswer
<1>2. txn' \in Txns /\ txn'.pc = "decide" /\ txn'.prev = txn.prev
  BY TakeAnswerTxn DEF MainInv
<1> QED BY <1>1, <1>2, TxnMain DEF Undecided, EngineFree

(* The main commits, or decides not to.                                    *)
LEMMA CommitAloneMain ==
  ASSUME MainInv, CommitAlone
  PROVE  MainInv'
<1>1. /\ txn.pc = "decide" /\ ~EngineFree /\ Undecided
      /\ committed' = committed \cup {clock} /\ ldt' = clock
      /\ wal' \in WalAfterCommit /\ txn' = NoTxn
      /\ UNCHANGED <<mode, twoPC, clock, snapshots>>
      /\ acked' \subseteq acked \cup {clock}
  BY DEF CommitAlone, ts, cluster, EngineFree, Undecided
<1>2. wal' \in [files : SUBSET (1..clock), cur : 0..clock]
  BY <1>1, WalAfterType
<1>3. clock \in 1..clock /\ clock \in Timestamps /\ ldt \in 0..clock
  BY <1>1, MaxTsType DEF MainInv, MainTypes
<1>4. committed' \subseteq 1..clock /\ \A x \in committed' : x <= clock
  BY <1>1, <1>3 DEF MainInv, MainTypes
<1>5. snapshots \subseteq 1..ldt'
  BY <1>1, <1>3 DEF MainInv, MainTypes
<1>6. MainTypes'
  BY <1>1, <1>2, <1>3, <1>4, <1>5, NoTxnType DEF MainInv, MainTypes
<1> QED BY <1>1, <1>4, <1>6, NoTxnType DEF MainInv, Undecided, EngineFree

(* Two phases: the main commits if everybody agreed.                        *)
LEMMA DecideMain ==
  ASSUME MainInv, Decide
  PROVE  /\ MainInv'
         /\ txn.pc = "decide" /\ twoPC /\ UNCHANGED <<mode, twoPC, clock>>
         /\ txn'.pc = "finalize" /\ txn'.stream = txn.stream
         /\ \/ ~txn.failed /\ committed' = committed \cup {clock} /\ ldt' = clock
            \/ UNCHANGED <<committed, ldt>> /\ ~txn'.decision
<1>1. /\ txn.pc = "decide" /\ twoPC /\ ~EngineFree /\ Undecided
      /\ wal' \in WalAfterCommit
      /\ UNCHANGED <<mode, twoPC, clock, snapshots, acked>>
  BY DEF Decide, cluster, EngineFree, Undecided
<1>2. PICK others \in BOOLEAN :
        LET yes == others /\ ~txn.failed
        IN  /\ committed' = IF yes THEN committed \cup {ts} ELSE committed
            /\ ldt' = IF yes THEN ts ELSE ldt
            /\ txn' = [txn EXCEPT !.pc = "finalize", !.decision = yes]
  BY DEF Decide
<1> DEFINE yes == others /\ ~txn.failed
<1>3. yes \in BOOLEAN /\ txn \in Txns
  BY DEF MainInv, MainTypes
<1>4. txn' = [txn EXCEPT !.pc = "finalize", !.decision = yes]
  BY <1>2
<1>5. /\ txn' \in Txns /\ txn'.pc = "finalize" /\ txn'.decision = yes
      /\ txn'.stream = txn.stream /\ txn'.prev = txn.prev
  <2> HIDE DEF yes
  <2> QED BY <1>3, <1>4 DEF Txns
<1>6. wal' \in [files : SUBSET (1..clock), cur : 0..clock] /\ clock > 0
  BY <1>1, WalAfterType DEF MainInv
<1>7. clock \in 1..clock /\ clock \in Timestamps /\ ldt \in 0..clock
  BY <1>6, MaxTsType DEF MainInv, MainTypes
<1>8. CASE yes
  <2>1. committed' = committed \cup {clock} /\ ldt' = clock
    BY <1>2, <1>8 DEF ts
  <2>2. committed' \subseteq 1..clock /\ \A x \in committed' : x <= clock
    BY <1>7, <2>1 DEF MainInv, MainTypes
  <2>3. snapshots \subseteq 1..ldt'
    BY <1>7, <2>1 DEF MainInv, MainTypes
  <2>4. MainTypes'
    BY <1>1, <1>5, <1>6, <1>7, <2>1, <2>2, <2>3 DEF MainInv, MainTypes
  <2>5. \A x \in committed' : x < clock => x <= txn'.prev
    BY <1>1, <1>5, <1>7, <2>1 DEF MainInv
  <2> QED BY <1>1, <1>5, <1>6, <1>8, <2>1, <2>2, <2>4, <2>5 DEF MainInv, Undecided, EngineFree
<1>9. CASE ~yes
  <2>1. committed' = committed /\ ldt' = ldt
    BY <1>2, <1>9
  <2>2. MainTypes'
    BY <1>1, <1>5, <1>6, <2>1 DEF MainInv, MainTypes
  <2> QED BY <1>1, <1>5, <1>6, <1>9, <2>1, <2>2 DEF MainInv, Undecided, EngineFree
<1> QED BY <1>8, <1>9

(* The end of a two-phase commit.                                          *)
LEMMA AcknowledgedMain ==
  ASSUME MainInv, txn.pc \in {"finalize", "end"}, txn' = NoTxn, Acknowledge,
         UNCHANGED <<cluster, main>>
  PROVE  MainInv'
<1>1. UNCHANGED <<mode, twoPC, clock, committed, ldt, wal, snapshots>>
  BY DEF cluster, main
<1>2. acked' \subseteq committed
  <2>1. CASE txn.decision
    <3>1. ldt = clock /\ clock > 0 /\ ldt \in committed \cup {0}
      BY <2>1 DEF MainInv, EngineFree
    <3>2. clock \in committed
      BY <3>1
    <3> QED BY <2>1, <3>2 DEF Acknowledge, ts, MainInv, MainTypes
  <2>2. CASE ~txn.decision
    BY <2>2 DEF Acknowledge, MainInv, MainTypes
  <2> QED BY <2>1, <2>2
<1>3. MainTypes'
  BY <1>1, <1>2, NoTxnType DEF MainInv, MainTypes
<1> QED BY <1>1, <1>3, NoTxnType DEF MainInv, Undecided, EngineFree

(* The second phase for an ASYNC replica.                                   *)
LEMMA FinalizeAsyncMain ==
  ASSUME MainInv, FinalizeAsync
  PROVE  MainInv' /\ txn'.pc = "end" /\ txn'.decision = txn.decision
<1>1. txn.pc = "finalize" /\ mode = "ASYNC" /\ UNCHANGED <<cluster, main, acked>>
  BY DEF FinalizeAsync
<1>2. txn' \in Txns /\ txn'.pc = "end" /\ txn'.decision = txn.decision
  <2>1. CASE NotReplicating("end")
    BY <2>1, NotReplicatingTxn DEF MainInv
  <2>2. CASE HandToPool("end")
    BY <2>2, HandToPoolTxn DEF MainInv
  <2>3. CASE txn' = [txn EXCEPT !.pc = "end", !.stream = FALSE]
    BY <2>3 DEF MainInv, MainTypes, Txns
  <2> QED BY <2>1, <2>2, <2>3 DEF FinalizeAsync
<1> QED BY <1>1, <1>2, TxnMain DEF Undecided, EngineFree

(* Files and snapshots.                                                    *)
LEMMA FilesTypes ==
  ASSUME MainInv
  PROVE  /\ clock \in Nat /\ ldt \in 0..clock /\ AllFiles \in SUBSET (1..clock)
         /\ snapshots \in SUBSET (1..ldt)
         /\ LatestSnapshot \in 0..ldt
         /\ \A s \in snapshots : s <= LatestSnapshot
         /\ snapshots # {} => LatestSnapshot \in snapshots
<1>1. clock \in Nat /\ ldt \in 0..clock
  BY MaxTsType DEF MainInv, MainTypes
<1>2. AllFiles \in SUBSET (1..clock)
  BY <1>1 DEF MainInv, MainTypes, AllFiles
<1>3. snapshots \in SUBSET (1..ldt)
  BY DEF MainInv, MainTypes
<1>4. snapshots # {} => Largest(snapshots) \in snapshots
                        /\ \A s \in snapshots : s <= Largest(snapshots)
  BY <1>1, <1>3, LargestIsGreatest
<1> HIDE DEF Largest
<1>5. LatestSnapshot \in 0..ldt
  <2>1. CASE snapshots = {}
    BY <1>1, <2>1 DEF LatestSnapshot
  <2>2. CASE snapshots # {}
    <3>1. LatestSnapshot \in snapshots
      BY <1>4, <2>2 DEF LatestSnapshot
    <3> QED BY <1>1, <1>3, <3>1
  <2> QED BY <2>1, <2>2
<1>6. \A s \in snapshots : s <= LatestSnapshot
  BY <1>4 DEF LatestSnapshot
<1>7. snapshots # {} => LatestSnapshot \in snapshots
  BY <1>4 DEF LatestSnapshot
<1> QED BY <1>1, <1>2, <1>3, <1>5, <1>6, <1>7

(* A snapshot of the main is one of its commits.                            *)
LEMMA SnapshotMain ==
  ASSUME MainInv, CreateSnapshot
  PROVE  MainInv'
<1>1. /\ snapshots' = OldSnapshots \cup {ldt}
      /\ wal'.cur = wal.cur /\ wal'.files \subseteq wal.files
      /\ wal' \in [files : SUBSET (1..clock), cur : 0..clock]
      /\ UNCHANGED <<mode, twoPC, clock, committed, ldt, txn, acked>>
  BY DEF CreateSnapshot, MainInv, MainTypes, NecessaryWals, cluster
<1>2. LatestSnapshot \in 0..ldt /\ ldt \in Nat
  BY FilesTypes, MaxTsType DEF MainInv, MainTypes
<1>3. ldt \in Nat /\ ldt > 0
  BY <1>2 DEF CreateSnapshot
<1>4. ldt \in committed /\ snapshots' \subseteq committed /\ snapshots' \subseteq 1..ldt
  <2>1. /\ snapshots \subseteq 1..ldt /\ snapshots \subseteq committed
        /\ ldt \in committed \cup {0} /\ OldSnapshots \subseteq snapshots
    BY DEF OldSnapshots, MainInv, MainTypes
  <2> QED BY <1>1, <1>3, <2>1
<1>5. MainTypes'
  BY <1>1, <1>4 DEF MainInv, MainTypes
<1> QED BY <1>1, <1>4, <1>5 DEF MainInv, Undecided, EngineFree

(* A commit begins.                                                        *)
Begins == \E s, f \in BOOLEAN : TakeTimestamp /\ Started(s, f)

(* All the beginnings of a commit take a timestamp.                         *)
LEMMA StartBegins ==
  ASSUME StartNotReady \/ StartReady \/ StartMissesLock \/ StartNotConnected
  PROVE  Begins
BY DEF StartNotReady, StartReady, StartMissesLock, StartNotConnected, Begins

(* The steps of the pool, the checker and the replica leave the main alone. *)
LEMMA PoolLeavesMain ==
  ASSUME \/ Pool \/ CheckerSucceeds \/ CheckerFails \/ ReplicaStops \/ ReplicaStarts
  PROVE  UNCHANGED mainVars
BY DEF mainVars, Pool, TakeTask, SendPrepareAsync, TakeAnswerAsync, Heartbeat,
       HeartbeatMissesLock, CompareTimestamps, StartRecovery, SendSnapshot, SendWals,
       DisableFlushing, SendCurrentWal, StepMissesLock, EndRecovery, CheckerSucceeds,
       CheckerFails, ReplicaStops, ReplicaStarts

(* Steps of others.                                                         *)
LEMMA SameMain ==
  ASSUME MainInv, UNCHANGED mainVars
  PROVE  MainInv'
BY DEF MainInv, MainTypes, mainVars, cluster, main, Undecided, EngineFree

(* The main keeps its invariant.                                            *)
LEMMA MainStep == MainInv /\ [Next]_vars => MainInv'
<1> SUFFICES ASSUME MainInv, [Next]_vars PROVE MainInv'
  OBVIOUS
<1>1. CASE StartNotReady \/ StartReady \/ StartMissesLock \/ StartNotConnected
  BY <1>1, StartBegins, StartMain DEF Begins
<1>2. CASE FinalizeStrict \/ EndAsync
  BY <1>2, AcknowledgedMain DEF FinalizeStrict, EndAsync
<1>3. CASE UNCHANGED vars
  BY <1>3, SameMain DEF vars, mainVars
<1>4. CASE Commit
  BY <1>1, <1>2, <1>4, ShipMain, SendPrepareMain, TakeAnswerMain, CommitAloneMain,
     DecideMain, FinalizeAsyncMain DEF Commit
<1>5. CASE \/ Pool \/ CheckerSucceeds \/ CheckerFails \/ ReplicaStops \/ ReplicaStarts
  BY <1>5, PoolLeavesMain, SameMain
<1> QED BY <1>3, <1>4, <1>5, SnapshotMain DEF Next

-----------------------------------------------------------------------------
(* The WAL files and the snapshots.                                        *)

(* ChainUnbroken, without its choice of the first file.                    *)
Reaches(files, snaps) ==
  files # {} => 1 \in files \/ \E f \in files, s \in snaps : f <= s

FirstReaches(files, snaps) ==
  files # {} => 1 \in files
    \/ (snaps # {} /\ Smallest(files) <= IF snaps = {} THEN 0 ELSE Largest(snaps))

(* The smallest file reaches back if any does.                              *)
LEMMA ReachesMeans ==
  ASSUME NEW n \in Nat, NEW files \in SUBSET (1..n), NEW snaps \in SUBSET (1..n)
  PROVE  FirstReaches(files, snaps) <=> Reaches(files, snaps)
<1>1. files \in SUBSET Nat /\ snaps \in SUBSET (0..n)
  OBVIOUS
<1>2. files # {} => Smallest(files) \in files /\ \A f \in files : Smallest(files) <= f
  BY <1>1, SmallestIsLeast
<1>3. snaps # {} => Largest(snaps) \in snaps /\ \A s \in snaps : s <= Largest(snaps)
  BY <1>1, LargestIsGreatest
<1> DEFINE a == Smallest(files)
           b == Largest(snaps)
<1>4. /\ files # {} => a \in files /\ \A f \in files : a <= f
      /\ snaps # {} => b \in snaps /\ \A s \in snaps : s <= b
      /\ FirstReaches(files, snaps) <=> (files # {} => 1 \in files \/ (snaps # {} /\ a <= b))
  BY <1>2, <1>3 DEF FirstReaches
<1> HIDE DEF a, b
<1>5. ASSUME NEW f \in files, NEW s \in snaps, f <= s PROVE a <= b
  <2>0. a <= f /\ s <= b /\ a \in files /\ b \in snaps
    BY <1>4
  <2>1. a <= f /\ s <= b /\ a \in Nat /\ b \in Nat /\ f \in Nat /\ s \in Nat
    BY <1>1, <2>0
  <2> QED BY <1>5, <2>1
<1>6. files # {} /\ snaps # {} /\ a <= b => \E f \in files, s \in snaps : f <= s
  BY <1>4
<1> QED BY <1>4, <1>5, <1>6 DEF Reaches

(* The files and snapshots of a main's state, and what WalInv says of them. *)
WalShape(w, snaps, n) ==
  /\ w \in [files : SUBSET (1..n), cur : 0..n] /\ snaps \in SUBSET (1..n)
Files(w) == w.files \cup ({w.cur} \ {0})
WalGood(w, snaps, n) ==
  /\ Reaches(Files(w), snaps)
  /\ n > 0 => Files(w) # {}
  /\ w.cur # 0 => \A f \in w.files : f < w.cur

(* WalInv in terms of any WAL, so that its pieces can be treated one at a   *)
(* time.                                                                    *)
LEMMA WalInvMeans ==
  ASSUME clock \in Nat, WalShape(wal, snapshots, clock)
  PROVE  WalInv <=> WalGood(wal, snapshots, clock)
<1>1. Files(wal) \in SUBSET (1..clock) /\ Files(wal) = AllFiles
  BY DEF WalShape, Files, AllFiles
<1>2. FirstReaches(AllFiles, snapshots) <=> Reaches(AllFiles, snapshots)
  BY <1>1, ReachesMeans DEF WalShape
<1>3. ChainUnbroken <=> FirstReaches(AllFiles, snapshots)
  BY DEF ChainUnbroken, FirstReaches, AllFiles, LatestSnapshot
<1> QED BY <1>1, <1>2, <1>3 DEF WalInv, WalGood

(* The same after a step.                                                   *)
LEMMA WalInvMeansNext ==
  ASSUME clock' \in Nat, WalShape(wal', snapshots', clock')
  PROVE  WalInv' <=> WalGood(wal', snapshots', clock')
<1>1. Files(wal') \in SUBSET (1..clock') /\ Files(wal') = AllFiles'
  BY DEF WalShape, Files, AllFiles
<1>2. FirstReaches(AllFiles', snapshots') <=> Reaches(AllFiles', snapshots')
  BY <1>1, ReachesMeans DEF WalShape
<1>3. ChainUnbroken' <=> FirstReaches(AllFiles', snapshots')
  BY DEF ChainUnbroken, FirstReaches, AllFiles, LatestSnapshot
<1> QED BY <1>1, <1>2, <1>3 DEF WalInv, WalGood

(* The files and snapshots of the main lie below its clock.                 *)
LEMMA WalShapes ==
  /\ MainInv => clock \in Nat /\ WalShape(wal, snapshots, clock)
  /\ MainInv' => clock' \in Nat /\ WalShape(wal', snapshots', clock')
<1>1. ASSUME MainInv PROVE clock \in Nat /\ WalShape(wal, snapshots, clock)
  <2>1. clock \in Nat /\ ldt \in Nat /\ ldt <= clock /\ snapshots \subseteq 1..ldt
    BY <1>1, MaxTsType DEF MainInv, MainTypes
  <2> QED BY <1>1, <2>1 DEF WalShape, MainInv, MainTypes
<1>2. ASSUME MainInv' PROVE clock' \in Nat /\ WalShape(wal', snapshots', clock')
  <2>1. clock' \in Nat /\ ldt' \in Nat /\ ldt' <= clock' /\ snapshots' \subseteq 1..ldt'
    BY <1>2, MaxTsType DEF MainInv, MainTypes
  <2> QED BY <1>2, <2>1 DEF WalShape, MainInv, MainTypes
<1> QED BY <1>1, <1>2

(* A commit opens a file if none is open.                                  *)
LEMMA OpenKeeps ==
  ASSUME NEW n \in Nat, NEW w, NEW snaps, WalShape(w, snaps, n), WalGood(w, snaps, n)
  PROVE  WalGood(IF w.cur = 0 THEN [w EXCEPT !.cur = n + 1] ELSE w, snaps, n + 1)
<1>1. CASE w.cur = 0
  <2> DEFINE v == [w EXCEPT !.cur = n + 1]
  <2>1. v.files = w.files /\ v.cur = n + 1
    BY DEF WalShape
  <2>2. Files(v) = Files(w) \cup {n + 1}
    BY <1>1, <2>1 DEF Files
  <2>3. \A f \in w.files : f < n + 1
    BY DEF WalShape
  <2>4. n = 0 \/ Files(w) # {}
    BY DEF WalGood
  <2>5. Reaches(Files(v), snaps)
    BY <2>2, <2>4 DEF WalGood, Reaches
  <2> HIDE DEF v
  <2>6. WalGood(v, snaps, n + 1)
    BY <2>1, <2>2, <2>3, <2>5 DEF WalGood
  <2> QED BY <1>1, <2>6 DEF v
<1>2. CASE w.cur # 0
  <2>1. Files(w) # {}
    BY <1>2 DEF Files
  <2> QED BY <1>2, <2>1 DEF WalGood
<1> QED BY <1>1, <1>2

(* A commit closes the file that is open.                                  *)
LEMMA CloseKeeps ==
  ASSUME NEW n \in Nat, NEW w, NEW snaps, WalShape(w, snaps, n), WalGood(w, snaps, n),
         w.cur # 0
  PROVE  WalGood([files |-> w.files \cup {w.cur}, cur |-> 0], snaps, n)
<1> DEFINE v == [files |-> w.files \cup {w.cur}, cur |-> 0]
<1>1. Files(v) = Files(w) /\ v.cur = 0
  BY DEF Files
<1> HIDE DEF v
<1>2. WalGood(v, snaps, n)
  BY <1>1 DEF WalGood
<1> QED BY <1>2 DEF v

(* EnsureNecessaryWalFilesExist keeps a file that reaches back to the oldest *)
(* snapshot that is kept.                                                  *)
LEMMA PruneKeeps ==
  ASSUME MainInv, WalGood(wal, snapshots, clock), NEW snaps \in SUBSET (1..clock),
         NEW oldest \in snaps,
         \E s \in snaps : \A x \in snapshots : x <= s
  PROVE  WalGood([wal EXCEPT !.files = NecessaryWals(oldest)], snaps, clock)
<1> DEFINE before == {f \in AllFiles : f <= oldest}
           v == [wal EXCEPT !.files = NecessaryWals(oldest)]
<1>1. /\ clock \in Nat /\ WalShape(wal, snapshots, clock) /\ Files(wal) = AllFiles
      /\ AllFiles \in SUBSET (1..clock)
  BY WalShapes DEF WalShape, Files, AllFiles
<1>2. v.files = NecessaryWals(oldest) /\ v.cur = wal.cur
  BY <1>1 DEF WalShape
<1>3. NecessaryWals(oldest) = {f \in wal.files : before # {} => f >= Largest(before)}
  BY DEF NecessaryWals, AllFiles
<1> HIDE DEF v
<1>5. CASE before = {}
  <2>1. Files(v) = AllFiles /\ v.files = wal.files
    BY <1>2, <1>3, <1>5 DEF Files, AllFiles
  <2>2. 1 \notin AllFiles
    <3>1. oldest >= 1
      OBVIOUS
    <3> QED BY <1>5, <3>1
  <2>3. Reaches(AllFiles, snaps)
    <3> SUFFICES ASSUME AllFiles # {} PROVE \E f \in AllFiles, s \in snaps : f <= s
      BY DEF Reaches
    <3>1. PICK f \in AllFiles, x \in snapshots : f <= x
      BY <1>1, <2>2 DEF WalGood, Reaches
    <3>2. PICK s \in snaps : x <= s
      OBVIOUS
    <3>3. f \in Nat /\ x \in Nat /\ s \in Nat
      BY <1>1 DEF WalShape
    <3> QED BY <3>1, <3>2, <3>3
  <2> QED BY <1>1, <1>2, <2>1, <2>3 DEF WalGood, v
<1>6. CASE before # {}
  <2> DEFINE l == Largest(before)
  <2>1. l \in before
    <3>0. \A f \in AllFiles : f \in 0..clock
      BY <1>1
    <3>1. before \in SUBSET (0..clock)
      BY <3>0
    <3> HIDE DEF before
    <3> QED BY <1>1, <1>6, <3>1, LargestIsGreatest
  <2>2. NecessaryWals(oldest) = {f \in wal.files : f >= l}
    BY <1>3, <1>6
  <2> HIDE DEF l
  <2>3. l \in Files(v)
    BY <1>1, <1>2, <2>1, <2>2 DEF Files, AllFiles
  <2>4. Reaches(Files(v), snaps) /\ Files(v) # {}
    BY <2>1, <2>3 DEF Reaches
  <2>5. v.files \subseteq wal.files
    BY <1>2, <2>2
  <2> QED BY <1>1, <1>2, <2>4, <2>5 DEF WalGood, v
<1> QED BY <1>5, <1>6 DEF v

(* Retention: what CreateSnapshot leaves still reaches back.                *)
LEMMA SnapshotWal ==
  ASSUME MainInv, MainInv', WalInv, CreateSnapshot
  PROVE  WalInv'
<1>1. /\ clock \in Nat /\ WalShape(wal, snapshots, clock)
      /\ WalShape(wal', snapshots', clock) /\ clock' = clock
  BY WalShapes DEF CreateSnapshot
<1>2. WalGood(wal, snapshots, clock)
  BY <1>1, WalInvMeans
<1>3. /\ LatestSnapshot < ldt /\ ldt \in snapshots'
      /\ wal' = wal \/ wal' = [wal EXCEPT !.files = NecessaryWals(Smallest(snapshots'))]
  BY DEF CreateSnapshot
<1>4. \A x \in snapshots : x <= ldt
  <2>1. /\ ldt \in Nat /\ LatestSnapshot \in Nat
        /\ \A x \in snapshots : x <= LatestSnapshot /\ x \in Nat
    BY <1>1, FilesTypes DEF WalShape
  <2> QED BY <1>3, <2>1
<1>5. snapshots' \in SUBSET (1..clock) /\ Smallest(snapshots') \in snapshots'
  <2>1. snapshots' \in SUBSET (1..clock) /\ snapshots' \in SUBSET Nat /\ snapshots' # {}
    BY <1>1, <1>3 DEF WalShape
  <2> QED BY <2>1, SmallestIsLeast
<1>6. CASE wal' = wal
  <2>1. Reaches(Files(wal), snapshots')
    <3> SUFFICES ASSUME Files(wal) # {}, 1 \notin Files(wal)
                 PROVE  \E f \in Files(wal), s \in snapshots' : f <= s
      BY DEF Reaches
    <3>1. PICK f \in Files(wal), x \in snapshots : f <= x
      BY <1>2 DEF WalGood, Reaches
    <3>2. f \in Nat /\ x \in Nat /\ ldt \in Nat /\ x <= ldt
      BY <1>1, <1>4, FilesTypes DEF WalShape, Files
    <3>3. f <= ldt
      BY <3>1, <3>2
    <3> QED BY <1>3, <3>3
  <2>2. WalGood(wal', snapshots', clock')
    BY <1>1, <1>2, <1>6, <2>1 DEF WalGood
  <2> QED BY <1>1, <2>2, WalInvMeansNext
<1>7. CASE wal' = [wal EXCEPT !.files = NecessaryWals(Smallest(snapshots'))]
  <2> DEFINE s == Smallest(snapshots')
             snaps == snapshots'
  <2>1. s \in snaps /\ snaps \in SUBSET (1..clock) /\ \E y \in snaps : \A x \in snapshots : x <= y
    BY <1>3, <1>4, <1>5
  <2>2. wal' = [wal EXCEPT !.files = NecessaryWals(s)]
    BY <1>7
  <2> HIDE DEF s, snaps
  <2>3. WalGood([wal EXCEPT !.files = NecessaryWals(s)], snaps, clock)
    BY <1>2, <2>1, PruneKeeps
  <2>4. WalGood(wal', snapshots', clock')
    BY <1>1, <2>2, <2>3 DEF snaps
  <2> QED BY <1>1, <2>4, WalInvMeansNext
<1> QED BY <1>3, <1>6, <1>7

(* The WAL keeps its invariant.                                             *)
LEMMA WalStep == MainInv /\ MainInv' /\ WalInv /\ [Next]_vars => WalInv'
<1> SUFFICES ASSUME MainInv, MainInv', WalInv, [Next]_vars PROVE WalInv'
  OBVIOUS
<1>1. /\ clock \in Nat /\ clock' \in Nat /\ WalShape(wal, snapshots, clock)
      /\ WalShape(wal', snapshots', clock') /\ WalGood(wal, snapshots, clock)
  BY WalShapes, WalInvMeans
<1>2. CASE Begins
  <2>1. /\ clock' = clock + 1 /\ snapshots' = snapshots
        /\ wal' = IF wal.cur = 0 THEN [wal EXCEPT !.cur = clock + 1] ELSE wal
    BY <1>2 DEF Begins, TakeTimestamp
  <2>2. WalGood(wal', snapshots', clock')
    BY <1>1, <2>1, OpenKeeps
  <2> QED BY <1>1, <2>2, WalInvMeansNext
<1>3. CASE CommitAlone \/ Decide
  <2>1. /\ wal' \in WalAfterCommit /\ UNCHANGED <<clock, snapshots>> /\ wal.cur # 0
    BY <1>3 DEF CommitAlone, Decide, MainInv, Undecided
  <2>2. wal' = wal \/ wal' = [files |-> wal.files \cup {wal.cur}, cur |-> 0]
    BY <2>1 DEF WalAfterCommit
  <2>3. WalGood(wal', snapshots', clock')
    BY <1>1, <2>1, <2>2, CloseKeeps
  <2> QED BY <1>1, <2>3, WalInvMeansNext
<1>4. CASE UNCHANGED <<clock, wal, snapshots>>
  BY <1>4 DEF WalInv, ChainUnbroken, AllFiles, LatestSnapshot
<1>5. CASE UNCHANGED vars
  BY <1>4, <1>5 DEF vars, main
<1>6. CASE \/ Pool \/ CheckerSucceeds \/ CheckerFails \/ ReplicaStops \/ ReplicaStarts
  BY <1>4, <1>6, PoolLeavesMain DEF mainVars, main
<1>7. CASE \/ ShipDeltas \/ SendPrepare \/ TakeAnswer \/ FinalizeStrict \/ FinalizeAsync
           \/ EndAsync
  BY <1>4, <1>7
  DEF ShipDeltas, SendPrepare, TakeAnswer, FinalizeStrict, FinalizeAsync, EndAsync, main
<1>8. CASE Commit
  BY <1>2, <1>3, <1>7, <1>8, StartBegins DEF Commit
<1> QED BY <1>5, <1>6, <1>8, SnapshotWal DEF Next

-----------------------------------------------------------------------------
(* The client, its pool and the replica: types.                            *)

ClientTypes ==
  /\ state \in States /\ tasks \in Seq(Tasks) /\ work \in Works
  /\ rpc \in {"free", "txn", "pool"}
Reps == [applied : SUBSET Nat, ldt : Timestamps, prepared : Timestamps]
OtherTypes == up \in BOOLEAN /\ rewound \in BOOLEAN /\ faults \in Nat

(* The tasks of the pool.                                                   *)
LEMMA CheckType ==
  /\ Check \in Tasks /\ Check.kind = "check" /\ Check.from = 0
BY MaxTsType DEF Check, Tasks

(* A recovery task keeps the timestamp it starts from.                      *)
LEMMA RecoverType ==
  ASSUME NEW f \in Timestamps
  PROVE  Recover(f) \in Tasks /\ Recover(f).kind = "recover" /\ Recover(f).from = f
BY CheckType DEF Check, Recover, Tasks

(* A send task keeps its transaction.                                       *)
LEMMA FinalizeType ==
  ASSUME NEW t \in Timestamps, NEW p \in Timestamps
  PROVE  /\ Finalize(t, p) \in Tasks /\ Finalize(t, p).kind = "finalize"
         /\ Finalize(t, p).from = 0 /\ Finalize(t, p).ts = t /\ Finalize(t, p).prev = p
<1>1. 0 \in Timestamps
  BY MaxTsType
<1> QED BY <1>1 DEF Check, Finalize, Tasks

(* The thread of the pool has nothing to do.                                *)
LEMMA IdleType ==
  /\ Idle \in Works /\ Idle.pc = "idle" /\ Idle.from = 0
  /\ Idle.snap = 0 /\ Idle.lo = 0 /\ Idle.hi = 0 /\ Idle.seq = 0 /\ Idle.sending = FALSE
<1>1. 0 \in Timestamps
  BY MaxTsType
<1> QED BY <1>1 DEF Idle, Works

(* What the pool's thread makes of a task.                                 *)
WorkOf(t) == [Idle EXCEPT !.pc = StartOf(t.kind), !.from = t.from, !.ts = t.ts, !.prev = t.prev]

(* The thread takes over what the task says.                                *)
LEMMA WorkOfType ==
  ASSUME NEW t \in Tasks
  PROVE  /\ WorkOf(t) \in Works /\ WorkOf(t).from = t.from
         /\ WorkOf(t).ts = t.ts /\ WorkOf(t).prev = t.prev
         /\ WorkOf(t).pc = StartOf(t.kind)
         /\ WorkOf(t).pc = "send" <=> t.kind = "finalize"
         /\ WorkOf(t).pc = "recover" <=> t.kind = "recover"
         /\ WorkOf(t).pc \in {"heartbeat", "recover", "send"} /\ WorkOf(t).sending = FALSE
<1>1. /\ t.kind \in {"check", "recover", "finalize"} /\ t.from \in Timestamps
      /\ t.ts \in Timestamps /\ t.prev \in Timestamps
  BY DEF Tasks
<1>2. /\ StartOf(t.kind) \in {"heartbeat", "recover", "send"}
      /\ StartOf(t.kind) = "send" <=> t.kind = "finalize"
      /\ StartOf(t.kind) = "recover" <=> t.kind = "recover"
  BY <1>1 DEF StartOf
<1> DEFINE p == StartOf(t.kind)
<1>3. p \in {"heartbeat", "recover", "send"}
  BY <1>2
<1>4. WorkOf(t) = [Idle EXCEPT !.pc = p, !.from = t.from, !.ts = t.ts, !.prev = t.prev]
  BY DEF WorkOf
<1> HIDE DEF p
<1>5. /\ WorkOf(t) \in Works /\ WorkOf(t).from = t.from
      /\ WorkOf(t).ts = t.ts /\ WorkOf(t).prev = t.prev /\ WorkOf(t).pc = p
      /\ WorkOf(t).sending = FALSE
  <2>1. 0 \in Timestamps
    BY MaxTsType
  <2> QED BY <1>1, <1>3, <1>4, <2>1 DEF Idle, Works
<1> QED BY <1>2, <1>5 DEF p

(* The files to recover from.                                              *)
LEMMA LastFinalizedType ==
  ASSUME MainInv
  PROVE  LastFinalized \in 0..clock /\ wal.cur \in 0..clock /\ clock \in Nat /\ clock \in Timestamps
BY MaxTsType DEF LastFinalized, MainInv, MainTypes

(* GetRecoverySteps sends files there are.                                  *)
LEMMA UsefulWalsType ==
  ASSUME NEW from
  PROVE  UsefulWals(from) \subseteq wal.files
BY DEF UsefulWals

(* The steps it returns.                                                    *)
LEMMA StepsType ==
  ASSUME MainInv, NEW from \in Timestamps
  PROVE  LET w == GetRecoverySteps(from)
             u == UsefulWals(from)
         IN  /\ w \in Works /\ w.pc = "steps" /\ w.from = from
             /\ w.snap = (IF UsesSnapshot(from) THEN LatestSnapshot ELSE 0)
             /\ w.lo = (IF u = {} THEN 0 ELSE Smallest(u))
             /\ w.hi = (IF u = {} THEN 0 ELSE LastFinalized)
             /\ w.seq \in {0, wal.cur} /\ w.sending = FALSE
             /\ u # {} => Smallest(u) \in u /\ \A f \in u : Smallest(u) <= f
<1> DEFINE u == UsefulWals(from)
           d == IF UsesSnapshot(from) THEN LatestSnapshot ELSE 0
           lo == IF u = {} THEN 0 ELSE Smallest(u)
           hi == IF u = {} THEN 0 ELSE LastFinalized
           seq == IF wal.cur # 0 /\ d < clock THEN wal.cur ELSE 0
<1>1. GetRecoverySteps(from) = [Idle EXCEPT !.pc = "steps", !.from = from, !.snap = d,
                                            !.lo = lo, !.hi = hi, !.seq = seq]
  BY DEF GetRecoverySteps
<1>2. u \in SUBSET (1..clock) /\ u \in SUBSET Nat
  BY UsefulWalsType DEF MainInv, MainTypes
<1>3. u # {} => Smallest(u) \in u /\ \A f \in u : Smallest(u) <= f
  <2> HIDE DEF u
  <2> QED BY <1>2, SmallestIsLeast
<1>4. d \in Timestamps
  BY FilesTypes, MaxTsType DEF MainInv, MainTypes
<1>5. lo \in Timestamps
  <2>1. u # {} => Smallest(u) \in 1..clock
    BY <1>2, <1>3
  <2> HIDE DEF u
  <2> QED BY <2>1, LastFinalizedType, MaxTsType
<1>6. hi \in Timestamps /\ seq \in Timestamps /\ seq \in {0, wal.cur}
  BY LastFinalizedType, MaxTsType
<1> HIDE DEF lo, hi, seq, d, u
<1>7. LET w == GetRecoverySteps(from)
      IN  /\ w \in Works /\ w.pc = "steps" /\ w.from = from /\ w.snap = d
          /\ w.lo = lo /\ w.hi = hi /\ w.seq = seq /\ w.sending = FALSE
  <2>1. 0 \in Timestamps
    BY MaxTsType
  <2> QED BY <1>1, <1>4, <1>5, <1>6, <2>1 DEF Idle, Works
<1> QED BY <1>3, <1>6, <1>7 DEF u, lo, hi, d

(* The state after an answer is a state.                                    *)
LEMMA StateAfterType ==
  ASSUME state \in States, NEW a
  PROVE  StateAfter(a) \in States
BY DEF StateAfter, States

(* A commit leaves the client well typed.                                   *)
LEMMA CommitClientTypes ==
  ASSUME MainInv, ClientTypes, Commit
  PROVE  ClientTypes'
<1>0. /\ state \in States /\ tasks \in Seq(Tasks) /\ work \in Works
      /\ rpc \in {"free", "txn", "pool"} /\ Check \in Tasks
  BY CheckType DEF ClientTypes
<1>1. CASE StartNotReady \/ StartReady \/ StartMissesLock \/ StartNotConnected
  <2>1. work' = work
    BY <1>1, StartBegins DEF Begins, TakeTimestamp
  <2>2. /\ state' \in {state, "REPLICATING", "MAYBE_BEHIND"} /\ rpc' \in {rpc, "txn"}
        /\ tasks' = tasks \/ tasks' = Append(tasks, Check)
    BY <1>1 DEF StartNotReady, StartReady, StartMissesLock, StartNotConnected
  <2> QED BY <1>0, <2>1, <2>2 DEF ClientTypes, States
<1>2. ASSUME NEW pc, NotReplicating(pc), work' = work PROVE ClientTypes'
  BY <1>0, <1>2 DEF NotReplicating, ReleaseStream, ClientTypes, States
<1>3. ASSUME NEW pc, HandToPool(pc), work' = work PROVE ClientTypes'
  <2>1. Finalize(clock, txn.prev) \in Tasks
    BY LastFinalizedType, FinalizeType DEF MainInv, MainTypes, Txns
  <2> QED BY <1>0, <1>3, <2>1 DEF HandToPool, ClientTypes, States, ts
<1>4. CASE ShipDeltas
  BY <1>0, <1>2, <1>3, <1>4 DEF ShipDeltas, client, ClientTypes
<1>5. CASE SendPrepare
  BY <1>0, <1>5 DEF SendPrepare, client, ClientTypes
<1>6. CASE TakeAnswer
  BY <1>0, <1>6, StateAfterType DEF TakeAnswer, ClientTypes
<1>7. CASE CommitAlone \/ FinalizeStrict \/ EndAsync
  BY <1>0, <1>7 DEF CommitAlone, FinalizeStrict, EndAsync, ReleaseStream, ClientTypes
<1>8. CASE Decide
  BY <1>0, <1>8 DEF Decide, client, ClientTypes
<1>9. CASE FinalizeAsync
  BY <1>0, <1>2, <1>3, <1>9 DEF FinalizeAsync, ReleaseStream, ClientTypes
<1> QED BY <1>1, <1>4, <1>5, <1>6, <1>7, <1>8, <1>9 DEF Commit

(* So does the pool.                                                        *)
LEMMA PoolClientTypes ==
  ASSUME MainInv, ClientTypes, rep \in Reps, Pool
  PROVE  ClientTypes'
<1>0. /\ state \in States /\ tasks \in Seq(Tasks) /\ work \in Works
      /\ rpc \in {"free", "txn", "pool"} /\ Idle \in Works
      /\ work.from \in Timestamps /\ 0 \in Timestamps
  BY IdleType, MaxTsType DEF ClientTypes, Works
<1>1. CASE TakeTask
  <2>1. Head(tasks) \in Tasks /\ Tail(tasks) \in Seq(Tasks)
    BY <1>0, <1>1 DEF TakeTask
  <2>2. work' = WorkOf(Head(tasks)) /\ tasks' = Tail(tasks) /\ UNCHANGED <<state, rpc>>
    BY <1>1 DEF TakeTask, WorkOf
  <2> QED BY <1>0, <2>1, <2>2, WorkOfType DEF ClientTypes
<1>2. CASE SendPrepareAsync
  <2>1. PICK o \in Outcomes : work' = [Idle EXCEPT !.pc = "sent", !.answer = Answer(o, work.prev)]
    BY <1>2 DEF SendPrepareAsync
  <2>2. Answer(o, work.prev) \in Answers
    BY DEF Answer, Answers
  <2>3. work' \in Works
    BY <1>0, <2>1, <2>2 DEF Works, Answers
  <2> QED BY <1>0, <1>2, <2>3 DEF SendPrepareAsync, client, ClientTypes
<1>3. CASE TakeAnswerAsync
  BY <1>0, <1>3, StateAfterType DEF TakeAnswerAsync, ClientTypes
<1>4. CASE Heartbeat
  <2>1. work' = [Idle EXCEPT !.pc = "compare", !.from = rep.ldt] \/ work' = Idle
    BY <1>4 DEF Heartbeat
  <2>2. work' \in Works
    BY <1>0, <2>1 DEF Works, Reps
  <2> QED BY <1>0, <1>4, <2>2 DEF Heartbeat, ClientTypes, States
<1>5. CASE HeartbeatMissesLock \/ StepMissesLock \/ EndRecovery
  BY <1>0, <1>5
  DEF HeartbeatMissesLock, StepMissesLock, EndRecovery, RecoveryFailed, client,
      ClientTypes, States
<1>6. CASE CompareTimestamps
  <2>1. Recover(work.from) \in Tasks
    BY <1>0, RecoverType
  <2> QED BY <1>0, <1>6, <2>1 DEF CompareTimestamps, ClientTypes, States
<1>7. CASE StartRecovery
  <2>1. GetRecoverySteps(work.from) \in Works
    BY <1>0, StepsType
  <2> QED BY <1>0, <1>7, <2>1 DEF StartRecovery, client, ClientTypes
<1>8. CASE SendSnapshot
  <2>1. work' = [work EXCEPT !.from = work.snap, !.snap = 0] \/ work' = Idle
    BY <1>8 DEF SendSnapshot, RecoveryFailed
  <2>2. work' \in Works
    BY <1>0, <2>1 DEF Works
  <2> QED BY <1>0, <1>8, <2>2 DEF SendSnapshot, RecoveryFailed, ClientTypes, States
<1>9. CASE SendWals
  <2>1. PICK h \in Timestamps :
          work' = [work EXCEPT !.from = h, !.lo = 0, !.hi = 0] \/ work' = Idle
    BY <1>9 DEF SendWals, RecoveryFailed
  <2>2. work' \in Works
    BY <1>0, <2>1 DEF Works
  <2> QED BY <1>0, <1>9, <2>2 DEF SendWals, RecoveryFailed, ClientTypes, States
<1>10. CASE SendCurrentWal
  <2>1. \/ \E h \in Timestamps : work' = [work EXCEPT !.from = h, !.seq = 0, !.sending = FALSE]
        \/ work' = Idle
    BY <1>10 DEF SendCurrentWal, RecoveryFailed
  <2>2. work' \in Works
    BY <1>0, <2>1 DEF Works
  <2> QED BY <1>0, <1>10, <2>2 DEF SendCurrentWal, RecoveryFailed, ClientTypes, States
<1>11. CASE DisableFlushing
  <2>1. work' = [work EXCEPT !.sending = TRUE] \/ work' = [work EXCEPT !.seq = 0]
    BY <1>11 DEF DisableFlushing
  <2>2. work' \in Works
    BY <1>0, <2>1 DEF Works
  <2> QED BY <1>0, <1>11, <2>2 DEF DisableFlushing, client, ClientTypes
<1> QED BY <1>1, <1>2, <1>3, <1>4, <1>5, <1>6, <1>7, <1>8, <1>9, <1>10, <1>11 DEF Pool

(* The client stays well typed.                                             *)
LEMMA ClientTypesStep == MainInv /\ ClientTypes /\ rep \in Reps /\ [Next]_vars => ClientTypes'
<1> SUFFICES ASSUME MainInv, ClientTypes, rep \in Reps, [Next]_vars PROVE ClientTypes'
  OBVIOUS
<1>1. CASE CheckerSucceeds \/ CheckerFails
  BY <1>1, CheckType DEF CheckerSucceeds, CheckerFails, ClientTypes, States
<1>2. CASE ReplicaStops \/ ReplicaStarts \/ CreateSnapshot
  BY <1>2 DEF ReplicaStops, ReplicaStarts, CreateSnapshot, client, ClientTypes
<1>3. CASE UNCHANGED vars
  BY <1>3 DEF vars, client, ClientTypes
<1> QED BY <1>1, <1>2, <1>3, CommitClientTypes, PoolClientTypes DEF Next

-----------------------------------------------------------------------------
(* The queue of the pool.                                                  *)

TasksIn(q) == {q[k] : k \in DOMAIN q}
IsSend(t) == t.kind = "finalize"
NoSend(q) == \A t \in TasksIn(q) : ~IsSend(t)
AtMostOneSend(q) == \A k, l \in DOMAIN q : IsSend(q[k]) /\ IsSend(q[l]) => k = l

(* The queue of the pool after a task was added.                            *)
LEMMA AppendTasks ==
  ASSUME NEW q \in Seq(Tasks), NEW t \in Tasks
  PROVE  /\ TasksIn(Append(q, t)) = TasksIn(q) \cup {t}
         /\ AtMostOneSend(q) /\ (IsSend(t) => NoSend(q)) => AtMostOneSend(Append(q, t))
<1>1. /\ DOMAIN Append(q, t) = 1..Len(q) + 1 /\ DOMAIN q = 1..Len(q)
      /\ Append(q, t)[Len(q) + 1] = t /\ Len(q) \in Nat
      /\ \A k \in 1..Len(q) : Append(q, t)[k] = q[k]
  OBVIOUS
<1>2. TasksIn(Append(q, t)) = TasksIn(q) \cup {t}
  <2>1. ASSUME NEW x \in TasksIn(Append(q, t)) PROVE x \in TasksIn(q) \cup {t}
    <3>1. PICK k \in DOMAIN Append(q, t) : x = Append(q, t)[k]
      BY <2>1 DEF TasksIn
    <3>2. k \in DOMAIN q \/ k = Len(q) + 1
      BY <1>1, <3>1
    <3> QED BY <1>1, <3>1, <3>2 DEF TasksIn
  <2>2. ASSUME NEW x \in TasksIn(q) PROVE x \in TasksIn(Append(q, t))
    <3>1. PICK k \in DOMAIN q : x = q[k]
      BY <2>2 DEF TasksIn
    <3>2. k \in DOMAIN Append(q, t) /\ Append(q, t)[k] = x
      BY <1>1, <3>1
    <3> QED BY <3>2 DEF TasksIn
  <2>3. t \in TasksIn(Append(q, t))
    <3>1. Len(q) + 1 \in DOMAIN Append(q, t)
      BY <1>1
    <3> QED BY <1>1, <3>1 DEF TasksIn
  <2> QED BY <2>1, <2>2, <2>3
<1>3. ASSUME AtMostOneSend(q), IsSend(t) => NoSend(q),
             NEW k \in DOMAIN Append(q, t), NEW l \in DOMAIN Append(q, t),
             IsSend(Append(q, t)[k]), IsSend(Append(q, t)[l])
      PROVE  k = l
  <2>1. (k \in DOMAIN q \/ k = Len(q) + 1) /\ (l \in DOMAIN q \/ l = Len(q) + 1)
    BY <1>1
  <2>2. \A m \in DOMAIN q : IsSend(Append(q, t)[m]) => ~IsSend(t) /\ IsSend(q[m])
    BY <1>1, <1>3 DEF NoSend, TasksIn
  <2> QED BY <1>1, <1>3, <2>1, <2>2 DEF AtMostOneSend
<1> QED BY <1>2, <1>3 DEF AtMostOneSend

(* And after the first was taken.                                           *)
LEMMA TailTasks ==
  ASSUME NEW q \in Seq(Tasks), q # <<>>
  PROVE  /\ Head(q) \in TasksIn(q) /\ TasksIn(Tail(q)) \subseteq TasksIn(q)
         /\ Head(q) \in Tasks /\ Tail(q) \in Seq(Tasks)
         /\ AtMostOneSend(q) => AtMostOneSend(Tail(q)) /\ (IsSend(Head(q)) => NoSend(Tail(q)))
<1>1. /\ Len(q) \in Nat \ {0} /\ DOMAIN q = 1..Len(q) /\ Head(q) = q[1]
      /\ DOMAIN Tail(q) = 1..Len(q) - 1
      /\ \A k \in 1..Len(q) - 1 : Tail(q)[k] = q[k + 1]
  OBVIOUS
<1>2. \A k \in DOMAIN Tail(q) : k + 1 \in DOMAIN q /\ Tail(q)[k] = q[k + 1] /\ k + 1 # 1
  BY <1>1
<1>3. 1 \in DOMAIN q
  BY <1>1
<1>4. Head(q) \in TasksIn(q) /\ TasksIn(Tail(q)) \subseteq TasksIn(q)
  BY <1>1, <1>2, <1>3 DEF TasksIn
<1>5. AtMostOneSend(q) => AtMostOneSend(Tail(q))
  <2>1. \A k, l \in DOMAIN Tail(q) : k + 1 = l + 1 => k = l
    BY <1>1
  <2> QED BY <1>2, <2>1 DEF AtMostOneSend
<1>6. AtMostOneSend(q) /\ IsSend(Head(q)) => NoSend(Tail(q))
  BY <1>1, <1>2, <1>3 DEF AtMostOneSend, NoSend, TasksIn
<1> QED BY <1>4, <1>5, <1>6

(* A step that adds no transaction to send.                                *)
QuietTasks ==
  \/ tasks' = tasks
  \/ \E t \in Tasks : ~IsSend(t) /\ tasks' = Append(tasks, t)

(* A check or a recovery task adds no transaction to send.                  *)
LEMMA QuietKeeps ==
  ASSUME tasks \in Seq(Tasks), QuietTasks
  PROVE  /\ AtMostOneSend(tasks) => AtMostOneSend(tasks')
         /\ NoSend(tasks) => NoSend(tasks')
         /\ \A t \in TasksIn(tasks') : IsSend(t) => t \in TasksIn(tasks)
<1>1. CASE tasks' = tasks
  BY <1>1
<1>2. ASSUME NEW t \in Tasks, ~IsSend(t), tasks' = Append(tasks, t)
      PROVE  /\ AtMostOneSend(tasks) => AtMostOneSend(tasks')
             /\ NoSend(tasks) => NoSend(tasks')
             /\ \A x \in TasksIn(tasks') : IsSend(x) => x \in TasksIn(tasks)
  <2>1. TasksIn(tasks') = TasksIn(tasks) \cup {t}
    BY <1>2, AppendTasks
  <2>2. AtMostOneSend(tasks) => AtMostOneSend(tasks')
    BY <1>2, AppendTasks
  <2> QED BY <1>2, <2>1, <2>2 DEF NoSend
<1> QED BY <1>1, <1>2 DEF QuietTasks

-----------------------------------------------------------------------------
(* The lock of the RPC client: the stream of the commit under way keeps it,  *)
(* or the one transaction that an ASYNC client's pool has still to send.    *)

InPool == work.pc \in {"send", "sent"}
LockInv ==
  /\ txn.stream <=> rpc = "txn"
  /\ txn.stream => ~EngineFree
  /\ txn.pc = "sent" => txn.stream
  /\ rpc = "pool" => mode = "ASYNC"
  /\ AtMostOneSend(tasks) /\ (NoSend(tasks) \/ rpc = "pool")
  /\ InPool => rpc = "pool" /\ NoSend(tasks)
  /\ state = "REPLICATING" /\ mode # "ASYNC" => txn.stream /\ txn.pc \in {"ship", "sent"}

(* A step that leaves the lock alone.                                      *)
LEMMA QuietLock ==
  ASSUME LockInv, tasks \in Seq(Tasks), QuietTasks, UNCHANGED <<mode, rpc, txn>>,
         work'.pc \in {"send", "sent"} => InPool,
         state' = "REPLICATING" => state = "REPLICATING"
  PROVE  LockInv'
<1>1. /\ AtMostOneSend(tasks) => AtMostOneSend(tasks')
      /\ NoSend(tasks) => NoSend(tasks')
  BY QuietKeeps
<1> QED BY <1>1 DEF LockInv, EngineFree, InPool

(* What the beginning of a commit does.                                    *)
Starts == StartNotReady \/ StartReady \/ StartMissesLock \/ StartNotConnected

(* What the beginning of a commit does to the client.                       *)
LEMMA StartEffect ==
  ASSUME MainInv, ClientTypes, Starts
  PROVE  /\ EngineFree /\ clock' = clock + 1 /\ clock \in Nat
         /\ UNCHANGED <<mode, twoPC, committed, ldt, snapshots, work, rep, up, acked, rewound>>
         /\ txn'.pc = "ship"
         /\ tasks' = tasks \/ tasks' = Append(tasks, Check)
         /\ \/ /\ txn'.stream /\ rpc = "free" /\ rpc' = "txn"
               /\ state = "READY" /\ state' = "REPLICATING"
            \/ /\ ~txn'.stream /\ rpc' = rpc
               /\ state' \in {"RECOVERY", "MAYBE_BEHIND"}
<1>1. /\ EngineFree /\ clock' = clock + 1
      /\ UNCHANGED <<mode, twoPC, committed, ldt, snapshots, work, rep, up, acked, rewound>>
  BY StartBegins DEF Starts, Begins, TakeTimestamp, cluster
<1>2. clock \in Nat
  BY LastFinalizedType
<1>3. ASSUME NEW s, NEW f, Started(s, f) PROVE txn'.pc = "ship" /\ txn'.stream = s
  <2> DEFINE b == f /\ mode # "ASYNC"
  <2>1. txn' = [NoTxn EXCEPT !.pc = "ship", !.prev = ldt, !.stream = s, !.failed = b]
    BY <1>3 DEF Started
  <2> HIDE DEF b
  <2> QED BY <2>1 DEF NoTxn
<1>4. CASE StartNotReady
  <2>1. txn'.pc = "ship" /\ txn'.stream = FALSE
    BY <1>3, <1>4 DEF StartNotReady
  <2>2. /\ state # "READY" /\ state' = IF state = "REPLICATING" THEN "MAYBE_BEHIND" ELSE state
        /\ rpc' = rpc /\ (tasks' = tasks \/ tasks' = Append(tasks, Check))
    BY <1>4 DEF StartNotReady
  <2>3. state' \in {"RECOVERY", "MAYBE_BEHIND"}
    BY <2>2 DEF ClientTypes, States
  <2> QED BY <1>1, <1>2, <2>1, <2>2, <2>3, <1>4 DEF StartNotReady
<1>5. CASE StartReady
  <2>1. txn'.pc = "ship" /\ txn'.stream = TRUE
    BY <1>3, <1>5 DEF StartReady
  <2> QED BY <1>1, <1>2, <2>1, <1>5 DEF StartReady
<1>6. CASE StartMissesLock
  <2>1. txn'.pc = "ship" /\ txn'.stream = FALSE
    BY <1>3, <1>6 DEF StartMissesLock
  <2> QED BY <1>1, <1>2, <2>1, <1>6 DEF StartMissesLock
<1>7. CASE StartNotConnected
  <2>1. txn'.pc = "ship" /\ txn'.stream = FALSE
    BY <1>3, <1>7 DEF StartNotConnected
  <2> QED BY <1>1, <1>2, <2>1, <1>7 DEF StartNotConnected
<1> QED BY <1>4, <1>5, <1>6, <1>7 DEF Starts

(* It takes the RPC lock only if it is free.                                *)
LEMMA StartLock ==
  ASSUME MainInv, ClientTypes, LockInv, Starts
  PROVE  LockInv'
<1>1. /\ EngineFree /\ UNCHANGED <<mode, work>> /\ txn'.pc = "ship"
      /\ tasks' = tasks \/ tasks' = Append(tasks, Check)
      /\ \/ /\ txn'.stream /\ rpc = "free" /\ rpc' = "txn"
            /\ state' = "REPLICATING"
         \/ /\ ~txn'.stream /\ rpc' = rpc
            /\ state' \in {"RECOVERY", "MAYBE_BEHIND"}
  BY StartEffect
<1>2. tasks \in Seq(Tasks) /\ QuietTasks
  BY <1>1, CheckType DEF QuietTasks, IsSend, ClientTypes
<1>3. /\ AtMostOneSend(tasks) => AtMostOneSend(tasks')
      /\ NoSend(tasks) => NoSend(tasks')
  BY <1>2, QuietKeeps
<1>4. ~txn.stream /\ rpc # "txn"
  BY <1>1 DEF LockInv
<1>5. CASE txn'.stream /\ rpc = "free" /\ rpc' = "txn"
  BY <1>1, <1>3, <1>5 DEF LockInv, EngineFree, InPool
<1>6. CASE ~txn'.stream /\ rpc' = rpc /\ state' \in {"RECOVERY", "MAYBE_BEHIND"}
  BY <1>1, <1>3, <1>4, <1>6 DEF LockInv, EngineFree, InPool
<1> QED BY <1>1, <1>5, <1>6

(* The stream ends, or moves into a task.                                  *)
LEMMA NotReplicatingLock ==
  ASSUME MainInv, ClientTypes, LockInv, NEW pc \in {"decide", "end"}, NotReplicating(pc),
         ~EngineFree, UNCHANGED <<mode, work>>
  PROVE  LockInv'
<1>1. txn'.pc = pc /\ txn'.stream = (txn.stream /\ state # "READY")
  BY NotReplicatingTxn DEF MainInv
<1>2. /\ state' # "REPLICATING" /\ tasks' = tasks
      /\ rpc' = IF state = "READY" THEN (IF txn.stream THEN "free" ELSE rpc) ELSE rpc
  BY DEF NotReplicating, ReleaseStream
<1> QED BY <1>1, <1>2 DEF LockInv, EngineFree, InPool

(* The lock moves into the pool with the stream.                            *)
LEMMA HandToPoolLock ==
  ASSUME MainInv, ClientTypes, LockInv, NEW pc \in {"decide", "end"}, HandToPool(pc),
         ~EngineFree, mode = "ASYNC", UNCHANGED <<mode, work>>
  PROVE  LockInv'
<1>1. txn'.pc = pc /\ txn'.stream = FALSE
  BY HandToPoolTxn DEF MainInv
<1>2. Finalize(clock, txn.prev) \in Tasks /\ tasks \in Seq(Tasks)
  BY LastFinalizedType, FinalizeType DEF MainInv, MainTypes, Txns, ClientTypes
<1>3. CASE txn.stream
  <2>1. rpc = "txn" /\ NoSend(tasks) /\ ~InPool
    BY <1>3 DEF LockInv
  <2>2. rpc' = "pool" /\ tasks' = Append(tasks, Finalize(clock, txn.prev))
    BY <1>3 DEF HandToPool, ts
  <2>3. AtMostOneSend(tasks')
    BY <1>2, <2>1, <2>2, AppendTasks DEF LockInv
  <2> QED BY <1>1, <2>1, <2>2, <2>3 DEF LockInv, EngineFree, InPool
<1>4. CASE ~txn.stream
  <2>1. rpc' = rpc /\ tasks' = tasks
    BY <1>4 DEF HandToPool
  <2> QED BY <1>1, <1>4, <2>1 DEF LockInv, EngineFree, InPool
<1> QED BY <1>3, <1>4 DEF MainInv, MainTypes, Txns

(* The lock and the commit.                                                 *)
LEMMA CommitLock ==
  ASSUME MainInv, ClientTypes, LockInv, Commit
  PROVE  LockInv'
<1>1. CASE ShipDeltas
  <2>1. ~EngineFree /\ UNCHANGED <<mode, work>>
    BY <1>1 DEF ShipDeltas, EngineFree, cluster
  <2>2. CASE mode = "ASYNC" /\ txn' = [txn EXCEPT !.pc = "decide"] /\ UNCHANGED client
    BY <2>1, <2>2 DEF client, LockInv, EngineFree, InPool, MainInv, MainTypes, Txns
  <2> QED BY <1>1, <2>1, <2>2, NotReplicatingLock, HandToPoolLock DEF ShipDeltas
<1>2. CASE SendPrepare
  <2>1. PICK a : txn' = [txn EXCEPT !.pc = "sent", !.answer = a]
    BY <1>2 DEF SendPrepare
  <2>2. txn'.pc = "sent" /\ txn'.stream = txn.stream
    BY <2>1 DEF MainInv, MainTypes, Txns
  <2>3. /\ state = "REPLICATING" /\ mode # "ASYNC" /\ txn.pc = "ship"
        /\ UNCHANGED <<mode, state, tasks, rpc, work>>
    BY <1>2 DEF SendPrepare, client, cluster
  <2> QED BY <2>2, <2>3 DEF LockInv, EngineFree, InPool
<1>3. CASE TakeAnswer
  <2>1. txn.stream /\ rpc = "txn" /\ txn.pc = "sent"
    BY <1>3 DEF TakeAnswer, LockInv
  <2>2. txn'.pc = "decide" /\ txn'.stream = (mode = "STRICT_SYNC" /\ txn.answer # "none")
    BY <1>3, TakeAnswerTxn DEF MainInv
  <2>3. /\ rpc' = IF mode = "STRICT_SYNC" /\ txn.answer # "none" THEN rpc ELSE "free"
        /\ UNCHANGED <<mode, tasks, work>> /\ state' # "REPLICATING"
    BY <1>3 DEF TakeAnswer, StateAfter, cluster
  <2> QED BY <2>1, <2>2, <2>3 DEF LockInv, EngineFree, InPool
<1>4. CASE CommitAlone \/ FinalizeStrict \/ EndAsync
  <2>1. /\ txn.pc \in {"decide", "finalize", "end"} /\ txn' = NoTxn
        /\ rpc' = (IF txn.stream THEN "free" ELSE rpc)
        /\ UNCHANGED <<mode, state, tasks, work>>
    BY <1>4 DEF CommitAlone, FinalizeStrict, EndAsync, ReleaseStream, cluster
  <2> QED BY <2>1, NoTxnType DEF LockInv, EngineFree, InPool
<1>5. CASE Decide
  <2>1. txn.pc = "decide" /\ txn'.pc = "finalize" /\ txn'.stream = txn.stream
    BY <1>5, DecideMain
  <2>2. UNCHANGED <<mode, state, tasks, rpc, work>>
    BY <1>5 DEF Decide, client, cluster
  <2> QED BY <2>1, <2>2 DEF LockInv, EngineFree, InPool
<1>6. CASE FinalizeAsync
  <2>1. ~EngineFree /\ mode = "ASYNC" /\ UNCHANGED <<mode, work>>
    BY <1>6 DEF FinalizeAsync, EngineFree, cluster
  <2>2. CASE /\ rpc' = ReleaseStream /\ txn' = [txn EXCEPT !.pc = "end", !.stream = FALSE]
             /\ UNCHANGED <<state, tasks>>
    <3>1. txn'.pc = "end" /\ txn'.stream = FALSE
      BY <2>2 DEF MainInv, MainTypes, Txns
    <3> QED BY <2>1, <2>2, <3>1 DEF ReleaseStream, LockInv, EngineFree, InPool
  <2> QED BY <1>6, <2>1, <2>2, NotReplicatingLock, HandToPoolLock DEF FinalizeAsync
<1> QED BY <1>1, <1>2, <1>3, <1>4, <1>5, <1>6, StartLock DEF Commit, Starts

(* The steps of the pool that send no transaction.                         *)
Recovers ==
  \/ Heartbeat \/ HeartbeatMissesLock \/ CompareTimestamps
  \/ StartRecovery \/ SendSnapshot \/ SendWals \/ DisableFlushing \/ SendCurrentWal
  \/ StepMissesLock \/ EndRecovery

(* Checks and recoveries keep no lock from one step to the next.            *)
LEMMA RecoversEffect ==
  ASSUME MainInv, ClientTypes, Recovers
  PROVE  /\ UNCHANGED <<rpc, txn, mode>> /\ QuietTasks
         /\ work.pc \in {"heartbeat", "compare", "recover", "steps"}
         /\ work'.pc \in {"idle", "compare", "steps"}
         /\ state' = "REPLICATING" => state = "REPLICATING"
<1>0. work \in Works /\ work.from \in Timestamps
  BY DEF ClientTypes, Works
<1>1. CASE Heartbeat
  BY <1>1, IdleType DEF Heartbeat, QuietTasks, cluster, Works
<1>2. CASE HeartbeatMissesLock \/ StepMissesLock \/ EndRecovery
  BY <1>2, IdleType
  DEF HeartbeatMissesLock, StepMissesLock, EndRecovery, RecoveryFailed, InSteps,
      QuietTasks, cluster, client
<1>3. CASE CompareTimestamps
  <2>1. Recover(work.from) \in Tasks /\ ~IsSend(Recover(work.from))
    BY <1>0, RecoverType DEF IsSend
  <2> QED BY <1>3, <2>1, IdleType DEF CompareTimestamps, QuietTasks, cluster
<1>4. CASE StartRecovery
  <2>1. GetRecoverySteps(work.from).pc = "steps"
    BY <1>0, StepsType
  <2> QED BY <1>4, <2>1, IdleType DEF StartRecovery, QuietTasks, cluster, client
<1>5. CASE SendSnapshot
  BY <1>0, <1>5, IdleType
  DEF SendSnapshot, RecoveryFailed, InSteps, QuietTasks, cluster, Works
<1>6. CASE SendWals
  BY <1>0, <1>6, IdleType
  DEF SendWals, RecoveryFailed, InSteps, QuietTasks, cluster, Works
<1>7. CASE SendCurrentWal
  BY <1>0, <1>7, IdleType
  DEF SendCurrentWal, RecoveryFailed, InSteps, QuietTasks, cluster, Works
<1>8. CASE DisableFlushing
  BY <1>0, <1>8 DEF DisableFlushing, InSteps, QuietTasks, cluster, client, Works
<1> QED BY <1>1, <1>2, <1>3, <1>4, <1>5, <1>6, <1>7, <1>8 DEF Recovers

(* The lock and the pool.                                                   *)
LEMMA PoolLock ==
  ASSUME MainInv, ClientTypes, LockInv, Pool
  PROVE  LockInv'
<1>1. CASE TakeTask
  <2>1. /\ work.pc = "idle" /\ tasks # <<>> /\ tasks' = Tail(tasks)
        /\ work' = WorkOf(Head(tasks)) /\ UNCHANGED <<mode, txn, state, rpc>>
    BY <1>1 DEF TakeTask, WorkOf, cluster
  <2>2. /\ Head(tasks) \in TasksIn(tasks) /\ TasksIn(tasks') \subseteq TasksIn(tasks)
        /\ Head(tasks) \in Tasks /\ AtMostOneSend(tasks')
        /\ IsSend(Head(tasks)) => NoSend(tasks')
    BY <2>1, TailTasks DEF ClientTypes, LockInv
  <2>3. work'.pc \in {"send", "sent"} => IsSend(Head(tasks))
    BY <2>1, <2>2, WorkOfType DEF IsSend
  <2>4. NoSend(tasks) => NoSend(tasks') /\ ~IsSend(Head(tasks))
    BY <2>2 DEF NoSend
  <2> QED BY <2>1, <2>2, <2>3, <2>4 DEF LockInv, EngineFree, InPool
<1>2. CASE SendPrepareAsync
  <2>1. work.pc = "send" /\ UNCHANGED <<mode, txn, state, rpc, tasks>>
    BY <1>2 DEF SendPrepareAsync, client, cluster
  <2> QED BY <2>1, QuietLock DEF InPool, QuietTasks, ClientTypes
<1>3. CASE TakeAnswerAsync
  <2>1. /\ work.pc = "sent" /\ rpc' = "free" /\ work' = Idle /\ state' = StateAfter(work.answer)
        /\ UNCHANGED <<mode, txn, tasks>>
    BY <1>3 DEF TakeAnswerAsync, cluster
  <2>2. rpc = "pool" /\ NoSend(tasks)
    BY <2>1 DEF LockInv, InPool
  <2>3. state' # "REPLICATING"
    BY <2>1 DEF StateAfter
  <2> QED BY <2>1, <2>2, <2>3, IdleType DEF LockInv, EngineFree, InPool
<1>4. CASE Recovers
  BY <1>4, RecoversEffect, QuietLock DEF ClientTypes
<1> QED BY <1>1, <1>2, <1>3, <1>4 DEF Pool, Recovers

(* The lock has one holder.                                                 *)
LEMMA LockStep == MainInv /\ ClientTypes /\ LockInv /\ [Next]_vars => LockInv'
<1> SUFFICES ASSUME MainInv, ClientTypes, LockInv, [Next]_vars PROVE LockInv'
  OBVIOUS
<1>1. CASE CheckerSucceeds \/ CheckerFails
  <2>1. QuietTasks /\ UNCHANGED <<mode, rpc, txn, work>>
        /\ (state' = "REPLICATING" => state = "REPLICATING")
    BY <1>1, CheckType DEF CheckerSucceeds, CheckerFails, QuietTasks, IsSend, cluster
  <2> QED BY <2>1, QuietLock DEF ClientTypes, InPool
<1>2. CASE ReplicaStops \/ ReplicaStarts \/ CreateSnapshot \/ UNCHANGED vars
  <2>1. UNCHANGED <<mode, rpc, txn, work, state, tasks>>
    BY <1>2 DEF ReplicaStops, ReplicaStarts, CreateSnapshot, vars, cluster, client
  <2> QED BY <2>1, QuietLock DEF ClientTypes, InPool, QuietTasks
<1> QED BY <1>1, <1>2, CommitLock, PoolLock DEF Next

-----------------------------------------------------------------------------
(* What the main is certain to commit only grows at its end.               *)

CertainGrows ==
  /\ Certain \subseteq Certain' /\ clock <= clock'
  /\ \A x \in Certain' : x \in Certain \/ (x = clock' /\ \A y \in Certain \cup {0} : y < x)

(* What is certain, with and without two phases.                            *)
LEMMA CertainType ==
  ASSUME MainInv
  PROVE  /\ Certain \subseteq 1..clock /\ clock \in Nat
         /\ EngineFree \/ twoPC => Certain = committed
         /\ ~EngineFree /\ ~twoPC => Certain = committed \cup {clock}
         /\ committed \subseteq Certain
<1>1. /\ clock \in Nat /\ committed \subseteq 1..clock
      /\ ~EngineFree => clock \in 1..clock
  BY LastFinalizedType DEF MainInv, MainTypes
<1>2. /\ EngineFree \/ twoPC => Certain = committed
      /\ ~EngineFree /\ ~twoPC => Certain = committed \cup {clock}
  BY DEF Certain, ts
<1> QED BY <1>1, <1>2

(* Steps that decide nothing.                                               *)
LEMMA SameCertain ==
  ASSUME MainInv, Certain' = Certain, clock' = clock
  PROVE  CertainGrows
BY CertainType DEF CertainGrows

(* Every step adds to it at its end only.                                   *)
LEMMA CertainStep ==
  ASSUME MainInv, MainInv', ClientTypes, [Next]_vars
  PROVE  CertainGrows
<1>0. /\ Certain \subseteq 1..clock /\ clock \in Nat /\ committed \subseteq Certain
      /\ EngineFree \/ twoPC => Certain = committed
      /\ ~EngineFree /\ ~twoPC => Certain = committed \cup {clock}
      /\ EngineFree' \/ twoPC' => Certain' = committed'
      /\ ~EngineFree' /\ ~twoPC' => Certain' = committed' \cup {clock'}
  BY CertainType DEF Certain, ts
<1>1. CASE Starts
  <2>1. EngineFree /\ clock' = clock + 1 /\ UNCHANGED <<twoPC, committed>>
    BY <1>1, StartEffect
  <2>2. Certain = committed /\ (Certain' = committed \/ Certain' = committed \cup {clock'})
    BY <1>0, <2>1
  <2>3. \A y \in Certain \cup {0} : y < clock'
    BY <1>0, <2>1
  <2>4. clock <= clock'
    BY <1>0, <2>1
  <2> QED BY <2>2, <2>3, <2>4 DEF CertainGrows
<1>2. CASE ShipDeltas \/ SendPrepare \/ TakeAnswer
  <2>1. ~EngineFree /\ UNCHANGED <<twoPC, committed, clock>>
    BY <1>2 DEF ShipDeltas, SendPrepare, TakeAnswer, EngineFree, cluster, main
  <2>2. ~EngineFree'
    <3>1. CASE ShipDeltas
      BY <3>1, ShipMain DEF EngineFree
    <3>2. CASE SendPrepare
      <4>1. PICK a : txn' = [txn EXCEPT !.pc = "sent", !.answer = a]
        BY <3>2 DEF SendPrepare
      <4> QED BY <4>1 DEF MainInv, MainTypes, Txns, EngineFree
    <3>3. CASE TakeAnswer
      BY <3>3, TakeAnswerTxn DEF MainInv, EngineFree
    <3> QED BY <1>2, <3>1, <3>2, <3>3
  <2>3. Certain' = Certain
    BY <1>0, <2>1, <2>2 DEF MainInv, MainTypes
  <2> QED BY <2>1, <2>3, SameCertain
<1>3. CASE CommitAlone
  <2>1. /\ ~EngineFree /\ ~twoPC /\ UNCHANGED <<twoPC, clock>> /\ committed' = committed \cup {clock}
        /\ EngineFree'
    BY <1>3, NoTxnType DEF CommitAlone, EngineFree, cluster, ts
  <2> QED BY <1>0, <2>1, SameCertain
<1>4. CASE Decide
  <2>1. /\ twoPC /\ UNCHANGED <<twoPC, clock>> /\ txn.pc = "decide"
        /\ committed' = committed \/ committed' = committed \cup {clock}
    BY <1>4, DecideMain
  <2>2. Certain = committed /\ Certain' = committed' /\ clock \notin committed /\ clock > 0
    BY <1>0, <2>1 DEF MainInv, Undecided, EngineFree
  <2>3. \A y \in Certain \cup {0} : y < clock
    BY <1>0, <2>2
  <2> QED BY <1>0, <2>1, <2>2, <2>3 DEF CertainGrows
<1>5. CASE FinalizeStrict \/ FinalizeAsync \/ EndAsync
  <2>1. txn.pc \in {"finalize", "end"} /\ UNCHANGED <<twoPC, committed, clock>>
    BY <1>5 DEF FinalizeStrict, FinalizeAsync, EndAsync, cluster, main
  <2>2. twoPC
    BY <2>1 DEF MainInv
  <2> QED BY <1>0, <2>1, <2>2, SameCertain
<1>6. CASE UNCHANGED <<twoPC, committed, clock, txn>>
  BY <1>0, <1>6, SameCertain DEF Certain, ts, EngineFree
<1>7. CASE \/ Pool \/ CheckerSucceeds \/ CheckerFails \/ ReplicaStops \/ ReplicaStarts
  BY <1>6, <1>7, PoolLeavesMain DEF mainVars, main, cluster
<1>8. CASE CreateSnapshot \/ UNCHANGED vars
  BY <1>6, <1>8 DEF CreateSnapshot, vars, main, cluster
<1> QED BY <1>1, <1>2, <1>3, <1>4, <1>5, <1>7, <1>8 DEF Next, Commit, Starts

-----------------------------------------------------------------------------
(* The replica.                                                            *)

RepsUpTo(n) == [applied : SUBSET (1..n), ldt : Timestamps, prepared : 0..n]

(* Transaction t waits to be sent, after prev, to a replica with timestamp l: *)
(* nothing lies between it and prev.                                       *)
ToSend(t, prev, C, l) == t \in C /\ l < t /\ \A x \in C : x < t => x <= prev

(* What the replica reports is a timestamp the main is certain of, what it    *)
(* has prepared directly follows what it has, and nobody but the holder of    *)
(* the RPC lock changes what it has.                                        *)
RepInv ==
  /\ rep \in RepsUpTo(clock)
  /\ rep.ldt \in Certain \cup {0}
  /\ rep.prepared # 0 => mode = "STRICT_SYNC"
  /\ rep.prepared = clock /\ ~EngineFree => \A x \in committed : x < clock => x <= rep.ldt
  /\ mode = "ASYNC" /\ txn.stream => rep.ldt < clock
  /\ work.pc = "send" => ToSend(work.ts, work.prev, Certain, rep.ldt)
  /\ \A t \in TasksIn(tasks) : IsSend(t) => ToSend(t.ts, t.prev, Certain, rep.ldt)
  /\ work.snap \in committed \cup {0}

(* The replica is never ahead of the main.                                  *)
LEMMA RepInvMore ==
  ASSUME MainInv, RepInv
  PROVE  /\ rep \in Reps /\ rep.ldt \in 0..clock /\ clock \in Nat
         /\ EngineFree => rep.ldt <= ldt /\ ldt \in Nat
<1>1. Certain \subseteq 1..clock /\ clock \in Nat /\ (EngineFree => Certain = committed)
  BY CertainType
<1>2. rep.ldt \in 0..clock
  <2>1. rep.ldt \in Certain \cup {0}
    BY DEF RepInv
  <2>2. \A x \in Certain \cup {0} : x \in 0..clock
    <3> HIDE DEF Certain
    <3> QED BY <1>1
  <2> QED BY <2>1, <2>2
<1>3. rep \in Reps
  <2>1. 0..clock \subseteq Timestamps
    BY LastFinalizedType, MaxTsType
  <2>2. 1..clock \subseteq Nat
    OBVIOUS
  <2> QED BY <2>1, <2>2 DEF RepInv, RepsUpTo, Reps
<1>4. EngineFree => rep.ldt <= ldt /\ ldt \in Nat
  <2>1. ldt \in Nat /\ \A x \in committed : x <= ldt
    BY MaxTsType DEF MainInv, MainTypes
  <2> QED BY <1>1, <2>1 DEF RepInv
<1> QED BY <1>1, <1>2, <1>3, <1>4

(* A transaction still waits after what is certain has grown.              *)
LEMMA StillToSend ==
  ASSUME MainInv, MainInv', CertainGrows, NEW t, NEW prev, NEW l, ToSend(t, prev, Certain, l)
  PROVE  ToSend(t, prev, Certain', l)
<1>1. t \in Certain /\ l < t /\ \A x \in Certain : x < t => x <= prev
  BY DEF ToSend
<1>2. Certain \subseteq 1..clock /\ clock \in Nat /\ clock' \in Nat
  BY CertainType, MaxTsType DEF MainInv, MainTypes
<1>3. ASSUME NEW x \in Certain', x < t PROVE x <= prev
  <2>1. CASE x \in Certain
    BY <1>1, <1>3, <2>1
  <2>2. CASE x \notin Certain
    <3>1. t < x /\ x = clock'
      BY <1>1, <2>2 DEF CertainGrows
    <3>2. t \in Nat /\ clock' \in Nat
      BY <1>1, <1>2
    <3> DEFINE c == clock'
    <3>3. t < c /\ c < t /\ c \in Nat
      BY <1>3, <3>1, <3>2
    <3> HIDE DEF c
    <3> QED BY <3>2, <3>3
  <2> QED BY <2>1, <2>2
<1> QED BY <1>1, <1>3 DEF ToSend, CertainGrows

(* A step that leaves the replica alone.                                   *)
LEMMA IdleRep ==
  ASSUME MainInv, MainInv', ClientTypes, LockInv, RepInv, CertainGrows,
         rep' = rep, mode' = mode,
         clock' = clock => (~EngineFree' => ~EngineFree) /\ (txn'.stream => txn.stream),
         committed \subseteq committed', committed' \subseteq committed \cup {clock'},
         work'.pc = "send" => ToSend(work'.ts, work'.prev, Certain, rep.ldt),
         work'.snap \in committed \cup {0},
         \A t \in TasksIn(tasks') : IsSend(t) => t \in TasksIn(tasks)
  PROVE  RepInv'
<1>1. /\ clock \in Nat /\ clock' \in Nat /\ clock <= clock' /\ Certain \subseteq Certain'
      /\ rep.ldt \in 0..clock /\ rep.prepared \in 0..clock
  BY LastFinalizedType, RepInvMore, MaxTsType DEF CertainGrows, MainInv, MainTypes, RepInv, RepsUpTo
<1>2. rep' \in RepsUpTo(clock')
  <2>1. rep.applied \subseteq 1..clock /\ rep.ldt \in Timestamps
    BY DEF RepInv, RepsUpTo
  <2>2. rep.applied \subseteq 1..clock' /\ rep.prepared \in 0..clock'
    BY <1>1, <2>1
  <2> QED BY <2>1, <2>2 DEF RepInv, RepsUpTo
<1>3. rep'.ldt \in Certain' \cup {0}
  BY <1>1 DEF RepInv
<1>4. rep'.prepared = clock' /\ ~EngineFree' => \A x \in committed' : x < clock' => x <= rep'.ldt
  <2> SUFFICES ASSUME rep.prepared = clock', ~EngineFree', NEW x \in committed', x < clock'
               PROVE  x <= rep.ldt
    OBVIOUS
  <2>1. clock' = clock
    BY <1>1
  <2>2. x \in committed
    BY <1>1
  <2> QED BY <2>1, <2>2 DEF RepInv
<1>5. mode' = "ASYNC" /\ txn'.stream => rep'.ldt < clock'
  <2>1. CASE clock' = clock
    BY <2>1 DEF RepInv
  <2>2. CASE clock' # clock
    BY <1>1, <2>2
  <2> QED BY <2>1, <2>2
<1>6. /\ work'.pc = "send" => ToSend(work'.ts, work'.prev, Certain', rep'.ldt)
      /\ \A t \in TasksIn(tasks') : IsSend(t) => ToSend(t.ts, t.prev, Certain', rep'.ldt)
  BY StillToSend DEF RepInv
<1> QED BY <1>2, <1>3, <1>4, <1>5, <1>6 DEF RepInv

(* The same when the thread of the pool does nothing either.               *)
LEMMA SameRep ==
  ASSUME MainInv, MainInv', ClientTypes, LockInv, RepInv, CertainGrows,
         rep' = rep, mode' = mode,
         clock' = clock => (~EngineFree' => ~EngineFree) /\ (txn'.stream => txn.stream),
         committed \subseteq committed', committed' \subseteq committed \cup {clock'},
         work' = work, \A t \in TasksIn(tasks') : IsSend(t) => t \in TasksIn(tasks)
  PROVE  RepInv'
<1>1. /\ work'.pc = "send" => ToSend(work'.ts, work'.prev, Certain, rep.ldt)
      /\ work'.snap \in committed \cup {0}
  BY DEF RepInv
<1> QED BY <1>1, IdleRep

(* A step that at most adds a check leaves the transactions to send.        *)
LEMMA QuietSends ==
  ASSUME tasks \in Seq(Tasks), tasks' = tasks \/ tasks' = Append(tasks, Check)
  PROVE  \A t \in TasksIn(tasks') : IsSend(t) => t \in TasksIn(tasks)
<1>1. QuietTasks
  BY CheckType DEF QuietTasks, IsSend
<1> QED BY <1>1, QuietKeeps

(* The beginning of a commit, as the replica sees it.                       *)
LEMMA StartRep ==
  ASSUME MainInv, MainInv', ClientTypes, LockInv, RepInv, CertainGrows, Starts
  PROVE  RepInv'
<1>1. /\ clock' = clock + 1 /\ clock \in Nat /\ UNCHANGED <<mode, rep, work, committed>>
      /\ tasks' = tasks \/ tasks' = Append(tasks, Check)
  BY StartEffect
<1>2. \A t \in TasksIn(tasks') : IsSend(t) => t \in TasksIn(tasks)
  BY <1>1, QuietSends DEF ClientTypes
<1>3. clock' # clock
  BY <1>1
<1> QED BY <1>1, <1>2, <1>3, SameRep

(* HandToPool when the transaction is certain.                             *)
LEMMA HandToPoolRep ==
  ASSUME MainInv, MainInv', ClientTypes, LockInv, RepInv, CertainGrows,
         NEW pc \in {"decide", "end"}, HandToPool(pc), mode = "ASYNC",
         clock \in Certain, \A x \in Certain : x < clock => x <= txn.prev,
         ~EngineFree, UNCHANGED <<mode, clock, committed, work, rep>>
  PROVE  RepInv'
<1>1. txn'.pc = pc /\ txn'.stream = FALSE
  BY HandToPoolTxn DEF MainInv
<1>2. CASE txn.stream
  <2> DEFINE f == Finalize(clock, txn.prev)
  <2>1. f \in Tasks /\ tasks \in Seq(Tasks) /\ f.ts = clock /\ f.prev = txn.prev
    BY LastFinalizedType, FinalizeType DEF MainInv, MainTypes, Txns, ClientTypes
  <2>2. tasks' = Append(tasks, f)
    BY <1>2 DEF HandToPool, ts
  <2> HIDE DEF f
  <2>3. TasksIn(tasks') = TasksIn(tasks) \cup {f}
    BY <2>1, <2>2, AppendTasks
  <2>4. ToSend(f.ts, f.prev, Certain, rep.ldt)
    BY <1>2, <2>1 DEF ToSend, RepInv
  <2>5. \A t \in TasksIn(tasks') : IsSend(t) => ToSend(t.ts, t.prev, Certain', rep.ldt)
    BY <2>3, <2>4, StillToSend DEF RepInv
  <2>6. work'.pc = "send" => ToSend(work'.ts, work'.prev, Certain', rep'.ldt)
    BY StillToSend DEF RepInv
  <2>7. rep.ldt \in Certain' \cup {0}
    BY DEF RepInv, CertainGrows
  <2> QED BY <1>1, <2>5, <2>6, <2>7 DEF RepInv
<1>3. CASE ~txn.stream
  <2>1. tasks' = tasks
    BY <1>3 DEF HandToPool
  <2> QED BY <1>1, <2>1, SameRep
<1> QED BY <1>2, <1>3 DEF MainInv, MainTypes, Txns

(* A transaction that moves into the pool follows what the replica was sent *)
(* last.                                                                    *)
LEMMA ShipRep ==
  ASSUME MainInv, MainInv', ClientTypes, LockInv, RepInv, CertainGrows, ShipDeltas
  PROVE  RepInv'
<1>1. /\ txn.pc = "ship" /\ ~EngineFree /\ Undecided
      /\ UNCHANGED <<mode, twoPC, clock, committed, ldt, work, rep>>
  BY DEF ShipDeltas, EngineFree, Undecided, cluster, main
<1>2. CASE txn' = [txn EXCEPT !.pc = "decide"] /\ UNCHANGED client
  <2>1. txn'.stream = txn.stream /\ tasks' = tasks
    BY <1>2 DEF MainInv, MainTypes, Txns, client
  <2> QED BY <1>1, <2>1, SameRep
<1>3. CASE mode = "ASYNC" /\ ~twoPC /\ HandToPool("decide")
  <2>1. Certain = committed \cup {clock}
    BY <1>1, <1>3, CertainType
  <2>2. \A x \in Certain : x < clock => x <= txn.prev
    <3> SUFFICES ASSUME NEW x \in Certain, x < clock PROVE x <= txn.prev
      OBVIOUS
    <3>1. x \in committed
      BY <2>1, CertainType
    <3> QED BY <1>1, <3>1 DEF MainInv
  <2> QED BY <1>1, <1>3, <2>1, <2>2, HandToPoolRep
<1>4. CASE NotReplicating("decide")
  <2>1. txn'.stream = (txn.stream /\ state # "READY")
    BY <1>4, NotReplicatingTxn DEF MainInv
  <2>2. tasks' = tasks
    BY <1>4 DEF NotReplicating
  <2> QED BY <1>1, <2>1, <2>2, SameRep
<1> QED BY <1>2, <1>3, <1>4 DEF ShipDeltas

(* What PrepareCommit makes of the replica.                                *)
LEMMA PrepareEffect ==
  ASSUME NEW n \in Nat, NEW r \in RepsUpTo(n), NEW t \in 1..n, NEW prev \in Timestamps, t \in Timestamps
  PROVE  LET p == PrepareCommit(r, t, prev)
         IN  /\ p \in RepsUpTo(n)
             /\ ~PrepareAccepted(r, prev) => p.ldt = r.ldt /\ p.applied = r.applied /\ p.prepared = 0
             /\ PrepareAccepted(r, prev) /\ mode = "STRICT_SYNC" =>
                  p.ldt = r.ldt /\ p.applied = r.applied /\ p.prepared = t
             /\ PrepareAccepted(r, prev) /\ mode # "STRICT_SYNC" =>
                  p.ldt = t /\ p.applied = r.applied \cup {t} /\ p.prepared = 0
<1> DEFINE p == PrepareCommit(r, t, prev)
<1>0. 0 \in 0..n /\ t \in 0..n
  OBVIOUS
<1>1. CASE ~PrepareAccepted(r, prev)
  <2>1. p = [r EXCEPT !.prepared = 0]
    BY <1>1 DEF PrepareCommit
  <2> QED BY <1>0, <1>1, <2>1 DEF RepsUpTo
<1>2. CASE PrepareAccepted(r, prev) /\ mode = "STRICT_SYNC"
  <2>1. p = [[r EXCEPT !.prepared = 0] EXCEPT !.prepared = t]
    BY <1>2 DEF PrepareCommit
  <2> QED BY <1>0, <1>2, <2>1 DEF RepsUpTo
<1>3. CASE PrepareAccepted(r, prev) /\ mode # "STRICT_SYNC"
  <2>1. p = [applied |-> r.applied \cup {t}, ldt |-> t, prepared |-> 0]
    BY <1>3 DEF PrepareCommit
  <2> QED BY <1>0, <1>3, <2>1 DEF RepsUpTo
<1> QED BY <1>1, <1>2, <1>3

(* The prepare of a SYNC or STRICT_SYNC client.                             *)
LEMMA SendPrepareRep ==
  ASSUME MainInv, MainInv', ClientTypes, LockInv, RepInv, CertainGrows, SendPrepare
  PROVE  RepInv'
<1>1. PICK o \in Outcomes :
        /\ rep' = IF Handled(o) THEN PrepareCommit(rep, clock, txn.prev) ELSE rep
        /\ txn' = [txn EXCEPT !.pc = "sent", !.answer = Answer(o, txn.prev)]
  BY DEF SendPrepare, ts
<1>2. /\ txn.pc = "ship" /\ mode # "ASYNC" /\ ~EngineFree /\ Undecided
      /\ UNCHANGED <<mode, twoPC, clock, committed, ldt, tasks, work>>
  BY DEF SendPrepare, EngineFree, Undecided, cluster, main, client
<1>3. txn'.stream = txn.stream /\ txn'.pc = "sent"
  BY <1>1 DEF MainInv, MainTypes, Txns
<1>4. NoSend(tasks) /\ work.pc # "send"
  BY <1>2 DEF LockInv, InPool
<1>5. CASE rep' = rep
  BY <1>2, <1>3, <1>5, SameRep
<1>6. CASE rep' = PrepareCommit(rep, clock, txn.prev)
  <2>1. clock \in Nat /\ clock \in 1..clock /\ rep \in RepsUpTo(clock) /\ txn.prev \in Timestamps
        /\ clock \in Timestamps
    BY <1>2, LastFinalizedType DEF MainInv, MainTypes, Txns, RepInv
  <2>2. /\ rep' \in RepsUpTo(clock)
        /\ ~PrepareAccepted(rep, txn.prev) => rep'.ldt = rep.ldt /\ rep'.prepared = 0
        /\ PrepareAccepted(rep, txn.prev) /\ mode = "STRICT_SYNC" =>
             rep'.ldt = rep.ldt /\ rep'.prepared = clock
        /\ PrepareAccepted(rep, txn.prev) /\ mode # "STRICT_SYNC" =>
             rep'.ldt = clock /\ rep'.prepared = 0
    BY <1>6, <2>1, PrepareEffect
  <2>3. rep'.ldt \in Certain' \cup {0}
    <3>1. mode # "STRICT_SYNC" => clock \in Certain
      BY <1>2, CertainType DEF MainInv, MainTypes
    <3> QED BY <2>2, <3>1 DEF CertainGrows, RepInv
  <2>4. rep'.prepared = clock /\ mode = "STRICT_SYNC" => \A x \in committed : x < clock => x <= rep'.ldt
    <3> SUFFICES ASSUME rep'.prepared = clock, mode = "STRICT_SYNC", NEW x \in committed
                 PROVE  x <= rep'.ldt
      OBVIOUS
    <3>1. PrepareAccepted(rep, txn.prev)
      BY <2>1, <2>2
    <3>2. rep'.ldt = rep.ldt /\ txn.prev <= rep.ldt /\ txn.prev = ldt /\ x <= ldt
      BY <1>2, <2>2, <3>1 DEF PrepareAccepted, MainInv
    <3>3. x \in Nat /\ ldt \in Nat /\ rep.ldt \in Nat
      BY RepInvMore, MaxTsType DEF MainInv, MainTypes
    <3> QED BY <3>2, <3>3
  <2>5. rep'.prepared # 0 => mode = "STRICT_SYNC"
    BY <2>2
  <2>6. clock > 0
    BY <1>2 DEF MainInv
  <2>7. rep'.prepared = clock => mode = "STRICT_SYNC"
    BY <2>5, <2>6, <2>1
  <2> QED BY <1>2, <1>3, <1>4, <2>2, <2>3, <2>4, <2>5, <2>7 DEF RepInv, NoSend
<1> QED BY <1>1, <1>5, <1>6

(* FinalizeCommit: the transaction prepared there is applied or dropped.     *)
LEMMA FinalizeEffect ==
  ASSUME NEW n \in Nat, NEW r \in RepsUpTo(n), NEW t \in 1..n, t \in Timestamps,
         NEW decision \in BOOLEAN
  PROVE  LET p == FinalizeCommit(r, t, decision)
         IN  /\ p \in RepsUpTo(n) /\ p.prepared \in {0, r.prepared}
             /\ r.prepared # t \/ ~decision => p.ldt = r.ldt /\ p.applied = r.applied
             /\ r.prepared = t /\ decision => p.ldt = t /\ p.applied = r.applied \cup {t}
<1> DEFINE p == FinalizeCommit(r, t, decision)
<1>0. 0 \in 0..n
  OBVIOUS
<1>1. CASE r.prepared # t
  BY <1>1 DEF FinalizeCommit
<1>2. CASE r.prepared = t /\ decision
  <2>1. p = [applied |-> r.applied \cup {t}, ldt |-> t, prepared |-> 0]
    BY <1>2 DEF FinalizeCommit
  <2>2. p \in RepsUpTo(n) /\ p.prepared = 0 /\ p.ldt = t /\ p.applied = r.applied \cup {t}
    BY <1>0, <2>1 DEF RepsUpTo
  <2> QED BY <1>2, <2>2
<1>3. CASE r.prepared = t /\ ~decision
  <2>1. p = [r EXCEPT !.prepared = 0]
    BY <1>3 DEF FinalizeCommit
  <2> QED BY <1>0, <1>3, <2>1 DEF RepsUpTo
<1> QED BY <1>1, <1>2, <1>3

(* The second phase of a STRICT_SYNC client.                                *)
LEMMA FinalizeStrictRep ==
  ASSUME MainInv, MainInv', ClientTypes, LockInv, RepInv, CertainGrows, FinalizeStrict
  PROVE  RepInv'
<1>1. /\ txn.pc = "finalize" /\ mode = "STRICT_SYNC" /\ ~EngineFree /\ EngineFree' /\ ~txn'.stream
      /\ UNCHANGED <<mode, twoPC, clock, committed, ldt, tasks, work>>
  BY NoTxnType DEF FinalizeStrict, EngineFree, cluster, main
<1>2. rep' = rep \/ rep' = FinalizeCommit(rep, clock, txn.decision)
  BY DEF FinalizeStrict, ts
<1>3. NoSend(tasks) /\ work.pc # "send"
  BY <1>1 DEF LockInv, InPool
<1>4. CASE rep' = rep
  BY <1>1, <1>4, SameRep
<1>5. CASE rep' = FinalizeCommit(rep, clock, txn.decision)
  <2>1. clock \in Nat /\ clock \in 1..clock /\ rep \in RepsUpTo(clock) /\ clock \in Timestamps
        /\ txn.decision \in BOOLEAN
    BY <1>1, LastFinalizedType DEF MainInv, MainTypes, Txns, RepInv
  <2>2. /\ rep' \in RepsUpTo(clock)
        /\ rep'.ldt = rep.ldt \/ (txn.decision /\ rep'.ldt = clock)
    BY <1>5, <2>1, FinalizeEffect
  <2>3. txn.decision => clock \in Certain
    <3>1. txn.decision => clock \in committed
      BY <1>1, <2>1 DEF MainInv
    <3> QED BY <3>1, CertainType
  <2>4. rep'.ldt \in Certain' \cup {0}
    BY <2>2, <2>3 DEF CertainGrows, RepInv
  <2> QED BY <1>1, <1>3, <2>2, <2>4 DEF RepInv, NoSend
<1> QED BY <1>2, <1>4, <1>5

(* The second phase of an ASYNC client.                                     *)
LEMMA FinalizeAsyncRep ==
  ASSUME MainInv, MainInv', ClientTypes, LockInv, RepInv, CertainGrows, FinalizeAsync
  PROVE  RepInv'
<1>1. /\ txn.pc = "finalize" /\ mode = "ASYNC" /\ ~EngineFree /\ twoPC
      /\ UNCHANGED <<mode, twoPC, clock, committed, ldt, work, rep>>
  BY DEF FinalizeAsync, EngineFree, MainInv, cluster, main
<1>2. CASE NotReplicating("end")
  <2>1. txn'.stream = (txn.stream /\ state # "READY")
    BY <1>2, NotReplicatingTxn DEF MainInv
  <2>2. tasks' = tasks
    BY <1>2 DEF NotReplicating
  <2> QED BY <1>1, <2>1, <2>2, SameRep
<1>3. CASE txn.decision /\ HandToPool("end")
  <2>1. clock \in Certain /\ Certain = committed
    <3>1. ldt = clock /\ clock > 0 /\ ldt \in committed \cup {0}
      BY <1>1, <1>3 DEF MainInv
    <3> QED BY <1>1, <3>1, CertainType
  <2>2. \A x \in Certain : x < clock => x <= txn.prev
    BY <1>1, <2>1 DEF MainInv
  <2> QED BY <1>1, <1>3, <2>1, <2>2, HandToPoolRep
<1>4. CASE txn' = [txn EXCEPT !.pc = "end", !.stream = FALSE] /\ UNCHANGED <<state, tasks>>
  <2>1. txn'.stream = FALSE
    BY <1>4 DEF MainInv, MainTypes, Txns
  <2> QED BY <1>1, <1>4, <2>1, SameRep
<1> QED BY <1>2, <1>3, <1>4 DEF FinalizeAsync

(* The commit and the replica.                                              *)
LEMMA CommitRep ==
  ASSUME MainInv, MainInv', ClientTypes, LockInv, RepInv, CertainGrows, Commit
  PROVE  RepInv'
<1>1. CASE TakeAnswer
  <2>1. txn.stream /\ ~EngineFree /\ UNCHANGED <<mode, clock, committed, tasks, work, rep>>
    BY <1>1 DEF TakeAnswer, LockInv, EngineFree, cluster, main
  <2> QED BY <2>1, SameRep
<1>2. CASE CommitAlone \/ EndAsync
  <2>1. /\ ~EngineFree /\ txn' = NoTxn /\ UNCHANGED <<mode, clock, tasks, work, rep>>
        /\ committed' = committed \/ committed' = committed \cup {clock}
    BY <1>2 DEF CommitAlone, EndAsync, EngineFree, cluster, main, ts
  <2> QED BY <2>1, NoTxnType, SameRep
<1>3. CASE Decide
  <2>1. /\ ~EngineFree /\ txn'.stream = txn.stream /\ UNCHANGED <<mode, clock, tasks, work, rep>>
        /\ committed' = committed \/ committed' = committed \cup {clock}
    <3>1. txn.pc = "decide" /\ txn'.stream = txn.stream
          /\ (committed' = committed \/ committed' = committed \cup {clock})
      BY <1>3, DecideMain
    <3> QED BY <1>3, <3>1 DEF Decide, EngineFree, cluster, client
  <2> QED BY <2>1, SameRep
<1> QED BY <1>1, <1>2, <1>3, StartRep, ShipRep, SendPrepareRep, FinalizeStrictRep, FinalizeAsyncRep
    DEF Commit, Starts

(* SnapshotHandler.                                                        *)
LEMMA SnapshotEffect ==
  ASSUME MainInv, NEW s \in committed \cup {0}
  PROVE  /\ LoadSnapshot(s) \in RepsUpTo(clock) /\ LoadSnapshot(s).ldt = s
         /\ LoadSnapshot(s).prepared = 0
         /\ LoadSnapshot(s).applied = {t \in committed : t <= s}
<1>1. s \in Timestamps /\ committed \subseteq 1..clock /\ 0 \in 0..clock
  BY LastFinalizedType, MaxTsType DEF MainInv, MainTypes
<1>2. {t \in committed : t <= s} \in SUBSET (1..clock)
  BY <1>1
<1> DEFINE a == {t \in committed : t <= s}
<1>3. LoadSnapshot(s) = [applied |-> a, ldt |-> s, prepared |-> 0]
  BY DEF LoadSnapshot
<1>4. a \in SUBSET (1..clock)
  BY <1>2
<1> HIDE DEF a
<1>5. /\ LoadSnapshot(s) \in RepsUpTo(clock) /\ LoadSnapshot(s).ldt = s
      /\ LoadSnapshot(s).prepared = 0 /\ LoadSnapshot(s).applied = a
  BY <1>1, <1>3, <1>4 DEF RepsUpTo
<1> QED BY <1>5 DEF a

(* The replica after files lo..hi, up to h.                                *)
Loaded(lo, hi, h) ==
  /\ h \in {rep.ldt} \cup Missing(rep, lo, hi) /\ rep.ldt <= h /\ rep'.ldt = h
  /\ \/ h = rep.ldt /\ rep'.applied = rep.applied
     \/ rep'.applied = rep.applied \cup Missing(rep, lo, h)

(* WalFilesHandler, CurrentWalHandler: the replica loads the transactions it  *)
(* lacks, up to h.                                                         *)
LEMMA WalEffect ==
  ASSUME MainInv, RepInv, NEW lo, NEW hi, NEW o \in Outcomes, NEW h \in Timestamps,
         SendWal(lo, hi, o, h)
  PROVE  /\ rep' \in RepsUpTo(clock) /\ rep'.ldt = h /\ rep'.prepared \in {0, rep.prepared}
         /\ h \in {rep.ldt} \cup Missing(rep, lo, hi) /\ rep.ldt <= h
         /\ Handled(o) => \A t \in Missing(rep, lo, hi) : t <= h
         /\ \/ h = rep.ldt /\ rep'.applied = rep.applied
            \/ rep'.applied = rep.applied \cup Missing(rep, lo, h)
         /\ rep'.ldt \in Certain \cup {0}
         /\ Loaded(lo, hi, h)
<1>1. /\ h \in {rep.ldt} \cup Missing(rep, lo, hi)
      /\ Handled(o) => \A t \in Missing(rep, lo, hi) : t <= h
      /\ o = "lost" => h = rep.ldt
      /\ rep' = IF o = "lost" THEN rep ELSE LoadWal(rep, lo, h)
  BY DEF SendWal
<1>2. rep.ldt \in Nat /\ clock \in Nat /\ committed \subseteq 1..clock
  BY RepInvMore, LastFinalizedType DEF MainInv, MainTypes
<1>3. rep.ldt <= h
  <2>1. \A x \in Missing(rep, lo, hi) : x \in 1..clock /\ rep.ldt < x
    BY <1>2 DEF Missing
  <2>2. h = rep.ldt \/ (h \in Nat /\ rep.ldt < h)
    BY <1>1, <1>2, <2>1
  <2> QED BY <1>2, <2>2
<1>4. h \in Certain \cup {0}
  <2>1. Missing(rep, lo, hi) \subseteq committed /\ committed \subseteq Certain
    BY CertainType DEF Missing
  <2> QED BY <1>1, <2>1 DEF RepInv
<1>5. CASE o = "lost"
  BY <1>1, <1>3, <1>4, <1>5 DEF RepInv, Loaded
<1>6. CASE o # "lost"
  <2> DEFINE a == rep.applied \cup Missing(rep, lo, h)
  <2>1. rep' = [applied |-> a, ldt |-> h, prepared |-> 0]
    BY <1>1, <1>6 DEF LoadWal
  <2>2. a \in SUBSET (1..clock) /\ 0 \in 0..clock
    <3>1. rep.applied \in SUBSET (1..clock)
      BY DEF RepInv, RepsUpTo
    <3>2. Missing(rep, lo, h) \subseteq committed
      BY DEF Missing
    <3>3. 0 \in 0..clock
      BY <1>2
    <3>4. Missing(rep, lo, h) \subseteq 1..clock
      BY <1>2, <3>2, Zenon
    <3> QED BY <3>1, <3>3, <3>4, Zenon
  <2> HIDE DEF a
  <2>3. rep' \in RepsUpTo(clock) /\ rep'.ldt = h /\ rep'.prepared = 0 /\ rep'.applied = a
    BY <2>1, <2>2 DEF RepsUpTo
  <2> QED BY <1>1, <1>3, <1>4, <2>3 DEF a, Loaded
<1> QED BY <1>5, <1>6

(* A step under the RPC lock, which no commit and no task has: the replica    *)
(* may change.                                                             *)
LEMMA FreeRep ==
  ASSUME MainInv, ClientTypes, LockInv, RepInv, UNCHANGED mainVars, rpc = "free", tasks' = tasks,
         work'.pc # "send", work'.snap \in committed \cup {0},
         rep' \in RepsUpTo(clock), rep'.ldt \in Certain \cup {0}, rep'.prepared = 0
  PROVE  RepInv'
<1>1. NoSend(tasks) /\ ~txn.stream
  BY DEF LockInv
<1>2. UNCHANGED <<mode, clock, committed, txn>> /\ Certain' = Certain /\ EngineFree' = EngineFree
  BY DEF mainVars, cluster, main, Certain, EngineFree, ts
<1>3. ~EngineFree => rep'.prepared # clock
  <2>1. ~EngineFree => clock > 0
    BY DEF MainInv
  <2> QED BY <2>1, LastFinalizedType
<1> QED BY <1>1, <1>2, <1>3 DEF RepInv, NoSend

(* The pool's checks and recovery steps and the replica.                    *)
LEMMA RecoversRep ==
  ASSUME MainInv, MainInv', ClientTypes, LockInv, RepInv, CertainGrows, Recovers
  PROVE  RepInv'
<1>0. UNCHANGED mainVars /\ UNCHANGED <<mode, clock, committed, txn>>
  BY PoolLeavesMain DEF Recovers, Pool, mainVars, cluster, main
<1>1. /\ QuietTasks /\ work'.pc # "send"
      /\ \A t \in TasksIn(tasks') : IsSend(t) => t \in TasksIn(tasks)
  BY RecoversEffect, QuietKeeps DEF ClientTypes
<1>2. work \in Works /\ work.snap \in committed \cup {0} /\ work.from \in Timestamps /\ Idle.snap = 0
  BY IdleType DEF ClientTypes, RepInv, Works
<1>3. ASSUME rep' = rep, work'.snap \in committed \cup {0} PROVE RepInv'
  <2>1. EngineFree' = EngineFree
    BY <1>0 DEF EngineFree
  <2> QED BY <1>0, <1>1, <1>3, <2>1, IdleRep
<1>4. CASE Heartbeat \/ HeartbeatMissesLock \/ CompareTimestamps \/ StepMissesLock \/ EndRecovery
  <2>1. rep' = rep
    BY <1>4 DEF Heartbeat, HeartbeatMissesLock, CompareTimestamps, StepMissesLock, EndRecovery
  <2>2. work'.snap = 0
    BY <1>4, <1>2 DEF Heartbeat, HeartbeatMissesLock, CompareTimestamps, StepMissesLock,
       EndRecovery, RecoveryFailed, Idle
  <2> QED BY <1>3, <2>1, <2>2
<1>5. CASE StartRecovery
  <2>1. rep' = rep /\ work' \in {GetRecoverySteps(work.from), Idle}
    BY <1>5 DEF StartRecovery
  <2>2. GetRecoverySteps(work.from).snap \in {0, LatestSnapshot}
    BY <1>2, StepsType
  <2>3. LatestSnapshot \in committed \cup {0}
    <3>1. snapshots = {} => LatestSnapshot = 0
      BY DEF LatestSnapshot
    <3> QED BY <3>1, FilesTypes DEF MainInv
  <2> QED BY <1>2, <1>3, <2>1, <2>2, <2>3
<1>6. CASE SendSnapshot
  <2>1. /\ rpc = "free" /\ tasks' = tasks
        /\ rep' \in {rep, LoadSnapshot(work.snap), LoadSnapshot(0)}
        /\ work' \in {[work EXCEPT !.from = work.snap, !.snap = 0], Idle}
    BY <1>6 DEF SendSnapshot, RecoveryFailed, ClearedStorage
  <2>2. work'.snap = 0
    BY <1>2, <2>1 DEF Works
  <2>3. CASE rep' = rep
    BY <1>3, <2>2, <2>3
  <2>4. CASE rep' # rep
    <3>1. PICK s \in committed \cup {0} : rep' = LoadSnapshot(s)
      BY <1>2, <2>1, <2>4
    <3>2. rep' \in RepsUpTo(clock) /\ rep'.ldt \in Certain \cup {0} /\ rep'.prepared = 0
      BY <3>1, SnapshotEffect, CertainType
    <3> QED BY <1>0, <1>1, <2>1, <2>2, <3>2, FreeRep
  <2> QED BY <2>3, <2>4
<1>7. ASSUME NEW lo, NEW hi, NEW o \in Outcomes, NEW h \in Timestamps, SendWal(lo, hi, o, h),
             rpc = "free", tasks' = tasks, work'.snap \in committed \cup {0}
      PROVE  RepInv'
  <2>1. /\ rep' \in RepsUpTo(clock) /\ rep'.ldt \in Certain \cup {0}
        /\ rep' = rep \/ rep' = LoadWal(rep, lo, h)
    BY <1>7, WalEffect DEF SendWal
  <2>2. CASE rep' = rep
    BY <1>3, <1>7, <2>2
  <2>3. CASE rep' = LoadWal(rep, lo, h)
    <3>1. rep'.prepared = 0
      BY <2>3 DEF LoadWal
    <3> QED BY <1>0, <1>1, <1>7, <2>1, <3>1, FreeRep
  <2> QED BY <2>1, <2>2, <2>3
<1>8. CASE SendWals
  <2>1. PICK o \in Outcomes, h \in Timestamps :
          /\ SendWal(work.lo, work.hi, o, h)
          /\ work' \in {[work EXCEPT !.from = h, !.lo = 0, !.hi = 0], Idle}
    BY <1>8 DEF SendWals, RecoveryFailed
  <2>2. rpc = "free" /\ tasks' = tasks
    BY <1>8 DEF SendWals
  <2>3. work'.snap \in committed \cup {0}
    BY <1>2, <2>1 DEF Works
  <2> QED BY <1>7, <2>1, <2>2, <2>3
<1>9. CASE SendCurrentWal
  <2>1. PICK o \in Outcomes, h \in Timestamps :
          /\ SendWal(wal.cur, clock, o, h)
          /\ work' \in {[work EXCEPT !.from = h, !.seq = 0, !.sending = FALSE], Idle}
    BY <1>9 DEF SendCurrentWal, RecoveryFailed
  <2>2. rpc = "free" /\ tasks' = tasks
    BY <1>9 DEF SendCurrentWal
  <2>3. work'.snap \in committed \cup {0}
    BY <1>2, <2>1 DEF Works
  <2> QED BY <1>7, <2>1, <2>2, <2>3
<1>10. CASE DisableFlushing
  <2>1. rep' = rep /\ work' \in {[work EXCEPT !.sending = TRUE], [work EXCEPT !.seq = 0]}
    BY <1>10 DEF DisableFlushing
  <2>2. work'.snap = work.snap
    BY <1>2, <2>1 DEF Works
  <2> QED BY <1>2, <1>3, <2>1, <2>2
<1> QED BY <1>4, <1>5, <1>6, <1>8, <1>9, <1>10 DEF Recovers

(* The answer comes in while the RPC lock is the pool's.                   *)
LEMMA SendPrepareAsyncRep ==
  ASSUME MainInv, MainInv', ClientTypes, LockInv, RepInv, CertainGrows, SendPrepareAsync
  PROVE  RepInv'
<1>1. PICK o \in Outcomes :
        /\ rep' = IF Handled(o) THEN PrepareCommit(rep, work.ts, work.prev) ELSE rep
        /\ work' = [Idle EXCEPT !.pc = "sent", !.answer = Answer(o, work.prev)]
  BY DEF SendPrepareAsync
<1>2. work.pc = "send" /\ tasks' = tasks /\ UNCHANGED <<mode, clock, committed, txn, twoPC>>
  BY DEF SendPrepareAsync, client, main, cluster
<1>3. work'.pc = "sent" /\ work'.snap = 0
  BY <1>1 DEF Idle
<1>4. rpc = "pool" /\ NoSend(tasks) /\ mode = "ASYNC" /\ ~txn.stream
  BY <1>2 DEF LockInv, InPool
<1>5. ToSend(work.ts, work.prev, Certain, rep.ldt)
  BY <1>2 DEF RepInv
<1>6. EngineFree' = EngineFree
  BY <1>2 DEF EngineFree
<1>7. CASE rep' = rep
  BY <1>2, <1>3, <1>6, <1>7, IdleRep
<1>8. CASE rep' = PrepareCommit(rep, work.ts, work.prev)
  <2>1. /\ clock \in Nat /\ work.ts \in 1..clock /\ rep \in RepsUpTo(clock)
        /\ work.ts \in Timestamps /\ work.prev \in Timestamps
    BY <1>5, CertainType DEF ToSend, ClientTypes, Works, RepInv
  <2>2. /\ rep' \in RepsUpTo(clock) /\ rep'.prepared = 0
        /\ rep'.ldt = rep.ldt \/ rep'.ldt = work.ts
    BY <1>4, <1>8, <2>1, PrepareEffect
  <2>3. rep'.ldt \in Certain' \cup {0}
    BY <1>5, <2>2 DEF ToSend, RepInv, CertainGrows
  <2>4. ~EngineFree => rep'.prepared # clock
    <3>1. ~EngineFree => clock > 0
      BY DEF MainInv
    <3> QED BY <2>1, <2>2, <3>1
  <2> QED BY <1>2, <1>3, <1>4, <1>6, <2>2, <2>3, <2>4 DEF RepInv, NoSend
<1> QED BY <1>1, <1>7, <1>8

(* The pool and the replica.                                                *)
LEMMA PoolRep ==
  ASSUME MainInv, MainInv', ClientTypes, LockInv, RepInv, CertainGrows, Pool
  PROVE  RepInv'
<1>0. UNCHANGED <<mode, clock, committed, txn>> /\ EngineFree' = EngineFree
  BY PoolLeavesMain DEF mainVars, cluster, main, EngineFree
<1>1. CASE TakeTask
  <2>1. /\ work.pc = "idle" /\ tasks # <<>> /\ tasks' = Tail(tasks) /\ rep' = rep
        /\ work' = WorkOf(Head(tasks))
    BY <1>1 DEF TakeTask, WorkOf
  <2>2. /\ Head(tasks) \in TasksIn(tasks) /\ TasksIn(tasks') \subseteq TasksIn(tasks)
        /\ Head(tasks) \in Tasks
    BY <2>1, TailTasks DEF ClientTypes
  <2>3. work'.pc = "send" => ToSend(work'.ts, work'.prev, Certain, rep.ldt)
    <3>1. work'.pc = "send" => IsSend(Head(tasks))
      BY <2>1, <2>2, WorkOfType DEF IsSend
    <3>2. work'.ts = Head(tasks).ts /\ work'.prev = Head(tasks).prev
      BY <2>1, <2>2, WorkOfType
    <3> QED BY <2>2, <3>1, <3>2 DEF RepInv
  <2>4. work'.snap = 0
    BY <2>1 DEF WorkOf, Idle
  <2> QED BY <1>0, <2>1, <2>2, <2>3, <2>4, IdleRep
<1>2. CASE TakeAnswerAsync
  <2>1. rep' = rep /\ work' = Idle /\ tasks' = tasks
    BY <1>2 DEF TakeAnswerAsync
  <2> QED BY <1>0, <2>1, IdleType, IdleRep
<1> QED BY <1>1, <1>2, SendPrepareAsyncRep, RecoversRep DEF Pool, Recovers

(* The replica keeps its invariant.                                         *)
LEMMA RepStep == MainInv /\ MainInv' /\ ClientTypes /\ LockInv /\ RepInv /\ [Next]_vars => RepInv'
<1> SUFFICES ASSUME MainInv, MainInv', ClientTypes, LockInv, RepInv, [Next]_vars PROVE RepInv'
  OBVIOUS
<1>0. CertainGrows
  BY CertainStep
<1>1. CASE CheckerSucceeds \/ CheckerFails \/ ReplicaStarts \/ CreateSnapshot \/ UNCHANGED vars
  <2>1. /\ UNCHANGED <<mode, clock, committed, txn, work, rep>>
        /\ tasks' = tasks \/ tasks' = Append(tasks, Check)
    BY <1>1 DEF CheckerSucceeds, CheckerFails, ReplicaStarts, CreateSnapshot, vars, main, cluster, client
  <2>2. \A t \in TasksIn(tasks') : IsSend(t) => t \in TasksIn(tasks)
    BY <2>1, QuietSends DEF ClientTypes
  <2>3. EngineFree' = EngineFree
    BY <2>1 DEF EngineFree
  <2> QED BY <1>0, <2>1, <2>2, <2>3, SameRep
<1>2. CASE ReplicaStops
  <2>1. /\ UNCHANGED <<mode, twoPC, clock, committed, txn, work, tasks>>
        /\ rep' = [rep EXCEPT !.prepared = 0]
    BY <1>2 DEF ReplicaStops, main, cluster, client
  <2>2. 0 \in 0..clock
    BY LastFinalizedType
  <2>3. /\ rep' \in RepsUpTo(clock) /\ rep'.prepared = 0 /\ rep'.ldt = rep.ldt
    BY <2>1, <2>2 DEF RepInv, RepsUpTo
  <2>4. Certain' = Certain /\ EngineFree' = EngineFree
    BY <2>1 DEF Certain, EngineFree, ts
  <2>5. ~EngineFree => rep'.prepared # clock
    <3>1. ~EngineFree => clock > 0
      BY DEF MainInv
    <3> QED BY <2>3, <3>1, LastFinalizedType
  <2> QED BY <2>1, <2>3, <2>4, <2>5 DEF RepInv
<1> QED BY <1>0, <1>1, <1>2, CommitRep, PoolRep DEF Next

-----------------------------------------------------------------------------
(* Only the pool's thread changes what it is doing.                        *)
LEMMA OnlyPoolWorks ==
  ASSUME [Next]_vars, ~Pool
  PROVE  work' = work
<1>1. CASE Starts
  BY <1>1, StartBegins DEF Starts, Begins, TakeTimestamp
<1>2. CASE ShipDeltas \/ SendPrepare \/ TakeAnswer \/ CommitAlone \/ Decide \/ FinalizeStrict
           \/ FinalizeAsync \/ EndAsync
  BY <1>2 DEF ShipDeltas, SendPrepare, TakeAnswer, CommitAlone, Decide, FinalizeStrict,
     FinalizeAsync, EndAsync
<1>3. CASE CheckerSucceeds \/ CheckerFails \/ ReplicaStops \/ ReplicaStarts \/ CreateSnapshot \/ UNCHANGED vars
  BY <1>3 DEF CheckerSucceeds, CheckerFails, ReplicaStops, ReplicaStarts, CreateSnapshot, vars
<1> QED BY <1>1, <1>2, <1>3 DEF Next, Commit, Starts

(* The open WAL file while it is sent: it is the one that was compared, and   *)
(* the commit that may have begun since waits before its first write.       *)
SendInv ==
  work.sending =>
    /\ InSteps /\ work.snap = 0 /\ work.lo = 0 /\ work.seq # 0
    /\ wal.cur = work.seq /\ txn.pc \in {"idle", "ship"}

(* No commit closes that file or opens another.                             *)
LEMMA SendStep == MainInv /\ ClientTypes /\ SendInv /\ [Next]_vars => SendInv'
<1> SUFFICES ASSUME MainInv, ClientTypes, SendInv, [Next]_vars, work'.sending PROVE SendInv'
  BY DEF SendInv
<1>0. work \in Works /\ wal \in [files : SUBSET (1..clock), cur : 0..clock]
  BY DEF ClientTypes, MainInv, MainTypes
<1>1. CASE ~Pool
  <2>1. work' = work /\ work.sending /\ wal.cur # 0 /\ txn.pc \in {"idle", "ship"}
    BY <1>1, OnlyPoolWorks DEF SendInv
  <2>2. ASSUME wal'.cur = wal.cur, txn'.pc \in {"idle", "ship"} PROVE SendInv'
    BY <2>1, <2>2 DEF SendInv, InSteps
  <2>3. CASE Starts
    <3>1. wal' = wal
      BY <2>1, <2>3, StartBegins DEF Starts, Begins, TakeTimestamp
    <3> QED BY <2>2, <2>3, <3>1, StartEffect
  <2>4. CASE Commit /\ ~Starts
    BY <2>1, <2>4 DEF Commit, Starts, Writable, ShipDeltas, SendPrepare, TakeAnswer, CommitAlone,
       Decide, FinalizeStrict, FinalizeAsync, EndAsync
  <2>5. CASE CheckerSucceeds \/ CheckerFails \/ ReplicaStops \/ ReplicaStarts
    BY <2>1, <2>2, <2>5, PoolLeavesMain DEF mainVars, main
  <2>6. CASE CreateSnapshot
    BY <1>0, <2>1, <2>2, <2>6 DEF CreateSnapshot
  <2>7. CASE UNCHANGED vars
    BY <2>1, <2>2, <2>7 DEF vars, main
  <2> QED BY <1>1, <2>3, <2>4, <2>5, <2>6, <2>7 DEF Next
<1>2. CASE Pool
  <2>1. wal' = wal /\ txn' = txn
    BY <1>2, PoolLeavesMain DEF mainVars, main
  <2>2. work' # Idle
    BY IdleType
  <2>3. ~TakeTask
    <3>1. CASE TakeTask
      <4>1. Head(tasks) \in Tasks /\ work' = WorkOf(Head(tasks))
        BY <3>1, TailTasks DEF TakeTask, WorkOf, ClientTypes
      <4> QED BY <4>1, WorkOfType
    <3> QED BY <3>1
  <2>4. ~SendPrepareAsync /\ ~Heartbeat
    <3>1. CASE SendPrepareAsync
      <4>1. PICK a : work' = [Idle EXCEPT !.pc = "sent", !.answer = a]
        BY <3>1 DEF SendPrepareAsync
      <4> QED BY <4>1, IdleType DEF Works
    <3>2. CASE Heartbeat
      BY <2>2, <3>2, IdleType DEF Heartbeat, Works
    <3> QED BY <3>1, <3>2
  <2>5. ~StartRecovery
    <3>1. GetRecoverySteps(work.from).sending = FALSE
      BY <1>0, StepsType DEF Works
    <3> QED BY <2>2, <3>1 DEF StartRecovery
  <2>6. ~SendSnapshot /\ ~SendWals
    <3>1. CASE SendSnapshot \/ SendWals
      <4>1. work'.sending = work.sending
        BY <1>0, <2>2, <3>1 DEF SendSnapshot, SendWals, RecoveryFailed, Works
      <4> QED BY <3>1, <4>1 DEF SendInv, SendSnapshot, SendWals
    <3> QED BY <3>1
  <2>7. ~SendCurrentWal
    BY <1>0, <2>2 DEF SendCurrentWal, RecoveryFailed, Works
  <2>8. ~TakeAnswerAsync /\ ~HeartbeatMissesLock /\ ~CompareTimestamps /\ ~StepMissesLock /\ ~EndRecovery
    BY <2>2 DEF TakeAnswerAsync, HeartbeatMissesLock, CompareTimestamps, StepMissesLock,
       RecoveryFailed, EndRecovery
  <2>9. DisableFlushing
    BY <1>2, <2>3, <2>4, <2>5, <2>6, <2>7, <2>8 DEF Pool
  <2>10. wal.cur = work.seq /\ work' = [work EXCEPT !.sending = TRUE]
    BY <1>0, <2>9 DEF DisableFlushing, Works
  <2> QED BY <1>0, <2>1, <2>9, <2>10 DEF SendInv, DisableFlushing, InSteps, EngineFree, Works
<1> QED BY <1>1, <1>2

-----------------------------------------------------------------------------
(* The invariants so far, and what they say of timestamps: the main's last    *)
(* durable timestamp never goes back, and the replica's only with a snapshot. *)

CoreInv == MainInv /\ WalInv /\ ClientTypes /\ LockInv /\ RepInv /\ SendInv

(* The part of the invariant that stands on its own.                        *)
LEMMA CoreStep == CoreInv /\ [Next]_vars => CoreInv'
<1> SUFFICES ASSUME CoreInv, [Next]_vars PROVE CoreInv'
  OBVIOUS
<1>1. MainInv /\ WalInv /\ ClientTypes /\ LockInv /\ RepInv /\ SendInv
  BY DEF CoreInv
<1>2. rep \in Reps
  BY <1>1, RepInvMore
<1>3. MainInv'
  BY <1>1, MainStep
<1>4. WalInv' /\ ClientTypes' /\ LockInv' /\ RepInv' /\ SendInv'
  BY <1>1, <1>2, <1>3, WalStep, ClientTypesStep, LockStep, RepStep, SendStep
<1> QED BY <1>3, <1>4 DEF CoreInv

(* What only a commit changes, and what the end of a commit does.           *)
LEMMA CommittedStep ==
  ASSUME CoreInv, [Next]_vars
  PROVE  /\ ldt \in Nat /\ clock \in Nat /\ ldt <= clock
         /\ \/ UNCHANGED <<committed, ldt>>
            \/ committed' = committed \cup {clock} /\ ldt' = clock /\ txn.pc = "decide" /\ clock' = clock
<1>0. MainInv /\ ClientTypes /\ ldt \in Nat /\ clock \in Nat /\ ldt <= clock
  BY FilesTypes DEF CoreInv
<1>1. CASE Starts
  BY <1>0, <1>1, StartEffect
<1>2. CASE CommitAlone
  BY <1>0, <1>2 DEF CommitAlone, ts
<1>3. CASE Decide
  BY <1>0, <1>3, DecideMain
<1>4. CASE ShipDeltas \/ SendPrepare \/ TakeAnswer \/ FinalizeStrict \/ FinalizeAsync \/ EndAsync
  BY <1>0, <1>4 DEF ShipDeltas, SendPrepare, TakeAnswer, FinalizeStrict, FinalizeAsync, EndAsync, main
<1>5. CASE Pool \/ CheckerSucceeds \/ CheckerFails \/ ReplicaStops \/ ReplicaStarts
  BY <1>0, <1>5, PoolLeavesMain DEF mainVars, main
<1>6. CASE CreateSnapshot \/ UNCHANGED vars
  BY <1>0, <1>6 DEF CreateSnapshot, vars, main
<1> QED BY <1>1, <1>2, <1>3, <1>4, <1>5, <1>6 DEF Next, Commit, Starts

(* The steps that send something to the replica.                           *)
LEMMA RepChanges ==
  ASSUME [Next]_vars, ~SendPrepare, ~FinalizeStrict, ~SendPrepareAsync, ~SendSnapshot, ~SendWals,
         ~SendCurrentWal, ~ReplicaStops
  PROVE  rep' = rep
<1>1. CASE Starts
  BY <1>1, StartBegins DEF Starts, Begins, TakeTimestamp
<1>2. CASE ShipDeltas \/ TakeAnswer \/ CommitAlone \/ Decide \/ FinalizeAsync \/ EndAsync
  BY <1>2 DEF ShipDeltas, TakeAnswer, CommitAlone, Decide, FinalizeAsync, EndAsync
<1>3. CASE TakeTask \/ TakeAnswerAsync \/ Heartbeat \/ HeartbeatMissesLock \/ CompareTimestamps
           \/ StartRecovery \/ DisableFlushing \/ StepMissesLock \/ EndRecovery
  BY <1>3 DEF TakeTask, TakeAnswerAsync, Heartbeat, HeartbeatMissesLock, CompareTimestamps,
     StartRecovery, DisableFlushing, StepMissesLock, EndRecovery
<1>4. CASE CheckerSucceeds \/ CheckerFails \/ ReplicaStarts \/ CreateSnapshot \/ UNCHANGED vars
  BY <1>4 DEF CheckerSucceeds, CheckerFails, ReplicaStarts, CreateSnapshot, vars
<1> QED BY <1>1, <1>2, <1>3, <1>4 DEF Next, Commit, Pool, Starts

(* SendPrepare, its outcome and its answer.                                *)
LEMMA SendPrepareEffect ==
  ASSUME CoreInv, SendPrepare
  PROVE  /\ rep.ldt \in 0..clock /\ clock \in Nat /\ clock > 0 /\ rep.ldt <= rep'.ldt
         /\ txn'.pc = "sent" /\ txn'.stream = txn.stream /\ txn.prev = ldt
         /\ \/ rep'.ldt = rep.ldt /\ rep'.applied = rep.applied
            \/ /\ mode = "SYNC" /\ ldt <= rep.ldt
               /\ rep'.ldt = clock /\ rep'.applied = rep.applied \cup {clock}
         /\ txn'.answer = "yes" => ldt <= rep.ldt /\ (mode = "SYNC" => rep'.ldt = clock)
<1>0. /\ MainInv /\ ClientTypes /\ LockInv /\ RepInv /\ mode \in {"SYNC", "ASYNC", "STRICT_SYNC"}
      /\ rep.ldt \in 0..clock /\ clock \in Nat
  BY RepInvMore DEF CoreInv, MainInv, MainTypes
<1>1. PICK o \in Outcomes :
        /\ rep' = IF Handled(o) THEN PrepareCommit(rep, clock, txn.prev) ELSE rep
        /\ txn' = [txn EXCEPT !.pc = "sent", !.answer = Answer(o, txn.prev)]
  BY DEF SendPrepare, ts
<1>2. txn.pc = "ship" /\ mode # "ASYNC" /\ ~EngineFree /\ Undecided
  BY DEF SendPrepare, EngineFree, Undecided
<1>3. txn'.stream = txn.stream /\ txn'.pc = "sent" /\ txn'.answer = Answer(o, txn.prev)
  BY <1>0, <1>1 DEF MainInv, MainTypes, Txns
<1>4. txn.prev = ldt /\ clock > 0 /\ clock \in 1..clock /\ clock \in Timestamps /\ rep \in RepsUpTo(clock)
      /\ ldt \in Timestamps
  BY <1>0, <1>2, LastFinalizedType DEF MainInv, MainTypes, RepInv
<1>5. Answer(o, txn.prev) = "yes" => o = "ok" /\ PrepareAccepted(rep, ldt)
  BY <1>4 DEF Answer
<1>6. rep' = rep \/ rep' = PrepareCommit(rep, clock, ldt)
  BY <1>1, <1>4
<1>7. \/ rep'.ldt = rep.ldt /\ rep'.applied = rep.applied
      \/ /\ mode = "SYNC" /\ PrepareAccepted(rep, ldt)
         /\ rep'.ldt = clock /\ rep'.applied = rep.applied \cup {clock}
  <2>1. CASE rep' = rep
    BY <2>1
  <2>2. CASE rep' = PrepareCommit(rep, clock, ldt)
    BY <1>0, <1>2, <1>4, <2>2, PrepareEffect
  <2> QED BY <1>6, <2>1, <2>2
<1>8. o = "ok" /\ PrepareAccepted(rep, ldt) /\ mode = "SYNC" => rep'.ldt = clock
  <2> SUFFICES ASSUME o = "ok", PrepareAccepted(rep, ldt), mode = "SYNC" PROVE rep'.ldt = clock
    OBVIOUS
  <2>1. rep' = PrepareCommit(rep, clock, ldt)
    BY <1>1, <1>4 DEF Handled
  <2>2. PrepareAccepted(rep, ldt) /\ mode # "STRICT_SYNC" => rep'.ldt = clock
    BY <1>0, <1>4, <2>1, PrepareEffect
  <2> QED BY <2>2
<1>9. rep.ldt <= rep'.ldt
  BY <1>0, <1>7
<1> QED BY <1>0, <1>2, <1>3, <1>4, <1>5, <1>7, <1>8, <1>9 DEF PrepareAccepted

(* SendFinalizeCommitRpc.                                                  *)
LEMMA FinalizeStrictEffect ==
  ASSUME CoreInv, FinalizeStrict
  PROVE  /\ rep.ldt \in 0..clock /\ clock \in Nat /\ clock > 0 /\ rep.ldt <= rep'.ldt
         /\ \/ rep'.ldt = rep.ldt /\ rep'.applied = rep.applied
            \/ /\ txn.decision /\ rep.prepared = clock /\ ldt = clock /\ clock \in committed
               /\ rep'.ldt = clock /\ rep'.applied = rep.applied \cup {clock}
<1>0. /\ MainInv /\ ClientTypes /\ LockInv /\ RepInv /\ rep.ldt \in 0..clock /\ clock \in Nat
  BY RepInvMore DEF CoreInv
<1>1. txn.pc = "finalize" /\ ~EngineFree /\ (rep' = rep \/ rep' = FinalizeCommit(rep, clock, txn.decision))
  BY DEF FinalizeStrict, ts, EngineFree
<1>2. clock > 0 /\ clock \in 1..clock /\ rep \in RepsUpTo(clock) /\ clock \in Timestamps
      /\ txn.decision \in BOOLEAN /\ (txn.decision => ldt = clock /\ clock \in committed)
  BY <1>0, <1>1, LastFinalizedType DEF MainInv, MainTypes, Txns, RepInv
<1>3. \/ rep'.ldt = rep.ldt /\ rep'.applied = rep.applied
      \/ /\ txn.decision /\ rep.prepared = clock
         /\ rep'.ldt = clock /\ rep'.applied = rep.applied \cup {clock}
  <2>1. CASE rep' = rep
    BY <2>1
  <2>2. CASE rep' = FinalizeCommit(rep, clock, txn.decision)
    BY <1>0, <1>2, <2>2, FinalizeEffect
  <2> QED BY <1>1, <2>1, <2>2
<1>4. rep.ldt <= rep'.ldt
  BY <1>0, <1>3
<1> QED BY <1>0, <1>2, <1>3, <1>4

(* The PrepareCommit out of the pool.                                      *)
LEMMA SendPrepareAsyncEffect ==
  ASSUME CoreInv, SendPrepareAsync
  PROVE  /\ ToSend(work.ts, work.prev, Certain, rep.ldt) /\ rep.ldt <= rep'.ldt
         /\ work'.pc = "sent" /\ work'.from = 0 /\ NoSend(tasks) /\ mode = "ASYNC"
         /\ \/ rep'.ldt = rep.ldt /\ rep'.applied = rep.applied
            \/ /\ work.prev <= rep.ldt
               /\ rep'.ldt = work.ts /\ rep'.applied = rep.applied \cup {work.ts}
         /\ work'.answer = "yes" => rep'.ldt = work.ts
<1>0. /\ MainInv /\ ClientTypes /\ LockInv /\ RepInv
      /\ rep.ldt \in 0..clock /\ clock \in Nat
  BY RepInvMore DEF CoreInv
<1>1. PICK o \in Outcomes :
        /\ rep' = IF Handled(o) THEN PrepareCommit(rep, work.ts, work.prev) ELSE rep
        /\ work' = [Idle EXCEPT !.pc = "sent", !.answer = Answer(o, work.prev)]
  BY DEF SendPrepareAsync
<1>2. work.pc = "send"
  BY DEF SendPrepareAsync
<1>3. work'.pc = "sent" /\ work'.from = 0 /\ work'.answer = Answer(o, work.prev)
  BY <1>1 DEF Idle
<1>4. rpc = "pool" /\ NoSend(tasks) /\ mode = "ASYNC"
  BY <1>0, <1>2 DEF LockInv, InPool
<1>5. ToSend(work.ts, work.prev, Certain, rep.ldt)
  BY <1>0, <1>2 DEF RepInv
<1>6. /\ work.ts \in 1..clock /\ rep \in RepsUpTo(clock) /\ rep.ldt < work.ts
      /\ work.ts \in Timestamps /\ work.prev \in Timestamps
  BY <1>0, <1>5, CertainType DEF ToSend, ClientTypes, Works, RepInv
<1>7. Answer(o, work.prev) = "yes" => o = "ok" /\ PrepareAccepted(rep, work.prev)
  BY DEF Answer
<1>8. \/ rep'.ldt = rep.ldt /\ rep'.applied = rep.applied
      \/ /\ PrepareAccepted(rep, work.prev)
         /\ rep'.ldt = work.ts /\ rep'.applied = rep.applied \cup {work.ts}
  <2>1. CASE rep' = rep
    BY <2>1
  <2>2. CASE rep' = PrepareCommit(rep, work.ts, work.prev)
    BY <1>0, <1>4, <1>6, <2>2, PrepareEffect
  <2> QED BY <1>1, <2>1, <2>2
<1>9. o = "ok" /\ PrepareAccepted(rep, work.prev) => rep'.ldt = work.ts
  <2> SUFFICES ASSUME o = "ok", PrepareAccepted(rep, work.prev) PROVE rep'.ldt = work.ts
    OBVIOUS
  <2>1. rep' = PrepareCommit(rep, work.ts, work.prev)
    BY <1>1 DEF Handled
  <2> QED BY <1>0, <1>4, <1>6, <2>1, PrepareEffect
<1>10. rep.ldt <= rep'.ldt
  BY <1>0, <1>6, <1>8
<1> QED BY <1>3, <1>4, <1>5, <1>7, <1>8, <1>9, <1>10 DEF PrepareAccepted

(* A recovery that stops, and one that goes on with the rest of its steps.   *)
Stopped == work' = Idle /\ state' = "MAYBE_BEHIND"
GoesOn(from, lo, seq) ==
  /\ state' = state /\ work'.pc = "steps" /\ work'.from = from /\ work'.snap = 0
  /\ work'.lo = lo /\ work'.seq = seq /\ (lo # 0 => work'.hi = work.hi)

(* SnapshotRpc: the replica's storage is replaced, cleared or left.         *)
LEMMA SendSnapshotEffect ==
  ASSUME CoreInv, SendSnapshot
  PROVE  /\ InSteps /\ work.snap # 0 /\ work.snap \in committed /\ rpc = "free" /\ tasks' = tasks
         /\ rewound' = (rewound \/ rep'.ldt < rep.ldt)
         /\ \/ Stopped /\ rep' = rep
            \/ Stopped /\ rep'.ldt = 0 /\ rep'.applied = {}
            \/ /\ rep'.ldt = work.snap /\ rep'.applied = {t \in committed : t <= work.snap}
               /\ Stopped \/ GoesOn(work.snap, work.lo, work.seq)
<1>0. MainInv /\ ClientTypes /\ RepInv /\ work \in Works /\ committed \subseteq 1..clock
  BY DEF CoreInv, ClientTypes, MainInv, MainTypes
<1>1. /\ InSteps /\ work.snap # 0 /\ rpc = "free" /\ tasks' = tasks
      /\ rewound' = (rewound \/ rep'.ldt < rep.ldt)
  BY DEF SendSnapshot
<1>2. work.snap \in committed
  BY <1>0, <1>1 DEF RepInv
<1>3. PICK o \in Outcomes :
        /\ \/ Handled(o) /\ rep' = LoadSnapshot(work.snap)
           \/ ~Handled(o) /\ UNCHANGED rep
           \/ o = "refused" /\ rep' = ClearedStorage
        /\ IF o = "ok" THEN work' = [work EXCEPT !.from = work.snap, !.snap = 0] /\ UNCHANGED state
           ELSE RecoveryFailed
  BY DEF SendSnapshot
<1>4. o # "ok" => Stopped
  BY <1>3 DEF RecoveryFailed, Stopped
<1>5. o = "ok" => GoesOn(work.snap, work.lo, work.seq)
  BY <1>0, <1>1, <1>3 DEF GoesOn, Works, InSteps
<1>6. CASE Handled(o) /\ rep' = LoadSnapshot(work.snap)
  <2>1. rep'.ldt = work.snap /\ rep'.applied = {t \in committed : t <= work.snap}
    BY <1>0, <1>2, <1>6, SnapshotEffect
  <2> QED BY <1>1, <1>2, <1>4, <1>5, <2>1
<1>7. CASE ~Handled(o) /\ rep' = rep
  BY <1>1, <1>2, <1>4, <1>7 DEF Handled
<1>8. CASE o = "refused" /\ rep' = LoadSnapshot(0)
  <2>1. rep'.ldt = 0 /\ rep'.applied = {t \in committed : t <= 0}
    BY <1>0, <1>8, SnapshotEffect
  <2>2. {t \in committed : t <= 0} = {}
    <3>1. \A t \in committed : ~(t <= 0)
      BY <1>0, LastFinalizedType
    <3> QED BY <3>1
  <2> QED BY <1>1, <1>2, <1>4, <1>8, <2>1, <2>2
<1> QED BY <1>3, <1>6, <1>7, <1>8 DEF ClearedStorage

(* WalFilesRpc: a part of the missing transactions is loaded, all of them   *)
(* if it goes on.                                                           *)
LEMMA SendWalsEffect ==
  ASSUME CoreInv, SendWals
  PROVE  /\ InSteps /\ work.snap = 0 /\ work.lo # 0 /\ rpc = "free" /\ tasks' = tasks
         /\ rewound' = rewound
         /\ \E h \in Timestamps :
              /\ Loaded(work.lo, work.hi, h)
              /\ \/ Stopped
                 \/ /\ GoesOn(h, 0, work.seq)
                    /\ \A t \in Missing(rep, work.lo, work.hi) : t <= h
<1>0. MainInv /\ ClientTypes /\ RepInv /\ work \in Works
  BY DEF CoreInv, ClientTypes
<1>1. /\ InSteps /\ work.snap = 0 /\ work.lo # 0 /\ rpc = "free" /\ tasks' = tasks /\ rewound' = rewound
  BY DEF SendWals
<1>2. PICK o \in Outcomes, h \in Timestamps :
        /\ SendWal(work.lo, work.hi, o, h)
        /\ IF o = "ok" THEN work' = [work EXCEPT !.from = h, !.lo = 0, !.hi = 0] /\ UNCHANGED state
           ELSE RecoveryFailed
  BY DEF SendWals
<1>3. /\ Loaded(work.lo, work.hi, h)
      /\ Handled(o) => \A t \in Missing(rep, work.lo, work.hi) : t <= h
  BY <1>0, <1>2, WalEffect
<1>4. CASE o # "ok"
  <2>1. Stopped
    BY <1>2, <1>4 DEF RecoveryFailed, Stopped
  <2> QED BY <1>1, <1>3, <2>1
<1>5. CASE o = "ok"
  <2>1. GoesOn(h, 0, work.seq)
    BY <1>0, <1>1, <1>2, <1>5 DEF GoesOn, Works, InSteps
  <2> QED BY <1>1, <1>3, <1>5, <2>1 DEF Handled
<1> QED BY <1>4, <1>5

(* The open file, if it is still the one that was seen.                     *)
LEMMA DisableFlushingEffect ==
  ASSUME CoreInv, DisableFlushing
  PROVE  /\ InSteps /\ work.snap = 0 /\ work.lo = 0 /\ rep' = rep /\ tasks' = tasks
         /\ rewound' = rewound /\ (GoesOn(work.from, 0, work.seq) \/ GoesOn(work.from, 0, 0))
<1>1. work \in Works
  BY DEF CoreInv, ClientTypes
<1>2. /\ InSteps /\ work.snap = 0 /\ work.lo = 0 /\ rep' = rep /\ tasks' = tasks
      /\ rewound' = rewound /\ state' = state
      /\ work' = [work EXCEPT !.sending = TRUE] \/ work' = [work EXCEPT !.seq = 0]
  BY DEF DisableFlushing, client
<1> QED BY <1>1, <1>2 DEF GoesOn, Works, InSteps

(* CurrentWalRpc: what was loaded is what is believed.                      *)
LEMMA SendCurrentWalEffect ==
  ASSUME CoreInv, SendCurrentWal
  PROVE  /\ InSteps /\ work.snap = 0 /\ work.lo = 0 /\ work.seq # 0 /\ tasks' = tasks
         /\ rewound' = rewound /\ rpc = "free" /\ wal.cur = work.seq
         /\ \E h \in Timestamps :
              /\ Loaded(work.seq, clock, h)
              /\ Stopped \/ GoesOn(h, 0, 0)
<1>0. MainInv /\ ClientTypes /\ RepInv /\ work \in Works
  BY DEF CoreInv, ClientTypes
<1>1. /\ InSteps /\ work.snap = 0 /\ work.lo = 0 /\ work.seq # 0 /\ tasks' = tasks
      /\ rewound' = rewound /\ rpc = "free" /\ wal.cur = work.seq
  BY DEF SendCurrentWal, CoreInv, SendInv
<1>2. PICK o \in Outcomes, h \in Timestamps :
        /\ SendWal(wal.cur, clock, o, h)
        /\ IF o \in {"ok", "refused"}
           THEN work' = [work EXCEPT !.from = h, !.seq = 0, !.sending = FALSE] /\ UNCHANGED state
           ELSE RecoveryFailed
  BY DEF SendCurrentWal
<1>3. Loaded(work.seq, clock, h)
  <2>1. Loaded(wal.cur, clock, h)
    BY <1>0, <1>2, WalEffect
  <2> QED BY <1>1, <2>1
<1>4. \/ Stopped
      \/ work' = [work EXCEPT !.from = h, !.seq = 0, !.sending = FALSE] /\ state' = state
  BY <1>2 DEF RecoveryFailed, Stopped
<1>5. Stopped \/ GoesOn(h, 0, 0)
  BY <1>0, <1>1, <1>4 DEF GoesOn, Works, InSteps
<1> QED BY <1>1, <1>3, <1>5

(* Only a snapshot takes the replica back.                                  *)
LEMMA LdtGrows ==
  ASSUME CoreInv, [Next]_vars
  PROVE  /\ ldt \in Nat /\ ldt' \in Nat /\ ldt <= ldt'
         /\ rep.ldt \in Nat /\ rep'.ldt \in Nat
         /\ rep.ldt <= rep'.ldt \/ SendSnapshot
         /\ ~rewound' => ~rewound /\ rep.ldt <= rep'.ldt
<1>0. CoreInv'
  BY CoreStep
<1>1. rep.ldt \in Nat /\ MainInv /\ RepInv
  BY RepInvMore DEF CoreInv
<1>2. rep'.ldt \in Nat /\ ldt' \in Nat
  <2>1. (rep \in RepsUpTo(clock))' /\ MainInv'
    BY <1>0 DEF CoreInv, RepInv
  <2> QED BY <2>1, MaxTsType DEF RepsUpTo, MainInv, MainTypes
<1>3. ldt \in Nat /\ ldt <= ldt'
  BY CommittedStep
<1>4. rep.ldt <= rep'.ldt \/ SendSnapshot
  <2>1. CASE SendPrepare
    BY <2>1, SendPrepareEffect
  <2>2. CASE FinalizeStrict
    BY <2>2, FinalizeStrictEffect
  <2>3. CASE SendPrepareAsync
    BY <2>3, SendPrepareAsyncEffect
  <2>4. CASE SendWals
    BY <2>4, SendWalsEffect DEF Loaded
  <2>5. CASE SendCurrentWal
    BY <1>1, <2>5, SendCurrentWalEffect DEF Loaded
  <2>6. CASE ReplicaStops
    BY <1>1, <2>6 DEF ReplicaStops, RepInv, RepsUpTo
  <2>7. CASE rep' = rep
    BY <1>1, <2>7
  <2> QED BY <2>1, <2>2, <2>3, <2>4, <2>5, <2>6, <2>7, RepChanges
<1>5. ~rewound' => ~rewound /\ rep.ldt <= rep'.ldt
  <2>1. CASE SendSnapshot
    <3>1. rewound' = (rewound \/ rep'.ldt < rep.ldt)
      BY <2>1 DEF SendSnapshot
    <3>2. ~rewound' => ~rewound /\ ~(rep'.ldt < rep.ldt)
      BY <3>1, Zenon
    <3> QED BY <1>1, <1>2, <3>2
  <2>2. CASE ~SendSnapshot
    <3>1. rewound' = rewound
      <4>1. CASE Starts
        BY <4>1, StartBegins DEF Starts, Begins, TakeTimestamp
      <4>2. CASE Commit /\ ~Starts
        BY <4>2 DEF Commit, Starts, ShipDeltas, SendPrepare, TakeAnswer, CommitAlone, Decide,
           FinalizeStrict, FinalizeAsync, EndAsync
      <4>3. CASE Pool
        BY <2>2, <4>3 DEF Pool, TakeTask, SendPrepareAsync, TakeAnswerAsync, Heartbeat,
           HeartbeatMissesLock, CompareTimestamps, StartRecovery, SendWals, DisableFlushing,
           SendCurrentWal, StepMissesLock, EndRecovery
      <4>4. CASE ~Commit /\ ~Pool
        BY <4>4 DEF Next, CheckerSucceeds, CheckerFails, ReplicaStops, ReplicaStarts,
           CreateSnapshot, vars
      <4> QED BY <4>1, <4>2, <4>3, <4>4
    <3> QED BY <1>4, <2>2, <3>1
  <2> QED BY <2>1, <2>2
<1> QED BY <1>1, <1>2, <1>3, <1>4, <1>5

-----------------------------------------------------------------------------
(* The client's states.  The timestamp of a replica that has got everything: *)
(* that of the last commit, or of one that is certain and shipped.          *)

UpToDate == IF EngineFree \/ txn.pc = "end" THEN {ldt}
            ELSE IF txn.pc = "decide" /\ ~twoPC THEN {clock} ELSE {}

(* A READY client's replica is up to date, and one that is REPLICATING will   *)
(* be once the transaction of the pool is accepted.                        *)
StateInv ==
  /\ state = "READY" /\ mode # "STRICT_SYNC" => rep.ldt \in UpToDate
  /\ state = "REPLICATING" /\ work.pc = "send" => work.ts \in UpToDate
  /\ state = "REPLICATING" /\ work.pc = "sent" /\ work.answer = "yes" => rep.ldt \in UpToDate
  /\ \A t \in TasksIn(tasks) : state = "REPLICATING" /\ IsSend(t) => t.ts \in UpToDate

(* What a waiting answer, check, recovery task or recovery in progress        *)
(* believes of the replica.                                                *)
BeliefInv ==
  /\ mode = "SYNC" /\ txn.pc = "sent" /\ txn.answer = "yes" => rep.ldt = clock
  /\ work.pc = "compare" => work.from <= rep.ldt
  /\ \A t \in TasksIn(tasks) : t.kind = "recover" => t.from < ldt
  /\ work.pc = "recover" => work.from < ldt
  /\ InSteps => state \notin {"READY", "REPLICATING"}
  /\ InSteps => work.from < ldt \/ work.from <= rep.ldt

(* Steps that leave what the states speak of alone, or leave these states.   *)
LEMMA StaysState ==
  ASSUME StateInv, mode' = mode, rep'.ldt = rep.ldt, UpToDate \subseteq UpToDate',
         state' \in {state, "RECOVERY", "MAYBE_BEHIND"},
         work' = work \/ work'.pc \notin {"send", "sent"},
         \A t \in TasksIn(tasks') : IsSend(t) => t \in TasksIn(tasks)
  PROVE  StateInv'
BY DEF StateInv

(* A client that is neither READY nor REPLICATING promises nothing.         *)
LEMMA LeavesState ==
  ASSUME state' \notin {"READY", "REPLICATING"}
  PROVE  StateInv'
BY DEF StateInv

(* Nor does one without a transaction in the pool that is not READY.        *)
LEMMA NoPoolState ==
  ASSUME NoSend(tasks'), work'.pc \notin {"send", "sent"}, state' # "READY" \/ mode' = "STRICT_SYNC"
  PROVE  StateInv'
BY DEF StateInv, NoSend

(* While a commit is neither shipped nor decided nobody can be up to date.   *)
LEMMA NobodyUpToDate ==
  ASSUME txn.pc \in {"ship", "sent", "finalize"} \/ (txn.pc = "decide" /\ twoPC)
  PROVE  UpToDate = {}
BY DEF UpToDate, EngineFree

(* The transaction that moves into the pool is the last one.                *)
LEMMA HandToPoolState ==
  ASSUME CoreInv, StateInv, NEW pc \in {"decide", "end"}, HandToPool(pc), mode = "ASYNC",
         UpToDate = {}, clock \in UpToDate', UNCHANGED <<mode, work, rep>>
  PROVE  StateInv'
<1>1. CASE ~txn.stream
  BY <1>1, LeavesState DEF HandToPool
<1>2. CASE txn.stream
  <2> DEFINE f == Finalize(clock, txn.prev)
  <2>1. f \in Tasks /\ tasks \in Seq(Tasks) /\ f.ts = clock
    BY LastFinalizedType, FinalizeType DEF CoreInv, MainInv, MainTypes, Txns, ClientTypes
  <2>2. tasks' = Append(tasks, f) /\ state' = "REPLICATING"
    BY <1>2 DEF HandToPool, ts
  <2> HIDE DEF f
  <2>3. TasksIn(tasks') = TasksIn(tasks) \cup {f}
    BY <2>1, <2>2, AppendTasks
  <2>4. NoSend(tasks) /\ ~InPool
    BY <1>2 DEF CoreInv, LockInv
  <2>5. \A t \in TasksIn(tasks') : IsSend(t) => t.ts \in UpToDate'
    BY <2>1, <2>3, <2>4 DEF NoSend
  <2> QED BY <2>2, <2>4, <2>5 DEF StateInv, InPool
<1> QED BY <1>1, <1>2

(* The states of the client and the commit.                                 *)
LEMMA CommitState ==
  ASSUME CoreInv, CoreInv', StateInv, BeliefInv, Commit
  PROVE  StateInv'
<1>0. /\ MainInv /\ MainTypes /\ ClientTypes /\ LockInv /\ RepInv
      /\ mode \in {"SYNC", "ASYNC", "STRICT_SYNC"} /\ twoPC \in BOOLEAN
  BY DEF CoreInv, MainInv, MainTypes
<1>1. CASE Starts
  <2>1. /\ UNCHANGED <<mode, work>> /\ (tasks' = tasks \/ tasks' = Append(tasks, Check))
        /\ \/ rpc = "free" /\ state' = "REPLICATING"
           \/ state' \in {"RECOVERY", "MAYBE_BEHIND"}
    BY <1>0, <1>1, StartEffect
  <2>2. CASE rpc = "free" /\ state' = "REPLICATING"
    <3>1. NoSend(tasks) /\ ~InPool
      BY <1>0, <2>2 DEF LockInv
    <3>2. NoSend(tasks')
      BY <1>0, <2>1, <3>1, QuietSends DEF NoSend, ClientTypes
    <3> QED BY <2>1, <2>2, <3>1, <3>2, NoPoolState DEF InPool
  <2>3. CASE state' \in {"RECOVERY", "MAYBE_BEHIND"}
    BY <2>3, LeavesState
  <2> QED BY <2>1, <2>2, <2>3
<1>2. ASSUME NEW pc, NotReplicating(pc) PROVE StateInv'
  <2>1. state' \notin {"READY", "REPLICATING"}
    BY <1>2 DEF NotReplicating
  <2> QED BY <2>1, LeavesState
<1>3. CASE ShipDeltas
  <2>1. UpToDate = {} /\ UNCHANGED <<mode, twoPC, clock, work, rep>>
    BY <1>3, NobodyUpToDate DEF ShipDeltas, cluster, main
  <2>2. CASE txn' = [txn EXCEPT !.pc = "decide"] /\ UNCHANGED client
    BY <2>1, <2>2, StaysState DEF client
  <2>3. CASE mode = "ASYNC" /\ ~twoPC /\ HandToPool("decide")
    <3>1. txn'.pc = "decide"
      BY <1>0, <2>3, HandToPoolTxn
    <3>2. clock \in UpToDate'
      BY <2>1, <2>3, <3>1 DEF UpToDate, EngineFree
    <3> QED BY <2>1, <2>3, <3>2, HandToPoolState
  <2> QED BY <1>2, <1>3, <2>2, <2>3 DEF ShipDeltas
<1>4. CASE SendPrepare \/ FinalizeStrict
  <2>1. /\ mode # "ASYNC" /\ UNCHANGED <<mode, state, tasks, work>>
        /\ state = "REPLICATING" \/ mode = "STRICT_SYNC"
    BY <1>4 DEF SendPrepare, FinalizeStrict, client, cluster
  <2>2. NoSend(tasks) /\ ~InPool
    BY <1>0, <2>1 DEF LockInv
  <2> QED BY <2>1, <2>2, NoPoolState DEF InPool
<1>5. CASE TakeAnswer
  <2>1. /\ txn.pc = "sent" /\ UNCHANGED <<mode, twoPC, clock, tasks, work, rep>>
        /\ state' = StateAfter(txn.answer)
    BY <1>5 DEF TakeAnswer, cluster, main
  <2>2. UpToDate = {} /\ mode # "ASYNC"
    BY <1>0, <2>1, NobodyUpToDate DEF MainInv
  <2>3. CASE state' # "READY" \/ mode = "STRICT_SYNC"
    <3>1. NoSend(tasks) /\ ~InPool
      BY <1>0, <2>2 DEF LockInv
    <3> QED BY <2>1, <2>3, <3>1, NoPoolState DEF InPool
  <2>4. CASE state' = "READY" /\ mode = "SYNC"
    <3>1. state = "REPLICATING" /\ txn.answer = "yes"
      BY <2>1, <2>2, <2>4 DEF StateAfter, StateInv
    <3>2. rep.ldt = clock
      BY <2>1, <2>4, <3>1 DEF BeliefInv
    <3>3. txn'.pc = "decide"
      BY <1>0, <1>5, TakeAnswerTxn
    <3>4. ~twoPC
      BY <1>0, <2>4 DEF MainInv
    <3>5. rep'.ldt \in UpToDate'
      BY <2>1, <3>2, <3>3, <3>4 DEF UpToDate, EngineFree
    <3>6. NoSend(tasks) /\ ~InPool
      BY <1>0, <2>2 DEF LockInv
    <3> QED BY <2>1, <2>4, <3>5, <3>6 DEF StateInv, NoSend, InPool
  <2> QED BY <1>0, <2>2, <2>3, <2>4
<1>6. CASE CommitAlone \/ EndAsync
  <2>1. /\ UNCHANGED <<mode, state, tasks, work, rep>> /\ txn' = NoTxn
        /\ \/ txn.pc = "decide" /\ ~twoPC /\ ldt' = clock
           \/ txn.pc = "end" /\ ldt' = ldt
    BY <1>6 DEF CommitAlone, EndAsync, cluster, main, ts
  <2>2. UpToDate = UpToDate'
    BY <2>1, NoTxnType DEF UpToDate, EngineFree
  <2> QED BY <2>1, <2>2, StaysState
<1>7. CASE Decide
  <2>1. UpToDate = {} /\ UNCHANGED <<mode, state, tasks, work, rep>>
    BY <1>7, NobodyUpToDate DEF Decide, cluster, client
  <2> QED BY <2>1, StaysState
<1>8. CASE FinalizeAsync
  <2>1. UpToDate = {} /\ mode = "ASYNC" /\ UNCHANGED <<mode, work, rep, ldt>> /\ txn.pc = "finalize"
    BY <1>8, NobodyUpToDate DEF FinalizeAsync, cluster, main
  <2>2. CASE txn.decision /\ HandToPool("end")
    <3>1. ldt = clock /\ txn'.pc = "end"
      BY <1>0, <2>1, <2>2, HandToPoolTxn DEF MainInv
    <3>2. clock \in UpToDate'
      BY <2>1, <3>1 DEF UpToDate
    <3> QED BY <2>1, <2>2, <3>2, HandToPoolState
  <2>3. CASE UNCHANGED <<state, tasks>>
    BY <2>1, <2>3, StaysState
  <2> QED BY <1>2, <1>8, <2>2, <2>3 DEF FinalizeAsync
<1> QED BY <1>1, <1>3, <1>4, <1>5, <1>6, <1>7, <1>8 DEF Commit, Starts

(* There is nothing certain beyond an up-to-date replica.                   *)
LEMMA UpToDateIsLast ==
  ASSUME CoreInv, NEW l \in UpToDate
  PROVE  \A x \in Certain : x <= l
<1>0. MainInv /\ Certain \subseteq 1..clock /\ clock \in Nat /\ (\A x \in committed : x <= ldt)
      /\ (EngineFree \/ twoPC => Certain = committed)
  BY CertainType DEF CoreInv, MainInv
<1>1. CASE EngineFree \/ txn.pc = "end"
  <2>1. l = ldt /\ Certain = committed
    BY <1>0, <1>1 DEF UpToDate, MainInv
  <2> QED BY <1>0, <2>1
<1>2. CASE ~EngineFree /\ txn.pc # "end"
  <2>1. l = clock
    BY <1>2 DEF UpToDate
  <2> QED BY <1>0, <2>1
<1> QED BY <1>1, <1>2

(* The states of the client and the pool.                                   *)
LEMMA PoolState ==
  ASSUME CoreInv, CoreInv', StateInv, BeliefInv, Pool
  PROVE  StateInv'
<1>0. /\ MainInv /\ ClientTypes /\ LockInv /\ RepInv /\ rep.ldt \in Nat /\ ldt \in Nat
      /\ EngineFree => rep.ldt <= ldt
  BY RepInvMore, FilesTypes DEF CoreInv
<1>1. /\ UNCHANGED <<mode, txn, ldt, twoPC, clock>> /\ UpToDate' = UpToDate
  BY PoolLeavesMain DEF mainVars, cluster, main, UpToDate, EngineFree
<1>2. CASE TakeTask
  <2>1. /\ tasks # <<>> /\ tasks' = Tail(tasks) /\ rep' = rep /\ state' = state
        /\ work' = WorkOf(Head(tasks))
    BY <1>2 DEF TakeTask, WorkOf
  <2>2. /\ Head(tasks) \in TasksIn(tasks) /\ TasksIn(tasks') \subseteq TasksIn(tasks)
        /\ Head(tasks) \in Tasks
    BY <1>0, <2>1, TailTasks DEF ClientTypes
  <2>3. /\ work'.pc = "send" => IsSend(Head(tasks))
        /\ work'.pc # "sent" /\ work'.ts = Head(tasks).ts
    BY <2>1, <2>2, WorkOfType DEF IsSend
  <2> QED BY <1>1, <2>1, <2>2, <2>3 DEF StateInv
<1>3. CASE SendPrepareAsync
  <2>1. work.pc = "send" /\ tasks' = tasks /\ state' = state
    BY <1>3 DEF SendPrepareAsync, client
  <2>2. /\ ToSend(work.ts, work.prev, Certain, rep.ldt) /\ mode = "ASYNC"
        /\ work'.pc = "sent" /\ NoSend(tasks)
        /\ work'.answer = "yes" => rep'.ldt = work.ts
    BY <1>3, SendPrepareAsyncEffect
  <2>3. state # "READY"
    <3> SUFFICES ASSUME state = "READY" PROVE FALSE
      OBVIOUS
    <3>1. work.ts <= rep.ldt
      BY <2>2, UpToDateIsLast DEF StateInv, ToSend
    <3>2. work.ts \in Nat /\ rep.ldt < work.ts
      BY <1>0, <2>2, CertainType DEF ToSend
    <3> QED BY <1>0, <3>1, <3>2
  <2> QED BY <1>1, <2>1, <2>2, <2>3 DEF StateInv, NoSend
<1>4. CASE TakeAnswerAsync
  <2>1. /\ work.pc = "sent" /\ work' = Idle /\ state' = StateAfter(work.answer)
        /\ UNCHANGED <<tasks, rep>>
    BY <1>4 DEF TakeAnswerAsync
  <2>2. NoSend(tasks) /\ work'.pc = "idle"
    BY <1>0, <2>1, IdleType DEF LockInv, InPool
  <2>3. state' = "READY" => state = "READY" \/ (state = "REPLICATING" /\ work.answer = "yes")
    BY <2>1 DEF StateAfter
  <2> QED BY <1>1, <2>1, <2>2, <2>3 DEF StateInv, NoSend
<1>5. CASE Heartbeat \/ HeartbeatMissesLock \/ StartRecovery
  <2>1. /\ rep' = rep /\ tasks' = tasks /\ state' \in {state, "MAYBE_BEHIND"}
    BY <1>5 DEF Heartbeat, HeartbeatMissesLock, StartRecovery, client
  <2>2. work'.pc \notin {"send", "sent"}
    BY <1>0, <1>5, RecoversEffect DEF Recovers
  <2> QED BY <1>1, <2>1, <2>2, StaysState
<1>6. CASE CompareTimestamps
  <2>1. /\ work.pc = "compare" /\ EngineFree /\ work' = Idle /\ rep' = rep
        /\ \/ work.from >= ldt /\ state' = "READY" /\ tasks' = tasks
           \/ state' = "RECOVERY"
    BY <1>6 DEF CompareTimestamps
  <2>2. CASE state' = "RECOVERY"
    BY <2>2, LeavesState
  <2>3. CASE work.from >= ldt /\ state' = "READY" /\ tasks' = tasks
    <3>1. work.from <= rep.ldt /\ work.from \in Nat
      BY <1>0, <2>1, MaxTsType DEF BeliefInv, ClientTypes, Works
    <3>2. rep.ldt = ldt
      BY <1>0, <2>1, <2>3, <3>1
    <3>3. rep'.ldt \in UpToDate'
      BY <1>1, <2>1, <3>2 DEF UpToDate
    <3> QED BY <2>1, <2>3, <3>3, IdleType DEF StateInv
  <2> QED BY <2>1, <2>2, <2>3
<1>7. ASSUME InSteps, state' \in {state, "MAYBE_BEHIND"} PROVE StateInv'
  <2>1. state' \notin {"READY", "REPLICATING"}
    BY <1>7 DEF BeliefInv
  <2> QED BY <2>1, LeavesState
<1>8. CASE SendSnapshot \/ SendWals \/ DisableFlushing \/ SendCurrentWal \/ StepMissesLock
  BY <1>7, <1>8 DEF SendSnapshot, SendWals, DisableFlushing, SendCurrentWal, StepMissesLock,
     RecoveryFailed, client
<1>9. CASE EndRecovery
  <2>1. /\ InSteps /\ EngineFree /\ work' = Idle /\ rep' = rep /\ tasks' = tasks
        /\ state' = IF ldt <= work.from THEN "READY" ELSE "MAYBE_BEHIND"
    BY <1>9 DEF EndRecovery
  <2>2. CASE ~(ldt <= work.from)
    BY <2>1, <2>2, LeavesState
  <2>3. CASE ldt <= work.from
    <3>1. (work.from < ldt \/ work.from <= rep.ldt) /\ work.from \in Nat
      BY <1>0, <2>1, MaxTsType DEF BeliefInv, ClientTypes, Works
    <3>2. rep.ldt = ldt
      BY <1>0, <2>1, <2>3, <3>1
    <3>3. rep'.ldt \in UpToDate'
      BY <1>1, <2>1, <3>2 DEF UpToDate
    <3> QED BY <2>1, <2>3, <3>3, IdleType DEF StateInv
  <2> QED BY <2>2, <2>3
<1> QED BY <1>2, <1>3, <1>4, <1>5, <1>6, <1>8, <1>9 DEF Pool

(* READY and REPLICATING keep what they promise.                            *)
LEMMA StateStep == CoreInv /\ CoreInv' /\ StateInv /\ BeliefInv /\ [Next]_vars => StateInv'
<1> SUFFICES ASSUME CoreInv, CoreInv', StateInv, BeliefInv, [Next]_vars PROVE StateInv'
  OBVIOUS
<1>1. CASE CheckerSucceeds \/ CheckerFails \/ ReplicaStops \/ ReplicaStarts \/ CreateSnapshot \/ UNCHANGED vars
  <2>1. /\ UNCHANGED <<mode, twoPC, clock, ldt, txn, work>> /\ state' \in {state, "MAYBE_BEHIND"}
        /\ tasks' = tasks \/ tasks' = Append(tasks, Check)
        /\ rep' = rep \/ rep' = [rep EXCEPT !.prepared = 0]
    BY <1>1 DEF CheckerSucceeds, CheckerFails, ReplicaStops, ReplicaStarts, CreateSnapshot, vars,
       main, cluster, client
  <2>2. \A t \in TasksIn(tasks') : IsSend(t) => t \in TasksIn(tasks)
    BY <2>1, QuietSends DEF CoreInv, ClientTypes
  <2>3. UpToDate' = UpToDate
    BY <2>1 DEF UpToDate, EngineFree
  <2>4. rep'.ldt = rep.ldt
    BY <2>1 DEF CoreInv, RepInv, RepsUpTo
  <2> QED BY <2>1, <2>2, <2>3, <2>4, StaysState
<1> QED BY <1>1, CommitState, PoolState DEF Next

(* The tasks that appear.                                                  *)
NewTask(t) ==
  \/ t.kind # "recover" /\ t.from = 0
  \/ work.pc = "compare" /\ t.from = work.from /\ work.from < ldt

(* Where the tasks of the pool come from.                                   *)
LEMMA TasksStep ==
  ASSUME CoreInv, [Next]_vars
  PROVE  \A t \in TasksIn(tasks') : t \in TasksIn(tasks) \/ NewTask(t)
<1>0. MainInv /\ ClientTypes /\ tasks \in Seq(Tasks) /\ clock \in Timestamps /\ txn.prev \in Timestamps
      /\ work.from \in Timestamps /\ ldt \in Timestamps
  BY DEF CoreInv, MainInv, MainTypes, Txns, ClientTypes, Works
<1>1. ASSUME NEW t \in Tasks, NewTask(t), tasks' = Append(tasks, t)
      PROVE  \A x \in TasksIn(tasks') : x \in TasksIn(tasks) \/ NewTask(x)
  BY <1>0, <1>1, AppendTasks
<1>2. ASSUME tasks' = tasks \/ tasks' = Append(tasks, Check)
      PROVE  \A x \in TasksIn(tasks') : x \in TasksIn(tasks) \/ NewTask(x)
  BY <1>1, <1>2, CheckType DEF NewTask
<1>3. CASE Starts
  BY <1>0, <1>2, <1>3, StartEffect
<1>4. ASSUME NEW pc, HandToPool(pc)
      PROVE  \A x \in TasksIn(tasks') : x \in TasksIn(tasks) \/ NewTask(x)
  <2> DEFINE f == Finalize(clock, txn.prev)
  <2>1. f \in Tasks /\ f.kind = "finalize" /\ f.from = 0
    BY <1>0, FinalizeType
  <2>2. tasks' = tasks \/ tasks' = Append(tasks, f)
    BY <1>4 DEF HandToPool, ts
  <2> HIDE DEF f
  <2> QED BY <1>1, <2>1, <2>2 DEF NewTask
<1>5. CASE ShipDeltas \/ FinalizeAsync
  BY <1>2, <1>4, <1>5 DEF ShipDeltas, FinalizeAsync, NotReplicating, client
<1>6. CASE SendPrepare \/ TakeAnswer \/ CommitAlone \/ Decide \/ FinalizeStrict \/ EndAsync
  BY <1>2, <1>6 DEF SendPrepare, TakeAnswer, CommitAlone, Decide, FinalizeStrict, EndAsync, client
<1>7. CASE TakeTask
  <2>1. tasks # <<>> /\ tasks' = Tail(tasks)
    BY <1>7 DEF TakeTask
  <2> QED BY <1>0, <2>1, TailTasks
<1>8. CASE CompareTimestamps
  <2>1. work.pc = "compare" /\ (tasks' = tasks \/ (tasks' = Append(tasks, Recover(work.from)) /\ ~(work.from >= ldt)))
    BY <1>8 DEF CompareTimestamps
  <2>2. Recover(work.from) \in Tasks /\ Recover(work.from).from = work.from
    BY <1>0, RecoverType
  <2>3. ~(work.from >= ldt) => work.from < ldt
    BY <1>0, MaxTsType
  <2> QED BY <1>1, <1>2, <2>1, <2>2, <2>3 DEF NewTask
<1>9. CASE \/ SendPrepareAsync \/ TakeAnswerAsync \/ Heartbeat \/ HeartbeatMissesLock
           \/ StartRecovery \/ SendSnapshot \/ SendWals \/ DisableFlushing \/ SendCurrentWal
           \/ StepMissesLock \/ EndRecovery
  BY <1>2, <1>9 DEF SendPrepareAsync, TakeAnswerAsync, Heartbeat, HeartbeatMissesLock,
     StartRecovery, SendSnapshot, SendWals, DisableFlushing, SendCurrentWal, StepMissesLock,
     EndRecovery, client
<1>10. CASE CheckerSucceeds \/ CheckerFails \/ ReplicaStops \/ ReplicaStarts \/ CreateSnapshot \/ UNCHANGED vars
  BY <1>2, <1>10 DEF CheckerSucceeds, CheckerFails, ReplicaStops, ReplicaStarts, CreateSnapshot,
     vars, client
<1> QED BY <1>3, <1>5, <1>6, <1>7, <1>8, <1>9, <1>10 DEF Next, Commit, Pool, Starts

(* A client leaves MAYBE_BEHIND and RECOVERY only by a comparison of          *)
(* timestamps.                                                             *)
LEMMA StaysBehind ==
  ASSUME CoreInv, [Next]_vars, state \notin {"READY", "REPLICATING"},
         ~CompareTimestamps, ~EndRecovery
  PROVE  state' \notin {"READY", "REPLICATING"}
<1>1. CASE Starts
  BY <1>1, StartEffect DEF CoreInv
<1>2. CASE ShipDeltas \/ FinalizeAsync
  BY <1>2 DEF ShipDeltas, FinalizeAsync, NotReplicating, HandToPool, client
<1>3. CASE SendPrepare \/ TakeAnswer \/ CommitAlone \/ Decide \/ FinalizeStrict \/ EndAsync
  BY <1>3 DEF SendPrepare, TakeAnswer, StateAfter, CommitAlone, Decide, FinalizeStrict, EndAsync, client
<1>4. CASE Pool
  BY <1>4 DEF Pool, TakeTask, SendPrepareAsync, TakeAnswerAsync, StateAfter, Heartbeat,
     HeartbeatMissesLock, StartRecovery, SendSnapshot, SendWals, DisableFlushing, SendCurrentWal,
     StepMissesLock, RecoveryFailed, client
<1>5. CASE CheckerSucceeds \/ CheckerFails \/ ReplicaStops \/ ReplicaStarts \/ CreateSnapshot \/ UNCHANGED vars
  BY <1>5 DEF CheckerSucceeds, CheckerFails, ReplicaStops, ReplicaStarts, CreateSnapshot, vars, client
<1> QED BY <1>1, <1>2, <1>3, <1>4, <1>5 DEF Next, Commit, Starts

(* While the commit waits with its answer nobody else reaches the replica.   *)
LEMMA SentStays ==
  ASSUME CoreInv, [Next]_vars, ~SendPrepare, txn'.pc = "sent", mode # "ASYNC"
  PROVE  txn' = txn /\ UNCHANGED <<clock, mode, ldt>> /\ rep'.ldt = rep.ldt
<1>0. MainInv /\ ClientTypes /\ LockInv /\ RepInv
  BY DEF CoreInv
<1>1. ~Starts
  BY <1>0, StartEffect
<1>2. ~ShipDeltas /\ ~TakeAnswer /\ ~Decide /\ ~FinalizeAsync
  BY <1>0, ShipMain, TakeAnswerTxn, DecideMain, FinalizeAsyncMain DEF MainInv
<1>3. ~CommitAlone /\ ~FinalizeStrict /\ ~EndAsync
  BY NoTxnType DEF CommitAlone, FinalizeStrict, EndAsync
<1>4. ~Commit
  BY <1>1, <1>2, <1>3 DEF Commit, Starts
<1>5. txn' = txn /\ UNCHANGED <<clock, mode, ldt>>
  <2>1. CASE Pool \/ CheckerSucceeds \/ CheckerFails \/ ReplicaStops \/ ReplicaStarts
    BY <2>1, PoolLeavesMain DEF mainVars, main, cluster
  <2>2. CASE CreateSnapshot \/ UNCHANGED vars
    BY <2>2 DEF CreateSnapshot, vars, main, cluster
  <2> QED BY <1>4, <2>1, <2>2 DEF Next
<1>6. rpc = "txn" /\ ~EngineFree
  BY <1>0, <1>5 DEF LockInv, EngineFree
<1>7. rep'.ldt = rep.ldt
  <2>1. ~SendPrepareAsync
    BY SendPrepareAsyncEffect
  <2>2. ~SendSnapshot /\ ~SendWals
    BY <1>6 DEF SendSnapshot, SendWals
  <2>3. ~SendCurrentWal
    BY <1>6 DEF SendCurrentWal
  <2>4. CASE ReplicaStops
    BY <1>0, <2>4 DEF ReplicaStops, RepInv, RepsUpTo
  <2> QED BY <1>3, <2>1, <2>2, <2>3, <2>4, RepChanges
<1> QED BY <1>5, <1>7

(* Nobody changes the mode of a client.                                    *)
LEMMA ModeStays == [Next]_vars => mode' = mode
BY DEF Next, Commit, StartNotReady, StartReady, StartMissesLock, StartNotConnected,
       TakeTimestamp, ShipDeltas, SendPrepare, TakeAnswer, CommitAlone, Decide,
       FinalizeStrict, FinalizeAsync, EndAsync, Pool, TakeTask, SendPrepareAsync,
       TakeAnswerAsync, Heartbeat, HeartbeatMissesLock, CompareTimestamps, StartRecovery,
       SendSnapshot, SendWals, DisableFlushing, SendCurrentWal, StepMissesLock, EndRecovery,
       CheckerSucceeds, CheckerFails, ReplicaStops, ReplicaStarts, CreateSnapshot, vars, cluster

(* What is believed of the replica is no more than true.                    *)
LEMMA BeliefStep == CoreInv /\ CoreInv' /\ BeliefInv /\ [Next]_vars => BeliefInv'
<1> SUFFICES ASSUME CoreInv, CoreInv', BeliefInv, [Next]_vars PROVE BeliefInv'
  OBVIOUS
<1>0. /\ MainInv /\ ClientTypes /\ LockInv /\ RepInv /\ work \in Works
      /\ work.from \in Nat /\ \A t \in Tasks : t.from \in Nat
  BY MaxTsType DEF CoreInv, ClientTypes, Works, Tasks
<1>1. /\ ldt \in Nat /\ ldt' \in Nat /\ ldt <= ldt'
      /\ rep.ldt \in Nat /\ rep'.ldt \in Nat
      /\ rep.ldt <= rep'.ldt \/ SendSnapshot
  BY LdtGrows
<1>2. (mode = "SYNC" /\ txn.pc = "sent" /\ txn.answer = "yes" => rep.ldt = clock)'
  <2>1. CASE SendPrepare
    <3>1. txn'.answer = "yes" /\ mode = "SYNC" => rep'.ldt = clock
      BY <2>1, SendPrepareEffect
    <3>2. UNCHANGED <<mode, clock>>
      BY <2>1 DEF SendPrepare, cluster, main
    <3> QED BY <3>1, <3>2
  <2>2. CASE ~SendPrepare
    <3>1. mode' = mode
      BY ModeStays
    <3> QED BY <2>2, <3>1, SentStays DEF BeliefInv
  <2> QED BY <2>1, <2>2
<1>3. \A t \in TasksIn(tasks') : t.kind = "recover" => t.from < ldt'
  <2> SUFFICES ASSUME NEW t \in TasksIn(tasks'), t.kind = "recover" PROVE t.from < ldt'
    OBVIOUS
  <2>1. t \in TasksIn(tasks) \/ NewTask(t)
    BY TasksStep
  <2>2. t.from < ldt
    BY <2>1 DEF BeliefInv, NewTask
  <2>3. t.from \in Nat
    <3>1. tasks' \in Seq(Tasks)
      BY DEF CoreInv, ClientTypes
    <3>2. t \in Tasks
      BY <3>1 DEF TasksIn
    <3> QED BY <1>0, <3>2
  <2> QED BY <1>1, <2>2, <2>3
<1>4. CASE ~Pool
  <2>1. work' = work
    BY <1>4, OnlyPoolWorks
  <2>2. rep.ldt <= rep'.ldt /\ ~CompareTimestamps /\ ~EndRecovery
    BY <1>1, <1>4 DEF Pool
  <2>3. InSteps => state' \notin {"READY", "REPLICATING"}
    BY <2>2, StaysBehind DEF BeliefInv
  <2>4. /\ work.pc = "compare" => work.from <= rep'.ldt
        /\ work.pc = "recover" => work.from < ldt'
        /\ InSteps => work.from < ldt' \/ work.from <= rep'.ldt
    BY <1>0, <1>1, <2>2 DEF BeliefInv
  <2> QED BY <1>2, <1>3, <2>1, <2>3, <2>4 DEF BeliefInv, InSteps
<1>5. ASSUME work'.pc \notin {"compare", "recover", "steps"} PROVE BeliefInv'
  BY <1>2, <1>3, <1>5 DEF BeliefInv, InSteps
<1>6. ASSUME work'.pc = "steps", state' \notin {"READY", "REPLICATING"},
             work'.from < ldt' \/ work'.from <= rep'.ldt
      PROVE  BeliefInv'
  BY <1>2, <1>3, <1>6 DEF BeliefInv, InSteps
<1>7. ASSUME InSteps, NEW h, NEW lo, NEW seq, GoesOn(h, lo, seq), h < ldt' \/ h <= rep'.ldt
      PROVE  BeliefInv'
  BY <1>6, <1>7 DEF GoesOn, BeliefInv
<1>8. ASSUME Stopped PROVE BeliefInv'
  BY <1>5, <1>8, IdleType DEF Stopped
<1>9. CASE TakeTask
  <2>1. /\ tasks # <<>> /\ tasks' = Tail(tasks) /\ work' = WorkOf(Head(tasks))
    BY <1>9 DEF TakeTask, WorkOf
  <2>2. Head(tasks) \in TasksIn(tasks) /\ Head(tasks) \in Tasks
    BY <1>0, <2>1, TailTasks DEF ClientTypes
  <2>3. /\ work'.pc \in {"heartbeat", "recover", "send"} /\ work'.from = Head(tasks).from
        /\ work'.pc = "recover" => Head(tasks).kind = "recover"
    BY <2>1, <2>2, WorkOfType
  <2>4. work'.pc = "recover" => work'.from < ldt'
    BY <1>0, <1>1, <2>2, <2>3 DEF BeliefInv
  <2> QED BY <1>2, <1>3, <2>3, <2>4 DEF BeliefInv, InSteps
<1>10. CASE SendPrepareAsync
  BY <1>5, <1>10, SendPrepareAsyncEffect
<1>11. CASE TakeAnswerAsync \/ HeartbeatMissesLock \/ CompareTimestamps \/ StepMissesLock \/ EndRecovery
  BY <1>5, <1>11, IdleType DEF TakeAnswerAsync, HeartbeatMissesLock, CompareTimestamps,
     StepMissesLock, EndRecovery, RecoveryFailed
<1>12. CASE Heartbeat
  <2>1. rep' = rep /\ (work' = [Idle EXCEPT !.pc = "compare", !.from = rep.ldt] \/ work' = Idle)
    BY <1>12 DEF Heartbeat
  <2>2. CASE work' = Idle
    BY <1>5, <2>2, IdleType
  <2>3. CASE work' = [Idle EXCEPT !.pc = "compare", !.from = rep.ldt]
    <3>1. work'.pc = "compare" /\ work'.from = rep.ldt
      BY <2>3 DEF Idle
    <3>2. work'.from <= rep'.ldt
      BY <1>1, <2>1, <3>1
    <3> QED BY <1>2, <1>3, <3>1, <3>2 DEF BeliefInv, InSteps
  <2> QED BY <2>1, <2>2, <2>3
<1>13. CASE StartRecovery
  <2>1. /\ work.pc = "recover" /\ state' = state
        /\ work' = IF state = "RECOVERY" THEN GetRecoverySteps(work.from) ELSE Idle
    BY <1>13 DEF StartRecovery, client
  <2>2. CASE state # "RECOVERY"
    BY <1>5, <2>1, <2>2, IdleType
  <2>3. CASE state = "RECOVERY"
    <3>1. work'.pc = "steps" /\ work'.from = work.from
      BY <1>0, <2>1, <2>3, StepsType DEF Works
    <3>2. work.from < ldt'
      BY <1>0, <1>1, <2>1 DEF BeliefInv
    <3> QED BY <1>6, <2>1, <2>3, <3>1, <3>2
  <2> QED BY <2>2, <2>3
<1>14. CASE SendSnapshot
  <2>1. /\ InSteps
        /\ \/ Stopped
           \/ rep'.ldt = work.snap /\ GoesOn(work.snap, work.lo, work.seq)
    BY <1>14, SendSnapshotEffect
  <2> QED BY <1>1, <1>7, <1>8, <2>1
<1>15. CASE SendWals
  <2>1. PICK h \in Timestamps : rep'.ldt = h /\ (Stopped \/ GoesOn(h, 0, work.seq))
    BY <1>15, SendWalsEffect DEF Loaded
  <2>2. InSteps
    BY <1>15 DEF SendWals
  <2> QED BY <1>1, <1>7, <1>8, <2>1, <2>2
<1>16. CASE SendCurrentWal
  <2>1. PICK h \in Timestamps : InSteps /\ rep'.ldt = h /\ (Stopped \/ GoesOn(h, 0, 0))
    BY <1>16, SendCurrentWalEffect DEF Loaded
  <2> QED BY <1>1, <1>7, <1>8, <2>1
<1>17. CASE DisableFlushing
  <2>1. InSteps /\ rep' = rep /\ \E seq : GoesOn(work.from, 0, seq)
    BY <1>17, DisableFlushingEffect
  <2>2. work.from < ldt' \/ work.from <= rep'.ldt
    BY <1>0, <1>1, <2>1 DEF BeliefInv
  <2> QED BY <1>7, <2>1, <2>2
<1> QED BY <1>4, <1>9, <1>10, <1>11, <1>12, <1>13, <1>14, <1>15, <1>16, <1>17 DEF Pool

-----------------------------------------------------------------------------
(* GetRecoverySteps: the steps leave no gap after what the replica has.      *)

(* The WAL files reach back to the beginning or to the latest snapshot.      *)
LEMMA OldestFile ==
  ASSUME MainInv, WalInv
  PROVE  /\ wal.files # {} => \E m \in wal.files : m = 1 \/ m <= LatestSnapshot
         /\ wal.files = {} /\ wal.cur # 0 => wal.cur = 1 \/ wal.cur <= LatestSnapshot
<1>1. AllFiles \in SUBSET (1..clock) /\ AllFiles \in SUBSET Nat /\ wal.cur \in Nat
  BY FilesTypes, LastFinalizedType
<1>2. /\ AllFiles # {} => 1 \in AllFiles \/ Smallest(AllFiles) <= LatestSnapshot
      /\ wal.cur # 0 => \A f \in wal.files : f < wal.cur
  BY DEF WalInv, ChainUnbroken, AllFiles
<1> DEFINE m == Smallest(AllFiles)
<1>3. AllFiles # {} => m \in AllFiles /\ \A y \in AllFiles : m <= y
  BY <1>1, SmallestIsLeast
<1>4. LatestSnapshot \in Nat
  BY FilesTypes
<1>5. wal.files \subseteq AllFiles /\ (wal.cur # 0 => wal.cur \in AllFiles)
      /\ \A y \in AllFiles : y \in wal.files \/ y = wal.cur
  BY DEF AllFiles
<1> HIDE DEF m
<1>6. AllFiles # {} => m = 1 \/ m <= LatestSnapshot
  <2> SUFFICES ASSUME AllFiles # {}, 1 \in AllFiles PROVE m = 1
    BY <1>2 DEF m
  <2>1. m \in 1..clock /\ m <= 1
    BY <1>1, <1>3
  <2>2. clock \in Nat
    BY LastFinalizedType
  <2> QED BY <2>1, <2>2
<1>7. ASSUME wal.files # {} PROVE \E x \in wal.files : x = 1 \/ x <= LatestSnapshot
  <2>1. m \in wal.files
    <3> SUFFICES ASSUME m \notin wal.files PROVE FALSE
      OBVIOUS
    <3>1. m = wal.cur /\ m \in Nat
      BY <1>1, <1>3, <1>5, <1>7
    <3>2. PICK f \in wal.files : TRUE
      BY <1>7
    <3>3. m <= f /\ f \in 1..clock /\ clock \in Nat
      BY <1>1, <1>3, <1>5, <3>2, LastFinalizedType
    <3>4. m # 0
      BY <1>1, <1>3, <1>5, <3>2, LastFinalizedType
    <3>5. f < m
      BY <1>2, <3>1, <3>4
    <3> QED BY <3>1, <3>3, <3>5
  <2> QED BY <1>5, <1>6, <1>7, <2>1
<1>8. ASSUME wal.files = {}, wal.cur # 0 PROVE wal.cur = 1 \/ wal.cur <= LatestSnapshot
  <2>1. AllFiles # {} /\ m = wal.cur
    BY <1>3, <1>5, <1>8
  <2> QED BY <1>6, <2>1
<1> QED BY <1>7, <1>8

(* A finalized file ends before the next one, the last one with LastFinalized. *)
LEMMA EndsOf ==
  ASSUME MainInv, NEW f \in wal.files
  PROVE  /\ (\A g \in wal.files : g <= f) => EndOf(f) = LastFinalized
         /\ \A g \in wal.files : f < g => EndOf(f) < g
         /\ EndOf(f) = LastFinalized \/ \E g \in wal.files : f < g /\ EndOf(f) = g - 1
         /\ (\E g \in wal.files : f < g) => \E g \in wal.files : f < g /\ EndOf(f) = g - 1
<1> DEFINE later == {g \in wal.files : f < g}
<1>0. wal.files \subseteq 1..clock /\ clock \in Nat
  BY LastFinalizedType DEF MainInv, MainTypes
<1>1. EndOf(f) = IF later = {} THEN LastFinalized ELSE Smallest(later) - 1
  BY DEF EndOf
<1>2. later \in SUBSET Nat
  BY <1>0
<1>3. later # {} => Smallest(later) \in later /\ \A y \in later : Smallest(later) <= y
  <2> HIDE DEF later
  <2> QED BY <1>2, SmallestIsLeast
<1>4. (\A g \in wal.files : g <= f) => later = {}
  <2> SUFFICES ASSUME \A g \in wal.files : g <= f, NEW g \in later PROVE FALSE
    OBVIOUS
  <2>1. g <= f /\ f < g /\ g \in 1..clock /\ f \in 1..clock
    BY <1>0
  <2> QED BY <1>0, <2>1
<1>5. ASSUME NEW g \in wal.files, f < g PROVE EndOf(f) < g
  <2>1. g \in later /\ g \in Nat
    BY <1>0, <1>5
  <2> HIDE DEF later
  <2>2. Smallest(later) \in Nat /\ Smallest(later) <= g /\ EndOf(f) = Smallest(later) - 1
    BY <1>1, <1>2, <1>3, <2>1
  <2> QED BY <2>1, <2>2
<1>6. later # {} => \E g \in wal.files : f < g /\ EndOf(f) = g - 1
  BY <1>1, <1>3
<1> QED BY <1>1, <1>4, <1>5, <1>6

(* The files after a snapshot S begin right after it or before.            *)
LEMMA AfterSnapshot ==
  ASSUME MainInv, NEW S \in Nat, NEW m \in wal.files, m <= S + 1
  PROVE  LET u == {f \in wal.files : EndOf(f) > S}
         IN  /\ u # {} => \E f \in u : f <= S + 1
             /\ u = {} => LastFinalized <= S
<1> DEFINE u == {f \in wal.files : EndOf(f) > S}
           before == {f \in wal.files : f <= S + 1}
<1>0. wal.files \subseteq 1..clock /\ clock \in Nat /\ LastFinalized \in Nat
  BY LastFinalizedType DEF MainInv, MainTypes
<1>1. before \in SUBSET (0..clock) /\ before # {}
  BY <1>0
<1> DEFINE b == Largest(before)
<1>2. b \in before /\ \A y \in before : y <= b
  <2> HIDE DEF before
  <2> QED BY <1>0, <1>1, LargestIsGreatest
<1> HIDE DEF b
<1>3. b \in wal.files /\ b \in Nat /\ b <= S + 1
  BY <1>0, <1>2
<1>4. \A g \in wal.files : b < g => g > S + 1
  <2> SUFFICES ASSUME NEW g \in wal.files, b < g, ~(g > S + 1) PROVE FALSE
    OBVIOUS
  <2>1. g \in Nat
    BY <1>0
  <2>2. g \in before
    BY <2>1
  <2>3. g <= b
    BY <1>2, <2>2
  <2> QED BY <1>3, <2>1, <2>3
<1>5. EndOf(b) = LastFinalized \/ EndOf(b) > S
  <2>1. CASE EndOf(b) = LastFinalized
    BY <2>1
  <2>2. ASSUME NEW g \in wal.files, b < g, EndOf(b) = g - 1 PROVE EndOf(b) > S
    <3>1. g > S + 1 /\ g \in Nat
      BY <1>0, <1>4, <2>2
    <3> QED BY <2>2, <3>1
  <2> QED BY <1>3, <2>1, <2>2, EndsOf
<1>6. CASE EndOf(b) > S
  <2>1. b \in u
    BY <1>3, <1>6
  <2> QED BY <1>3, <2>1
<1>7. CASE ~(EndOf(b) > S)
  <2>1. EndOf(b) = LastFinalized /\ LastFinalized <= S
    BY <1>0, <1>5, <1>7
  <2>2. ASSUME NEW g \in u PROVE FALSE
    <3>1. g \in wal.files /\ EndOf(g) > S /\ g \in Nat
      BY <1>0
    <3>2. EndOf(g) = LastFinalized \/ \E k \in wal.files : g < k /\ EndOf(g) = k - 1
      BY <3>1, EndsOf
    <3>3. CASE EndOf(g) = LastFinalized
      BY <1>0, <2>1, <3>1, <3>3
    <3>4. CASE g < b
      <4>1. EndOf(g) < b
        BY <1>3, <3>1, <3>4, EndsOf
      <4>2. EndOf(g) \in Int
        BY <1>0, <3>2
      <4> QED BY <1>3, <3>1, <4>1, <4>2
    <3>5. CASE g = b
      BY <1>7, <3>1, <3>5
    <3>6. CASE b < g /\ ~(g < b) /\ g # b
      <4>1. PICK k \in wal.files : b < k /\ EndOf(b) = k - 1
        BY <1>3, <3>1, <3>6, EndsOf
      <4>2. k > S + 1 /\ k \in Nat
        BY <1>0, <1>4, <4>1
      <4> QED BY <1>7, <4>1, <4>2
    <3> QED BY <1>3, <3>1, <3>4, <3>5, <3>6
  <2> QED BY <2>1, <2>2
<1> QED BY <1>6, <1>7

(* The steps w bring a replica with timestamp l on without a gap in C: the    *)
(* finalized files begin where it or the snapshot ends, and the open file     *)
(* where they end.                                                         *)
BaseOf(w, l) == IF w.snap # 0 THEN w.snap ELSE l
NoGap(w, l, C) ==
  /\ w.lo # 0 => w.lo <= BaseOf(w, l) + 1
  /\ w.lo # 0 /\ w.seq # 0 => w.seq <= w.hi + 1
  /\ w.lo = 0 /\ w.seq # 0 => \A x \in C : x < w.seq => x <= BaseOf(w, l)

(* GetRecoverySteps: between the replica and each step, and between the     *)
(* steps, nothing is left out.                                              *)
LEMMA StepsLeaveNoGap ==
  ASSUME MainInv, WalInv, NEW from \in Timestamps, NEW l \in Nat, from <= l
  PROVE  NoGap(GetRecoverySteps(from), l, committed)
<1> DEFINE w == GetRecoverySteps(from)
           u == UsefulWals(from)
           S == LatestSnapshot
           cov == Covering(from)
<1>0. /\ wal.files \subseteq 1..clock /\ clock \in Nat /\ LastFinalized \in Nat /\ wal.cur \in Nat
      /\ S \in Nat /\ from \in Nat /\ committed \subseteq 1..clock
  BY LastFinalizedType, FilesTypes, MaxTsType DEF MainInv, MainTypes
<1>1. /\ w.snap = (IF UsesSnapshot(from) THEN S ELSE 0)
      /\ w.lo = (IF u = {} THEN 0 ELSE Smallest(u))
      /\ w.hi = (IF u = {} THEN 0 ELSE LastFinalized)
      /\ w.seq \in {0, wal.cur}
      /\ u # {} => Smallest(u) \in u /\ \A f \in u : Smallest(u) <= f
  BY StepsType
<1>2. /\ wal.files # {} => \E m \in wal.files : m = 1 \/ m <= S
      /\ wal.files = {} /\ wal.cur # 0 => wal.cur = 1 \/ wal.cur <= S
  BY OldestFile
<1>3. cov # {} => Largest(cov) \in cov
  <2>1. cov \in SUBSET (0..clock)
    BY <1>0 DEF Covering
  <2> HIDE DEF cov
  <2> QED BY <1>0, <2>1, LargestIsGreatest
<1>4. u \subseteq wal.files
  BY UsefulWalsType
<1>5. u # {} => w.lo \in u /\ w.lo \in 1..clock /\ w.lo # 0
  BY <1>0, <1>1, <1>4
<1>6. BaseOf(w, l) = (IF UsesSnapshot(from) THEN S ELSE l)
  <2>1. UsesSnapshot(from) => S > from
    BY DEF UsesSnapshot
  <2>2. UsesSnapshot(from) => S # 0
    BY <1>0, <2>1
  <2> QED BY <1>1, <2>2 DEF BaseOf
<1>7. from <= BaseOf(w, l) /\ BaseOf(w, l) \in Nat
  BY <1>0, <1>6 DEF UsesSnapshot
<1> HIDE DEF w
<1>8. ASSUME w.lo # 0 PROVE w.lo <= BaseOf(w, l) + 1
  <2>1. u # {} /\ WalsBehind(from)
    BY <1>1, <1>8 DEF UsefulWals
  <2>2. \A f \in u : w.lo <= f
    BY <1>1, <2>1
  <2>3. CASE cov # {}
    <3>1. u = {f \in wal.files : f >= Largest(cov)}
      BY <2>1, <2>3 DEF UsefulWals
    <3>2. Largest(cov) \in wal.files /\ Largest(cov) <= from + 1
      BY <1>3, <2>3 DEF Covering
    <3> DEFINE c == Largest(cov)
    <3>3. c \in Nat /\ c <= from + 1
      BY <1>0, <3>2
    <3>4. c \in u
      <4>1. c >= c
        BY <3>3
      <4> QED BY <3>1, <3>2, <4>1
    <3> HIDE DEF c, u
    <3>5. w.lo <= c /\ w.lo \in Nat
      BY <1>0, <1>5, <2>1, <2>2, <3>4
    <3> QED BY <1>0, <1>7, <3>3, <3>5
  <2>4. CASE cov = {} /\ S > from
    <3>1. UsesSnapshot(from) /\ u = {f \in wal.files : EndOf(f) > S}
      BY <2>1, <2>4 DEF UsesSnapshot, UsefulWals
    <3>2. PICK m \in wal.files : m = 1 \/ m <= S
      BY <1>2, <2>1 DEF WalsBehind
    <3>3. m <= S + 1
      BY <1>0, <3>2
    <3>4. PICK f \in u : f <= S + 1
      BY <1>0, <2>1, <3>1, <3>2, <3>3, AfterSnapshot
    <3>5. w.lo <= f /\ w.lo \in Nat /\ f \in Nat
      BY <1>0, <1>4, <1>5, <2>1, <2>2, <3>4
    <3> QED BY <1>0, <1>6, <3>1, <3>4, <3>5
  <2>5. CASE cov = {} /\ ~(S > from)
    <3>1. PICK m \in wal.files : m = 1 \/ m <= S
      BY <1>2, <2>1 DEF WalsBehind
    <3>2. m \in Nat /\ m <= from + 1
      BY <1>0, <2>5, <3>1
    <3> QED BY <2>5, <3>1, <3>2 DEF Covering
  <2> QED BY <2>3, <2>4, <2>5
<1>9. ASSUME w.lo # 0, w.seq # 0 PROVE w.seq <= w.hi + 1
  <2>1. w.seq = wal.cur /\ wal.cur # 0 /\ w.hi = LastFinalized /\ LastFinalized = wal.cur - 1
    BY <1>1, <1>9 DEF LastFinalized
  <2> QED BY <1>0, <2>1
<1>10. ASSUME w.lo = 0, w.seq # 0, NEW x \in committed, x < w.seq PROVE x <= BaseOf(w, l)
  <2>1. u = {}
    BY <1>5, <1>10
  <2>2. w.seq = wal.cur /\ wal.cur # 0 /\ x < wal.cur /\ x \in Nat /\ x >= 1
    BY <1>0, <1>1, <1>10
  <2>3. LastFinalized = wal.cur - 1
    BY <2>2 DEF LastFinalized
  <2>4. CASE wal.files = {}
    <3>1. wal.cur <= S
      BY <1>0, <1>2, <2>2, <2>4
    <3>2. ~WalsBehind(from)
      BY <2>4 DEF WalsBehind
    <3>3. CASE S > from
      BY <1>0, <1>6, <2>2, <3>1, <3>2, <3>3 DEF UsesSnapshot
    <3>4. CASE ~(S > from)
      BY <1>0, <1>7, <2>2, <3>1, <3>4
    <3> QED BY <3>3, <3>4
  <2>5. CASE wal.files # {} /\ ~(LastFinalized > from)
    BY <1>0, <1>7, <2>2, <2>3, <2>5
  <2>6. CASE WalsBehind(from)
    <3>1. cov = {}
      <4> SUFFICES ASSUME cov # {} PROVE FALSE
        OBVIOUS
      <4>1. u = {f \in wal.files : f >= Largest(cov)}
        BY <2>6 DEF UsefulWals
      <4>2. Largest(cov) \in wal.files
        BY <1>3 DEF Covering
      <4> DEFINE c == Largest(cov)
      <4>3. c >= c
        BY <1>0, <4>2
      <4> QED BY <2>1, <4>1, <4>2, <4>3
    <3>2. S > from
      BY <2>1, <2>6, <3>1 DEF UsefulWals, WalsBehind
    <3>3. UsesSnapshot(from) /\ u = {f \in wal.files : EndOf(f) > S}
      BY <2>6, <3>1, <3>2 DEF UsesSnapshot, UsefulWals
    <3>4. PICK m \in wal.files : m = 1 \/ m <= S
      BY <1>2, <2>6 DEF WalsBehind
    <3>5. m <= S + 1
      BY <1>0, <3>4
    <3>6. LastFinalized <= S
      BY <1>0, <2>1, <3>3, <3>4, <3>5, AfterSnapshot
    <3> QED BY <1>0, <1>6, <2>2, <2>3, <3>3, <3>6
  <2> QED BY <2>4, <2>5, <2>6 DEF WalsBehind
<1> QED BY <1>8, <1>9, <1>10 DEF NoGap, w

-----------------------------------------------------------------------------
(* The replica holds a prefix of the main's transactions.                  *)

UpTo(C, l) == {t \in C : t <= l}

(* C grows behind l.                                                       *)
LEMMA PrefixKept ==
  ASSUME NEW C \in SUBSET Nat, NEW D \in SUBSET Nat, C \subseteq D, NEW l \in C \cup {0},
         \A x \in D : x \in C \/ \A y \in C \cup {0} : y < x
  PROVE  UpTo(D, l) = UpTo(C, l)
<1>1. \A x \in D : x <= l => x \in C
  <2> SUFFICES ASSUME NEW x \in D, x <= l, x \notin C PROVE FALSE
    OBVIOUS
  <2>1. l < x /\ l \in Nat /\ x \in Nat
    OBVIOUS
  <2> QED BY <2>1
<1> QED BY <1>1 DEF UpTo

(* t is the next after l.                                                   *)
LEMMA PrefixExtended ==
  ASSUME NEW C \in SUBSET Nat, NEW l \in Nat, NEW t \in C, l <= t,
         \A x \in C : x < t => x <= l
  PROVE  UpTo(C, t) = UpTo(C, l) \cup {t}
<1>1. ASSUME NEW x \in C PROVE x <= t <=> x <= l \/ x = t
  BY <1>1
<1>2. t <= t
  OBVIOUS
<1> QED BY <1>1, <1>2 DEF UpTo

(* The transactions of K after l are loaded up to h.                        *)
LEMMA PrefixLoaded ==
  ASSUME NEW C \in SUBSET Nat, NEW K \in SUBSET C, NEW l \in Nat, NEW h \in Nat, l <= h, NEW lo,
         \A x \in C : l < x /\ x <= h => x \in K /\ lo <= x
  PROVE  UpTo(C, h) = UpTo(C, l) \cup {t \in K : lo <= t /\ t <= h /\ l < t}
<1>1. ASSUME NEW x \in C PROVE x <= h => x <= l \/ (x \in K /\ lo <= x /\ x <= h /\ l < x)
  BY <1>1
<1>2. ASSUME NEW x \in C PROVE x <= l => x <= h
  BY <1>2
<1> QED BY <1>1, <1>2 DEF UpTo

RecoverInv ==
  ~rewound =>
    /\ rep.applied = UpTo(Certain, rep.ldt)
    /\ work.from <= rep.ldt
    /\ \A t \in TasksIn(tasks) : t.from <= rep.ldt
    /\ InSteps => NoGap(work, rep.ldt, committed) /\ work.seq <= clock

(* What is certain and not committed yet comes last.                       *)
LEMMA CertainTop ==
  ASSUME MainInv
  PROVE  \A x \in Certain : x \in committed \/ \A y \in committed \cup {0} : y < x
<1> SUFFICES ASSUME NEW x \in Certain, x \notin committed, NEW y \in committed \cup {0} PROVE y < x
  OBVIOUS
<1>1. ~EngineFree /\ ~twoPC /\ x = clock /\ clock \in Nat
  BY CertainType
<1>2. Undecided
  BY <1>1 DEF MainInv, MainTypes, Txns, Undecided, EngineFree
<1>3. clock > 0 /\ committed \subseteq 1..clock /\ clock \notin committed
  BY <1>1, <1>2 DEF MainInv, MainTypes
<1> QED BY <1>1, <1>3

(* The replica stays a prefix of the main.                                  *)
LEMMA PrefixStep ==
  ASSUME CoreInv, CoreInv', RecoverInv, [Next]_vars, ~rewound'
  PROVE  rep'.applied = UpTo(Certain', rep'.ldt)
<1>0. /\ MainInv /\ MainInv' /\ RepInv /\ clock \in Nat /\ rep.ldt \in Nat /\ rep.ldt \in Certain \cup {0}
      /\ Certain \in SUBSET Nat /\ committed \in SUBSET Certain
  BY CertainType, RepInvMore DEF CoreInv, RepInv
<1>1. Certain' \in SUBSET Nat
  <2>1. committed' \subseteq Nat /\ clock' \in Nat
    BY MaxTsType DEF CoreInv, MainInv, MainTypes
  <2> QED BY <2>1 DEF Certain, ts
<1>2. CertainGrows
  BY CertainStep DEF CoreInv
<1>3. ~rewound /\ rep.applied = UpTo(Certain, rep.ldt)
  BY LdtGrows DEF RecoverInv
<1>4. UpTo(Certain', rep.ldt) = UpTo(Certain, rep.ldt)
  <2>1. \A x \in Certain' : x \in Certain \/ \A y \in Certain \cup {0} : y < x
    BY <1>2 DEF CertainGrows
  <2>2. Certain \subseteq Certain'
    BY <1>2 DEF CertainGrows
  <2> DEFINE D == Certain'
             C == Certain
  <2> HIDE DEF C, D
  <2>3. UpTo(D, rep.ldt) = UpTo(C, rep.ldt)
    BY <1>0, <1>1, <2>1, <2>2, PrefixKept DEF C, D
  <2> QED BY <2>3 DEF C, D
<1>5. ASSUME rep'.ldt = rep.ldt, rep'.applied = rep.applied
      PROVE  rep'.applied = UpTo(Certain', rep'.ldt)
  BY <1>3, <1>4, <1>5
<1>6. ASSUME UNCHANGED <<twoPC, committed, clock, txn>> PROVE Certain' = Certain
  BY <1>6 DEF Certain, EngineFree, ts
<1>7. CASE SendPrepare
  <2>1. \/ rep'.ldt = rep.ldt /\ rep'.applied = rep.applied
        \/ /\ mode = "SYNC" /\ ldt <= rep.ldt
           /\ rep'.ldt = clock /\ rep'.applied = rep.applied \cup {clock}
    BY <1>7, SendPrepareEffect
  <2>2. CASE mode = "SYNC" /\ ldt <= rep.ldt /\ rep'.ldt = clock /\ rep'.applied = rep.applied \cup {clock}
    <3>1. /\ UNCHANGED <<twoPC, committed, clock>> /\ ~EngineFree /\ ~twoPC /\ rep.ldt <= clock
          /\ txn'.pc = "sent" /\ ldt \in Nat /\ \A x \in committed : x <= ldt
      <4>1. UNCHANGED <<twoPC, committed, clock>> /\ ~EngineFree
        BY <1>7 DEF SendPrepare, EngineFree, cluster, main
      <4>2. rep.ldt \in 0..clock /\ txn'.pc = "sent"
        BY <1>7, SendPrepareEffect
      <4>3. ~twoPC /\ ldt \in Nat /\ \A x \in committed : x <= ldt
        BY <1>0, <2>2, MaxTsType DEF MainInv, MainTypes
      <4> QED BY <1>0, <4>1, <4>2, <4>3
    <3>2. Certain = committed \cup {clock} /\ Certain' = Certain
      BY <1>0, <3>1, CertainType DEF Certain, EngineFree, ts
    <3>3. \A x \in Certain : x < clock => x <= rep.ldt
      <4> SUFFICES ASSUME NEW x \in Certain, x < clock PROVE x <= rep.ldt
        OBVIOUS
      <4>1. x \in committed /\ x \in Nat
        BY <1>0, <3>2
      <4> QED BY <1>0, <2>2, <3>1, <4>1
    <3> DEFINE C == Certain
    <3>4. clock \in C
      BY <3>2
    <3> HIDE DEF C
    <3>5. UpTo(C, clock) = UpTo(C, rep.ldt) \cup {clock}
      BY <1>0, <3>1, <3>3, <3>4, PrefixExtended DEF C
    <3> QED BY <1>3, <2>2, <3>2, <3>5 DEF C
  <2> QED BY <1>5, <2>1, <2>2
<1>8. CASE FinalizeStrict
  <2>1. /\ rep.ldt <= clock
        /\ \/ rep'.ldt = rep.ldt /\ rep'.applied = rep.applied
           \/ /\ txn.decision /\ rep.prepared = clock /\ ldt = clock /\ clock \in committed
              /\ rep'.ldt = clock /\ rep'.applied = rep.applied \cup {clock}
    BY <1>8, FinalizeStrictEffect
  <2>2. CASE rep.prepared = clock /\ clock \in committed /\ rep'.ldt = clock /\ rep'.applied = rep.applied \cup {clock}
    <3>1. /\ UNCHANGED <<twoPC, committed, clock>> /\ ~EngineFree /\ twoPC
      BY <1>0, <1>8 DEF FinalizeStrict, EngineFree, MainInv, cluster, main
    <3>2. Certain = committed /\ Certain' = Certain
      BY <3>1 DEF Certain
    <3>3. \A x \in Certain : x < clock => x <= rep.ldt
      BY <1>0, <2>2, <3>1, <3>2 DEF RepInv
    <3> DEFINE C == Certain
    <3>4. clock \in C
      BY <2>2, <3>2
    <3> HIDE DEF C
    <3>5. UpTo(C, clock) = UpTo(C, rep.ldt) \cup {clock}
      BY <1>0, <2>1, <3>3, <3>4, PrefixExtended DEF C
    <3> QED BY <1>3, <2>2, <3>2, <3>5 DEF C
  <2> QED BY <1>5, <2>1, <2>2
<1>9. CASE SendPrepareAsync
  <2>1. /\ ToSend(work.ts, work.prev, Certain, rep.ldt)
        /\ \/ rep'.ldt = rep.ldt /\ rep'.applied = rep.applied
           \/ /\ work.prev <= rep.ldt
              /\ rep'.ldt = work.ts /\ rep'.applied = rep.applied \cup {work.ts}
    BY <1>9, SendPrepareAsyncEffect
  <2>2. CASE work.prev <= rep.ldt /\ rep'.ldt = work.ts /\ rep'.applied = rep.applied \cup {work.ts}
    <3>1. Certain' = Certain
      BY <1>6, <1>9 DEF SendPrepareAsync, cluster, main
    <3>2. work.ts \in Certain /\ rep.ldt < work.ts /\ \A x \in Certain : x < work.ts => x <= work.prev
      BY <2>1 DEF ToSend
    <3>3. work.prev \in Nat
      BY MaxTsType DEF CoreInv, ClientTypes, Works
    <3>4. \A x \in Certain : x < work.ts => x <= rep.ldt
      <4> SUFFICES ASSUME NEW x \in Certain, x < work.ts PROVE x <= rep.ldt
        OBVIOUS
      <4>1. x <= work.prev /\ x \in Nat
        BY <1>0, <3>2
      <4> QED BY <1>0, <2>2, <3>3, <4>1
    <3> DEFINE C == Certain
               t == work.ts
               l == rep.ldt
    <3>5. t \in Nat /\ l < t
      BY <1>0, <3>2
    <3>6. C \in SUBSET Nat /\ l \in Nat /\ t \in C /\ l <= t /\ \A x \in C : x < t => x <= l
      BY <1>0, <3>2, <3>4, <3>5
    <3>7. rep'.ldt = t /\ rep'.applied = UpTo(C, l) \cup {t} /\ Certain' = C
      BY <1>3, <2>2, <3>1
    <3> HIDE DEF C, t, l
    <3>8. UpTo(C, t) = UpTo(C, l) \cup {t}
      BY <3>6, PrefixExtended
    <3> QED BY <3>7, <3>8
  <2> QED BY <1>5, <2>1, <2>2
<1>10. CASE SendSnapshot
  <2>1. Certain' = Certain
    BY <1>6, <1>10 DEF SendSnapshot, cluster, main
  <2>2. /\ work.snap \in committed
        /\ \/ rep' = rep
           \/ rep'.ldt = 0 /\ rep'.applied = {}
           \/ rep'.ldt = work.snap /\ rep'.applied = UpTo(committed, work.snap)
    BY <1>10, SendSnapshotEffect DEF UpTo
  <2>3. CASE rep'.ldt = 0 /\ rep'.applied = {}
    <3>1. \A x \in Certain : ~(x <= 0)
      BY <1>0, CertainType
    <3> QED BY <2>1, <2>3, <3>1 DEF UpTo
  <2>4. CASE rep'.ldt = work.snap /\ rep'.applied = UpTo(committed, work.snap)
    <3> DEFINE C == Certain
    <3>1. /\ committed \in SUBSET Nat /\ committed \subseteq C /\ C \in SUBSET Nat
          /\ \A x \in C : x \in committed \/ \A y \in committed \cup {0} : y < x
      BY <1>0, CertainTop
    <3> HIDE DEF C
    <3>2. UpTo(C, work.snap) = UpTo(committed, work.snap)
      BY <2>2, <3>1, PrefixKept
    <3> QED BY <2>1, <2>4, <3>2 DEF C
  <2> QED BY <1>5, <2>2, <2>3, <2>4
<1>11. ASSUME NEW lo, NEW hi, NEW h \in Timestamps, Loaded(lo, hi, h), Certain' = Certain,
              \A x \in committed : rep.ldt < x => lo <= x
       PROVE  rep'.applied = UpTo(Certain', rep'.ldt)
  <2>1. /\ h \in {rep.ldt} \cup Missing(rep, lo, hi) /\ rep.ldt <= h /\ rep'.ldt = h
        /\ \/ h = rep.ldt /\ rep'.applied = rep.applied
           \/ rep'.applied = rep.applied \cup Missing(rep, lo, h)
    BY <1>11 DEF Loaded
  <2>2. h \in Nat
    BY MaxTsType
  <2>3. ASSUME NEW x \in Certain, rep.ldt < x, x <= h PROVE x \in committed /\ lo <= x
    <3>1. x \in Nat
      BY <1>0
    <3>2. h \in committed
      BY <1>0, <2>1, <2>2, <2>3, <3>1 DEF Missing
    <3>3. x \in committed
      <4> SUFFICES ASSUME x \notin committed PROVE FALSE
        OBVIOUS
      <4>1. h < x
        BY <1>0, <3>2, CertainTop
      <4> QED BY <2>2, <2>3, <3>1, <4>1
    <3> QED BY <1>11, <2>3, <3>3
  <2>4. CASE rep'.applied = rep.applied \cup Missing(rep, lo, h)
    <3> DEFINE C == Certain
               l == rep.ldt
    <3>1. /\ C \in SUBSET Nat /\ committed \in SUBSET C /\ l \in Nat /\ l <= h
          /\ \A x \in C : l < x /\ x <= h => x \in committed /\ lo <= x
      BY <1>0, <2>1, <2>3
    <3>2. rep'.applied = UpTo(C, l) \cup {t \in committed : lo <= t /\ t <= h /\ l < t}
      BY <1>3, <2>4 DEF Missing
    <3> HIDE DEF C, l
    <3>3. UpTo(C, h) = UpTo(C, l) \cup {t \in committed : lo <= t /\ t <= h /\ l < t}
      BY <2>2, <3>1, PrefixLoaded
    <3> QED BY <1>11, <2>1, <3>2, <3>3 DEF C
  <2> QED BY <1>5, <2>1, <2>4
<1>12. CASE SendWals
  <2>1. InSteps /\ work.snap = 0 /\ work.lo # 0
    BY <1>12, SendWalsEffect
  <2>2. PICK h \in Timestamps : Loaded(work.lo, work.hi, h)
    BY <1>12, SendWalsEffect
  <2>3. work.lo <= rep.ldt + 1 /\ work.lo \in Nat
    BY <1>3, <2>1, MaxTsType DEF RecoverInv, NoGap, BaseOf, CoreInv, ClientTypes, Works
  <2>4. \A x \in committed : rep.ldt < x => work.lo <= x
    BY <1>0, <2>3
  <2>5. Certain' = Certain
    BY <1>6, <1>12 DEF SendWals, cluster, main
  <2> QED BY <1>11, <2>2, <2>4, <2>5
<1>13. CASE SendCurrentWal
  <2>1. /\ InSteps /\ work.snap = 0 /\ work.lo = 0 /\ work.seq # 0
        /\ \E h \in Timestamps : Loaded(work.seq, clock, h)
    BY <1>13, SendCurrentWalEffect
  <2>2. \A x \in committed : x < work.seq => x <= rep.ldt
    BY <1>3, <2>1 DEF RecoverInv, NoGap, BaseOf
  <2>3. \A x \in committed : rep.ldt < x => work.seq <= x
    <3>1. work.seq \in Nat
      BY MaxTsType DEF CoreInv, ClientTypes, Works
    <3> QED BY <1>0, <2>2, <3>1
  <2>4. Certain' = Certain
    BY <1>6, <1>13 DEF SendCurrentWal, cluster, main
  <2> QED BY <1>11, <2>1, <2>3, <2>4
<1>14. CASE ReplicaStops
  BY <1>0, <1>5, <1>14 DEF ReplicaStops, RepInv, RepsUpTo
<1> QED BY <1>5, <1>7, <1>8, <1>9, <1>10, <1>12, <1>13, <1>14, RepChanges

(* The steps that are left still leave no gap when the replica and the main   *)
(* go on.                                                                  *)
LEMMA GapKept ==
  ASSUME NEW w \in Works, NEW l \in Nat, NEW m \in Nat, l <= m, NEW C \in SUBSET Nat, NEW D \in SUBSET Nat,
         \A x \in D : x \in C \/ w.seq <= x, NoGap(w, l, C)
  PROVE  NoGap(w, m, D)
<1>1. w.snap \in Nat /\ w.lo \in Nat /\ w.hi \in Nat /\ w.seq \in Nat
  BY MaxTsType DEF Works
<1>2. BaseOf(w, l) \in Nat /\ BaseOf(w, m) \in Nat /\ BaseOf(w, l) <= BaseOf(w, m)
  BY <1>1 DEF BaseOf
<1>3. w.lo # 0 => w.lo <= BaseOf(w, m) + 1
  BY <1>1, <1>2 DEF NoGap
<1>4. ASSUME w.lo = 0, w.seq # 0, NEW x \in D, x < w.seq PROVE x <= BaseOf(w, m)
  <2>1. x \in Nat /\ x \in C
    BY <1>1, <1>4
  <2>2. x <= BaseOf(w, l)
    BY <1>4, <2>1 DEF NoGap
  <2> QED BY <1>2, <2>1, <2>2
<1> QED BY <1>3, <1>4 DEF NoGap

(* The steps that are left reach the replica, whatever it was sent since.   *)
LEMMA GapStep ==
  ASSUME CoreInv, CoreInv', RecoverInv, [Next]_vars, ~rewound', InSteps'
  PROVE  NoGap(work', rep'.ldt, committed') /\ work'.seq <= clock'
<1>0. /\ MainInv /\ WalInv /\ RepInv /\ work \in Works /\ work.from \in Timestamps
      /\ committed \in SUBSET Nat /\ committed' \in SUBSET Nat /\ clock' \in Nat
      /\ work.seq \in Nat /\ work.lo \in Nat /\ work.hi \in Nat
  <2>1. MainInv /\ MainInv' /\ WalInv /\ RepInv /\ work \in Works
    BY DEF CoreInv, ClientTypes
  <2>2. committed \subseteq 1..clock /\ committed' \subseteq 1..clock' /\ clock' \in Nat
    BY <2>1, MaxTsType DEF MainInv, MainTypes
  <2>3. /\ work.from \in Timestamps /\ work.seq \in Nat /\ work.lo \in Nat /\ work.hi \in Nat
    BY <2>1, MaxTsType DEF Works
  <2>4. committed \in SUBSET Nat /\ committed' \in SUBSET Nat
    BY <2>2
  <2> QED BY <2>1, <2>2, <2>3, <2>4
<1>1. ~rewound /\ rep.ldt \in Nat /\ rep'.ldt \in Nat /\ rep.ldt <= rep'.ldt
  BY LdtGrows
<1>2. /\ work.from <= rep.ldt
      /\ InSteps => NoGap(work, rep.ldt, committed) /\ work.seq <= clock
  BY <1>1 DEF RecoverInv
<1>3. clock \in Nat
  BY <1>0, LastFinalizedType
<1>4. CASE ~Pool
  <2>1. work' = work /\ InSteps
    BY <1>4, OnlyPoolWorks DEF InSteps
  <2>2. \A x \in committed' : x \in committed \/ work.seq <= x
    BY <1>2, <2>1, CommittedStep
  <2>3. clock <= clock'
    BY CertainStep DEF CertainGrows, CoreInv
  <2> DEFINE D == committed'
             m == rep'.ldt
  <2> HIDE DEF D, m
  <2>4. NoGap(work, m, D)
    BY <1>0, <1>1, <1>2, <2>1, <2>2, GapKept DEF D, m
  <2> QED BY <1>0, <1>2, <1>3, <2>1, <2>3, <2>4 DEF D, m
<1>5. CASE Pool
  <2>0. UNCHANGED <<committed, clock>>
    BY <1>5, PoolLeavesMain DEF mainVars, main
  <2>1. ~Stopped
    BY IdleType DEF Stopped, InSteps
  <2>2. CASE StartRecovery
    <3>1. work' = GetRecoverySteps(work.from) /\ rep' = rep
      BY <2>2, IdleType DEF StartRecovery, InSteps
    <3>2. work'.seq \in {0, wal.cur} /\ wal.cur <= clock
      <4>1. GetRecoverySteps(work.from).seq \in {0, wal.cur}
        BY <1>0, StepsType
      <4>2. wal.cur \in 0..clock /\ clock \in Nat
        BY <1>0, LastFinalizedType
      <4> QED BY <3>1, <4>1, <4>2
    <3> QED BY <1>0, <1>1, <1>2, <1>3, <2>0, <3>1, <3>2, StepsLeaveNoGap
  <2>3. CASE SendSnapshot
    <3>1. InSteps /\ work.snap # 0 /\ rep'.ldt = work.snap /\ GoesOn(work.snap, work.lo, work.seq)
      BY <2>1, <2>3, SendSnapshotEffect
    <3>2. /\ work'.snap = 0 /\ work'.lo = work.lo /\ work'.seq = work.seq
          /\ work.lo # 0 => work'.hi = work.hi
      BY <3>1 DEF GoesOn
    <3>3. BaseOf(work', rep'.ldt) = BaseOf(work, rep.ldt)
      BY <3>1, <3>2 DEF BaseOf
    <3> QED BY <1>2, <2>0, <3>1, <3>2, <3>3 DEF NoGap
  <2>4. CASE SendWals
    <3>1. /\ InSteps /\ work.snap = 0 /\ work.lo # 0
          /\ \E h \in Timestamps :
              /\ rep'.ldt = h /\ GoesOn(h, 0, work.seq)
              /\ \A t \in Missing(rep, work.lo, work.hi) : t <= h
      BY <2>1, <2>4, SendWalsEffect DEF Loaded
    <3>2. PICK h \in Timestamps :
              /\ rep'.ldt = h /\ GoesOn(h, 0, work.seq)
              /\ \A t \in Missing(rep, work.lo, work.hi) : t <= h
      BY <3>1
    <3>3. work'.snap = 0 /\ work'.lo = 0 /\ work'.seq = work.seq
      BY <3>2 DEF GoesOn
    <3>4. work.lo <= rep.ldt + 1 /\ (work.seq # 0 => work.seq <= work.hi + 1)
      BY <1>2, <3>1 DEF NoGap, BaseOf
    <3>5. ASSUME work.seq # 0, NEW x \in committed, x < work.seq PROVE x <= h
      <4>1. x \in Nat /\ x <= work.hi
        BY <1>0, <3>4, <3>5
      <4>2. CASE x <= rep.ldt
        BY <1>1, <3>2, <4>1, <4>2
      <4>3. CASE rep.ldt < x
        <5>1. x \in Missing(rep, work.lo, work.hi)
          BY <1>0, <1>1, <3>4, <4>1, <4>3 DEF Missing
        <5> QED BY <3>2, <5>1
      <4> QED BY <1>1, <4>1, <4>2, <4>3
    <3> QED BY <1>2, <2>0, <3>1, <3>2, <3>3, <3>5 DEF NoGap, BaseOf
  <2>5. CASE SendCurrentWal
    <3>1. PICK h : GoesOn(h, 0, 0)
      BY <2>1, <2>5, SendCurrentWalEffect
    <3>2. work'.lo = 0 /\ work'.seq = 0
      BY <3>1 DEF GoesOn
    <3> QED BY <1>0, <3>2 DEF NoGap
  <2>6. CASE TakeTask
    <3>1. Head(tasks) \in Tasks /\ work' = WorkOf(Head(tasks))
      BY <2>6, TailTasks DEF TakeTask, WorkOf, CoreInv, ClientTypes
    <3> QED BY <3>1, WorkOfType DEF InSteps
  <2>7. CASE SendPrepareAsync
    BY <2>7, SendPrepareAsyncEffect DEF InSteps
  <2>8. CASE Heartbeat
    <3>1. work' = [Idle EXCEPT !.pc = "compare", !.from = rep.ldt] \/ work' = Idle
      BY <2>8 DEF Heartbeat
    <3>2. CASE work' = [Idle EXCEPT !.pc = "compare", !.from = rep.ldt]
      <4>1. work'.pc = "compare"
        BY <3>2 DEF Idle
      <4> QED BY <4>1 DEF InSteps
    <3>3. CASE work' = Idle
      BY <3>3, IdleType DEF InSteps
    <3> QED BY <3>1, <3>2, <3>3
  <2>9. CASE TakeAnswerAsync \/ HeartbeatMissesLock \/ CompareTimestamps \/ StepMissesLock \/ EndRecovery
    BY <2>9, IdleType DEF InSteps, TakeAnswerAsync, HeartbeatMissesLock, CompareTimestamps,
       StepMissesLock, EndRecovery, RecoveryFailed
  <2>10. CASE DisableFlushing
    <3>1. InSteps /\ work.snap = 0 /\ work.lo = 0 /\ rep' = rep
      BY <2>10, DisableFlushingEffect
    <3>2. work'.snap = 0 /\ work'.lo = 0 /\ work'.seq \in {work.seq, 0}
      BY <2>10, DisableFlushingEffect DEF GoesOn
    <3> QED BY <1>2, <1>3, <2>0, <3>1, <3>2 DEF NoGap, BaseOf
  <2> QED BY <1>5, <2>2, <2>3, <2>4, <2>5, <2>6, <2>7, <2>8, <2>9, <2>10 DEF Pool
<1> QED BY <1>4, <1>5

(* What the pool believes the replica has, it has.                         *)
LEMMA FromStep ==
  ASSUME CoreInv, CoreInv', RecoverInv, [Next]_vars, ~rewound'
  PROVE  work'.from <= rep'.ldt /\ \A t \in TasksIn(tasks') : t.from <= rep'.ldt
<1>0. work \in Works /\ work.from \in Nat /\ Idle.from = 0 /\ \A t \in Tasks : t.from \in Nat
  BY MaxTsType, IdleType DEF CoreInv, ClientTypes, Works, Tasks
<1>1. ~rewound /\ rep.ldt \in Nat /\ rep'.ldt \in Nat /\ rep.ldt <= rep'.ldt
  BY LdtGrows
<1>2. work.from <= rep.ldt /\ \A t \in TasksIn(tasks) : t.from <= rep.ldt
  BY <1>1 DEF RecoverInv
<1>3. ASSUME NEW t \in TasksIn(tasks') PROVE t.from <= rep'.ldt
  <2>1. t \in TasksIn(tasks) \/ NewTask(t)
    BY TasksStep
  <2>2. t.from <= rep.ldt
    BY <1>0, <1>1, <1>2, <2>1 DEF NewTask
  <2>3. t \in Tasks
    BY DEF CoreInv, ClientTypes, TasksIn
  <2> QED BY <1>0, <1>1, <2>2, <2>3
<1> SUFFICES work'.from <= rep'.ldt
  BY <1>3
<1>4. ASSUME work'.from \in {0, work.from, rep.ldt, rep'.ldt} PROVE work'.from <= rep'.ldt
  BY <1>0, <1>1, <1>2, <1>4
<1>5. CASE ~Pool
  BY <1>4, <1>5, OnlyPoolWorks
<1>6. ASSUME Stopped PROVE work'.from <= rep'.ldt
  BY <1>0, <1>4, <1>6 DEF Stopped
<1>7. CASE TakeTask
  <2>1. tasks # <<>> /\ work' = WorkOf(Head(tasks))
    BY <1>7 DEF TakeTask, WorkOf
  <2>2. Head(tasks) \in Tasks /\ Head(tasks) \in TasksIn(tasks)
    BY <2>1, TailTasks DEF CoreInv, ClientTypes
  <2>3. work'.from = Head(tasks).from /\ work'.from <= rep.ldt /\ work'.from \in Nat
    BY <1>0, <1>2, <2>1, <2>2, WorkOfType
  <2> QED BY <1>1, <2>3
<1>8. CASE SendPrepareAsync
  BY <1>4, <1>8, SendPrepareAsyncEffect
<1>9. CASE Heartbeat
  <2>1. work' = [Idle EXCEPT !.pc = "compare", !.from = rep.ldt] \/ work' = Idle
    BY <1>9 DEF Heartbeat
  <2>2. CASE work' = [Idle EXCEPT !.pc = "compare", !.from = rep.ldt]
    <3>1. work'.from = rep.ldt
      BY <2>2 DEF Idle
    <3> QED BY <1>4, <3>1
  <2>3. CASE work' = Idle
    BY <1>0, <1>4, <2>3
  <2> QED BY <2>1, <2>2, <2>3
<1>10. CASE TakeAnswerAsync \/ HeartbeatMissesLock \/ CompareTimestamps \/ StepMissesLock \/ EndRecovery
  BY <1>0, <1>4, <1>10 DEF TakeAnswerAsync, HeartbeatMissesLock, CompareTimestamps,
     StepMissesLock, EndRecovery, RecoveryFailed
<1>11. CASE StartRecovery
  <2>1. work' = GetRecoverySteps(work.from) \/ work' = Idle
    BY <1>11 DEF StartRecovery
  <2>2. GetRecoverySteps(work.from).from = work.from
    BY <1>0, StepsType DEF CoreInv, Works
  <2> QED BY <1>0, <1>4, <2>1, <2>2
<1>12. CASE SendSnapshot
  BY <1>4, <1>6, <1>12, SendSnapshotEffect DEF GoesOn, Stopped, Idle
<1>13. CASE SendWals
  BY <1>4, <1>6, <1>13, SendWalsEffect DEF GoesOn, Loaded
<1>14. CASE SendCurrentWal
  BY <1>4, <1>6, <1>14, SendCurrentWalEffect DEF GoesOn, Loaded
<1>15. CASE DisableFlushing
  BY <1>4, <1>15, DisableFlushingEffect DEF GoesOn
<1> QED BY <1>5, <1>7, <1>8, <1>9, <1>10, <1>11, <1>12, <1>13, <1>14, <1>15 DEF Pool

(* Together.                                                                *)
LEMMA RecoverStep == CoreInv /\ CoreInv' /\ RecoverInv /\ [Next]_vars => RecoverInv'
BY PrefixStep, GapStep, FromStep DEF RecoverInv

-----------------------------------------------------------------------------
(* What was reported to the clients of the main.                           *)

(* A commit that is about to be reported without a failure is on the SYNC     *)
(* replica; of a STRICT_SYNC replica it is known that it has the one before.  *)
AckInv ==
  ~rewound =>
    /\ mode = "SYNC" => \A a \in acked : a <= rep.ldt
    /\ mode = "SYNC" /\ txn.pc = "decide" /\ ~txn.failed => rep.ldt = clock
    /\ mode = "STRICT_SYNC" => \A a \in acked : a <= rep.ldt \/ a = ldt
    /\ mode = "STRICT_SYNC" /\ txn.pc = "sent" /\ txn.answer = "yes" => ldt <= rep.ldt
    /\ mode = "STRICT_SYNC" /\ txn.pc = "decide" /\ ~txn.failed => ldt <= rep.ldt

(* How a commit that may be reported comes to its decision, for a client that *)
(* is not ASYNC.                                                           *)
LEMMA DecideStays ==
  ASSUME CoreInv, [Next]_vars, ~TakeAnswer, txn'.pc = "decide", ~txn'.failed, mode # "ASYNC"
  PROVE  txn' = txn /\ UNCHANGED <<clock, ldt, acked>>
<1>0. MainInv /\ MainTypes /\ ClientTypes
  BY DEF CoreInv, MainInv
<1>1. ~Starts
  BY <1>0, StartEffect
<1>2. ~ShipDeltas
  <2> SUFFICES ASSUME ShipDeltas PROVE FALSE
    OBVIOUS
  <2>1. NotReplicating("decide")
    BY DEF ShipDeltas
  <2> QED BY <1>0, <2>1, NotReplicatingTxn
<1>3. ~SendPrepare
  BY SendPrepareEffect
<1>4. ~Decide /\ ~FinalizeAsync
  BY <1>0, DecideMain, FinalizeAsyncMain
<1>5. ~CommitAlone /\ ~FinalizeStrict /\ ~EndAsync
  BY NoTxnType DEF CommitAlone, FinalizeStrict, EndAsync
<1>6. ~Commit
  BY <1>1, <1>2, <1>3, <1>4, <1>5 DEF Commit, Starts
<1>7. CASE Pool \/ CheckerSucceeds \/ CheckerFails \/ ReplicaStops \/ ReplicaStarts
  BY <1>7, PoolLeavesMain DEF mainVars, main
<1>8. CASE CreateSnapshot \/ UNCHANGED vars
  BY <1>8 DEF CreateSnapshot, vars, main
<1> QED BY <1>6, <1>7, <1>8 DEF Next

(* The commits that are reported.                                          *)
LEMMA AckedStep ==
  ASSUME CoreInv, [Next]_vars
  PROVE  \/ acked' = acked
         \/ /\ acked' = acked \cup {clock} /\ rep' = rep /\ ldt' = clock
            /\ txn.pc = "decide" /\ ~txn.failed /\ ~twoPC
         \/ /\ acked' = acked \cup {clock} /\ ldt' = clock /\ ldt = clock /\ twoPC
<1>0. MainInv /\ ClientTypes
  BY DEF CoreInv
<1>1. CASE Starts
  BY <1>0, <1>1, StartEffect
<1>2. CASE CommitAlone
  BY <1>2 DEF CommitAlone, ts
<1>3. CASE FinalizeStrict \/ EndAsync
  <2>1. /\ txn.pc \in {"finalize", "end"} /\ ldt' = ldt
        /\ acked' = acked \/ (txn.decision /\ acked' = acked \cup {clock})
    BY <1>3 DEF FinalizeStrict, EndAsync, Acknowledge, main, ts
  <2> QED BY <1>0, <2>1 DEF MainInv
<1>4. CASE ShipDeltas \/ SendPrepare \/ TakeAnswer \/ Decide \/ FinalizeAsync
  BY <1>4 DEF ShipDeltas, SendPrepare, TakeAnswer, Decide, FinalizeAsync
<1>5. CASE Pool \/ CheckerSucceeds \/ CheckerFails \/ ReplicaStops \/ ReplicaStarts
  BY <1>5, PoolLeavesMain DEF mainVars
<1>6. CASE CreateSnapshot \/ UNCHANGED vars
  BY <1>6 DEF CreateSnapshot, vars
<1> QED BY <1>1, <1>2, <1>3, <1>4, <1>5, <1>6 DEF Next, Commit, Starts

(* What was acknowledged is on the replica, or is the last commit.          *)
LEMMA AckStep == CoreInv /\ CoreInv' /\ BeliefInv /\ AckInv /\ [Next]_vars => AckInv'
<1> SUFFICES ASSUME CoreInv, CoreInv', BeliefInv, AckInv, [Next]_vars, ~rewound'
             PROVE  /\ mode' = "SYNC" => \A a \in acked' : a <= rep'.ldt
                    /\ mode' = "SYNC" /\ txn'.pc = "decide" /\ ~txn'.failed => rep'.ldt = clock'
                    /\ mode' = "STRICT_SYNC" => \A a \in acked' : a <= rep'.ldt \/ a = ldt'
                    /\ mode' = "STRICT_SYNC" /\ txn'.pc = "sent" /\ txn'.answer = "yes" => ldt' <= rep'.ldt
                    /\ mode' = "STRICT_SYNC" /\ txn'.pc = "decide" /\ ~txn'.failed => ldt' <= rep'.ldt
  BY DEF AckInv
<1>0. /\ MainInv /\ ClientTypes /\ RepInv /\ mode' = mode /\ clock \in Nat
      /\ \A a \in acked : a \in Nat
  <2>1. MainInv /\ ClientTypes /\ RepInv
    BY DEF CoreInv
  <2>2. acked \subseteq committed /\ committed \subseteq 1..clock /\ clock \in Nat
    BY <2>1, LastFinalizedType DEF MainInv, MainTypes
  <2> QED BY <2>1, <2>2, ModeStays
<1>1. /\ ldt \in Nat /\ ldt' \in Nat /\ ldt <= ldt'
      /\ rep.ldt \in Nat /\ rep'.ldt \in Nat
      /\ ~rewound /\ rep.ldt <= rep'.ldt
  BY LdtGrows
<1>2. /\ mode = "SYNC" => \A a \in acked : a <= rep.ldt
      /\ mode = "SYNC" /\ txn.pc = "decide" /\ ~txn.failed => rep.ldt = clock
      /\ mode = "STRICT_SYNC" => \A a \in acked : a <= rep.ldt \/ a = ldt
      /\ mode = "STRICT_SYNC" /\ txn.pc = "sent" /\ txn.answer = "yes" => ldt <= rep.ldt
      /\ mode = "STRICT_SYNC" /\ txn.pc = "decide" /\ ~txn.failed => ldt <= rep.ldt
  BY <1>1 DEF AckInv
<1>3. \A a \in acked : a <= rep.ldt => a <= rep'.ldt
  BY <1>0, <1>1
<1>4. rep'.ldt <= clock' /\ clock' \in Nat
  <2>1. CertainGrows /\ Certain \subseteq 1..clock
    BY <1>0, CertainStep, CertainType DEF CoreInv
  <2>2. (rep.ldt \in Certain \cup {0})' /\ clock' \in Nat
    BY MaxTsType DEF CoreInv, RepInv, MainInv, MainTypes
  <2>3. \A x \in Certain' : x <= clock'
    <3> SUFFICES ASSUME NEW x \in Certain' PROVE x <= clock'
      OBVIOUS
    <3>1. CASE x \in Certain
      BY <1>0, <2>1, <2>2, <3>1 DEF CertainGrows
    <3>2. CASE x = clock'
      BY <2>2, <3>2
    <3> QED BY <2>1, <3>1, <3>2 DEF CertainGrows
  <2> QED BY <2>2, <2>3
<1>5. ASSUME mode = "SYNC", NEW a \in acked' PROVE a <= rep'.ldt
  <2>1. ~twoPC
    BY <1>0, <1>5 DEF MainInv
  <2>2. a \in acked \/ (a = clock /\ rep' = rep /\ txn.pc = "decide" /\ ~txn.failed)
    BY <1>5, <2>1, AckedStep
  <2>3. CASE a \in acked
    BY <1>2, <1>3, <1>5, <2>3
  <2>4. CASE a = clock /\ rep' = rep /\ txn.pc = "decide" /\ ~txn.failed
    BY <1>0, <1>2, <1>5, <2>4
  <2> QED BY <2>2, <2>3, <2>4
<1>6. ASSUME mode = "STRICT_SYNC", NEW a \in acked' PROVE a <= rep'.ldt \/ a = ldt'
  <2>1. twoPC
    BY <1>0, <1>6 DEF MainInv
  <2>2. a \in acked \/ a = ldt'
    BY <1>6, <2>1, AckedStep
  <2>3. ASSUME a \in acked, a = ldt, ldt' # ldt PROVE a <= rep'.ldt
    <3>1. Decide
      <4>1. CASE Starts
        BY <1>0, <2>3, <4>1, StartEffect
      <4>2. CASE CommitAlone
        BY <2>1, <4>2 DEF CommitAlone
      <4>3. CASE ShipDeltas \/ SendPrepare \/ TakeAnswer \/ FinalizeStrict \/ FinalizeAsync \/ EndAsync
        BY <2>3, <4>3 DEF ShipDeltas, SendPrepare, TakeAnswer, FinalizeStrict, FinalizeAsync, EndAsync, main
      <4>4. CASE Pool \/ CheckerSucceeds \/ CheckerFails \/ ReplicaStops \/ ReplicaStarts
        BY <2>3, <4>4, PoolLeavesMain DEF mainVars, main
      <4>5. CASE CreateSnapshot \/ UNCHANGED vars
        BY <2>3, <4>5 DEF CreateSnapshot, vars, main
      <4> QED BY <4>1, <4>2, <4>3, <4>4, <4>5 DEF Next, Commit, Starts
    <3>2. txn.pc = "decide" /\ ~txn.failed
      BY <1>0, <2>3, <3>1, DecideMain
    <3>3. ldt <= rep.ldt
      BY <1>2, <1>6, <3>2
    <3> QED BY <1>1, <2>3, <3>3
  <2> QED BY <1>2, <1>3, <1>6, <2>2, <2>3
<1>7. ASSUME mode = "STRICT_SYNC", txn'.pc = "sent", txn'.answer = "yes" PROVE ldt' <= rep'.ldt
  <2>1. CASE SendPrepare
    <3>1. ldt <= rep.ldt /\ ldt' = ldt
      BY <1>7, <2>1, SendPrepareEffect DEF SendPrepare, main
    <3> QED BY <1>1, <3>1
  <2>2. CASE ~SendPrepare
    <3>1. txn' = txn /\ ldt' = ldt
      BY <1>7, <2>2, SentStays
    <3> QED BY <1>1, <1>2, <1>7, <3>1
  <2> QED BY <2>1, <2>2
<1>8. ASSUME TakeAnswer, ~txn'.failed
      PROVE  txn.pc = "sent" /\ txn.answer = "yes" /\ UNCHANGED <<clock, ldt, rep>>
  <2>1. txn'.failed = ~(state = "REPLICATING" /\ txn.answer = "yes")
    BY <1>0, <1>8, TakeAnswerTxn DEF MainInv
  <2> QED BY <1>8, <2>1 DEF TakeAnswer, main
<1>9. ASSUME mode = "SYNC", txn'.pc = "decide", ~txn'.failed PROVE rep'.ldt = clock'
  <2>1. CASE TakeAnswer
    BY <1>8, <1>9, <2>1 DEF BeliefInv
  <2>2. CASE ~TakeAnswer
    <3>1. txn' = txn /\ clock' = clock
      BY <1>9, <2>2, DecideStays
    <3>2. rep.ldt = clock
      BY <1>2, <1>9, <3>1
    <3> QED BY <1>0, <1>1, <1>4, <3>1, <3>2
  <2> QED BY <2>1, <2>2
<1>10. ASSUME mode = "STRICT_SYNC", txn'.pc = "decide", ~txn'.failed PROVE ldt' <= rep'.ldt
  <2>1. CASE TakeAnswer
    BY <1>1, <1>2, <1>8, <1>10, <2>1
  <2>2. CASE ~TakeAnswer
    <3>1. txn' = txn /\ ldt' = ldt
      BY <1>10, <2>2, DecideStays
    <3> QED BY <1>1, <1>2, <1>10, <3>1
  <2> QED BY <2>1, <2>2
<1> QED BY <1>0, <1>5, <1>6, <1>7, <1>9, <1>10

-----------------------------------------------------------------------------
(* The inductive invariant, and what it says of the specification.          *)

IInv == CoreInv /\ StateInv /\ BeliefInv /\ RecoverInv /\ AckInv /\ OtherTypes

(* The process of the replica, the history and the faults keep their types.  *)
LEMMA OtherStep == OtherTypes /\ [Next]_vars => OtherTypes'
<1> SUFFICES ASSUME OtherTypes, [Next]_vars PROVE OtherTypes'
  OBVIOUS
<1> USE DEF OtherTypes
<1>1. \A o \in Outcomes : Outcome(o) => faults' \in Nat
  BY DEF Outcome
<1>2. faults' \in Nat
  <2>1. CASE Starts
    <3>1. CASE StartNotReady \/ StartReady \/ StartMissesLock
      BY <3>1, Zenon DEF StartNotReady, StartReady, StartMissesLock
    <3>2. CASE StartNotConnected
      <4>1. Outcome("lost") /\ "lost" \in Outcomes
        BY <3>2 DEF StartNotConnected, Outcomes
      <4> QED BY <1>1, <4>1
    <3> QED BY <2>1, <3>1, <3>2 DEF Starts
  <2>2. CASE \/ SendPrepare \/ FinalizeStrict \/ SendPrepareAsync \/ Heartbeat \/ SendSnapshot
             \/ SendWals \/ SendCurrentWal
    <3>1. (\E o \in Outcomes : Outcome(o)) \/ UNCHANGED faults
      <4>1. CASE SendPrepare \/ SendPrepareAsync \/ SendSnapshot
        BY <4>1, Zenon DEF SendPrepare, SendPrepareAsync, SendSnapshot
      <4>2. CASE FinalizeStrict
        <5>1. (\E o \in Outcomes \ {"refused"} : Outcome(o)) \/ UNCHANGED faults
          BY <4>2, Zenon DEF FinalizeStrict
        <5> QED BY <5>1
      <4>3. CASE Heartbeat
        BY <4>3, Zenon DEF Heartbeat
      <4>4. CASE SendWals
        BY <4>4, Zenon DEF SendWals, SendWal
      <4>5. CASE SendCurrentWal
        BY <4>5, Zenon DEF SendCurrentWal, SendWal
      <4> QED BY <2>2, <4>1, <4>2, <4>3, <4>4, <4>5
    <3> QED BY <1>1, <3>1
  <2>3. CASE \/ ShipDeltas \/ TakeAnswer \/ CommitAlone \/ Decide \/ FinalizeAsync \/ EndAsync
             \/ TakeTask \/ TakeAnswerAsync \/ HeartbeatMissesLock \/ CompareTimestamps
             \/ StartRecovery \/ DisableFlushing \/ StepMissesLock \/ EndRecovery
    BY <2>3 DEF ShipDeltas, TakeAnswer, CommitAlone, Decide, FinalizeAsync, EndAsync,
       TakeTask, TakeAnswerAsync, HeartbeatMissesLock, CompareTimestamps, StartRecovery,
       DisableFlushing, StepMissesLock, EndRecovery
  <2>4. CASE CheckerSucceeds \/ CheckerFails \/ ReplicaStops \/ ReplicaStarts \/ CreateSnapshot
    BY <2>4 DEF CheckerSucceeds, CheckerFails, ReplicaStops, ReplicaStarts, CreateSnapshot
  <2>5. CASE UNCHANGED vars
    BY <2>5 DEF vars
  <2> QED BY <2>1, <2>2, <2>3, <2>4, <2>5 DEF Next, Commit, Pool, Starts
<1>3. up' \in BOOLEAN
  <2>1. CASE Commit
    BY <2>1 DEF Commit, StartNotReady, StartReady, StartMissesLock, StartNotConnected,
       TakeTimestamp, ShipDeltas, SendPrepare, TakeAnswer, CommitAlone, Decide, FinalizeStrict,
       FinalizeAsync, EndAsync
  <2>2. CASE Pool
    BY <2>2 DEF Pool, TakeTask, SendPrepareAsync, TakeAnswerAsync, Heartbeat,
       HeartbeatMissesLock, CompareTimestamps, StartRecovery, SendSnapshot, SendWals,
       DisableFlushing, SendCurrentWal, StepMissesLock, EndRecovery
  <2>3. CASE CheckerSucceeds \/ CheckerFails \/ ReplicaStops \/ ReplicaStarts \/ CreateSnapshot
    BY <2>3 DEF CheckerSucceeds, CheckerFails, ReplicaStops, ReplicaStarts, CreateSnapshot
  <2>4. CASE UNCHANGED vars
    BY <2>4 DEF vars
  <2> QED BY <2>1, <2>2, <2>3, <2>4 DEF Next
<1>4. rewound' \in BOOLEAN
  <2>1. CASE Commit
    BY <2>1 DEF Commit, StartNotReady, StartReady, StartMissesLock, StartNotConnected,
       TakeTimestamp, ShipDeltas, SendPrepare, TakeAnswer, CommitAlone, Decide, FinalizeStrict,
       FinalizeAsync, EndAsync
  <2>2. CASE Pool
    BY <2>2 DEF Pool, TakeTask, SendPrepareAsync, TakeAnswerAsync, Heartbeat,
       HeartbeatMissesLock, CompareTimestamps, StartRecovery, SendSnapshot, SendWals,
       DisableFlushing, SendCurrentWal, StepMissesLock, EndRecovery
  <2>3. CASE CheckerSucceeds \/ CheckerFails \/ ReplicaStops \/ ReplicaStarts \/ CreateSnapshot
    BY <2>3 DEF CheckerSucceeds, CheckerFails, ReplicaStops, ReplicaStarts, CreateSnapshot
  <2>4. CASE UNCHANGED vars
    BY <2>4 DEF vars
  <2> QED BY <2>1, <2>2, <2>3, <2>4 DEF Next
<1> QED BY <1>2, <1>3, <1>4

(* A client that was just registered, with the check that waits in its pool. *)
LEMMA InitIInv == Init => IInv
<1> SUFFICES ASSUME Init PROVE IInv
  OBVIOUS
<1>0. /\ clock = 0 /\ committed = {} /\ ldt = 0 /\ snapshots = {} /\ acked = {}
      /\ wal = [files |-> {}, cur |-> 0] /\ wal.files = {} /\ wal.cur = 0
      /\ txn = NoTxn /\ work = Idle /\ tasks = <<Check>>
      /\ rep = [applied |-> {}, ldt |-> 0, prepared |-> 0]
      /\ rep.applied = {} /\ rep.ldt = 0 /\ rep.prepared = 0
      /\ state = "MAYBE_BEHIND" /\ rpc = "free"
  BY DEF Init
<1>1. MainInv
  <2>1. MainTypes
    <3>1. mode \in {"SYNC", "ASYNC", "STRICT_SYNC"} /\ twoPC \in BOOLEAN
      BY BoundsAssumption DEF Init
    <3>2. txn \in Txns
      BY <1>0, NoTxnType
    <3> QED BY <1>0, <3>1, <3>2, MaxTsType DEF MainTypes
  <2>2. (mode = "SYNC" => ~twoPC) /\ (mode = "STRICT_SYNC" => twoPC)
    BY DEF Init
  <2>3. EngineFree /\ txn.pc = "idle"
    BY <1>0, NoTxnType DEF EngineFree
  <2> QED BY <1>0, <2>1, <2>2, <2>3 DEF MainInv, Undecided
<1>2. WalInv
  BY <1>0 DEF WalInv, ChainUnbroken, AllFiles
<1>3. tasks \in Seq(Tasks) /\ TasksIn(tasks) = {Check} /\ DOMAIN tasks = {1} /\ tasks[1] = Check
  BY <1>0, CheckType DEF TasksIn
<1>4. ClientTypes
  BY <1>0, <1>3, IdleType DEF ClientTypes, States
<1>5. /\ Check.kind = "check" /\ Check.from = 0 /\ ~IsSend(Check)
      /\ Idle.pc = "idle" /\ Idle.from = 0 /\ Idle.snap = 0
  BY DEF Check, IsSend, Idle
<1>6. txn.pc = "idle" /\ txn.stream = FALSE /\ EngineFree
  BY <1>0, NoTxnType DEF EngineFree
<1>7. LockInv
  BY <1>0, <1>3, <1>5, <1>6 DEF LockInv, AtMostOneSend, NoSend, InPool
<1>8. Certain = {}
  BY <1>0, <1>6 DEF Certain
<1>9. RepInv
  <2>1. rep \in RepsUpTo(clock)
    BY <1>0, MaxTsType DEF RepsUpTo
  <2> QED BY <1>0, <1>3, <1>5, <1>6, <1>8, <2>1 DEF RepInv
<1>10. StateInv /\ BeliefInv
  BY <1>0, <1>3, <1>5, <1>6 DEF StateInv, BeliefInv, InSteps
<1>11. RecoverInv
  <2>1. rep.applied = UpTo(Certain, rep.ldt)
    BY <1>0, <1>8 DEF UpTo
  <2> QED BY <1>0, <1>3, <1>5, <2>1 DEF RecoverInv, InSteps
<1>14. SendInv
  BY <1>0, IdleType DEF SendInv
<1>12. AckInv
  BY <1>0, <1>6 DEF AckInv
<1>13. OtherTypes
  BY DEF Init, OtherTypes
<1> QED BY <1>1, <1>2, <1>4, <1>7, <1>9, <1>10, <1>11, <1>12, <1>13, <1>14 DEF IInv, CoreInv

(* All parts together.                                                      *)
LEMMA Invariance == Spec => []IInv
<1>1. IInv /\ [Next]_vars => IInv'
  <2> SUFFICES ASSUME IInv, [Next]_vars PROVE IInv'
    OBVIOUS
  <2>1. CoreInv /\ StateInv /\ BeliefInv /\ RecoverInv /\ AckInv /\ OtherTypes
    BY DEF IInv
  <2>2. CoreInv'
    BY <2>1, CoreStep
  <2>3. StateInv' /\ BeliefInv'
    BY <2>1, <2>2, StateStep, BeliefStep
  <2>4. RecoverInv' /\ AckInv' /\ OtherTypes'
    BY <2>1, <2>2, RecoverStep, AckStep, OtherStep
  <2> QED BY <2>2, <2>3, <2>4 DEF IInv
<1> QED BY <1>1, InitIInv, PTL DEF Spec

(* The variables of the client, its commits, its pool and the replica keep    *)
(* their types: in particular no commit, file or snapshot is newer than the   *)
(* main's clock, and nothing is acknowledged that was not committed.          *)
THEOREM ReplicationTypes == Spec => []TypeOK
<1>1. IInv => TypeOK
  <2> SUFFICES ASSUME IInv PROVE TypeOK
    OBVIOUS
  <2>1. MainTypes /\ ClientTypes /\ OtherTypes /\ rep \in RepsUpTo(clock)
    BY DEF IInv, CoreInv, MainInv, RepInv
  <2>2. 0..clock \subseteq Timestamps
    BY <2>1, MaxTsType DEF MainTypes
  <2>3. rep \in [applied : SUBSET (1..clock), ldt : Timestamps, prepared : Timestamps]
    BY <2>1, <2>2 DEF RepsUpTo
  <2> QED BY <2>1, <2>3 DEF TypeOK, MainTypes, ClientTypes, OtherTypes, Txns, Answers
<1> QED BY <1>1, Invariance, PTL

(* MG_ASSERT "Broken data chain." of GetRecoverySteps never fires: whatever   *)
(* the retention of snapshots and WAL files removes, what is left reaches     *)
(* back to the latest snapshot or to the first commit.                      *)
THEOREM WalChainIsUnbroken == Spec => []ChainUnbroken
<1>1. IInv => ChainUnbroken
  BY DEF IInv, CoreInv, WalInv
<1> QED BY <1>1, Invariance, PTL

(* UpdateReplicaState, StateAfter and the exit of RecoverReplica: between     *)
(* commits the replica of a READY client has the main's last transaction,     *)
(* whatever the order of late answers, checks and recovery tasks.            *)
THEOREM ReadyReplicaIsCurrent == Spec => []ReadyIsCurrent
<1>1. IInv => ReadyIsCurrent
  BY DEF IInv, StateInv, UpToDate, ReadyIsCurrent
<1> QED BY <1>1, Invariance, PTL

(* PrepareCommitHandler, GetRecoverySteps and LoadWal: unless a snapshot took  *)
(* it back, the replica holds exactly the main's transactions up to the       *)
(* timestamp it reports; nothing is missing, nothing was aborted.           *)
THEOREM ReplicaIsAPrefix == Spec => []GaplessPrefix
<1>1. IInv => GaplessPrefix
  BY DEF IInv, RecoverInv, UpTo, GaplessPrefix, PrefixOfMain
<1> QED BY <1>1, Invariance, PTL

(* RecoverReplica uses wal_file_ after it has released the engine lock: the   *)
(* file is still open and still the one it compared, since a commit that      *)
(* took the engine lock meanwhile waits for the flush lock.                 *)
THEOREM SentFileStaysOpen == Spec => []SentFileIsOpen
<1>1. IInv => SentFileIsOpen
  BY DEF IInv, CoreInv, SendInv, SentFileIsOpen
<1> QED BY <1>1, Invariance, PTL

(* FinalizeTransactionReplication and the two phases of STRICT_SYNC: a commit  *)
(* that was reported without a failure is on the SYNC replica, and on the     *)
(* STRICT_SYNC replica with the possible exception of the last.              *)
THEOREM AckedCommitsAreReplicated == Spec => []AckedIsReplicated
<1>1. IInv => AckedIsReplicated
  <2> SUFFICES ASSUME IInv, ~rewound
               PROVE  /\ mode = "SYNC" => acked \subseteq rep.applied
                      /\ mode = "STRICT_SYNC" => acked \subseteq rep.applied \cup {ldt}
    BY DEF AckedIsReplicated
  <2>1. acked \subseteq Certain
    BY CertainType DEF IInv, CoreInv, MainInv, MainTypes
  <2>2. rep.applied = UpTo(Certain, rep.ldt)
    BY DEF IInv, RecoverInv
  <2>3. \A a \in acked : a <= rep.ldt => a \in rep.applied
    BY <2>1, <2>2 DEF UpTo
  <2>4. mode = "SYNC" => \A a \in acked : a <= rep.ldt
    BY DEF IInv, AckInv
  <2>5. mode = "STRICT_SYNC" => \A a \in acked : a <= rep.ldt \/ a = ldt
    BY DEF IInv, AckInv
  <2> QED BY <2>3, <2>4, <2>5
<1> QED BY <1>1, Invariance, PTL

=============================================================================

------------------------------ MODULE Failover ------------------------------
(***************************************************************************)
(* Automatic fail-over: the coordinators' health-check callbacks           *)
(* (coordination/coordinator_instance.cpp), the handlers of a data         *)
(* instance they call (data_instance_management_server_handlers.cpp,       *)
(* replication_handler.cpp), and the epochs and histories by which a main  *)
(* decides whether a replica's data continues its own                      *)
(* (storage/v2/replication/replication_client.cpp, UpdateReplicaState).    *)
(*                                                                         *)
(* A commit is named by the epoch it was made in, so an instance's data is *)
(* the sequence of the epochs of its commits; its last durable timestamp   *)
(* and its number of committed transactions are both that sequence's       *)
(* length.  Every instance is a SYNC replica of the main.  A commit and a  *)
(* recovery are one step each (module Replication has their steps).  Raft  *)
(* is the sequence of committed cluster states; a thread of a deposed      *)
(* leader may still act on an old one.                                     *)
(***************************************************************************)
EXTENDS Naturals, FiniteSets, SequencesExt, TLC

CONSTANTS
  Instances,        \* data instances
  Coordinators,     \* coordinators
  FirstMain,        \* the main the cluster starts with
  FirstLeader,      \* the leader it starts with
  Nobody,           \* no instance
  MaxCommits,       \* bound: commits any instance holds
  MaxDisturbances   \* bound: crashes, lost calls, elections, user commands

ASSUME FailoverAssumption ==
  /\ FirstMain \in Instances
  /\ FirstLeader \in Coordinators
  /\ Nobody \notin Instances \cup Coordinators

VARIABLES
  raft,     \* committed cluster states: the current main and its uuid
  leader,   \* the Raft leader
  status,   \* CoordinatorInstance::status of each coordinator
  view,     \* how much of raft each coordinator has applied
  pend,     \* answers of the state checks whose callback has not run yet
  task,     \* what the holder of coord_instance_lock_ is doing
  inst,     \* role, uuid, transactions and data of each instance
  clients,  \* the replication clients of each instance and their state
  job,      \* the promotion a management server is executing
  epochs,   \* for each epoch id made so far, whether the promotion was late:
            \* not for the current main's uuid
  acked,    \* commits whose client got no error
  left      \* disturbances left

vars == <<raft, leader, status, view, pend, task, inst, clients, job, epochs,
          acked, left>>

cluster == <<raft, leader, status, view>>
storages == <<inst, clients, job, epochs, acked>>

\* What a thread does with the lock: the checking thread of an instance, or a
\* user's or the pool's (Nobody); the instance and uuid it is about.
Task(op, thread, to, uuid) ==
  [op |-> op, thread |-> thread, to |-> to, uuid |-> uuid]

Idle == Task("idle", Nobody, Nobody, 0)
NoJob == [op |-> "none"]
NoCheck == [res |-> "none"]
NoChecks == [i \in Instances |-> NoCheck]
NoClients == [j \in {} |-> "READY"]

-----------------------------------------------------------------------------
(* Data of an instance *)

\* Epochs under which nothing was committed are not remembered.
SaveLatestHistory(d) ==
  IF d.hist # <<>> /\ Last(d.hist)[2] = Len(d.log)
    THEN d.hist
    ELSE Append(d.hist, <<d.epoch, Len(d.log)>>)

TakeEpoch(d, e) ==
  IF d.epoch = e
    THEN d
    ELSE [d EXCEPT !.hist = SaveLatestHistory(d), !.epoch = e]

\* A commit of the main's, with the main's epoch, reaches a replica.
Apply(d, e) ==
  LET t == TakeEpoch(d, e) IN [t EXCEPT !.log = Append(@, e)]

Clear(d) == [d EXCEPT !.epoch = 0, !.hist = <<>>, !.log = <<>>]

\* Its transactions one after the other; only the data changes.
LoadWals(d, es) ==
  LET t == FoldLeft(Apply, d, es) IN
  [d EXCEPT !.epoch = t.epoch, !.hist = t.hist, !.log = t.log]

\* The epoch a replica reports in a heartbeat: the last one with a commit.
LastEpochWithCommit(d) ==
  IF d.hist # <<>> /\ Last(d.hist)[2] = Len(d.log)
    THEN Last(d.hist)[1]
    ELSE d.epoch

\* Mutant: a known epoch is enough.
BranchingPointByEpoch(m, d) ==
  LET e == LastEpochWithCommit(d) IN
    /\ e # m.epoch
    /\ d.log # <<>>
    /\ \A k \in DOMAIN m.hist : m.hist[k][1] # e

\* Does replica data d branch off the data of main m?
BranchingPoint(m, d) ==
  LET e == LastEpochWithCommit(d)
      k == SelectInSeq(m.hist, LAMBDA h : h[1] = e)
  IN  /\ e # m.epoch
      /\ d.log # <<>>
      /\ k = 0 \/ m.hist[k][2] < Len(d.log)

\* RecoverReplica: from zero with a reset, or from the replica's timestamp on.
RecoverReplica(m, d) ==
  IF BranchingPoint(m, d)
    THEN LoadWals(Clear(d), m.log)
    ELSE LoadWals(d, SubSeq(m.log, Len(d.log) + 1, Len(m.log)))

\* Recovery of the history from the WAL files after a restart.
RecoverHistory(log) ==
  FoldLeft(LAMBDA h, e :
             IF h # <<>> /\ Last(h)[1] = e
               THEN Append(Front(h), <<e, Last(h)[2] + 1>>)
               ELSE Append(h, <<e, IF h = <<>> THEN 1 ELSE Last(h)[2] + 1>>),
           <<>>, log)

-----------------------------------------------------------------------------
(* Calls *)

\* The management server runs one handler at a time.
Reachable(i) == inst[i].up /\ job[i] = NoJob

\* Replica j takes what the main i sends it.
Listening(i, j) == inst[j].up /\ ~inst[j].main /\ inst[j].uuid = inst[i].uuid

Disturb == left > 0 /\ left' = left - 1
Calm == UNCHANGED left

\* A call to i fails, by itself or because of a fault.
CallFails(i) == IF inst[i].up THEN Disturb ELSE Calm

View(c) == raft[view[c]]

-----------------------------------------------------------------------------
(* Handlers of a data instance *)

\* DoToMainPromotion: new epoch, no clients, writing disabled.
Promoted(d, uuid, e) ==
  [d EXCEPT !.main = TRUE, !.uuid = uuid, !.writing = FALSE,
            !.hist = SaveLatestHistory(d), !.epoch = e]

\* DemoteMainToReplicaHandler waits for write transactions, in vain if one
\* stays open.
CanDemote(d) == d.main /\ ~d.txn

\* Mutant: writing stays enabled.
DemotedWriting(d, uuid) == [d EXCEPT !.main = FALSE, !.uuid = uuid]

Demoted(d, uuid) == [d EXCEPT !.main = FALSE, !.uuid = uuid, !.writing = FALSE]

\* SwapMainUUIDHandler
Swapped(d, uuid) == IF d.main THEN d ELSE [d EXCEPT !.uuid = uuid]

\* Mutant: equal timestamps are taken for equal data.
RegisteredByTimestamp(i, j) ==
  IF Listening(i, j) /\ Len(inst[j].log) >= Len(inst[i].log)
    THEN "READY" ELSE "BEHIND"

\* DemoteMainToReplicaHandler; a replica agrees and changes nothing.
DemoteMainToReplica(c) ==
  LET i == task[c].to
      d == inst[i]
  IN  /\ task[c].op \in {"demote", "demote_swap"} /\ Reachable(i)
      /\ inst' = IF CanDemote(d)
                   THEN [inst EXCEPT ![i] = Demoted(@, task[c].uuid)] ELSE inst
      /\ clients' = IF CanDemote(d)
                      THEN [clients EXCEPT ![i] = NoClients] ELSE clients
      /\ task' = IF task[c].op = "demote_swap" /\ (CanDemote(d) \/ ~d.main)
                   THEN [task EXCEPT ![c].op = "swap"]
                   ELSE [task EXCEPT ![c] = Idle]
      /\ Calm
      /\ UNCHANGED <<cluster, pend, job, epochs, acked>>

SwapMainUUID(c) ==
  /\ task[c].op = "swap" /\ Reachable(task[c].to)
  /\ inst' = [inst EXCEPT ![task[c].to] = Swapped(@, task[c].uuid)]
  /\ task' = [task EXCEPT ![c] = Idle]
  /\ Calm
  /\ UNCHANGED <<cluster, pend, clients, job, epochs, acked>>

\* Tried again after the next check.
DemotionFails(c) ==
  /\ task[c].op \in {"demote", "demote_swap", "swap"}
  /\ CallFails(task[c].to)
  /\ task' = [task EXCEPT ![c] = Idle]
  /\ UNCHANGED <<cluster, pend, storages>>

\* A new client is READY after a heartbeat that shows nothing to recover.
Registered(i, j) ==
  IF /\ Listening(i, j)
     /\ ~BranchingPoint(inst[i], inst[j])
     /\ Len(inst[j].log) >= Len(inst[i].log)
    THEN "READY"
    ELSE "BEHIND"

StartPromotion(c) ==
  /\ task[c].op = "promote"
  /\ LET i == task[c].to IN
       /\ Reachable(i)
       /\ inst' = [inst EXCEPT ![i] = Promoted(@, task[c].uuid, Len(epochs) + 1)]
       /\ clients' = [clients EXCEPT ![i] = NoClients]
       /\ job' = [job EXCEPT ![i] = [op |-> "register", by |-> c,
                                     todo |-> Instances \ {i}]]
       /\ task' = [task EXCEPT ![c].op = "wait"]
  /\ epochs' = Append(epochs, task[c].uuid # Last(raft).uuid)
  /\ Calm
  /\ UNCHANGED <<cluster, pend, acked>>

RegisterReplica(i, j) ==
  /\ job[i].op = "register" /\ j \in job[i].todo
  /\ clients' = [clients EXCEPT ![i] = (j :> Registered(i, j)) @@ @]
  /\ job' = [job EXCEPT ![i].todo = @ \ {j}]
  /\ Calm
  /\ UNCHANGED <<cluster, pend, task, inst, epochs, acked>>

\* A callback whose promotion failed tries a fail-over; a user's command ends.
AfterFailure(t) ==
  IF t.thread = Nobody THEN Idle ELSE [t EXCEPT !.op = "failover"]

\* The coordinator whose call it is still waits for the answer.
Waiting(i) ==
  /\ job[i] # NoJob
  /\ task[job[i].by].op = "wait" /\ task[job[i].by].to = i

EnableWriting(i) ==
  /\ job[i].op = "register" /\ job[i].todo = {}
  /\ inst' = [inst EXCEPT ![i].writing = TRUE]
  /\ job' = [job EXCEPT ![i] = NoJob]
  /\ \/ /\ Calm
        /\ task' = IF Waiting(i) THEN [task EXCEPT ![job[i].by] = Idle] ELSE task
     \/ Disturb /\ Waiting(i) /\ UNCHANGED task
  /\ UNCHANGED <<cluster, pend, clients, epochs, acked>>

\* The replication state's lock is taken, or the data directory fails: the
\* instance stays a main that may not write.
RegisterFails(i) ==
  /\ job[i].op = "register" /\ job[i].todo # {}
  /\ job' = [job EXCEPT ![i] = NoJob]
  /\ task' = IF Waiting(i)
               THEN [task EXCEPT ![job[i].by] = AfterFailure(@)] ELSE task
  /\ Disturb
  /\ UNCHANGED <<cluster, pend, inst, clients, epochs, acked>>

-----------------------------------------------------------------------------
(* Transactions and replication *)

\* The write check of a query (Interpreter::Prepare).
Begin(i) ==
  /\ inst[i].up /\ inst[i].main /\ inst[i].writing /\ ~inst[i].txn
  /\ Len(inst[i].log) < MaxCommits
  /\ inst' = [inst EXCEPT ![i].txn = TRUE]
  /\ Calm
  /\ UNCHANGED <<cluster, pend, task, clients, job, epochs, acked>>

\* The replicas that apply the commit of main i.
Accepting(i) ==
  {j \in DOMAIN clients[i] :
     clients[i][j] = "READY" /\ Listening(i, j)
       /\ Len(inst[j].log) >= Len(inst[i].log)}

\* Mutant: a replica that is behind does not count.
ReadyConfirm(i, confirmed) ==
  {j \in DOMAIN clients[i] : clients[i][j] = "READY"} \subseteq confirmed

\* No SYNC replica is left without the commit (a replica that is behind is).
AllConfirm(i, confirmed) == DOMAIN clients[i] \subseteq confirmed

\* Interpreter::Commit checks the role only.  The commit is made whatever the
\* SYNC replicas answer; the client gets an error unless all confirm it.
CommitWith(i, applied, confirmed) ==
  LET e == inst[i].epoch
      commit == [pos |-> Len(inst[i].log) + 1, epoch |-> e,
                 writing |-> inst[i].writing]
  IN  /\ inst[i].up /\ inst[i].txn
      /\ inst' = [j \in Instances |->
                    CASE j = i -> [inst[i] EXCEPT !.txn = FALSE,
                                                  !.log = Append(@, e)]
                      [] j \in applied -> Apply(inst[j], e)
                      [] OTHER -> inst[j]]
      /\ clients' = [clients EXCEPT ![i] =
                       [j \in DOMAIN @ |->
                          IF j \in confirmed THEN "READY" ELSE "BEHIND"]]
      /\ acked' = IF AllConfirm(i, confirmed)
                    THEN acked \cup {commit} ELSE acked
      /\ UNCHANGED <<cluster, pend, task, job, epochs>>

Commit(i) == Calm /\ CommitWith(i, Accepting(i), Accepting(i))

\* The request to one replica, or its answer, is lost.
CommitUnconfirmed(i, j) ==
  /\ j \in Accepting(i)
  /\ Disturb
  /\ \E applied \in {Accepting(i), Accepting(i) \ {j}} :
       CommitWith(i, applied, Accepting(i) \ {j})

\* The main's check of a replica that is behind, and its recovery.
Recover(i, j) ==
  /\ inst[i].up /\ inst[i].main /\ j \in DOMAIN clients[i]
  /\ clients[i][j] = "BEHIND" /\ Listening(i, j)
  /\ inst' = [inst EXCEPT ![j] = RecoverReplica(inst[i], @)]
  /\ clients' = [clients EXCEPT ![i][j] = "READY"]
  /\ Calm
  /\ UNCHANGED <<cluster, pend, task, job, epochs, acked>>

\* The main's ping of a replica fails (SetMaybeBehind).
PingFails(i, j) ==
  /\ inst[i].up /\ inst[i].main /\ j \in DOMAIN clients[i]
  /\ clients[i][j] = "READY" /\ (~inst[j].up \/ inst[j].main)
  /\ clients' = [clients EXCEPT ![i][j] = "BEHIND"]
  /\ Calm
  /\ UNCHANGED <<cluster, pend, task, inst, job, epochs, acked>>

Crash(i) ==
  /\ inst[i].up
  /\ inst' = [inst EXCEPT ![i].up = FALSE, ![i].txn = FALSE,
                          ![i].writing = FALSE]
  /\ job' = [job EXCEPT ![i] = NoJob]
  /\ Disturb
  /\ UNCHANGED <<cluster, pend, task, clients, epochs, acked>>

Restart(i) ==
  /\ ~inst[i].up
  /\ LET log == inst[i].log IN
       inst' = [inst EXCEPT ![i].up = TRUE,
                            ![i].hist = RecoverHistory(log),
                            ![i].epoch = IF log = <<>> THEN 0 ELSE Last(log)]
  /\ clients' = [clients EXCEPT ![i] = [j \in DOMAIN @ |-> "BEHIND"]]
  /\ Calm
  /\ UNCHANGED <<cluster, pend, task, job, epochs, acked>>

-----------------------------------------------------------------------------
(* The coordinators *)

\* One thread checks the state of i and runs the callback.
Checking(c, i) ==
  /\ status[c] # "FOLLOWER" /\ pend[c][i].res = "none"
  /\ task[c].thread # i

StateCheck(c, i) ==
  /\ Checking(c, i) /\ Reachable(i)
  /\ pend' = [pend EXCEPT ![c][i] =
                [res |-> "state", main |-> inst[i].main,
                 uuid |-> inst[i].uuid, writing |-> inst[i].writing]]
  /\ Calm
  /\ UNCHANGED <<cluster, task, storages>>

\* No answer for the whole of the instance-down timeout.
StateCheckFails(c, i) ==
  /\ Checking(c, i)
  /\ CallFails(i)
  /\ pend' = [pend EXCEPT ![c][i] = [res |-> "failed"]]
  /\ UNCHANGED <<cluster, task, storages>>

\* The callback returns: not the leader, or no lock within 500 ms.
CallbackReturns(c, i) ==
  /\ pend[c][i].res # "none"
  /\ status[c] # "LEADER_READY" \/ task[c] # Idle
  /\ pend' = [pend EXCEPT ![c][i] = NoCheck]
  /\ Calm
  /\ UNCHANGED <<cluster, task, storages>>

Callback(c, i) ==
  /\ status[c] = "LEADER_READY" /\ task[c] = Idle
  /\ pend' = [pend EXCEPT ![c][i] = NoCheck]

Answered(c, i) == pend[c][i].res = "state"

InstanceFailCallback(c, i) ==
  /\ Callback(c, i) /\ pend[c][i].res = "failed"
  /\ task' = IF View(c).main = i
               THEN [task EXCEPT ![c] = Task("failover", i, i, 0)] ELSE task
  /\ Calm
  /\ UNCHANGED <<cluster, storages>>

\* Mutant: a main that may not write is left alone.
NeedsPromotionByRole(s, uuid) == ~s.main \/ s.uuid # uuid

NeedsPromotion(s, uuid) == ~s.main \/ ~s.writing \/ s.uuid # uuid

InstanceSuccessMain(c, i) ==
  /\ Callback(c, i) /\ Answered(c, i) /\ View(c).main = i
  /\ task' = IF NeedsPromotion(pend[c][i], View(c).uuid)
               THEN [task EXCEPT ![c] = Task("promote", i, i, View(c).uuid)]
               ELSE task
  /\ Calm
  /\ UNCHANGED <<cluster, storages>>

\* DemoteMainToReplicaRpc if the answer said main, then SwapMainUUIDRpc if its
\* uuid was another one.
InstanceSuccessReplica(c, i) ==
  LET s == pend[c][i]
      uuid == View(c).uuid
      op == CASE s.main /\ s.uuid = uuid -> "demote"
              [] s.main /\ s.uuid # uuid -> "demote_swap"
              [] ~s.main /\ s.uuid # uuid -> "swap"
              [] OTHER -> "idle"
  IN  /\ Callback(c, i) /\ Answered(c, i) /\ View(c).main # i
      /\ task' = IF op = "idle"
                   THEN task ELSE [task EXCEPT ![c] = Task(op, i, i, uuid)]
      /\ Calm
      /\ UNCHANGED <<cluster, storages>>

PromotionFails(c) ==
  /\ task[c].op = "promote"
  /\ CallFails(task[c].to)
  /\ task' = [task EXCEPT ![c] = AfterFailure(@)]
  /\ UNCHANGED <<cluster, pend, storages>>

\* The answer of a promotion does not come in time.
PromotionTimesOut(c) ==
  /\ task[c].op = "wait"
  /\ IF Waiting(task[c].to) THEN Disturb ELSE Calm
  /\ task' = [task EXCEPT ![c] = AfterFailure(@)]
  /\ UNCHANGED <<cluster, pend, storages>>

\* ChooseMostUpToDateInstance among the instances that answer.
MostUpToDate(answering) ==
  {n \in answering :
     \A m \in answering : Len(inst[m].log) <= Len(inst[n].log)}

GetInstanceForFailover(c) ==
  /\ task[c].op = "failover"
  /\ \E silent \in {{}} \cup {{i} : i \in {j \in Instances : inst[j].up}} :
       LET answering == {i \in Instances : inst[i].up} \ silent IN
       /\ IF silent = {} THEN Calm ELSE Disturb
       /\ \A i \in answering : Reachable(i)
       /\ IF answering = {}
            THEN task' = [task EXCEPT ![c] = Idle]
            ELSE \E n \in MostUpToDate(answering) :
                   task' = [task EXCEPT ![c].op = "append", ![c].to = n]
  /\ UNCHANGED <<cluster, pend, storages>>

\* Mutant: the uuid outlives the main it was made for.
TryFailoverSameUuid(c) ==
  /\ task[c].op = "append"
  /\ task' = [task EXCEPT ![c] = Idle]
  /\ IF c = leader
       THEN /\ raft' = Append(raft, [main |-> task[c].to,
                                     uuid |-> View(c).uuid])
            /\ view' = [view EXCEPT ![c] = Len(raft) + 1]
            /\ status' = IF task[c].thread = Nobody
                           THEN [status EXCEPT ![c] = "LEADER_READY"]
                           ELSE status
       ELSE UNCHANGED <<raft, view, status>>
  /\ Calm
  /\ UNCHANGED <<leader, pend, storages>>

\* Only the leader's log entries are accepted.  ReconcileClusterState, no
\* instance's thread, is then done.
TryFailover(c) ==
  /\ task[c].op = "append"
  /\ task' = [task EXCEPT ![c] = Idle]
  /\ IF c = leader
       THEN /\ raft' = Append(raft, [main |-> task[c].to,
                                     uuid |-> Len(raft) + 1])
            /\ view' = [view EXCEPT ![c] = Len(raft) + 1]
            /\ status' = IF task[c].thread = Nobody
                           THEN [status EXCEPT ![c] = "LEADER_READY"]
                           ELSE status
       ELSE UNCHANGED <<raft, view, status>>
  /\ Calm
  /\ UNCHANGED <<leader, pend, storages>>

\* DEMOTE INSTANCE: Raft keeps the uuid, the instance gets a random one.
DemoteInstanceToReplica(c, i) ==
  /\ status[c] = "LEADER_READY" /\ c = leader /\ task[c] = Idle
  /\ View(c).main = i
  /\ raft' = Append(raft, [main |-> Nobody, uuid |-> View(c).uuid])
  /\ view' = [view EXCEPT ![c] = Len(raft) + 1]
  /\ task' = [task EXCEPT ![c] = Task("demote", Nobody, i, 0)]
  /\ Disturb
  /\ UNCHANGED <<leader, status, pend, storages>>

\* SET INSTANCE TO MAIN.  Any call that swaps a uuid may fail.
SetReplicationInstanceToMain(c, i) ==
  /\ status[c] # "FOLLOWER" /\ c = leader /\ task[c] = Idle
  /\ View(c).main = Nobody
  /\ raft' = Append(raft, [main |-> i, uuid |-> Len(raft) + 1])
  /\ view' = [view EXCEPT ![c] = Len(raft) + 1]
  /\ \E swapped \in SUBSET {j \in Instances \ {i} : Reachable(j)} :
       inst' = [j \in Instances |->
                  IF j \in swapped
                    THEN Swapped(inst[j], Len(raft) + 1) ELSE inst[j]]
  /\ task' = [task EXCEPT ![c] =
                Task("promote", Nobody, i, Len(raft) + 1)]
  /\ Disturb
  /\ UNCHANGED <<leader, status, pend, clients, job, epochs, acked>>

\* GetBecomeFollowerCallback: the leader steps down before another one can be
\* elected (leadership_expiry_); a thread that holds the lock goes on.
BecomeFollower(c) ==
  /\ c = leader
  /\ leader' = Nobody
  /\ status' = [status EXCEPT ![c] = "FOLLOWER"]
  /\ Disturb
  /\ UNCHANGED <<raft, view, pend, task, storages>>

\* GetBecomeLeaderCallback
BecomeLeader(c) ==
  /\ leader = Nobody
  /\ leader' = c
  /\ status' = [status EXCEPT ![c] = "LEADER_NOT_READY"]
  /\ view' = [view EXCEPT ![c] = Len(raft)]
  /\ Calm
  /\ UNCHANGED <<raft, pend, task, storages>>

\* ReconcileClusterState: stops the checks, whose callbacks return as the leader
\* is not ready, and starts them anew; a leader without a main looks for one.
ReconcileClusterState(c) ==
  /\ status[c] = "LEADER_NOT_READY" /\ c = leader /\ task[c] = Idle
  /\ pend' = [pend EXCEPT ![c] = NoChecks]
  /\ IF View(c).main = Nobody
       THEN /\ task' = [task EXCEPT ![c] = Task("failover", Nobody, Nobody, 0)]
            /\ UNCHANGED status
       ELSE /\ status' = [status EXCEPT ![c] = "LEADER_READY"]
            /\ UNCHANGED task
  /\ Calm
  /\ UNCHANGED <<raft, leader, view, storages>>

-----------------------------------------------------------------------------

Init ==
  /\ raft = <<[main |-> FirstMain, uuid |-> 1]>>
  /\ leader = FirstLeader
  /\ status = [c \in Coordinators |->
                 IF c = FirstLeader THEN "LEADER_READY" ELSE "FOLLOWER"]
  /\ view = [c \in Coordinators |-> 1]
  /\ pend = [c \in Coordinators |-> NoChecks]
  /\ task = [c \in Coordinators |-> Idle]
  /\ inst = [i \in Instances |->
               [up |-> TRUE, main |-> i = FirstMain, uuid |-> 1,
                writing |-> i = FirstMain, txn |-> FALSE,
                epoch |-> IF i = FirstMain THEN 1 ELSE 0,
                hist |-> IF i = FirstMain THEN <<<<0, 0>>>> ELSE <<>>,
                log |-> <<>>]]
  /\ clients = [i \in Instances |->
                  IF i = FirstMain
                    THEN [j \in Instances \ {i} |-> "READY"] ELSE NoClients]
  /\ job = [i \in Instances |-> NoJob]
  /\ epochs = <<FALSE>>
  /\ acked = {}
  /\ left = MaxDisturbances

Instance(i) ==
  \/ Begin(i) \/ Commit(i) \/ Crash(i) \/ Restart(i)
  \/ EnableWriting(i) \/ RegisterFails(i)
  \/ \E j \in Instances : \/ CommitUnconfirmed(i, j)
                          \/ Recover(i, j)
                          \/ PingFails(i, j)
                          \/ RegisterReplica(i, j)

Coordinator(c) ==
  \/ StartPromotion(c) \/ PromotionFails(c) \/ PromotionTimesOut(c)
  \/ DemoteMainToReplica(c) \/ SwapMainUUID(c) \/ DemotionFails(c)
  \/ GetInstanceForFailover(c) \/ TryFailover(c)
  \/ BecomeLeader(c) \/ BecomeFollower(c) \/ ReconcileClusterState(c)
  \/ \E i \in Instances : \/ StateCheck(c, i)
                          \/ StateCheckFails(c, i)
                          \/ CallbackReturns(c, i)
                          \/ InstanceFailCallback(c, i)
                          \/ InstanceSuccessMain(c, i)
                          \/ InstanceSuccessReplica(c, i)
                          \/ DemoteInstanceToReplica(c, i)
                          \/ SetReplicationInstanceToMain(c, i)

Next ==
  \/ \E i \in Instances : Instance(i)
  \/ \E c \in Coordinators : Coordinator(c)

Spec == Init /\ [][Next]_vars

\* What each thread does when nothing disturbs it.
ServePromotion(i) ==
  EnableWriting(i) \/ \E j \in Instances : RegisterReplica(i, j)

CheckReplica(i, j) == Recover(i, j) \/ PingFails(i, j)

HoldLock(c) ==
  \/ StartPromotion(c) \/ PromotionFails(c) \/ PromotionTimesOut(c)
  \/ DemoteMainToReplica(c) \/ SwapMainUUID(c) \/ DemotionFails(c)
  \/ GetInstanceForFailover(c) \/ TryFailover(c) \/ ReconcileClusterState(c)

CheckInstance(c, i) ==
  \/ StateCheck(c, i) \/ StateCheckFails(c, i) \/ CallbackReturns(c, i)
  \/ InstanceFailCallback(c, i)
  \/ InstanceSuccessMain(c, i) \/ InstanceSuccessReplica(c, i)

\* Every thread keeps running, a stopped instance is started again, a client
\* ends its transaction and the coordinators elect a leader.
Fairness ==
  /\ WF_vars(\E c \in Coordinators : BecomeLeader(c))
  /\ \A c \in Coordinators :
       /\ WF_vars(Calm /\ HoldLock(c))
       /\ \A i \in Instances : WF_vars(Calm /\ CheckInstance(c, i))
  /\ \A i \in Instances :
       /\ WF_vars(Restart(i)) /\ WF_vars(Commit(i))
       /\ WF_vars(Calm /\ ServePromotion(i))
       /\ \A j \in Instances : WF_vars(CheckReplica(i, j))

FairSpec == Spec /\ Fairness

-----------------------------------------------------------------------------
(* Properties *)

\* Types: Raft names instances, a coordinator's view is a committed state, and
\* only a main has replication clients and may have writing enabled.
TypeOK ==
  /\ \A k \in DOMAIN raft : raft[k].main \in Instances \cup {Nobody}
  /\ view \in [Coordinators -> DOMAIN raft]
  /\ \A i \in Instances :
       /\ inst[i].main \/ DOMAIN clients[i] = {}
       /\ inst[i].writing => inst[i].main

\* When a main that may write checks a replica that is behind, data of the
\* replica that does not continue the main's is recognised by the epochs and
\* timestamps of the main's history (UpdateReplicaState), so that it is
\* replaced and not extended.
DivergedIsNoticed ==
  \A i, j \in Instances :
    /\ inst[i].writing /\ j \in DOMAIN clients[i] /\ clients[i][j] = "BEHIND"
    /\ Listening(i, j)
    => \/ IsPrefix(inst[j].log, inst[i].log)
       \/ BranchingPoint(inst[i], inst[j])

\* A replica the writing main takes for READY, and that listens to it, has the
\* main's data.  The exception: a replica that a deposed leader's late call
\* made main of its own, that committed there and was demoted again before the
\* main's next ping, keeps its READY client.
ReadyIsEqual ==
  \A i, j \in Instances :
    /\ inst[i].writing /\ j \in DOMAIN clients[i] /\ clients[i][j] = "READY"
    /\ Listening(i, j)
    => \/ inst[j].log = inst[i].log
       \/ \E e \in Range(inst[j].log) : epochs[e]

\* Instance i is the main Raft names, and may write.
CurrentMain(i) ==
  /\ Last(raft).main = i /\ Last(raft).uuid = inst[i].uuid
  /\ inst[i].main /\ inst[i].writing

\* Instance i's data includes the acknowledged commit a.
Holds(i, a) == a.pos <= Len(inst[i].log) /\ inst[i].log[a.pos] = a.epoch

\* A commit all SYNC replicas confirmed, made while writing was enabled, is in
\* the data of every later main, whatever crashes, elections and fail-overs
\* come after it (TryFailover, PromoteToMainHandler, RecoverReplica).
AckedSurvives ==
  \A a \in acked : \A i \in Instances :
    CurrentMain(i) /\ a.writing => Holds(i, a)

\* The same of every acknowledged commit.  A transaction that was open when its
\* main was promoted again commits while writing is disabled, with the clients
\* registered so far (Interpreter::Commit, PromoteToMainHandler).
AckedSurvivesAlways ==
  \A a \in acked : \A i \in Instances : CurrentMain(i) => Holds(i, a)

\* The main Raft names may write and every other instance is its READY replica.
Repaired ==
  \E i \in Instances :
    /\ CurrentMain(i)
    /\ \A j \in Instances \ {i} :
         Listening(i, j) /\ clients[i][j] = "READY"

\* Once crashes, lost calls and elections stop, the callbacks bring instances
\* and Raft together and the cluster stays repaired, unless the user demoted
\* the main and named no other.
EventuallyRepaired == <>[](Last(raft).main = Nobody \/ Repaired)

\* Two instances that may write never have the same uuid, by which a replica
\* tells whom to obey: no replica takes data from two mains.
OneMainPerUuid ==
  \A i, j \in Instances :
    inst[i].writing /\ inst[j].writing /\ inst[i].uuid = inst[j].uuid => i = j

=============================================================================

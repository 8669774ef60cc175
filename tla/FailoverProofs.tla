--------------------------- MODULE FailoverProofs ---------------------------
(***************************************************************************)
(* Proofs about module Failover, for any instances, coordinators, number of *)
(* commits and disturbances.                                               *)
(*                                                                         *)
(* OneMainPerUuid relates two instances and is not inductive.  What keeps   *)
(* it true is who hands uuids out: a committed cluster state that names a   *)
(* main carries a uuid made for it, so a uuid belongs to at most one        *)
(* instance, and every promotion under way, however late and by whichever   *)
(* deposed leader, and every instance that is main, has the uuid of a       *)
(* committed state that names that very instance.                          *)
(***************************************************************************)
EXTENDS Failover, TLAPS

Entries == [main : Instances \cup {Nobody}, uuid : Nat]

\* Uuid u was made for instance i as main, in the committed states r.
MadeFor(r, u, i) == u \in DOMAIN r /\ r[u].main = i

\* The committed states: one that names a main has the uuid of its own position.
RaftInv ==
  /\ raft \in Seq(Entries)
  /\ \A k \in DOMAIN raft : raft[k].main # Nobody => raft[k].uuid = k
  /\ view \in [Coordinators -> DOMAIN raft]

\* A task is to make an instance main only with a uuid made for it.
TaskOK(t, r) ==
  /\ {"op", "thread", "to", "uuid"} \subseteq DOMAIN t
  /\ t.op = "append" => t.to \in Instances
  /\ t.op = "promote" => t.to \in Instances /\ MadeFor(r, t.uuid, t.to)

TaskInv == DOMAIN task = Coordinators /\ \A c \in Coordinators : TaskOK(task[c], raft)

Fields == {"up", "main", "uuid", "writing", "txn", "epoch", "hist", "log"}

\* An instance with data d, clients cs and promotion jb.
InstOK(i, d, cs, jb, r) ==
  /\ Fields \subseteq DOMAIN d /\ "op" \in DOMAIN jb
  /\ d.main \/ DOMAIN cs = {}
  /\ d.writing => d.main
  /\ d.main => MadeFor(r, d.uuid, i)
  /\ jb # NoJob => d.main

InstInv ==
  /\ DOMAIN inst = Instances /\ DOMAIN clients = Instances /\ DOMAIN job = Instances
  /\ \A i \in Instances : InstOK(i, inst[i], clients[i], job[i], raft)

\* The inductive invariant.
IInv == RaftInv /\ TaskInv /\ InstInv

-----------------------------------------------------------------------------
\* Nobody is no instance and no coordinator.
LEMMA NobodyElse == Nobody \notin Instances /\ Nobody \notin Coordinators
BY FailoverAssumption

\* The record of an idle coordinator makes no promise.
LEMMA IdleOK == ASSUME NEW r PROVE TaskOK(Idle, r)
BY DEF TaskOK, Idle, Task

\* After a failed promotion, too.
LEMMA FailureOK ==
  ASSUME NEW r, NEW t, TaskOK(t, r)
  PROVE  TaskOK(AfterFailure(t), r)
BY IdleOK DEF TaskOK, AfterFailure

\* One coordinator's task changes.
LEMMA OneTask ==
  ASSUME TaskInv, NEW c \in Coordinators, NEW t, TaskOK(t, raft),
         task' = [task EXCEPT ![c] = t], raft' = raft
  PROVE  TaskInv'
<1>1. DOMAIN task = Coordinators /\ \A a \in Coordinators : TaskOK(task[a], raft)
  BY DEF TaskInv
<1>2. DOMAIN task' = Coordinators
  BY <1>1
<1>3. ASSUME NEW a \in Coordinators PROVE TaskOK(task'[a], raft)
  <2>1. CASE a = c
    BY <1>1, <2>1
  <2>2. CASE a # c
    BY <1>1, <2>2
  <2>. QED BY <2>1, <2>2
<1>. QED BY <1>2, <1>3 DEF TaskInv

\* Everything of the instances but i stays.
OthersStay(i) ==
  /\ DOMAIN inst' = Instances /\ DOMAIN clients' = Instances /\ DOMAIN job' = Instances
  /\ \A a \in Instances \ {i} :
       inst'[a] = inst[a] /\ clients'[a] = clients[a] /\ job'[a] = job[a]

\* A step of one instance.
LEMMA OneInst ==
  ASSUME InstInv, NEW i \in Instances, OthersStay(i), raft' = raft,
         InstOK(i, inst'[i], clients'[i], job'[i], raft)
  PROVE  InstInv'
<1>1. \A a \in Instances : InstOK(a, inst[a], clients[a], job[a], raft)
  BY DEF InstInv
<1>2. ASSUME NEW a \in Instances
      PROVE  InstOK(a, inst'[a], clients'[a], job'[a], raft)
  <2>1. CASE a = i
    BY <2>1
  <2>2. CASE a # i
    BY <1>1, <2>2 DEF OthersStay
  <2>. QED BY <2>1, <2>2
<1>. QED BY <1>2 DEF InstInv, OthersStay

\* What is known of one instance.
LEMMA InstFacts ==
  ASSUME InstInv, NEW i \in Instances
  PROVE  /\ DOMAIN inst = Instances /\ DOMAIN clients = Instances /\ DOMAIN job = Instances
         /\ InstOK(i, inst[i], clients[i], job[i], raft)
BY DEF InstInv

\* Coordinator c starts, goes on with or ends a task and nothing else of the
\* invariant's state changes.
LEMMA TaskStep ==
  ASSUME IInv, NEW c \in Coordinators, NEW t, TaskOK(t, raft),
         task' = [task EXCEPT ![c] = t],
         UNCHANGED <<raft, view, inst, clients, job>>
  PROVE  IInv'
<1>1. TaskInv'
  BY OneTask DEF IInv
<1>2. RaftInv' /\ InstInv'
  BY DEF IInv, RaftInv, InstInv
<1>. QED BY <1>1, <1>2 DEF IInv

\* Neither does a step that touches none of it.
LEMMA StutterStep ==
  ASSUME IInv, UNCHANGED <<raft, view, task, inst, clients, job>>
  PROVE  IInv'
BY DEF IInv, RaftInv, TaskInv, InstInv

\* A step of instance i, which may end its coordinator's wait.
LEMMA InstStep ==
  ASSUME IInv, NEW i \in Instances, OthersStay(i),
         InstOK(i, inst'[i], clients'[i], job'[i], raft),
         TaskInv', UNCHANGED <<raft, view>>
  PROVE  IInv'
<1>1. InstInv'
  BY OneInst DEF IInv
<1>2. RaftInv'
  BY DEF IInv, RaftInv
<1>. QED BY <1>1, <1>2 DEF IInv

\* A task not touched.
LEMMA SameTask ==
  ASSUME IInv, UNCHANGED <<raft, task>>
  PROVE  TaskInv'
BY DEF IInv, TaskInv

-----------------------------------------------------------------------------
(* Steps of an instance *)

(* A main takes a commit up.                                                *)
LEMMA BeginStep ==
  ASSUME IInv, NEW i \in Instances, Begin(i) PROVE IInv'
<1>1. InstOK(i, inst[i], clients[i], job[i], raft) /\ DOMAIN inst = Instances
      /\ DOMAIN clients = Instances /\ DOMAIN job = Instances
  BY InstFacts DEF IInv
<1>2. inst' = [inst EXCEPT ![i] = [inst[i] EXCEPT !.txn = TRUE]]
      /\ UNCHANGED <<raft, view, task, clients, job>>
  BY DEF Begin, cluster
<1>3. OthersStay(i)
  BY <1>1, <1>2 DEF OthersStay
<1>4. InstOK(i, inst'[i], clients'[i], job'[i], raft)
  BY <1>1, <1>2 DEF InstOK, Fields
<1>. QED BY <1>2, <1>3, <1>4, InstStep, SameTask

(* A crash leaves an instance its role and its uuid.                        *)
LEMMA CrashStep ==
  ASSUME IInv, NEW i \in Instances, Crash(i) PROVE IInv'
<1>1. InstOK(i, inst[i], clients[i], job[i], raft) /\ DOMAIN inst = Instances
      /\ DOMAIN clients = Instances /\ DOMAIN job = Instances
  BY InstFacts DEF IInv
<1>2. inst' = [inst EXCEPT ![i].up = FALSE, ![i].txn = FALSE, ![i].writing = FALSE]
      /\ job' = [job EXCEPT ![i] = NoJob]
      /\ UNCHANGED <<raft, view, task, clients>>
  BY DEF Crash, cluster
<1>3. OthersStay(i)
  BY <1>1, <1>2 DEF OthersStay
<1>4. InstOK(i, inst'[i], clients'[i], job'[i], raft)
  BY <1>1, <1>2 DEF InstOK, Fields, NoJob
<1>. QED BY <1>2, <1>3, <1>4, InstStep, SameTask

(* So does a restart, after which a main does not write.                    *)
LEMMA RestartStep ==
  ASSUME IInv, NEW i \in Instances, Restart(i) PROVE IInv'
<1>1. InstOK(i, inst[i], clients[i], job[i], raft) /\ DOMAIN inst = Instances
      /\ DOMAIN clients = Instances /\ DOMAIN job = Instances
  BY InstFacts DEF IInv
<1>. PICK h, e : inst' = [inst EXCEPT ![i].up = TRUE, ![i].hist = h, ![i].epoch = e]
  BY DEF Restart
<1>2. clients' = [clients EXCEPT ![i] = [j \in DOMAIN clients[i] |-> "BEHIND"]]
      /\ UNCHANGED <<raft, view, task, job>>
  BY DEF Restart, cluster
<1>3. OthersStay(i)
  BY <1>1, <1>2 DEF OthersStay
<1>4. InstOK(i, inst'[i], clients'[i], job'[i], raft)
  BY <1>1, <1>2 DEF InstOK, Fields
<1>. QED BY <1>2, <1>3, <1>4, InstStep, SameTask

(* EnableWritingOnMain makes no main.                                       *)
LEMMA EnableWritingStep ==
  ASSUME IInv, NEW i \in Instances, EnableWriting(i) PROVE IInv'
<1>1. InstOK(i, inst[i], clients[i], job[i], raft) /\ DOMAIN inst = Instances
      /\ DOMAIN clients = Instances /\ DOMAIN job = Instances
  BY InstFacts DEF IInv
<1>2. /\ inst' = [inst EXCEPT ![i] = [inst[i] EXCEPT !.writing = TRUE]]
      /\ job' = [job EXCEPT ![i] = NoJob]
      /\ job[i] # NoJob
      /\ UNCHANGED <<raft, view, clients>>
      /\ task' = task \/ task' = [task EXCEPT ![job[i].by] = Idle]
  BY DEF EnableWriting, cluster, NoJob
<1>3. OthersStay(i)
  BY <1>1, <1>2 DEF OthersStay
<1>4. InstOK(i, inst'[i], clients'[i], job'[i], raft)
  BY <1>1, <1>2 DEF InstOK, Fields, NoJob
<1>5. TaskInv'
  <2>1. CASE task' = task
    BY <1>2, <2>1, SameTask
  <2>2. CASE task' = [task EXCEPT ![job[i].by] = Idle]
    BY <1>2, <2>2, IdleOK DEF IInv, TaskInv
  <2>. QED BY <1>2, <2>1, <2>2
<1>. QED BY <1>2, <1>3, <1>4, <1>5, InstStep

(* A failed registration changes clients only.                              *)
LEMMA RegisterFailsStep ==
  ASSUME IInv, NEW i \in Instances, RegisterFails(i) PROVE IInv'
<1>1. InstOK(i, inst[i], clients[i], job[i], raft) /\ DOMAIN inst = Instances
      /\ DOMAIN clients = Instances /\ DOMAIN job = Instances
  BY InstFacts DEF IInv
<1> DEFINE b == job[i].by
<1>2. /\ job' = [job EXCEPT ![i] = NoJob]
      /\ UNCHANGED <<raft, view, inst, clients>>
      /\ task' = task \/ task' = [task EXCEPT ![b] = AfterFailure(task[b])]
  BY DEF RegisterFails, cluster
<1> HIDE DEF b
<1>3. OthersStay(i)
  BY <1>1, <1>2 DEF OthersStay
<1>4. InstOK(i, inst'[i], clients'[i], job'[i], raft)
  BY <1>1, <1>2 DEF InstOK, Fields, NoJob
<1>5. TaskInv'
  <2>1. CASE task' = task
    BY <1>2, <2>1, SameTask
  <2>2. CASE task' = [task EXCEPT ![b] = AfterFailure(task[b])]
    BY <1>2, <2>2, FailureOK DEF IInv, TaskInv
  <2>. QED BY <1>2, <2>1, <2>2
<1>. QED BY <1>2, <1>3, <1>4, <1>5, InstStep

(* So does a registration.                                                  *)
LEMMA RegisterReplicaStep ==
  ASSUME IInv, NEW i \in Instances, NEW j \in Instances, RegisterReplica(i, j)
  PROVE  IInv'
<1>1. InstOK(i, inst[i], clients[i], job[i], raft) /\ DOMAIN inst = Instances
      /\ DOMAIN clients = Instances /\ DOMAIN job = Instances
  BY InstFacts DEF IInv
<1>. PICK cs : clients' = [clients EXCEPT ![i] = cs]
  BY DEF RegisterReplica
<1>2. /\ job' = [job EXCEPT ![i] = [job[i] EXCEPT !.todo = @ \ {j}]]
      /\ job[i] # NoJob
      /\ UNCHANGED <<raft, view, inst, task>>
  BY DEF RegisterReplica, cluster, NoJob
<1>3. OthersStay(i)
  BY <1>1, <1>2 DEF OthersStay
<1>4. InstOK(i, inst'[i], clients'[i], job'[i], raft)
  BY <1>1, <1>2 DEF InstOK, Fields
<1>. QED BY <1>2, <1>3, <1>4, InstStep, SameTask

(* And a failed ping.                                                       *)
LEMMA PingFailsStep ==
  ASSUME IInv, NEW i \in Instances, NEW j \in Instances, PingFails(i, j)
  PROVE  IInv'
<1>1. InstOK(i, inst[i], clients[i], job[i], raft) /\ DOMAIN inst = Instances
      /\ DOMAIN clients = Instances /\ DOMAIN job = Instances
  BY InstFacts DEF IInv
<1>2. /\ clients' = [clients EXCEPT ![i] = [clients[i] EXCEPT ![j] = "BEHIND"]]
      /\ UNCHANGED <<raft, view, inst, task, job>>
  BY DEF PingFails, cluster
<1>3. OthersStay(i)
  BY <1>1, <1>2 DEF OthersStay
<1>4. InstOK(i, inst'[i], clients'[i], job'[i], raft)
  BY <1>1, <1>2 DEF InstOK, Fields
<1>. QED BY <1>2, <1>3, <1>4, InstStep, SameTask

\* Data d2 has the role, the uuid and the permission to write of d.
SameRole(d2, d) ==
  /\ Fields \subseteq DOMAIN d2
  /\ d2.main = d.main /\ d2.uuid = d.uuid /\ d2.writing = d.writing

\* Applying a commit changes the data only.
LEMMA ApplyKeepsRole ==
  ASSUME NEW d, NEW e, Fields \subseteq DOMAIN d
  PROVE  SameRole(Apply(d, e), d)
<1>1. SameRole(TakeEpoch(d, e), d)
  BY DEF TakeEpoch, SameRole, Fields
<1>. QED BY <1>1 DEF Apply, SameRole, Fields

\* So does a recovery, with a reset or without one.
LEMMA RecoveryKeepsRole ==
  ASSUME NEW m, NEW d, Fields \subseteq DOMAIN d
  PROVE  SameRole(RecoverReplica(m, d), d)
<1>1. ASSUME NEW b, NEW es, SameRole(b, d)
      PROVE  SameRole(LoadWals(b, es), d)
  BY <1>1 DEF LoadWals, SameRole, Fields
<1>2. SameRole(Clear(d), d) /\ SameRole(d, d)
  BY DEF Clear, SameRole, Fields
<1>. QED BY <1>1, <1>2 DEF RecoverReplica

\* Data of several instances changes, and the state of i's clients.
LEMMA DataStep ==
  ASSUME IInv, UNCHANGED <<raft, view, task, job>>,
         DOMAIN inst' = Instances, DOMAIN clients' = Instances,
         \A a \in Instances : SameRole(inst'[a], inst[a])
                              /\ DOMAIN clients'[a] = DOMAIN clients[a]
  PROVE  IInv'
<1>1. ASSUME NEW a \in Instances
      PROVE  InstOK(a, inst'[a], clients'[a], job'[a], raft)
  <2>1. InstOK(a, inst[a], clients[a], job[a], raft)
    BY InstFacts DEF IInv
  <2>. QED BY <2>1 DEF InstOK, SameRole
<1>2. DOMAIN job' = Instances
  BY DEF IInv, InstInv
<1>3. InstInv'
  BY <1>1, <1>2 DEF InstInv
<1>. QED BY <1>3 DEF IInv, RaftInv, TaskInv

(* A commit leaves roles and uuids alone, on the main and on its replicas.  *)
LEMMA CommitStep ==
  ASSUME IInv, NEW i \in Instances, NEW applied, NEW confirmed,
         CommitWith(i, applied, confirmed)
  PROVE  IInv'
<1>1. /\ DOMAIN inst = Instances /\ DOMAIN clients = Instances
      /\ \A a \in Instances : Fields \subseteq DOMAIN inst[a]
  BY DEF IInv, InstInv, InstOK
<1>. DEFINE e == inst[i].epoch
            mine == [inst[i] EXCEPT !.txn = FALSE, !.log = Append(@, e)]
<1>2. /\ inst' = [j \in Instances |-> CASE j = i -> mine
                                       [] j \in applied -> Apply(inst[j], e)
                                       [] OTHER -> inst[j]]
      /\ clients' = [clients EXCEPT ![i] =
                       [j \in DOMAIN clients[i] |->
                          IF j \in confirmed THEN "READY" ELSE "BEHIND"]]
      /\ UNCHANGED <<raft, view, task, job>>
  BY DEF CommitWith, cluster
<1>3. SameRole(mine, inst[i])
  BY <1>1 DEF SameRole, Fields
<1>. HIDE DEF mine, e
<1>4. ASSUME NEW a \in Instances PROVE SameRole(inst'[a], inst[a])
  <2>1. SameRole(Apply(inst[a], e), inst[a])
    BY <1>1, ApplyKeepsRole
  <2>2. SameRole(inst[a], inst[a])
    BY <1>1 DEF SameRole
  <2>3. (inst'[a] = mine /\ a = i) \/ inst'[a] = Apply(inst[a], e) \/ inst'[a] = inst[a]
    BY <1>2
  <2>. QED BY <1>3, <2>1, <2>2, <2>3
<1>5. /\ DOMAIN inst' = Instances /\ DOMAIN clients' = Instances
      /\ \A a \in Instances : DOMAIN clients'[a] = DOMAIN clients[a]
  BY <1>1, <1>2
<1>. QED BY <1>2, <1>4, <1>5, DataStep

(* So does a recovery.                                                      *)
LEMMA RecoverStep ==
  ASSUME IInv, NEW i \in Instances, NEW j \in Instances, Recover(i, j)
  PROVE  IInv'
<1>1. /\ DOMAIN inst = Instances /\ DOMAIN clients = Instances
      /\ \A a \in Instances : Fields \subseteq DOMAIN inst[a]
  BY DEF IInv, InstInv, InstOK
<1>. DEFINE d == RecoverReplica(inst[i], inst[j])
<1>2. /\ inst' = [inst EXCEPT ![j] = d]
      /\ clients' = [clients EXCEPT ![i] = [clients[i] EXCEPT ![j] = "READY"]]
      /\ UNCHANGED <<raft, view, task, job>>
  BY DEF Recover, cluster
<1>3. SameRole(d, inst[j])
  BY <1>1, RecoveryKeepsRole
<1>. HIDE DEF d
<1>4. ASSUME NEW a \in Instances PROVE SameRole(inst'[a], inst[a])
  <2>1. SameRole(inst[a], inst[a])
    BY <1>1 DEF SameRole
  <2>. QED BY <1>1, <1>2, <1>3, <2>1
<1>5. /\ DOMAIN inst' = Instances /\ DOMAIN clients' = Instances
      /\ \A a \in Instances : DOMAIN clients'[a] = DOMAIN clients[a]
  BY <1>1, <1>2
<1>. QED BY <1>2, <1>4, <1>5, DataStep

\* The steps of an instance.
LEMMA InstanceStep ==
  ASSUME IInv, NEW i \in Instances, Instance(i)
  PROVE  IInv'
<1>1. CASE Commit(i)
  BY <1>1, CommitStep DEF Commit
<1>2. ASSUME NEW j \in Instances, CommitUnconfirmed(i, j) PROVE IInv'
  <2>1. PICK applied : CommitWith(i, applied, Accepting(i) \ {j})
    BY <1>2 DEF CommitUnconfirmed
  <2>. QED BY <2>1, CommitStep
<1>. QED
  BY <1>1, <1>2, BeginStep, CrashStep, RestartStep, EnableWritingStep,
     RegisterFailsStep, RecoverStep, PingFailsStep, RegisterReplicaStep
  DEF Instance

-----------------------------------------------------------------------------
(* Steps of a coordinator *)

\* A step of the callbacks and calls that changes nothing but the coordinator's
\* own task, its checks and the disturbances.
LEMMA LocalStep ==
  ASSUME IInv, NEW c \in Coordinators,
         UNCHANGED <<raft, view, inst, clients, job>>,
         \/ task' = task
         \/ \E t : TaskOK(t, raft) /\ task' = [task EXCEPT ![c] = t]
  PROVE  IInv'
<1>1. CASE task' = task
  BY <1>1, StutterStep
<1>2. CASE \E t : TaskOK(t, raft) /\ task' = [task EXCEPT ![c] = t]
  BY <1>2, TaskStep
<1>. QED BY <1>1, <1>2

(* What a coordinator is at is covered by the invariant.                    *)
LEMMA MyTask ==
  ASSUME IInv, NEW c \in Coordinators
  PROVE  TaskOK(task[c], raft)
BY DEF IInv, TaskInv

(* The instance checks look only.                                           *)
LEMMA CheckStep ==
  ASSUME IInv, NEW c \in Coordinators, NEW i \in Instances,
         StateCheck(c, i) \/ StateCheckFails(c, i) \/ CallbackReturns(c, i)
  PROVE  IInv'
BY StutterStep DEF StateCheck, StateCheckFails, CallbackReturns, cluster, storages

(* The callback of a lost instance starts a failover at most.               *)
LEMMA FailCallbackStep ==
  ASSUME IInv, NEW c \in Coordinators, NEW i \in Instances, InstanceFailCallback(c, i)
  PROVE  IInv'
<1>1. TaskOK(Task("failover", i, i, 0), raft)
  BY DEF TaskOK, Task
<1>. QED BY <1>1, LocalStep DEF InstanceFailCallback, cluster, storages

(* The callback of a main that answers.                                     *)
LEMMA SuccessMainStep ==
  ASSUME IInv, NEW c \in Coordinators, NEW i \in Instances, InstanceSuccessMain(c, i)
  PROVE  IInv'
<1>1. View(c).main = i /\ view[c] \in DOMAIN raft
  BY DEF InstanceSuccessMain, IInv, RaftInv
<1>2. View(c).uuid = view[c]
  BY <1>1, NobodyElse DEF View, IInv, RaftInv
<1>3. MadeFor(raft, View(c).uuid, i)
  BY <1>1, <1>2 DEF MadeFor, View
<1>4. TaskOK(Task("promote", i, i, View(c).uuid), raft)
  BY <1>3 DEF TaskOK, Task
<1>. QED BY <1>4, LocalStep DEF InstanceSuccessMain, cluster, storages

(* The callback of a replica that answers.                                  *)
LEMMA SuccessReplicaStep ==
  ASSUME IInv, NEW c \in Coordinators, NEW i \in Instances, InstanceSuccessReplica(c, i)
  PROVE  IInv'
<1>1. PICK op \in {"demote", "demote_swap", "swap", "idle"} :
        task' = task \/ task' = [task EXCEPT ![c] = Task(op, i, i, View(c).uuid)]
  <2>. DEFINE s == pend[c][i]
              uuid == View(c).uuid
              op == CASE s.main /\ s.uuid = uuid -> "demote"
                      [] s.main /\ s.uuid # uuid -> "demote_swap"
                      [] ~s.main /\ s.uuid # uuid -> "swap"
                      [] OTHER -> "idle"
  <2>1. op \in {"demote", "demote_swap", "swap", "idle"}
    OBVIOUS
  <2>2. task' = task \/ task' = [task EXCEPT ![c] = Task(op, i, i, View(c).uuid)]
    BY DEF InstanceSuccessReplica
  <2>. QED BY <2>1, <2>2
<1>2. TaskOK(Task(op, i, i, View(c).uuid), raft)
  BY DEF TaskOK, Task
<1>. QED BY <1>1, <1>2, LocalStep DEF InstanceSuccessReplica, cluster, storages

\* A promotion fails or is not answered, a demotion fails, or nobody answers a
\* fail-over.
LEMMA CallStep ==
  ASSUME IInv, NEW c \in Coordinators,
         PromotionFails(c) \/ PromotionTimesOut(c) \/ DemotionFails(c)
  PROVE  IInv'
<1>1. TaskOK(AfterFailure(task[c]), raft) /\ TaskOK(Idle, raft)
  BY MyTask, FailureOK, IdleOK
<1>. QED
  BY <1>1, LocalStep
  DEF PromotionFails, PromotionTimesOut, DemotionFails, cluster, storages

(* GetInstanceForFailover names a candidate.                                *)
LEMMA ChooseStep ==
  ASSUME IInv, NEW c \in Coordinators, GetInstanceForFailover(c)
  PROVE  IInv'
<1>1. UNCHANGED <<raft, view, inst, clients, job>>
  BY DEF GetInstanceForFailover, cluster, storages
<1>2. \/ task' = [task EXCEPT ![c] = Idle]
      \/ \E n \in Instances :
           task' = [task EXCEPT ![c] = [task[c] EXCEPT !.op = "append", !.to = n]]
  BY DEF GetInstanceForFailover, MostUpToDate
<1>3. \A n \in Instances : TaskOK([task[c] EXCEPT !.op = "append", !.to = n], raft)
  BY MyTask DEF TaskOK
<1>. QED BY <1>1, <1>2, <1>3, IdleOK, LocalStep

\* Demotion of the instance a coordinator's task is about.
LEMMA DemoteStep ==
  ASSUME IInv, NEW c \in Coordinators, DemoteMainToReplica(c)
  PROVE  IInv'
<1>. DEFINE i == task[c].to
            d == Demoted(inst[i], task[c].uuid)
            t == [task[c] EXCEPT !.op = "swap"]
<1>1. /\ Reachable(i)
      /\ UNCHANGED <<raft, view, job>>
      /\ \/ UNCHANGED <<inst, clients>>
         \/ /\ inst' = [inst EXCEPT ![i] = d]
            /\ clients' = [clients EXCEPT ![i] = NoClients]
      /\ task' = [task EXCEPT ![c] = t] \/ task' = [task EXCEPT ![c] = Idle]
  BY DEF DemoteMainToReplica, cluster
<1>2. TaskOK(t, raft) /\ TaskOK(Idle, raft)
  BY MyTask, IdleOK DEF TaskOK
<1>. HIDE DEF t
<1>3. TaskInv'
  BY <1>1, <1>2, OneTask DEF IInv
<1>4. InstInv'
  <2>0. DOMAIN inst = Instances /\ DOMAIN clients = Instances /\ DOMAIN job = Instances
    BY DEF IInv, InstInv
  <2>1. CASE UNCHANGED <<inst, clients>>
    BY <1>1, <2>1 DEF IInv, InstInv
  <2>2. CASE /\ inst' = [inst EXCEPT ![i] = d]
             /\ clients' = [clients EXCEPT ![i] = NoClients]
    <3>1. CASE i \in Instances
      <4>1. InstOK(i, inst[i], clients[i], job[i], raft)
        BY <3>1, InstFacts DEF IInv
      <4>2. OthersStay(i)
        BY <1>1, <2>0, <2>2, <3>1 DEF OthersStay
      <4>3. inst'[i] = d /\ clients'[i] = NoClients /\ job'[i] = NoJob /\ job[i] = NoJob
        BY <1>1, <2>0, <2>2, <3>1 DEF Reachable
      <4>4. ~d.main /\ ~d.writing /\ Fields \subseteq DOMAIN d
        BY <4>1 DEF Demoted, InstOK, Fields
      <4>5. InstOK(i, inst'[i], clients'[i], job'[i], raft)
        BY <4>1, <4>3, <4>4 DEF InstOK, NoClients, NoJob
      <4>. QED BY <1>1, <3>1, <4>2, <4>5, OneInst DEF IInv
    <3>2. CASE i \notin Instances
      BY <1>1, <2>0, <2>2, <3>2 DEF IInv, InstInv
    <3>. QED BY <3>1, <3>2
  <2>. QED BY <1>1, <2>1, <2>2
<1>5. RaftInv'
  BY <1>1 DEF IInv, RaftInv
<1>. QED BY <1>3, <1>4, <1>5 DEF IInv

\* An instance takes another uuid only while it is a replica.
LEMMA SwapKeeps ==
  ASSUME NEW i, NEW d, NEW cs, NEW jb, NEW r, NEW u, InstOK(i, d, cs, jb, r)
  PROVE  InstOK(i, Swapped(d, u), cs, jb, r)
<1>1. CASE d.main
  BY <1>1 DEF Swapped
<1>2. CASE ~d.main
  BY <1>2 DEF Swapped, InstOK, Fields
<1>. QED BY <1>1, <1>2

(* SwapMainUUID hands a replica the uuid of its main.                       *)
LEMMA SwapStep ==
  ASSUME IInv, NEW c \in Coordinators, SwapMainUUID(c)
  PROVE  IInv'
<1>. DEFINE i == task[c].to
            u == task[c].uuid
<1>1. /\ UNCHANGED <<raft, view, clients, job>>
      /\ inst' = [inst EXCEPT ![i] = Swapped(inst[i], u)]
      /\ task' = [task EXCEPT ![c] = Idle]
  BY DEF SwapMainUUID, cluster
<1>2. TaskInv'
  BY <1>1, IdleOK, OneTask DEF IInv
<1>. HIDE DEF u, i
<1>3. ASSUME NEW a \in Instances
      PROVE  InstOK(a, inst'[a], clients'[a], job'[a], raft)
  <2>1. InstOK(a, inst[a], clients[a], job[a], raft) /\ DOMAIN inst = Instances
    BY InstFacts DEF IInv
  <2>2. InstOK(a, Swapped(inst[a], u), clients[a], job[a], raft)
    BY <2>1, SwapKeeps
  <2>. QED BY <1>1, <2>1, <2>2
<1>4. DOMAIN inst' = Instances /\ DOMAIN clients' = Instances /\ DOMAIN job' = Instances
  BY <1>1 DEF IInv, InstInv
<1>. QED BY <1>1, <1>2, <1>3, <1>4 DEF IInv, RaftInv, InstInv

\* A promotion: the uuid of the task was made for the instance.
LEMMA StartPromotionStep ==
  ASSUME IInv, NEW c \in Coordinators, StartPromotion(c)
  PROVE  IInv'
<1>. DEFINE i == task[c].to
            d == Promoted(inst[i], task[c].uuid, Len(epochs) + 1)
            jb == [op |-> "register", by |-> c, todo |-> Instances \ {i}]
            t == [task[c] EXCEPT !.op = "wait"]
<1>1. TaskOK(task[c], raft) /\ task[c].op = "promote"
  BY MyTask DEF StartPromotion
<1>2. i \in Instances /\ MadeFor(raft, task[c].uuid, i)
  BY <1>1 DEF TaskOK
<1>3. InstOK(i, inst[i], clients[i], job[i], raft) /\ DOMAIN inst = Instances
      /\ DOMAIN clients = Instances /\ DOMAIN job = Instances
  BY <1>2, InstFacts DEF IInv
<1>4. /\ inst' = [inst EXCEPT ![i] = d]
      /\ clients' = [clients EXCEPT ![i] = NoClients]
      /\ job' = [job EXCEPT ![i] = jb]
      /\ task' = [task EXCEPT ![c] = t]
      /\ UNCHANGED <<raft, view>>
  BY DEF StartPromotion, cluster
<1>5. TaskOK(t, raft)
  BY <1>1 DEF TaskOK
<1>6. /\ Fields \subseteq DOMAIN d /\ d.main = TRUE
      /\ d.uuid = task[c].uuid /\ d.writing = FALSE
  BY <1>3 DEF Promoted, InstOK, Fields
<1>7. "op" \in DOMAIN jb
  OBVIOUS
<1>. HIDE DEF d, jb, t
<1>8. TaskInv'
  BY <1>4, <1>5, OneTask DEF IInv
<1>9. OthersStay(i)
  BY <1>2, <1>3, <1>4 DEF OthersStay
<1>10. inst'[i] = d /\ clients'[i] = NoClients /\ job'[i] = jb
  BY <1>2, <1>3, <1>4
<1>11. InstOK(i, inst'[i], clients'[i], job'[i], raft)
  BY <1>2, <1>6, <1>7, <1>10 DEF InstOK
<1>. QED BY <1>2, <1>4, <1>8, <1>9, <1>11, InstStep

-----------------------------------------------------------------------------
(* Steps that append to the Raft log *)

\* A uuid stays made for whom it was made for.
LEMMA StillMadeFor ==
  ASSUME raft \in Seq(Entries), NEW e \in Entries, NEW u, NEW i, MadeFor(raft, u, i)
  PROVE  MadeFor(Append(raft, e), u, i)
BY DEF MadeFor

\* The new entry names a main with a fresh uuid, or nobody.
LEMMA AppendStep ==
  ASSUME IInv, NEW c \in Coordinators, NEW e \in Entries,
         e.main # Nobody => e.uuid = Len(raft) + 1,
         raft' = Append(raft, e), view' = [view EXCEPT ![c] = Len(raft) + 1]
  PROVE  /\ RaftInv'
         /\ \A t : TaskOK(t, raft) => TaskOK(t, raft')
         /\ \A i, d, cs, jb : InstOK(i, d, cs, jb, raft) => InstOK(i, d, cs, jb, raft')
<1>1. /\ raft \in Seq(Entries) /\ view \in [Coordinators -> DOMAIN raft]
      /\ \A k \in DOMAIN raft : raft[k].main # Nobody => raft[k].uuid = k
  BY DEF IInv, RaftInv
<1>2. /\ raft' \in Seq(Entries) /\ DOMAIN raft \subseteq DOMAIN raft'
      /\ Len(raft) + 1 \in DOMAIN raft'
  BY <1>1
<1>3. view' \in [Coordinators -> DOMAIN raft']
  BY <1>1, <1>2
<1>4. ASSUME NEW k \in DOMAIN raft', raft'[k].main # Nobody PROVE raft'[k].uuid = k
  <2>1. CASE k = Len(raft) + 1
    BY <1>1, <1>4, <2>1
  <2>2. CASE k # Len(raft) + 1
    <3>1. k \in DOMAIN raft /\ raft'[k] = raft[k]
      BY <1>1, <2>2
    <3>. QED BY <1>1, <1>4, <3>1
  <2>. QED BY <2>1, <2>2
<1>5. \A u, i : MadeFor(raft, u, i) => MadeFor(raft', u, i)
  BY <1>1, StillMadeFor
<1>6. \A t : TaskOK(t, raft) => TaskOK(t, raft')
  BY <1>5 DEF TaskOK
<1>7. \A i, d, cs, jb : InstOK(i, d, cs, jb, raft) => InstOK(i, d, cs, jb, raft')
  BY <1>5 DEF InstOK
<1>. QED BY <1>2, <1>3, <1>4, <1>6, <1>7 DEF RaftInv

\* An entry is appended by coordinator c, which goes on with task t.
LEMMA AppendTaskStep ==
  ASSUME IInv, NEW c \in Coordinators, NEW e \in Entries, NEW t,
         e.main # Nobody => e.uuid = Len(raft) + 1,
         raft' = Append(raft, e), view' = [view EXCEPT ![c] = Len(raft) + 1],
         task' = [task EXCEPT ![c] = t], TaskOK(t, raft'),
         UNCHANGED <<inst, clients, job>>
  PROVE  IInv'
<1>1. /\ RaftInv'
      /\ \A s : TaskOK(s, raft) => TaskOK(s, raft')
      /\ \A i, d, cs, jb : InstOK(i, d, cs, jb, raft) => InstOK(i, d, cs, jb, raft')
  BY AppendStep
<1>2. ASSUME NEW a \in Coordinators PROVE TaskOK(task'[a], raft')
  BY <1>1 DEF IInv, TaskInv
<1>3. DOMAIN task' = Coordinators
  BY DEF IInv, TaskInv
<1>4. InstInv'
  BY <1>1 DEF IInv, InstInv
<1>. QED BY <1>1, <1>2, <1>3, <1>4 DEF IInv, TaskInv

(* TryFailover makes a new uuid for the main it chose.                      *)
LEMMA TryFailoverStep ==
  ASSUME IInv, NEW c \in Coordinators, TryFailover(c)
  PROVE  IInv'
<1>1. task' = [task EXCEPT ![c] = Idle] /\ UNCHANGED <<inst, clients, job>>
  BY DEF TryFailover, storages
<1>2. CASE c = leader
  <2>. DEFINE e == [main |-> task[c].to, uuid |-> Len(raft) + 1]
  <2>1. raft' = Append(raft, e) /\ view' = [view EXCEPT ![c] = Len(raft) + 1]
    BY <1>2 DEF TryFailover
  <2>2. e \in Entries
    BY MyTask DEF TryFailover, TaskOK, Entries, IInv, RaftInv
  <2>3. e.uuid = Len(raft) + 1
    OBVIOUS
  <2>. HIDE DEF e
  <2>4. TaskOK(Idle, raft')
    BY IdleOK
  <2>. QED BY <1>1, <2>1, <2>2, <2>3, <2>4, AppendTaskStep
<1>3. CASE c # leader
  BY <1>1, <1>3, IdleOK, LocalStep DEF TryFailover
<1>. QED BY <1>2, <1>3

(* DemoteInstanceToReplica of the user.                                     *)
LEMMA DemoteInstanceStep ==
  ASSUME IInv, NEW c \in Coordinators, NEW i \in Instances, DemoteInstanceToReplica(c, i)
  PROVE  IInv'
<1>. DEFINE e == [main |-> Nobody, uuid |-> View(c).uuid]
            t == Task("demote", Nobody, i, 0)
<1>1. /\ raft' = Append(raft, e) /\ view' = [view EXCEPT ![c] = Len(raft) + 1]
      /\ task' = [task EXCEPT ![c] = t] /\ UNCHANGED <<inst, clients, job>>
  BY DEF DemoteInstanceToReplica, storages
<1>2. e \in Entries /\ e.main = Nobody
  <2>1. raft[view[c]] \in Entries
    BY DEF IInv, RaftInv
  <2>. QED BY <2>1 DEF Entries, View
<1>3. TaskOK(t, raft')
  BY DEF TaskOK, Task
<1>. HIDE DEF e, t
<1>. QED BY <1>1, <1>2, <1>3, AppendTaskStep

(* SetReplicationInstanceToMain of the user makes a uuid as well.           *)
LEMMA SetMainStep ==
  ASSUME IInv, NEW c \in Coordinators, NEW i \in Instances,
         SetReplicationInstanceToMain(c, i)
  PROVE  IInv'
<1>. DEFINE u == Len(raft) + 1
            e == [main |-> i, uuid |-> u]
            t == Task("promote", Nobody, i, u)
<1>0. PICK swapped : inst' = [j \in Instances |->
                       IF j \in swapped THEN Swapped(inst[j], u) ELSE inst[j]]
  BY DEF SetReplicationInstanceToMain
<1>1. /\ raft' = Append(raft, e) /\ view' = [view EXCEPT ![c] = u]
      /\ task' = [task EXCEPT ![c] = t] /\ UNCHANGED <<clients, job>>
  BY DEF SetReplicationInstanceToMain
<1>2. e \in Entries /\ e.uuid = u /\ raft \in Seq(Entries)
  BY DEF Entries, IInv, RaftInv
<1>3. MadeFor(raft', u, i)
  BY <1>1, <1>2 DEF MadeFor
<1>4. TaskOK(t, raft')
  BY <1>3 DEF TaskOK, Task
<1>5. /\ RaftInv'
      /\ \A s : TaskOK(s, raft) => TaskOK(s, raft')
      /\ \A a, d, cs, jb : InstOK(a, d, cs, jb, raft) => InstOK(a, d, cs, jb, raft')
  <2>. HIDE DEF e
  <2>. QED BY <1>1, <1>2, AppendStep
<1>. HIDE DEF e, t, u
<1>6. ASSUME NEW a \in Coordinators PROVE TaskOK(task'[a], raft')
  BY <1>1, <1>4, <1>5 DEF IInv, TaskInv
<1>7. DOMAIN task' = Coordinators
  BY <1>1 DEF IInv, TaskInv
<1>8. ASSUME NEW a \in Instances
      PROVE  InstOK(a, inst'[a], clients'[a], job'[a], raft')
  <2>1. InstOK(a, inst[a], clients[a], job[a], raft)
    BY InstFacts DEF IInv
  <2>2. InstOK(a, Swapped(inst[a], u), clients[a], job[a], raft)
    BY <2>1, SwapKeeps
  <2>3. inst'[a] = inst[a] \/ inst'[a] = Swapped(inst[a], u)
    BY <1>0
  <2>. QED BY <1>1, <1>5, <2>1, <2>2, <2>3
<1>9. DOMAIN inst' = Instances /\ DOMAIN clients' = Instances /\ DOMAIN job' = Instances
  BY <1>0, <1>1 DEF IInv, InstInv
<1>. QED BY <1>5, <1>6, <1>7, <1>8, <1>9 DEF IInv, TaskInv, InstInv

(* A new leader takes over what is committed.                               *)
LEMMA BecomeLeaderStep ==
  ASSUME IInv, NEW c \in Coordinators, BecomeLeader(c)
  PROVE  IInv'
<1>1. /\ view' = [view EXCEPT ![c] = Len(raft)]
      /\ UNCHANGED <<raft, task, inst, clients, job>>
  BY DEF BecomeLeader, storages
<1>2. raft \in Seq(Entries) /\ view \in [Coordinators -> DOMAIN raft]
  BY DEF IInv, RaftInv
<1>3. Len(raft) \in DOMAIN raft
  BY <1>2
<1>4. view' \in [Coordinators -> DOMAIN raft]
  BY <1>1, <1>2, <1>3
<1>. QED BY <1>1, <1>4 DEF IInv, RaftInv, TaskInv, InstInv

(* ReconcileClusterState starts from the committed state.                   *)
LEMMA ReconcileStep ==
  ASSUME IInv, NEW c \in Coordinators, ReconcileClusterState(c)
  PROVE  IInv'
<1>1. TaskOK(Task("failover", Nobody, Nobody, 0), raft)
  BY DEF TaskOK, Task
<1>. QED BY <1>1, LocalStep DEF ReconcileClusterState, storages

\* The steps of a coordinator.
LEMMA CoordinatorStep ==
  ASSUME IInv, NEW c \in Coordinators, Coordinator(c)
  PROVE  IInv'
<1>1. CASE BecomeFollower(c)
  BY <1>1, StutterStep DEF BecomeFollower, storages
<1>2. ASSUME NEW i \in Instances,
             \/ StateCheck(c, i) \/ StateCheckFails(c, i) \/ CallbackReturns(c, i)
             \/ InstanceFailCallback(c, i) \/ InstanceSuccessMain(c, i)
             \/ InstanceSuccessReplica(c, i) \/ DemoteInstanceToReplica(c, i)
             \/ SetReplicationInstanceToMain(c, i)
      PROVE  IInv'
  BY <1>2, CheckStep, FailCallbackStep, SuccessMainStep, SuccessReplicaStep,
     DemoteInstanceStep, SetMainStep
<1>. QED
  BY <1>1, <1>2, StartPromotionStep, CallStep, DemoteStep, SwapStep, ChooseStep,
     TryFailoverStep, BecomeLeaderStep, ReconcileStep
  DEF Coordinator

-----------------------------------------------------------------------------
(* The cluster as it was set up: one main.                                  *)
LEMMA InitIInv == Init => IInv
<1>. SUFFICES ASSUME Init PROVE IInv
  OBVIOUS
<1>1. RaftInv
  <2>1. raft = <<[main |-> FirstMain, uuid |-> 1]>>
    BY DEF Init
  <2>2. [main |-> FirstMain, uuid |-> 1] \in Entries
    BY FailoverAssumption DEF Entries
  <2>3. raft \in Seq(Entries) /\ DOMAIN raft = {1} /\ raft[1].uuid = 1
    BY <2>1, <2>2
  <2>4. view \in [Coordinators -> {1}]
    BY DEF Init
  <2>. QED BY <2>3, <2>4 DEF RaftInv
<1>2. TaskInv
  BY IdleOK DEF Init, TaskInv
<1>3. ASSUME NEW i \in Instances PROVE InstOK(i, inst[i], clients[i], job[i], raft)
  <2>1. /\ inst[i].main = (i = FirstMain) /\ inst[i].writing = (i = FirstMain)
        /\ inst[i].uuid = 1 /\ Fields \subseteq DOMAIN inst[i]
    BY DEF Init, Fields
  <2>2. job[i] = NoJob /\ "op" \in DOMAIN job[i]
    BY DEF Init, NoJob
  <2>3. i # FirstMain => DOMAIN clients[i] = {}
    BY DEF Init, NoClients
  <2>4. MadeFor(raft, 1, FirstMain)
    BY DEF Init, MadeFor
  <2>. QED BY <2>1, <2>2, <2>3, <2>4 DEF InstOK
<1>4. DOMAIN inst = Instances /\ DOMAIN clients = Instances /\ DOMAIN job = Instances
  BY DEF Init
<1>. QED BY <1>1, <1>2, <1>3, <1>4 DEF IInv, InstInv

(* Every step keeps the invariant.                                          *)
LEMMA NextIInv == IInv /\ [Next]_vars => IInv'
<1>1. ASSUME IInv, UNCHANGED vars PROVE IInv'
  BY <1>1, StutterStep DEF vars
<1>. QED BY <1>1, InstanceStep, CoordinatorStep DEF Next

\* The invariant holds in every state.
LEMMA Inductive == Spec => []IInv
BY InitIInv, NextIInv, PTL DEF Spec

\* Raft names instances, a coordinator's view is a committed state, and only a
\* main has replication clients and may have writing enabled.
THEOREM FailoverTypes == Spec => []TypeOK
<1>1. IInv => TypeOK
  <2>. SUFFICES ASSUME IInv PROVE TypeOK
    OBVIOUS
  <2>1. \A k \in DOMAIN raft : raft[k].main \in Instances \cup {Nobody}
    <3>1. raft \in Seq(Entries)
      BY DEF IInv, RaftInv
    <3>2. \A k \in DOMAIN raft : raft[k] \in Entries
      BY <3>1
    <3>. QED BY <3>2 DEF Entries
  <2>2. view \in [Coordinators -> DOMAIN raft]
    BY DEF IInv, RaftInv
  <2>. QED BY <2>1, <2>2 DEF TypeOK, IInv, InstInv, InstOK
<1>. QED BY <1>1, Inductive, PTL

\* Whatever calls a deposed leader still makes, and in whatever order instances
\* crash, are promoted and demoted, two instances that may write never have the
\* same uuid (TryFailover, PromoteToMainHandler, SwapMainUUIDHandler).
THEOREM WritersHaveOwnUuid == Spec => []OneMainPerUuid
<1>1. IInv => OneMainPerUuid
  <2>. SUFFICES ASSUME IInv, NEW i \in Instances, NEW j \in Instances,
                       inst[i].writing, inst[j].writing, inst[i].uuid = inst[j].uuid
                PROVE  i = j
    BY DEF OneMainPerUuid
  <2>1. MadeFor(raft, inst[i].uuid, i) /\ MadeFor(raft, inst[j].uuid, j)
    BY InstFacts DEF IInv, InstOK
  <2>. QED BY <2>1 DEF MadeFor
<1>. QED BY <1>1, Inductive, PTL

\* Every instance that is main, deposed or not, has the uuid of a committed
\* cluster state that names that instance: no promotion ever gives an instance
\* the uuid of another one's term (TryFailover, SetReplicationInstanceToMain).
MainsWereNamed ==
  \A i \in Instances : inst[i].main =>
    \E k \in DOMAIN raft : raft[k].main = i /\ raft[k].uuid = inst[i].uuid

\* PromoteToMainHandler: no instance is main that raft never named, not even
\* through the late call of a deposed leader.
THEOREM MainsAreNamedByRaft == Spec => []MainsWereNamed
<1>1. IInv => MainsWereNamed
  <2>. SUFFICES ASSUME IInv, NEW i \in Instances, inst[i].main
                PROVE  \E k \in DOMAIN raft : raft[k].main = i /\ raft[k].uuid = inst[i].uuid
    BY DEF MainsWereNamed
  <2>1. inst[i].uuid \in DOMAIN raft /\ raft[inst[i].uuid].main = i
    BY InstFacts DEF IInv, InstOK, MadeFor
  <2>. QED BY <2>1, NobodyElse DEF IInv, RaftInv
<1>. QED BY <1>1, Inductive, PTL

=============================================================================

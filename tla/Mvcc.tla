-------------------------------- MODULE Mvcc --------------------------------
(***************************************************************************)
(* Transactions of the in-memory storage and its garbage collector:        *)
(* inmemory/storage.cpp (CreateTransaction, CreateEdge,                    *)
(* PrepareForCommitPhase, FinalizeCommitPhase, Abort, FinalizeTransaction, *)
(* CollectGarbage), vertex_accessor.cpp (reads, SetProperty).              *)
(*                                                                         *)
(* One step is what runs under one lock or is one atomic access: a vertex  *)
(* lock, engine_lock_, the commit log's lock or the lock of one of the     *)
(* garbage lists.  A reader copies a vertex under its lock and walks the   *)
(* deltas afterwards, one per step; the collector unlinks one delta per    *)
(* step; an abort undoes one run of deltas per step.                       *)
(*                                                                         *)
(* The commit log is its abstract specification (module CommitLogSpec): a  *)
(* set of unfinished ids.  Deltas live in one container per transaction    *)
(* (GCDeltas), which moves between the lists: "own" (the transaction has   *)
(* it), "committed", "waiting", "garbage", "linked" and "unlinked" (local  *)
(* to one run of the collector), "freed".                                  *)
(***************************************************************************)
EXTENDS DeltaChain

CONSTANTS
  EdgeEnds,     \* the pairs of vertices between which edges are created
  Settable,     \* the vertices whose property is written
  Writers,      \* the transactions that write; the others only read
  Commands,     \* the transactions that run more than one command
  MaxCommand    \* bound: the last command id of a transaction

ASSUME MvccConstants ==
  /\ EdgeEnds \subseteq Vertices \X Vertices /\ Settable \subseteq Vertices
  /\ MaxCommand \in Nat

VARIABLES
  timestamp,    \* Storage::timestamp_
  open,         \* the ids commit_log_ holds as not finished, of those handed out
  engine,       \* the transaction that holds engine_lock_ between two steps
  rd,           \* the read a transaction is in
  gc,           \* the collector
  db,           \* history: the committed value of every vertex
  snap          \* history: what db was when a transaction started

vars == <<tx, dl, vx, timestamp, open, engine, rd, gc, db, snap>>

Min(S) == CHOOSE x \in S : \A y \in S : x <= y
Max(S) == CHOOSE x \in S : \A y \in S : x >= y

OldestActive(ids) == Min(ids \cup {timestamp})

NewTx == [pc |-> "new", start |-> 0, ts |-> 0, cid |-> 0, n |-> 0, err |-> FALSE,
          nonseq |-> FALSE, propagation |-> "NONE", todo |-> {}, i |-> 0,
          where |-> "own", mark |-> 0, unlinkable |-> 0]
NoDelta == [obj |-> Null, act |-> "SET", arg |-> Null, state |-> "SEQUENTIAL",
            cid |-> 0, next |-> Null, prev |-> Null]
Image0 == [val |-> Null, edges |-> {}]

Init ==
  /\ tx = [t \in Txns |-> NewTx]
  /\ dl = [d \in Deltas |-> NoDelta]
  /\ vx = [v \in Vertices |-> [head |-> Null, flag |-> FALSE, val |-> Null,
                               edges |-> {}, readers |-> {}]]
  /\ timestamp = 0 /\ open = {} /\ engine = Null
  /\ rd = [t \in Txns |-> Null]
  /\ gc = [pc |-> "idle", oldest |-> 0, txn |-> Null, i |-> 0]
  /\ db = [v \in Vertices |-> Image0]
  /\ snap = [t \in Txns |-> [v \in Vertices |-> Image0]]

Running(t) == tx[t].pc = "running" /\ rd[t] = Null
EngineFree == engine = Null
Unread(v)  == vx[v].readers = {}     \* the vertex lock can be had for writing

Become(s) == tx' = s.tx /\ dl' = s.dl /\ vx' = s.vx

-----------------------------------------------------------------------------
(* CreateTransaction *)
Begin(t) ==
  /\ tx[t].pc = "new" /\ \A u \in 1 .. t - 1 : tx[u].pc # "new"
  /\ EngineFree
  /\ tx' = [tx EXCEPT ![t].pc = "running", ![t].start = timestamp, ![t].ts = TransactionId(t)]
  /\ open' = open \cup {timestamp}
  /\ timestamp' = timestamp + 1
  /\ snap' = [snap EXCEPT ![t] = db]
  /\ UNCHANGED <<dl, vx, engine, rd, gc, db>>

(* Transaction::command_id, advanced between the parts of a query.         *)
AdvanceCommand(t) ==
  /\ Running(t) /\ t \in Commands /\ tx[t].cid < MaxCommand
  /\ tx' = [tx EXCEPT ![t].cid = @ + 1]
  /\ UNCHANGED <<dl, vx, timestamp, open, engine, rd, gc, db, snap>>

(* VertexAccessor::SetProperty.  A serialization error is all that is left *)
(* of a write that is refused.                                             *)
SetProperty(t, v) ==
  /\ Running(t) /\ ~tx[t].err /\ tx[t].n < MaxDeltas
  /\ Unread(v)
  /\ IF PrepareForWrite(t, v)
     THEN Become(CreateAndLinkDelta(State, t, v, "SET", vx[v].val, "SEQUENTIAL"))
     ELSE tx' = [tx EXCEPT ![t].err = TRUE] /\ UNCHANGED <<dl, vx>>
  /\ UNCHANGED <<timestamp, open, engine, rd, gc, db, snap>>

(* The marks PrepareForNonSequentialWrite leaves on transaction and vertex,*)
(* also when the other end of the edge is refused afterwards.              *)
Prepared(s, t, v, result) ==
  CASE result = "NON_SEQUENTIAL"      -> [s EXCEPT !.tx[t].nonseq = TRUE, !.vx[v].flag = TRUE]
    [] result = "SERIALIZATION_ERROR" -> [s EXCEPT !.tx[t].err = TRUE]
    [] result = "SUCCESS"             -> s

(* InMemoryAccessor::CreateEdge *)
CreateEdge(t, from, to) ==
  /\ Running(t) /\ ~tx[t].err /\ tx[t].n + 1 < MaxDeltas
  /\ Unread(from) /\ Unread(to)
  /\ LET fromResult == PrepareForNonSequentialWrite(t, from)
         fromState  == ComputeDeltaChainState(t, from, fromResult)
         s1 == Prepared(State, t, from, fromResult)
         toResult == PrepareForNonSequentialWrite(t, to)
         toState  == IF to = from THEN fromState ELSE ComputeDeltaChainState(t, to, toResult)
         s2 == IF to = from THEN s1 ELSE Prepared(s1, t, to, toResult)
         s3 == CreateAndLinkDelta(s2, t, from, "EDGE", Null, fromState)
     IN IF fromResult = "SERIALIZATION_ERROR" THEN Become(s1)
        ELSE IF s2.tx[t].err THEN Become(s2)
        ELSE Become(CreateAndLinkDelta(s3, t, to, "EDGE", Null, toState))
  /\ UNCHANGED <<timestamp, open, engine, rd, gc, db, snap>>

-----------------------------------------------------------------------------
(* A read copies the vertex and its head delta under the vertex lock and   *)
(* keeps the lock for the walk if the flag is set (VertexReadLock).        *)
ReadBegin(t, v, view) ==
  /\ Running(t)
  /\ rd' = [rd EXCEPT ![t] = [v |-> v, view |-> view, cur |-> vx[v].head,
                              image |-> [val |-> vx[v].val, edges |-> vx[v].edges]]]
  /\ vx' = IF vx[v].flag THEN [vx EXCEPT ![v].readers = @ \cup {t}] ELSE vx
  /\ UNCHANGED <<tx, dl, timestamp, open, engine, gc, db, snap>>

(* One round of ApplyDeltasForRead. *)
ReadDelta(t) ==
  /\ rd[t] # Null /\ rd[t].cur # Null
  /\ LET r == rd[t]
         d == r.cur
     IN rd' = [rd EXCEPT ![t] =
          IF ~Sees(t, r.view, d) THEN [r EXCEPT !.image = Undo(r.image, d), !.cur = dl[d].next]
          ELSE [r EXCEPT !.cur = IF IsDeltaNonSequential(d) THEN dl[d].next ELSE Null]]
  /\ UNCHANGED <<tx, dl, vx, timestamp, open, engine, gc, db, snap>>

ReadEnd(t) ==
  /\ rd[t] # Null /\ rd[t].cur = Null
  /\ vx' = [vx EXCEPT ![rd[t].v].readers = @ \ {t}]
  /\ rd' = [rd EXCEPT ![t] = Null]
  /\ UNCHANGED <<tx, dl, timestamp, open, engine, gc, db, snap>>

-----------------------------------------------------------------------------
(* PrepareForCommitPhase without deltas: the start timestamp is reported.  *)
CommitNothing(t) ==
  /\ Running(t) /\ ~tx[t].err /\ tx[t].n = 0
  /\ open' = open \ {tx[t].start}
  /\ tx' = [tx EXCEPT ![t].pc = "end"]
  /\ UNCHANGED <<dl, vx, timestamp, engine, rd, gc, db, snap>>

Writes(t, v, act) == {d \in Deltas : d[1] = t /\ d[2] <= tx[t].n
                                       /\ dl[d].obj = v /\ dl[d].act = act}
(* The value of a vertex with the given writes of t on top of image.       *)
Newest(S) == CHOOSE d \in S : \A e \in S : d[2] >= e[2]
Overlay(image, sets, edges) ==
  [val |-> IF sets = {} THEN image.val ELSE Newest(sets), edges |-> image.edges \cup edges]

(* PrepareForCommitPhase and FinalizeCommitPhase up to the store that      *)
(* makes the transaction visible.  engine_lock_ is held until FinishCommit.*)
StoreCommitTimestamp(t) ==
  /\ Running(t) /\ ~tx[t].err /\ tx[t].n > 0
  /\ EngineFree
  /\ engine' = t
  /\ open' = open \cup {timestamp}
  /\ timestamp' = timestamp + 1
  /\ tx' = [tx EXCEPT ![t].pc = "stored", ![t].ts = timestamp]
  /\ db' = [v \in Vertices |-> Overlay(db[v], Writes(t, v, "SET"), Writes(t, v, "EDGE"))]
  /\ UNCHANGED <<dl, vx, rd, gc, snap>>

(* Mutant: what prev points to is taken for the vertex.                    *)
PrevsToCheck(t) == {dl[d].prev : d \in {e \in Deltas : e[1] = t /\ e[2] <= tx[t].n}}

(* non_seq_propagation becomes HANDLED; if the transaction has, or was     *)
(* given, non-sequential deltas it will look at the flag of the vertices   *)
(* where one of its deltas is the head or is non-sequential.               *)
VerticesToCheck(t) ==
  {dl[d].obj : d \in {e \in Deltas : /\ e[1] = t /\ e[2] <= tx[t].n
                                     /\ dl[e].prev \in Vertices \/ IsDeltaNonSequential(e)}}

HandlePropagation(t) ==
  /\ tx[t].pc = "stored"
  /\ tx' = [tx EXCEPT ![t].pc = "flags", ![t].propagation = "HANDLED",
              ![t].todo = IF tx[t].nonseq \/ tx[t].propagation = "PENDING"
                          THEN VerticesToCheck(t) ELSE {}]
  /\ UNCHANGED <<dl, vx, timestamp, open, engine, rd, gc, db, snap>>

(* Mutant: a commit clears the flag.                                       *)
ClearFlag(t, v) ==
  /\ tx[t].pc = "flags" /\ v \in tx[t].todo
  /\ Unread(v)
  /\ vx' = [vx EXCEPT ![v].flag = FALSE]
  /\ tx' = [tx EXCEPT ![t].todo = @ \ {v}]
  /\ UNCHANGED <<dl, timestamp, open, engine, rd, gc, db, snap>>

RefreshFlag(t, v) ==
  /\ tx[t].pc = "flags" /\ v \in tx[t].todo
  /\ Unread(v)
  /\ vx' = [vx EXCEPT ![v].flag = @ /\ HasUncommittedNonSequentialDeltas(Chain(vx[v].head), t)]
  /\ tx' = [tx EXCEPT ![t].todo = @ \ {v}]
  /\ UNCHANGED <<dl, timestamp, open, engine, rd, gc, db, snap>>

(* CheckForFastDiscardOfDeltas, GCRapidDeltaCleanup, UnlinkAndRemoveDeltas:*)
(* the only transaction there is, and the newest ever, empties every list  *)
(* at once.  ids is what is open once the start timestamp is reported.     *)
MayDiscard(t, ids) ==
  /\ OldestActive(ids) = tx[t].ts
  /\ \A u \in Txns : u > t => tx[u].pc = "new"
  /\ gc.pc = "idle"

Discarded(t) == {u \in Txns : u = t \/ tx[u].where \in {"committed", "waiting"}}
Heads(S)     == {v \in Vertices : \E d \in Deltas : d[1] \in S /\ d[2] <= tx[d[1]].n /\ dl[d].prev = v}

FastDiscard(t) ==
  /\ tx' = [u \in Txns |->
              IF u = t THEN [tx[t] EXCEPT !.pc = "finalize", !.where = "freed"]
              ELSE IF tx[u].where \in {"committed", "waiting", "garbage"}
                   THEN [tx[u] EXCEPT !.where = "freed"] ELSE tx[u]]
  /\ vx' = [v \in Vertices |-> IF v \in Heads(Discarded(t))
                               THEN [vx[v] EXCEPT !.head = Null, !.flag = FALSE] ELSE vx[v]]

(* The end of FinalizeCommitPhase: the start timestamp is reported.        *)
FinishCommit(t) ==
  /\ tx[t].pc = "flags" /\ tx[t].todo = {}
  /\ open' = open \ {tx[t].start}
  /\ IF MayDiscard(t, open') THEN FastDiscard(t)
     ELSE tx' = [tx EXCEPT ![t].pc = "finalize"] /\ UNCHANGED vx
  /\ engine' = Null
  /\ UNCHANGED <<dl, timestamp, rd, gc, db, snap>>

(* FinalizeTransaction: the commit timestamp is reported first, then the   *)
(* deltas are handed over.                                                 *)
ReportCommitTimestamp(t) ==
  /\ tx[t].pc = "finalize"
  /\ open' = open \ {tx[t].ts}
  /\ tx' = [tx EXCEPT ![t].pc = IF tx[t].where = "freed" THEN "end" ELSE "handover"]
  /\ UNCHANGED <<dl, vx, timestamp, engine, rd, gc, db, snap>>

HandOver(t) ==
  /\ tx[t].pc = "handover"
  /\ tx' = [tx EXCEPT ![t].pc = "end", ![t].unlinkable = tx[t].ts,
                      ![t].where = IF tx[t].nonseq THEN "waiting" ELSE "committed"]
  /\ UNCHANGED <<dl, vx, timestamp, open, engine, rd, gc, db, snap>>

-----------------------------------------------------------------------------
(* Abort, up to the first vertex. *)
AbortBegin(t) ==
  /\ Running(t)
  /\ tx' = [tx EXCEPT ![t].pc = IF tx[t].n = 0 THEN "report" ELSE "aborting",
                      ![t].i = 1, ![t].propagation = "HANDLED"]
  /\ UNCHANGED <<dl, vx, timestamp, open, engine, rd, gc, db, snap>>

(* Mutant: only the newest delta of a run is undone.                       *)
UndoneOnce(image, run) == Undo(image, run[1])

(* process_vertex_deltas: undo the run of own deltas that starts at d and  *)
(* take it out of the chain, at the head or below another's delta.  The    *)
(* flag is computed over what is left; the walk skips all deltas of t, so  *)
(* it is the same over the chain as it was.                                *)
Undone(image, run) ==
  LET after[n \in 0 .. Len(run)] == IF n = 0 THEN image ELSE Undo(after[n - 1], run[n])
  IN after[Len(run)]

ProcessVertexDeltas(t, d) ==
  LET v     == GetVertexFromDelta(d)
      Mine(e) == Own(t, e)
      run   == PrefixWhile(Chain(d), Mine)
      below == dl[run[Len(run)]].next
      above == dl[d].prev
      first == vx[v].head = d
      image == Undone([val |-> vx[v].val, edges |-> vx[v].edges], run)
  IN /\ vx' = [vx EXCEPT
                 ![v].val   = image.val,
                 ![v].edges = image.edges,
                 ![v].head  = IF first THEN below ELSE @,
                 ![v].flag  = @ /\ HasUncommittedNonSequentialDeltas(Chain(vx[v].head), t)]
     /\ dl' = [e \in Deltas |->
                 IF e = below THEN [dl[e] EXCEPT !.prev = IF first THEN v ELSE above]
                 ELSE IF ~first /\ e = above THEN [dl[e] EXCEPT !.next = below]
                 ELSE dl[e]]

HeadsRun(t, d) == dl[d].prev \in Vertices \/ ~Own(t, dl[d].prev)

AbortStep(t) ==
  /\ tx[t].pc = "aborting" /\ tx[t].i <= tx[t].n
  /\ LET d == <<t, tx[t].i>> IN
     IF HeadsRun(t, d)
     THEN Unread(GetVertexFromDelta(d)) /\ ProcessVertexDeltas(t, d)
     ELSE UNCHANGED <<dl, vx>>
  /\ tx' = [tx EXCEPT ![t].i = @ + 1]
  /\ UNCHANGED <<timestamp, open, engine, rd, gc, db, snap>>

(* The deltas go to garbage_undo_buffers_ with the current timestamp.      *)
AbortHandOver(t) ==
  /\ tx[t].pc = "aborting" /\ tx[t].i > tx[t].n
  /\ EngineFree
  /\ tx' = [tx EXCEPT ![t].pc = "report", ![t].where = "garbage", ![t].mark = timestamp]
  /\ UNCHANGED <<dl, vx, timestamp, open, engine, rd, gc, db, snap>>

AbortReport(t) ==
  /\ tx[t].pc = "report"
  /\ open' = open \ {tx[t].start}
  /\ tx' = [tx EXCEPT ![t].pc = "end"]
  /\ UNCHANGED <<dl, vx, timestamp, engine, rd, gc, db, snap>>

-----------------------------------------------------------------------------
(* CollectGarbage: the horizon, read once. *)
GcBegin ==
  /\ gc.pc = "idle"
  /\ gc' = [gc EXCEPT !.pc = "room", !.oldest = OldestActive(open)]
  /\ UNCHANGED <<tx, dl, vx, timestamp, open, engine, rd, db, snap>>

(* The waiting room: a container leaves it once every non-sequential delta *)
(* reachable from its own is committed.                                    *)
Contributors(t) ==
  LET NonSeq(d) == IsDeltaNonSequential(d)
      From(d)   == PrefixWhile(Chain(d), NonSeq)
  IN UNION {{From(d)[k] : k \in DOMAIN From(d)} : d \in {e \in Deltas : e[1] = t /\ e[2] <= tx[t].n}}

(* Mutant: a container waits for others that began after it.               *)
GcWaitingRoomStuck ==
  /\ gc.pc = "room"
  /\ tx' = [t \in Txns |->
       IF tx[t].where = "waiting" /\ \A d \in Contributors(t) : d[1] = t \/ TsOf(d) < tx[t].start
       THEN [tx[t] EXCEPT !.where = "committed", !.unlinkable = tx[t].ts]
       ELSE tx[t]]
  /\ gc' = [gc EXCEPT !.pc = "pop"]
  /\ UNCHANGED <<dl, vx, timestamp, open, engine, rd, db, snap>>

GcWaitingRoom ==
  /\ gc.pc = "room"
  /\ tx' = [t \in Txns |->
       IF tx[t].where = "waiting" /\ \A d \in Contributors(t) : Committed(d)
       THEN [tx[t] EXCEPT !.where = "committed",
                          !.unlinkable = Max({tx[t].ts} \cup {TsOf(d) : d \in Contributors(t)})]
       ELSE tx[t]]
  /\ gc' = [gc EXCEPT !.pc = "pop"]
  /\ UNCHANGED <<dl, vx, timestamp, open, engine, rd, db, snap>>

(* Mutant: garbage is freed without looking at its mark.                   *)
GcPopAll ==
  /\ gc.pc = "pop" /\ EngineFree
  /\ tx' = [t \in Txns |->
       CASE tx[t].where = "garbage"   -> [tx[t] EXCEPT !.where = "freed"]
         [] tx[t].where = "committed" -> [tx[t] EXCEPT !.where = "linked"]
         [] OTHER -> tx[t]]
  /\ gc' = [gc EXCEPT !.pc = "unlink"]
  /\ UNCHANGED <<dl, vx, timestamp, open, engine, rd, db, snap>>

(* Old garbage is freed and committed_transactions_ is swapped out.        *)
GcPop ==
  /\ gc.pc = "pop" /\ EngineFree
  /\ tx' = [t \in Txns |->
       IF /\ tx[t].where = "garbage"
          /\ timestamp = gc.oldest \/ tx[t].mark <= gc.oldest
       THEN [tx[t] EXCEPT !.where = "freed"]
       ELSE IF tx[t].where = "committed" THEN [tx[t] EXCEPT !.where = "linked"] ELSE tx[t]]
  /\ gc' = [gc EXCEPT !.pc = "unlink"]
  /\ UNCHANGED <<dl, vx, timestamp, open, engine, rd, db, snap>>

Unlinkable(t) == tx[t].where = "linked" /\ tx[t].unlinkable < gc.oldest

(* One delta of a container that no active transaction needs.              *)
GcUnlinkDelta(d) ==
  LET p == dl[d].prev
      v == GetVertexFromDelta(d)
      active == TsOf(p) >= gc.oldest
  IN \/ /\ p \in Vertices
        /\ Unread(v)
        /\ vx' = [vx EXCEPT ![v].head = Null, ![v].flag = FALSE]
        /\ UNCHANGED dl
     \/ /\ p \notin Vertices
        /\ p[1] # d[1] /\ active => Unread(v)
        /\ dl' = IF p[1] # d[1] /\ (active \/ IsDeltaNonSequential(p))
                 THEN [dl EXCEPT ![p].next = Null] ELSE dl
        /\ UNCHANGED vx

GcUnlink(t) ==
  /\ gc.pc = "unlink"
  /\ Unlinkable(t)
  /\ gc.txn \in {Null, t}
  /\ LET i == IF gc.txn = t THEN gc.i + 1 ELSE 1 IN
     /\ GcUnlinkDelta(<<t, i>>)
     /\ gc' = [gc EXCEPT !.txn = IF i = tx[t].n THEN Null ELSE t, !.i = IF i = tx[t].n THEN 0 ELSE i]
     /\ tx' = IF i = tx[t].n THEN [tx EXCEPT ![t].where = "unlinked"] ELSE tx
  /\ UNCHANGED <<timestamp, open, engine, rd, db, snap>>

(* The rest goes back; what was unlinked is freed at once if nobody can    *)
(* have seen it, and becomes garbage otherwise.                            *)
GcEnd ==
  /\ gc.pc = "unlink" /\ gc.txn = Null /\ \A t \in Txns : ~Unlinkable(t)
  /\ EngineFree
  /\ tx' = [t \in Txns |->
       CASE tx[t].where = "unlinked" ->
              IF timestamp = gc.oldest THEN [tx[t] EXCEPT !.where = "freed"]
              ELSE [tx[t] EXCEPT !.where = "garbage", !.mark = timestamp]
         [] tx[t].where = "linked" -> [tx[t] EXCEPT !.where = "committed"]
         [] OTHER -> tx[t]]
  /\ gc' = [gc EXCEPT !.pc = "idle"]
  /\ UNCHANGED <<dl, vx, timestamp, open, engine, rd, db, snap>>

-----------------------------------------------------------------------------
Commit(t) ==
  \/ CommitNothing(t) \/ StoreCommitTimestamp(t) \/ HandlePropagation(t)
  \/ \E v \in Vertices : RefreshFlag(t, v)
  \/ FinishCommit(t) \/ ReportCommitTimestamp(t) \/ HandOver(t)
Abort(t) == AbortBegin(t) \/ AbortStep(t) \/ AbortHandOver(t) \/ AbortReport(t)
Write(t) == /\ t \in Writers
            /\ \/ \E v \in Settable : SetProperty(t, v)
               \/ \E e \in EdgeEnds : CreateEdge(t, e[1], e[2])
Read(t)  == ReadDelta(t) \/ ReadEnd(t)
               \/ \E v \in Vertices, view \in {"OLD", "NEW"} : ReadBegin(t, v, view)
CollectGarbage == GcBegin \/ GcWaitingRoom \/ GcPop \/ GcEnd \/ \E t \in Txns : GcUnlink(t)

Transaction(t) ==
  Begin(t) \/ AdvanceCommand(t) \/ Write(t) \/ Read(t) \/ Commit(t) \/ Abort(t)

Next == CollectGarbage \/ \E t \in Txns : Transaction(t)
Spec == Init /\ [][Next]_vars

(* Between two runs of the collector (they are storage_gc.interval apart). *)
SpecBetweenRuns == Init /\ [][\E t \in Txns : Transaction(t)]_vars

(* The gc runner comes round again and again.  Nobody has to do anything   *)
(* else: EventuallyFreed assumes that transactions have ended.             *)
Fairness == WF_vars(CollectGarbage)

-----------------------------------------------------------------------------
Pointers == Deltas \cup {Null}
Images == [val : Pointers, edges : SUBSET Deltas]
Wheres == {"own", "committed", "waiting", "garbage", "linked", "unlinked", "freed"}
Timestamps == 0 .. 2 * N

TypeOK ==
  /\ tx \in [Txns -> [
       pc : {"new", "running", "stored", "flags", "finalize", "handover",
             "aborting", "report", "end"},
       start : Timestamps, ts : 0 .. 3 * N, cid : 0 .. MaxCommand, n : 0 .. MaxDeltas,
       err : BOOLEAN, nonseq : BOOLEAN, propagation : {"NONE", "PENDING", "HANDLED"},
       todo : SUBSET Vertices, i : Nat, where : Wheres,
       mark : Timestamps, unlinkable : Timestamps]]
  /\ dl \in [Deltas -> [obj : Vertices \cup {Null}, act : {"SET", "EDGE"}, arg : Pointers,
                        state : {"SEQUENTIAL", "NON_SEQUENTIAL", "FORCED_SEQUENTIAL"},
                        cid : 0 .. MaxCommand, next : Pointers, prev : Pointers \cup Vertices]]
  /\ vx \in [Vertices -> [head : Pointers, flag : BOOLEAN, val : Pointers,
                          edges : SUBSET Deltas, readers : SUBSET Txns]]
  /\ timestamp \in Timestamps /\ open \subseteq Timestamps
  /\ engine \in Txns \cup {Null}
  /\ \A t \in Txns : rd[t] # Null =>
       rd[t] \in [v : Vertices, view : {"OLD", "NEW"}, cur : Pointers, image : Images]
  /\ gc \in [pc : {"idle", "room", "pop", "unlink"}, oldest : Timestamps,
             txn : Txns \cup {Null}, i : 0 .. MaxDeltas]
  /\ db \in [Vertices -> Images]
  /\ snap \in [Txns -> [Vertices -> Images]]

Freed(d) == tx[d[1]].where = "freed"

(* What the read t is in must return: the database as it was when t began, *)
(* with t's own writes on top (all of them for View::NEW, those of earlier *)
(* commands for View::OLD).                                                *)
Expected(t) ==
  LET Seen(S) == {d \in S : rd[t].view = "NEW" \/ dl[d].cid < tx[t].cid}
      v == rd[t].v
  IN Overlay(snap[t][v], Seen(Writes(t, v, "SET")), Seen(Writes(t, v, "EDGE")))
HasRead(t) == rd[t] # Null /\ rd[t].cur = Null

(* Snapshot isolation, whatever commits, aborts or is collected during the *)
(* walk of ApplyDeltasForRead.  It fails in two ways, both on edges: a     *)
(* write over a chain whose flag is off hides an older non-sequential      *)
(* delta from the walk, and an abort that turns the flag off lets a reader *)
(* go on without the lock while it takes out its second run of deltas.     *)
ReadsSnapshot == \A t \in Txns : HasRead(t) => rd[t].image = Expected(t)

(* What is left of it: the property is that of the snapshot with the       *)
(* reader's own writes, and no edge of it is missing.  Only edges of       *)
(* others may be too many.                                                 *)
ReadsProperty ==
  \A t \in Txns : HasRead(t) => /\ rd[t].image.val = Expected(t).val
                                /\ Expected(t).edges \subseteq rd[t].image.edges

(* No reader stands on a delta that was freed, and no vertex has one as    *)
(* its head: two-phase collection (unlink, then free what was marked       *)
(* before every active transaction) and the locks of VertexReadLock.       *)
NoDanglingRead ==
  /\ \A t \in Txns : rd[t] # Null /\ rd[t].cur # Null => ~Freed(rd[t].cur)
  /\ \A v \in Vertices : vx[v].head # Null => ~Freed(vx[v].head)

(* First committer wins: of two committed transactions that wrote the      *)
(* property of one vertex, one had committed before the other began.       *)
HasCommitted(t) == tx[t].pc # "new" /\ tx[t].ts < kTransactionInitialId
NoLostUpdate ==
  \A t, u \in Txns : \A v \in Vertices :
    /\ t # u /\ HasCommitted(t) /\ HasCommitted(u)
    /\ Writes(t, v, "SET") # {} /\ Writes(u, v, "SET") # {}
    => tx[t].ts < tx[u].start \/ tx[u].ts < tx[t].start

(* Aborts leave nothing behind and take nothing along: a vertex that no    *)
(* unfinished transaction has written holds exactly the committed value.   *)
Unsettled(v) ==
  \E t \in Txns : /\ tx[t].pc \in {"running", "aborting"}
                  /\ Writes(t, v, "SET") \cup Writes(t, v, "EDGE") # {}
AbortRestores ==
  \A v \in Vertices : ~Unsettled(v) => vx[v].val = db[v].val /\ vx[v].edges = db[v].edges

(* The flag is never off while the chain holds a non-sequential delta of a *)
(* transaction at work: PrepareForWrite and the readers trust it instead   *)
(* of walking the chain.  (An abort under way passes over its own deltas   *)
(* and may turn the flag off while some are left; the steps to come undo   *)
(* them.)                                                                  *)
FlagCovers ==
  \A v \in Vertices :
    (\E d \in InChain(v) : tx[d[1]].pc = "running" /\ IsDeltaNonSequential(d)) => vx[v].flag

(* Nothing leaks: once no transaction is under way for good, every delta   *)
(* ends up freed, from whichever list it was in.                           *)
Quiet == \A t \in Txns : tx[t].pc \in {"new", "end"}
EventuallyFreed ==
  <>[]Quiet => <>[](\A t \in Txns : tx[t].n > 0 => tx[t].where = "freed")
=============================================================================

--------------------------- MODULE MvccInvariants ---------------------------
(***************************************************************************)
(* The inductive invariants of Mvcc, IInv and JInv, that MvccProofs proves *)
(* of every reachable state.                                               *)
(*                                                                         *)
(* A write looks at the head delta and at the flag of its vertex only.     *)
(* That this is enough to refuse the second of two property writers rests  *)
(* on the shape of the chains, which edge creations, aborts out of the     *)
(* middle and the collector change at the same time.  IInv has three parts.*)
(*   Types     every variable is in its domain.                            *)
(*   Clock     the clock counts the transactions that began and those that *)
(*             took a commit timestamp, ids are in use by one transaction  *)
(*             only, and the horizon of the collector is not above the     *)
(*             start of a transaction at work.                             *)
(*   Coherent  pointers lead to deltas of the same vertex (Shape), next to *)
(*             older and prev to newer ones (Ordered), back links and      *)
(*             heads agree (BackLinked, HeadLinked); nobody gets on top of *)
(*             an uncommitted property write (WriterOnTop, Interleaved); a *)
(*             committed one that somebody at work may not have seen is    *)
(*             still reached from the head over deltas that are no older   *)
(*             (Covered), so that a head older than a transaction's start  *)
(*             means that every property write is; a head that is closed   *)
(*             to others was put there by a transaction that began after   *)
(*             the last committed property write (ClosedIsLast).           *)
(* The rest is about all that a chain holds.  JInv adds three parts to     *)
(* IInv.                                                                   *)
(*   Woven     no uncommitted delta is ever cut off from the head: there   *)
(*             is a linked stretch from the head down to it, and what is   *)
(*             committed on that stretch committed after its transaction   *)
(*             began (Threaded); links are mutual along it (Forward,       *)
(*             HeadBacked); below a delta that is closed to others the     *)
(*             deltas of a transaction are together (Solo), and next leads *)
(*             to older ones (Aged).                                       *)
(*   Flagged   a vertex with a non-sequential delta of a transaction at    *)
(*             work has its flag on.                                       *)
(*   Stored    a vertex holds the committed state with what is neither     *)
(*             committed nor undone, and every property write that is not  *)
(*             committed keeps the value that was there before it.         *)
(***************************************************************************)
EXTENDS Mvcc

-----------------------------------------------------------------------------
(* Types.                                                                  *)

Phases == {"new", "running", "stored", "flags", "finalize", "handover",
           "aborting", "report", "end"}
Propagations == {"NONE", "PENDING", "HANDLED"}
TxRecords ==
  [pc : Phases,
   start : Timestamps, ts : 0 .. 3 * N, cid : 0 .. MaxCommand, n : 0 .. MaxDeltas,
   err : BOOLEAN, nonseq : BOOLEAN, propagation : Propagations,
   todo : SUBSET Vertices, i : Nat, where : Wheres,
   mark : Timestamps, unlinkable : Timestamps]
DeltaRecords ==
  [obj : Vertices \cup {Null}, act : {"SET", "EDGE"}, arg : Pointers,
   state : {"SEQUENTIAL", "NON_SEQUENTIAL", "FORCED_SEQUENTIAL"},
   cid : 0 .. MaxCommand, next : Pointers, prev : Pointers \cup Vertices]
VertexRecords ==
  [head : Pointers, flag : BOOLEAN, val : Pointers, edges : SUBSET Deltas, readers : SUBSET Txns]
Reads == [v : Vertices, view : {"OLD", "NEW"}, cur : Pointers, image : Images]
GcRecords == [pc : {"idle", "room", "pop", "unlink"}, oldest : Timestamps,
              txn : Txns \cup {Null}, i : 0 .. MaxDeltas]

Types ==
  /\ tx \in [Txns -> TxRecords] /\ dl \in [Deltas -> DeltaRecords]
  /\ vx \in [Vertices -> VertexRecords]
  /\ timestamp \in Timestamps /\ open \subseteq Timestamps
  /\ engine \in Txns \cup {Null}
  /\ rd \in [Txns -> Reads \cup {Null}]
  /\ gc \in GcRecords
  /\ db \in [Vertices -> Images] /\ snap \in [Txns -> [Vertices -> Images]]

-----------------------------------------------------------------------------
(* What holds of the chains: T, D, X and g are tx, dl, vx and gc, so that  *)
(* an action that links two deltas can be taken apart.                     *)

Alive(T, t) == T[t].pc = "running"
Done(T, t)  == T[t].pc # "new" /\ T[t].ts < kTransactionInitialId

Created(T, d)     == d[2] <= T[d[1]].n
Wrote(T, D, t, v) == \E d \in Deltas : d[1] = t /\ Created(T, d) /\ D[d].obj = v /\ D[d].act = "SET"
NonSeq(D, d)      == D[d].act = "EDGE" /\ D[d].state = "NON_SEQUENTIAL"

(* In the chain for good, or not yet undone.                               *)
Attached(T, d) ==
  /\ Created(T, d)
  /\ \/ Alive(T, d[1]) \/ Done(T, d[1])
     \/ T[d[1]].pc = "aborting" /\ T[d[1]].i <= d[2]

(* The collector has not come to it.                                       *)
InUse(T, g, d) ==
  /\ T[d[1]].where \in {"own", "committed", "waiting", "linked"}
  /\ ~(g.txn = d[1] /\ d[2] <= g.i)

(* Pointers lead to deltas of the same vertex.                             *)
Shape(T, D, X) ==
  /\ \A d \in Deltas : ~Created(T, d) => D[d].next = Null /\ D[d].prev = Null
  /\ \A d \in Deltas : Created(T, d) => /\ D[d].obj \in Vertices
                                        /\ D[d].prev \in Deltas \/ D[d].prev = D[d].obj
  /\ \A d \in Deltas : D[d].next \in Deltas => Created(T, D[d].next) /\ D[D[d].next].obj = D[d].obj
  /\ \A d \in Deltas : D[d].prev \in Deltas => Created(T, D[d].prev) /\ D[D[d].prev].obj = D[d].obj
  /\ \A v \in Vertices : X[v].head # Null => Created(T, X[v].head) /\ D[X[v].head].obj = v

(* next leads to older deltas and prev to newer ones.                      *)
Ordered(T, D) ==
  \E r \in [Deltas -> Nat] : \A d \in Deltas :
    /\ D[d].next \in Deltas => r[D[d].next] < r[d]
    /\ Attached(T, d) /\ D[d].prev \in Deltas => r[d] < r[D[d].prev]

(* What hangs below a delta points back to it alone, unless it was cut off.*)
BackLinked(T, D) ==
  /\ \A d \in Deltas : Attached(T, d) /\ D[d].prev \in Deltas => D[D[d].prev].next \in {d, Null}
  /\ \A d, e \in Deltas : Attached(T, d) /\ Attached(T, e) /\ D[d].prev \in Deltas
                           /\ D[d].prev = D[e].prev => d = e

(* A delta that points back to its vertex is the vertex's head.            *)
HeadLinked(T, D, X, g) ==
  \A d \in Deltas : Attached(T, d) /\ InUse(T, g, d) /\ D[d].prev \in Vertices => X[D[d].obj].head = d

(* Only edge creations that are open to others lie below another's delta.  *)
Interleaved(T, D) ==
  \A d \in Deltas :
    D[d].next \in Deltas /\ D[d].next[1] # d[1] /\ Alive(T, D[d].next[1]) => NonSeq(D, D[d].next)

(* Nobody gets on top of an uncommitted property write.                    *)
WriterOnTop(T, D, X) ==
  \A t \in Txns : \A v \in Vertices :
    Alive(T, t) /\ Wrote(T, D, t, v) =>
      /\ X[v].head # Null /\ X[v].head[1] = t
      /\ D[X[v].head].act = "SET" \/ D[X[v].head].state = "FORCED_SEQUENTIAL"

(* Whoever is at work began after t had committed.                         *)
Past(T, t) == \A u \in Txns : Alive(T, u) => T[t].ts < T[u].start

(* A committed property write that somebody at work may not have seen can  *)
(* be reached from the head over deltas that are no older.                 *)
Reaches(T, D, S, h, t) ==
  /\ h \in S
  /\ \A d \in S : T[t].ts <= T[d[1]].ts /\ (d[1] # t => D[d].next \in S)
Covered(T, D, X) ==
  \A t \in Txns : \A v \in Vertices :
    Done(T, t) /\ Wrote(T, D, t, v) =>
      Past(T, t) \/ \E S \in SUBSET Deltas : Reaches(T, D, S, X[v].head, t)

(* A head that is closed to others was put there by a transaction that     *)
(* began after the last committed property write.                          *)
ClosedIsLast(T, D, X) ==
  \A v \in Vertices :
    X[v].head # Null /\ Alive(T, X[v].head[1]) /\ ~NonSeq(D, X[v].head) =>
      \A w \in Txns : w # X[v].head[1] /\ Done(T, w) /\ Wrote(T, D, w, v) =>
        T[w].ts < T[X[v].head[1]].start

(* First committer wins, already while the second is at work.              *)
FirstCommitter(T, D) ==
  \A t, u \in Txns : \A v \in Vertices :
    /\ t # u /\ Done(T, t) /\ (Alive(T, u) \/ Done(T, u))
    /\ Wrote(T, D, t, v) /\ Wrote(T, D, u, v)
    => T[t].ts < T[u].start \/ (Done(T, u) /\ T[u].ts < T[t].start)

Typed(T, D, X) ==
  /\ T \in [Txns -> TxRecords] /\ D \in [Deltas -> DeltaRecords] /\ X \in [Vertices -> VertexRecords]

Coherent(T, D, X, g) ==
  /\ Shape(T, D, X) /\ Ordered(T, D) /\ BackLinked(T, D) /\ HeadLinked(T, D, X, g)
  /\ Interleaved(T, D) /\ WriterOnTop(T, D, X) /\ Covered(T, D, X)
  /\ ClosedIsLast(T, D, X) /\ FirstCommitter(T, D)

-----------------------------------------------------------------------------
(* Ids and life cycles.                                                    *)

(* What the record r of t says, when the clock is at now and ids are open. *)
Sound(t, r, now, ids, g) ==
  /\ r.pc = "new" => r.n = 0 /\ r.ts = 0 /\ r.where = "own"
  /\ r.pc \in {"running", "aborting", "report"} => r.ts = TransactionId(t)
  /\ r.pc \in {"stored", "flags", "finalize", "handover"} => r.ts < kTransactionInitialId
  /\ r.pc = "end" => r.ts < kTransactionInitialId \/ r.ts = TransactionId(t)
  /\ r.pc # "new" => r.start < now
  /\ r.pc # "new" /\ r.ts < kTransactionInitialId => r.start < r.ts /\ r.ts < now
  /\ r.pc \in {"running", "aborting"} => r.start \in ids
  /\ r.pc \in {"running", "aborting"} /\ g.pc # "idle" => g.oldest <= r.start
  /\ r.pc \in {"stored", "flags", "finalize", "handover", "aborting"} \/ r.where # "own" => r.n > 0
  /\ r.pc \in {"running", "stored", "flags", "handover", "aborting"} => r.where = "own"
  /\ r.pc = "finalize" => r.where \in {"own", "freed"}
  /\ r.where \in {"committed", "waiting", "linked"} =>
       r.pc = "end" /\ r.ts < kTransactionInitialId /\ r.ts <= r.unlinkable
  /\ r.where \in {"linked", "unlinked"} => g.pc = "unlink"
  /\ r.pc = "aborting" => r.i >= 1

(* Transactions begin in order, and nobody shares an id.                   *)
Distinct(T) ==
  /\ \A t, u \in Txns : t < u /\ T[u].pc # "new" => T[t].pc # "new" /\ T[t].start < T[u].start
  /\ \A t, u \in Txns : Done(T, t) /\ T[u].pc # "new" => T[u].start # T[t].ts

Begun(T) == {t \in Txns : T[t].pc # "new"}
Ended(T) == {t \in Txns : Done(T, t)}

GcSound(T, now, g) ==
  /\ g.oldest <= now
  /\ g.txn # Null => /\ g.pc = "unlink" /\ T[g.txn].where = "linked"
                     /\ 1 <= g.i /\ g.i < T[g.txn].n

Clock(T, now, ids, g) ==
  /\ now = Cardinality(Begun(T)) + Cardinality(Ended(T))
  /\ \A t \in Txns : Sound(t, T[t], now, ids, g)
  /\ Distinct(T) /\ GcSound(T, now, g)

IInv == Types /\ Clock(tx, timestamp, open, gc) /\ Coherent(tx, dl, vx, gc)

-----------------------------------------------------------------------------
(* What a chain holds.                                                     *)

OwnPrev(D, z) == D[z].prev \in Deltas /\ D[z].prev[1] = z[1]

(* The abort has undone the run that x was in.                             *)
Gone(T, D, x) ==
  \E z \in Deltas : /\ z[1] = x[1] /\ Created(T, z) /\ D[z].obj = D[x].obj
                    /\ x[2] <= z[2] /\ z[2] < T[x[1]].i /\ ~OwnPrev(D, z)

(* Deltas that are not committed and not undone, and all that are linked.  *)
Pend(T, D, x) ==
  /\ Created(T, x)
  /\ Alive(T, x[1]) \/ (T[x[1]].pc = "aborting" /\ ~Gone(T, D, x))
Present(T, D, x) == Pend(T, D, x) \/ (Created(T, x) /\ Done(T, x[1]))

(* S is the part of the chain from the head to y.  Whatever is committed   *)
(* there was committed after y's transaction began.                        *)
Joined(T, D, X, S, y, x) ==
  /\ Present(T, D, x) /\ D[x].obj = D[y].obj
  /\ x = y \/ (D[x].next \in S /\ D[D[x].next].prev = x)
  /\ \/ D[x].prev \in S /\ D[D[x].prev].next = x
     \/ D[x].prev = D[y].obj /\ X[D[y].obj].head = x
  /\ Done(T, x[1]) => T[y[1]].start < T[x[1]].ts
Thread(T, D, X, S, y) ==
  /\ y \in S /\ X[D[y].obj].head \in S
  /\ \A x \in S : Joined(T, D, X, S, y, x)
  /\ Alive(T, y[1]) /\ NonSeq(D, y) => \A x \in S : NonSeq(D, x)
  /\ D[y].act = "SET" => \A x \in S : /\ x[1] = y[1]
                                      /\ D[x].act = "SET" \/ D[x].state = "FORCED_SEQUENTIAL"

(* No uncommitted delta is ever cut off from the head.                     *)
Threaded(T, D, X) ==
  \A y \in Deltas : Pend(T, D, y) => \E S \in SUBSET Deltas : Thread(T, D, X, S, y)

(* What follows an uncommitted delta points back to it.                    *)
Forward(T, D) ==
  \A x \in Deltas : Pend(T, D, x) /\ D[x].next \in Deltas =>
    D[D[x].next].prev = x /\ Present(T, D, D[x].next)

(* The head points back to its vertex.                                     *)
HeadBacked(T, D, X) ==
  \A v \in Vertices : X[v].head # Null => D[X[v].head].prev = v /\ Present(T, D, X[v].head)

(* Below a delta that is closed to others, a transaction's deltas are      *)
(* together.                                                               *)
Solo(T, D) ==
  \A y, z \in Deltas :
    Pend(T, D, y) /\ z[1] = y[1] /\ D[z].obj = D[y].obj /\ z[2] < y[2] /\ ~NonSeq(D, y) => OwnPrev(D, z)

(* next leads to older deltas, and those of a transaction are numbered.    *)
Aging(T, D, r) ==
  /\ r \in [Deltas -> Nat]
  /\ \A d \in Deltas : D[d].next \in Deltas => r[D[d].next] < r[d]
  /\ \A d, e \in Deltas : Created(T, d) /\ Created(T, e) /\ d[1] = e[1] /\ d[2] < e[2] => r[d] < r[e]
Aged(T, D) == \E r : Aging(T, D, r)

Woven(T, D, X) == /\ Threaded(T, D, X) /\ Forward(T, D) /\ HeadBacked(T, D, X)
                  /\ Solo(T, D) /\ Aged(T, D)

(* The flag of a vertex is on while a transaction at work has a delta      *)
(* there that is open to others.                                           *)
Flagged(T, D, X) ==
  \A y \in Deltas : Pend(T, D, y) /\ Alive(T, y[1]) /\ NonSeq(D, y) => X[D[y].obj].flag

-----------------------------------------------------------------------------
(* What a vertex holds: the committed state with what is not undone.       *)

(* The uncommitted property writes of v.                                   *)
SetsOf(T, D, v) == {x \in Deltas : Pend(T, D, x) /\ D[x].obj = v /\ D[x].act = "SET"}

(* x is the newest of S, or what was there before any of them.             *)
Latest(S, base, x) ==
  /\ S = {} => x = base
  /\ S # {} => x \in S /\ \A e \in S : e[2] <= x[2]

(* The value of a vertex is the newest uncommitted one or else the         *)
(* committed one, and each delta keeps the value that was there before it. *)
ValuesStored(T, D, X, B) ==
  \A v \in Vertices :
    /\ Latest(SetsOf(T, D, v), B[v].val, X[v].val)
    /\ \A y \in SetsOf(T, D, v) : Latest({e \in SetsOf(T, D, v) : e[2] < y[2]}, B[v].val, D[y].arg)

(* The edges are those of the deltas that are linked.                      *)
EdgesStored(T, D, X, B) ==
  \A v \in Vertices : \A e \in Deltas :
    /\ e \in X[v].edges <=> Present(T, D, e) /\ D[e].obj = v /\ D[e].act = "EDGE"
    /\ e \in B[v].edges <=> Created(T, e) /\ Done(T, e[1]) /\ D[e].obj = v /\ D[e].act = "EDGE"

Stored(T, D, X, B) == ValuesStored(T, D, X, B) /\ EdgesStored(T, D, X, B)

(* The chains and vertices of every reachable state.                       *)
JInv == IInv /\ Woven(tx, dl, vx) /\ Flagged(tx, dl, vx) /\ Stored(tx, dl, vx, db)
=============================================================================

----------------------------- MODULE DeltaChain -----------------------------
(***************************************************************************)
(* storage/v2/mvcc.hpp, delta.hpp and the delta helpers of                 *)
(* inmemory/storage.cpp: the undo deltas of a vertex, a doubly linked list *)
(* from the newest to the oldest, and the rules for reading and extending  *)
(* it.  Edge creations of concurrent transactions may interleave in a      *)
(* chain ("non-sequential" deltas); any other write is exclusive.          *)
(*                                                                         *)
(* A vertex has one property and a set of edge entries; properties stand   *)
(* for every write that PrepareForWrite guards (labels, properties).  The  *)
(* new value a write installs, and the edge entry an edge creation adds,   *)
(* are named after its delta.  properties_on_edges is off (no Edge         *)
(* objects), storage mode IN_MEMORY_TRANSACTIONAL, SNAPSHOT_ISOLATION.     *)
(***************************************************************************)
EXTENDS Naturals, FiniteSets, Sequences

CONSTANTS
  N,           \* bound: transactions 1 .. N, in the order they start
  MaxDeltas,   \* bound: deltas of one transaction
  Vertices,    \* the vertices, all created before the first transaction
  Null         \* the null pointer

ASSUME DeltaChainConstants ==
  /\ N \in Nat /\ MaxDeltas \in Nat
  /\ IsFiniteSet(Vertices)

VARIABLES
  tx,   \* the transactions
  dl,   \* the deltas
  vx    \* the vertices: head delta, flag, current property value and edge entries, readers

Txns   == 1 .. N
Deltas == Txns \X (1 .. MaxDeltas)

(* Null points to nothing, and a vertex is not a delta (PreviousPtr keeps  *)
(* the two apart with a tag).                                              *)
ASSUME PointerConstants ==
  /\ Null \notin Vertices \cup Deltas \cup Txns
  /\ Vertices \cap Deltas = {}

(* Commit and start timestamps are below kTransactionInitialId, the        *)
(* timestamp of an uncommitted transaction is its transaction id.          *)
kTransactionInitialId == 2 * N
TransactionId(t)      == kTransactionInitialId + t

TsOf(d)        == tx[d[1]].ts
Committed(d)   == TsOf(d) < kTransactionInitialId
Own(t, d)      == TsOf(d) = TransactionId(t)
CanBeNonSequential(d)   == dl[d].act = "EDGE"
IsDeltaNonSequential(d) == CanBeNonSequential(d) /\ dl[d].state = "NON_SEQUENTIAL"

(* The deltas of the chain that starts at d, in order, following next.     *)
Chain(d) ==
  LET after[n \in 0 .. N * MaxDeltas] ==
        IF n = 0 THEN d ELSE LET e == after[n - 1] IN IF e = Null THEN Null ELSE dl[e].next
      len == Cardinality({n \in 0 .. N * MaxDeltas : after[n] # Null})
  IN [i \in 1 .. len |-> after[i - 1]]

InChain(v) == {Chain(vx[v].head)[i] : i \in DOMAIN Chain(vx[v].head)}

(* The longest prefix of c whose deltas all satisfy P. *)
PrefixWhile(c, P(_)) ==
  SubSeq(c, 1, Cardinality({i \in DOMAIN c : \A j \in 1 .. i : P(c[j])}))

-----------------------------------------------------------------------------
(* Mutant: any committed head may be written over.                         *)
PrepareForWriteCommitted(t, v) ==
  LET h == vx[v].head IN h = Null \/ Own(t, h) \/ (Committed(h) /\ ~vx[v].flag)

(* PrepareForWrite *)
PrepareForWrite(t, v) ==
  LET h == vx[v].head IN
  \/ h = Null
  \/ h # Null /\ Own(t, h) /\ ~IsDeltaNonSequential(h)
  \/ h # Null /\ ~Own(t, h) /\ TsOf(h) < tx[t].start /\ ~vx[v].flag

(* The walk of PrepareForNonSequentialWrite below a head that is active    *)
(* and not an edge creation open to others: it ends at the first           *)
(* non-sequential or inactive delta and fails on a blocking one.           *)
ActiveBlocker(t, v) ==
  LET Open(d)   == Own(t, d) \/ (TsOf(d) >= tx[t].start /\ ~IsDeltaNonSequential(d))
      walked    == PrefixWhile(Chain(vx[v].head), Open)
  IN \E i \in DOMAIN walked : ~Own(t, walked[i]) /\ ~CanBeNonSequential(walked[i])

(* PrepareForNonSequentialWrite, the WriteResult. *)
PrepareForNonSequentialWrite(t, v) ==
  LET h == vx[v].head
      nonSequential == IF h = Null THEN FALSE
                       ELSE IF ~Own(t, h) /\ TsOf(h) < tx[t].start THEN vx[v].flag
                       ELSE IF Own(t, h) THEN IsDeltaNonSequential(h) ELSE TRUE
      fails == /\ h # Null
               /\ ~Own(t, h) /\ TsOf(h) >= tx[t].start /\ ~IsDeltaNonSequential(h)
               /\ \/ CanBeNonSequential(h) /\ dl[h].state = "FORCED_SEQUENTIAL"
                  \/ ActiveBlocker(t, v)
  IN IF fails THEN "SERIALIZATION_ERROR"
     ELSE IF nonSequential THEN "NON_SEQUENTIAL" ELSE "SUCCESS"

(* ShouldSetNonSequentialBlockerUpstreamFlag and ComputeDeltaChainState.   *)
BlockerUpstream(t, v) ==
  LET h == vx[v].head IN
  /\ h # Null /\ Own(t, h)
  /\ CanBeNonSequential(h) => dl[h].state = "FORCED_SEQUENTIAL"

ComputeDeltaChainState(t, v, result) ==
  IF BlockerUpstream(t, v) THEN "FORCED_SEQUENTIAL"
  ELSE IF result = "NON_SEQUENTIAL" THEN "NON_SEQUENTIAL" ELSE "SEQUENTIAL"

-----------------------------------------------------------------------------
(* A configuration of the chains: deltas, vertices and transactions.  The  *)
(* operators below map one to the next, so that an action that links two   *)
(* deltas applies them in turn.                                            *)
State == [tx |-> tx, dl |-> dl, vx |-> vx]

(* CreateAndLinkDelta for a delta of t on v: the new delta becomes the     *)
(* head.  A non-sequential delta on a sequential edge creation makes that  *)
(* one non-sequential too and tells its transaction (non_seq_propagation). *)
CreateAndLinkDelta(s, t, v, act, arg, state) ==
  LET d == <<t, s.tx[t].n + 1>>
      h == s.vx[v].head
      new == [obj |-> v, act |-> act, arg |-> arg, state |-> state,
              cid |-> s.tx[t].cid, next |-> h, prev |-> v]
      spreads == /\ h # Null /\ act = "EDGE" /\ state = "NON_SEQUENTIAL"
                 /\ s.dl[h].act = "EDGE" /\ s.dl[h].state = "SEQUENTIAL"
  IN [tx |-> [u \in Txns |->
                IF u = t THEN [s.tx[t] EXCEPT !.n = @ + 1]
                ELSE IF spreads /\ u = h[1] /\ s.tx[u].propagation = "NONE"
                     THEN [s.tx[u] EXCEPT !.propagation = "PENDING"] ELSE s.tx[u]],
      dl |-> [e \in Deltas |->
                IF e = d THEN new
                ELSE IF e = h THEN [s.dl[h] EXCEPT
                                      !.prev = d,
                                      !.state = IF spreads THEN "NON_SEQUENTIAL" ELSE @]
                ELSE s.dl[e]],
      vx |-> [s.vx EXCEPT
                ![v].head  = d,
                ![v].val   = IF act = "SET" THEN d ELSE @,
                ![v].edges = IF act = "EDGE" THEN @ \cup {d} ELSE @]]

(* HasUncommittedNonSequentialDeltas(vertex, id of t), where c is the      *)
(* chain of the vertex: the walk skips t's own deltas and ends at the      *)
(* first other one that is sequential.                                     *)
HasUncommittedNonSequentialDeltas(c, t) ==
  LET Passed(d) == Own(t, d) \/ (IsDeltaNonSequential(d) /\ Committed(d))
      i == Len(PrefixWhile(c, Passed)) + 1
  IN i <= Len(c) /\ IsDeltaNonSequential(c[i])

(* The vertex a delta hangs from, following prev (DeltaVertexCache): a     *)
(* delta never changes vertices.                                           *)
GetVertexFromDelta(d) == dl[d].obj

-----------------------------------------------------------------------------
(* One undo step on a vertex value: what a delta records.                  *)
Undo(image, d) ==
  IF dl[d].act = "SET" THEN [image EXCEPT !.val = dl[d].arg]
                       ELSE [image EXCEPT !.edges = @ \ {d}]

(* Mutant: View::OLD shows what the current command has written.           *)
SeesCurrentCommand(t, view, d) ==
  TsOf(d) < tx[t].start \/ (Own(t, d) /\ dl[d].cid <= tx[t].cid)

(* ApplyDeltasForRead: the transaction sees d, that is, does not undo it.  *)
Sees(t, view, d) ==
  \/ TsOf(d) < tx[t].start
  \/ Own(t, d) /\ (IF view = "NEW" THEN dl[d].cid <= tx[t].cid ELSE dl[d].cid < tx[t].cid)
=============================================================================

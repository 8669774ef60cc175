----------------------------- MODULE MvccProofs -----------------------------
(***************************************************************************)
(* Proofs about Mvcc: type correctness, "first committer wins", that the   *)
(* flag of a vertex can be trusted and that aborts restore the committed   *)
(* state, for any number of transactions, deltas and commands and any      *)
(* finite set of vertices.                                                 *)
(*                                                                         *)
(* The first half proves IInv of MvccInvariants, from which the first two  *)
(* theorems follow, the second half JInv, for the last two.                *)
(* The walks of the code (Chain, PrefixWhile, Undone) are described by     *)
(* their steps: a least index at which the description fails leads to a    *)
(* contradiction.  There is one lemma per action, named after it.          *)
(***************************************************************************)
EXTENDS MvccInvariants, FiniteSetTheorems, WellFoundedInduction, TLAPS

(* The least element of a set of numbers.                                  *)
LEMMA LeastExists ==
  ASSUME NEW S \in SUBSET Nat, S # {}
  PROVE  \E x \in S : \A y \in S : x <= y
<1> DEFINE R == OpToRel(<, Nat)
<1>1. IsWellFoundedOn(R, Nat)
  BY NatLessThanWellFounded
<1>2. \A x, y \in S : <<y, x>> \in R <=> y < x
  BY DEF OpToRel
<1> HIDE DEF R
<1>3. PICK x \in S : \A y \in S : <<y, x>> \notin R
  BY <1>1, WFMin
<1>4. \A y \in S : ~(y < x)
  BY <1>2, <1>3
<1> QED BY <1>4

(* The greatest element of a bounded one.                                  *)
LEMMA GreatestExists ==
  ASSUME NEW n \in Nat, NEW S \in SUBSET (0..n), S # {}
  PROVE  \E x \in S : \A y \in S : x >= y
<1> DEFINE T == {n - x : x \in S}
<1>0. S \subseteq 0..n
  OBVIOUS
<1>1. T \in SUBSET Nat /\ T # {}
  <2>1. \A x \in S : n - x \in Nat
    BY <1>0
  <2> QED BY <2>1
<1>2. PICK z \in T : \A y \in T : z <= y
  BY <1>1, LeastExists
<1>3. PICK x \in S : z = n - x
  OBVIOUS
<1>4. ASSUME NEW y \in S PROVE x >= y
  <2>1. n - y \in T
    OBVIOUS
  <2>2. n - x <= n - y
    BY <1>2, <1>3, <2>1
  <2> QED BY <1>0, <2>2
<1> QED BY <1>4

(* OldestActive takes a least id.                                          *)
LEMMA MinIsLeast ==
  ASSUME NEW S \in SUBSET Nat, S # {}
  PROVE  Min(S) \in S /\ \A y \in S : Min(S) <= y
BY LeastExists, Zenon DEF Min

(* The waiting room takes the greatest timestamp.                          *)
LEMMA MaxIsGreatest ==
  ASSUME NEW n \in Nat, NEW S \in SUBSET (0..n), S # {}
  PROVE  Max(S) \in S /\ \A y \in S : Max(S) >= y
BY GreatestExists, Zenon DEF Max

(* A set of indices that has, with an index, all those before it.          *)
LEMMA InitialSegment ==
  ASSUME NEW n \in Nat, NEW a \in {0, 1}, NEW S \in SUBSET (a..n), \A i \in S : a..i \subseteq S
  PROVE  Cardinality(S) \in Nat /\ S = a..(Cardinality(S) + a - 1)
<1>0. S \subseteq 0..n
  OBVIOUS
<1>1. CASE S = {}
  <2>1. Cardinality(S) = 0
    BY <1>1, FS_EmptySet
  <2> QED BY <1>1, <2>1
<1>2. CASE S # {}
  <2>1. PICK m \in S : \A y \in S : m >= y
    BY <1>0, <1>2, GreatestExists
  <2>2. S = a..m
    <3>1. a..m \subseteq S
      OBVIOUS
    <3>2. ASSUME NEW y \in S PROVE y \in a..m
      <4>1. y \in a..n /\ m \in a..n /\ m >= y
        BY <2>1
      <4> QED BY <4>1
    <3> QED BY <3>1, <3>2
  <2>3. m \in Int /\ a \in Int /\ a <= m
    OBVIOUS
  <2>4. Cardinality(a..m) = IF a > m THEN 0 ELSE m - a + 1
    BY <2>3, FS_Interval, Zenon
  <2> QED BY <2>2, <2>3, <2>4
<1> QED BY <1>1, <1>2

-----------------------------------------------------------------------------
(* Walks over a chain.                                                     *)

(* The walk from a delta, following next, as far as Chain looks.           *)
Walk(D, d, m) ==
  {g \in [0..m -> Pointers] :
     g[0] = d /\ \A i \in 1..m : g[i] = IF g[i-1] = Null THEN Null ELSE D[g[i-1]].next}

(* Every delta has one.                                                    *)
LEMMA WalkExists ==
  ASSUME NEW D, \A e \in Deltas : D[e].next \in Pointers, NEW d \in Deltas, NEW k \in Nat
  PROVE  Walk(D, d, k) # {}
<1> DEFINE A == {m \in Nat : Walk(D, d, m) = {}}
<1>1. SUFFICES ASSUME A # {} PROVE FALSE
  OBVIOUS
<1>2. PICK m \in A : \A y \in A : m <= y
  BY <1>1, LeastExists
<1>3. m # 0
  <2>1. [i \in 0..0 |-> d] \in Walk(D, d, 0)
    BY DEF Walk, Pointers
  <2> QED BY <2>1
<1>4. m - 1 \in Nat /\ m - 1 \notin A
  BY <1>2, <1>3
<1>5. PICK g : g \in Walk(D, d, m - 1)
  BY <1>4
<1> DEFINE h == [i \in 0..m |-> IF i < m THEN g[i] ELSE IF g[m-1] = Null THEN Null ELSE D[g[m-1]].next]
<1>6. /\ g \in [0..(m-1) -> Pointers] /\ g[0] = d
      /\ \A i \in 1..(m-1) : g[i] = IF g[i-1] = Null THEN Null ELSE D[g[i-1]].next
  BY <1>5 DEF Walk
<1>7. g[m-1] \in Pointers
  BY <1>4, <1>6
<1>8. h \in [0..m -> Pointers]
  BY <1>4, <1>6, <1>7 DEF Pointers
<1>9. h[0] = d
  BY <1>3, <1>6
<1>10. ASSUME NEW i \in 1..m PROVE h[i] = IF h[i-1] = Null THEN Null ELSE D[h[i-1]].next
  <2>1. h[i-1] = g[i-1]
    OBVIOUS
  <2>2. CASE i < m
    BY <1>6, <2>1, <2>2
  <2>3. CASE i = m
    BY <2>1, <2>3
  <2> QED BY <2>2, <2>3
<1>11. h \in Walk(D, d, m)
  BY <1>8, <1>9, <1>10 DEF Walk
<1> QED BY <1>11

(* The deltas Chain lists.                                                 *)
LEMMA ChainFacts ==
  ASSUME \A e \in Deltas : dl[e].next \in Pointers, NEW d \in Deltas
  PROVE  /\ Chain(d) \in Seq(Deltas) /\ Len(Chain(d)) >= 1 /\ Chain(d)[1] = d
         /\ \A i \in 1..(Len(Chain(d)) - 1) : Chain(d)[i+1] = dl[Chain(d)[i]].next
         /\ Len(Chain(d)) <= N * MaxDeltas => dl[Chain(d)[Len(Chain(d))]].next = Null
<1> DEFINE K == N * MaxDeltas
           Step(f) == [n \in 0..K |-> IF n = 0 THEN d
                                      ELSE IF f[n-1] = Null THEN Null ELSE dl[f[n-1]].next]
           after == CHOOSE f : f = Step(f)
           A == {n \in 0..K : after[n] # Null}
           c == [i \in 1..Cardinality(A) |-> after[i - 1]]
<1>1. Chain(d) = c
  BY DEF Chain
<1>2. K \in Nat
  BY DeltaChainConstants
<1> HIDE DEF K
<1>3. PICK g : g \in Walk(dl, d, K)
  BY <1>2, WalkExists
<1>4. g \in [0..K -> Pointers] /\ g = Step(g)
  <2>1. /\ g \in [0..K -> Pointers] /\ g[0] = d
        /\ \A i \in 1..K : g[i] = IF g[i-1] = Null THEN Null ELSE dl[g[i-1]].next
    BY <1>3 DEF Walk
  <2>2. ASSUME NEW n \in 0..K PROVE g[n] = Step(g)[n]
    BY <2>1, <1>2
  <2> QED BY <2>1, <2>2
<1>5. after = Step(after)
  BY <1>4, Zenon
<1> HIDE DEF after
<1>6. after[0] = d /\ \A n \in 1..K : after[n] = IF after[n-1] = Null THEN Null ELSE dl[after[n-1]].next
  BY <1>2, <1>5
<1>7. \A n \in 0..K : after[n] \in Pointers
  <2> DEFINE B == {n \in 0..K : after[n] \notin Pointers}
  <2>1. SUFFICES ASSUME B # {} PROVE FALSE
    OBVIOUS
  <2>2. PICK m \in B : \A y \in B : m <= y
    <3>1. B \in SUBSET Nat
      OBVIOUS
    <3> QED BY <2>1, <3>1, LeastExists
  <2>3. m # 0
    BY <1>6 DEF Pointers
  <2>4. m \in 1..K /\ m - 1 \in 0..K /\ m - 1 \notin B
    BY <1>2, <2>2, <2>3
  <2>5. after[m-1] \in Pointers
    BY <2>4
  <2> QED BY <1>6, <2>4, <2>5 DEF Pointers
<1>8. A \in SUBSET (0..K) /\ \A i \in A : 0..i \subseteq A
  <2>1. SUFFICES ASSUME NEW i \in A PROVE 0..i \subseteq A
    OBVIOUS
  <2> DEFINE B == {n \in 0..K : n <= i /\ after[i - n] = Null}
  <2>2. ASSUME B # {} PROVE FALSE
    <3>1. B \in SUBSET Nat
      OBVIOUS
    <3>2. PICK m \in B : \A y \in B : m <= y
      BY <2>2, <3>1, LeastExists
    <3>3. m # 0 /\ i \in 0..K /\ m \in 0..K /\ m <= i
      BY <1>2
    <3>4. m - 1 \in 0..K /\ m - 1 <= i /\ m - 1 \notin B
      BY <1>2, <3>2, <3>3
    <3>5. after[i - (m - 1)] # Null
      BY <3>4
    <3>6. i - (m - 1) \in 1..K /\ (i - (m - 1)) - 1 = i - m
      BY <1>2, <3>3
    <3> QED BY <1>6, <3>5, <3>6
  <2>3. ASSUME NEW j \in 0..i PROVE j \in A
    <3>1. i - j \in 0..K /\ i - j <= i /\ i - (i - j) = j /\ j \in 0..K
      BY <1>2
    <3> QED BY <2>2, <3>1
  <2> QED BY <2>3
<1>9. \E n \in Nat : n = Cardinality(A) /\ A = 0..(n-1)
  <2> HIDE DEF A
  <2>1. Cardinality(A) \in Nat /\ A = 0..(Cardinality(A) + 0 - 1)
    BY <1>2, <1>8, InitialSegment
  <2> QED BY <2>1
<1>10. PICK l \in Nat : l = Cardinality(A) /\ A = 0..(l-1)
  BY <1>9
<1>11. 0 \in A
  BY <1>2, <1>6, PointerConstants
<1>12. l >= 1
  BY <1>10, <1>11
<1>13. c = [i \in 1..l |-> after[i-1]]
  BY <1>10
<1>14. \A i \in 1..l : i - 1 \in A /\ c[i] = after[i-1] /\ after[i-1] \in Deltas
  <2>1. ASSUME NEW i \in 1..l PROVE i - 1 \in A
    <3>1. i - 1 \in 0..(l-1)
      OBVIOUS
    <3> HIDE DEF A
    <3> QED BY <1>10, <3>1, Zenon
  <2> QED BY <2>1, <1>7, <1>13 DEF Pointers
<1>15. c \in Seq(Deltas) /\ Len(c) = l
  <2> HIDE DEF A, c
  <2>1. c \in [1..l -> Deltas]
    BY <1>13, <1>14
  <2> QED BY <2>1
<1>16. ASSUME NEW i \in 1..(l-1) PROVE c[i+1] = dl[c[i]].next
  <2>1. i \in 1..l /\ i + 1 \in 1..l /\ (i + 1) - 1 = i
    BY <1>10
  <2>2. c[i+1] = after[i] /\ c[i] = after[i-1] /\ i \in A /\ i - 1 \in A
    BY <1>14, <2>1
  <2>3. i \in 1..K
    BY <2>2, <2>1, <1>2
  <2> QED BY <1>6, <2>2, <2>3
<1>17. c[1] = d
  BY <1>12, <1>14, <1>6, <1>10
<1>18. l <= K => dl[c[l]].next = Null
  <2>1. SUFFICES ASSUME l <= K PROVE dl[c[l]].next = Null
    OBVIOUS
  <2>2. l \in 0..K /\ l \notin 0..(l-1) /\ l \in 1..K /\ l \in 1..l
    BY <1>2, <1>10, <1>12, <2>1
  <2>3. l \notin A
    <3> HIDE DEF A
    <3> QED BY <1>10, <2>2, Zenon
  <2>4. after[l] = Null
    BY <2>2, <2>3
  <2>5. c[l] = after[l-1] /\ after[l-1] \in Deltas
    BY <1>14, <2>2
  <2> QED BY <1>6, <2>2, <2>4, <2>5, PointerConstants
<1> HIDE DEF c
<1> QED BY <1>1, <1>12, <1>15, <1>16, <1>17, <1>18 DEF K

(* A walk that goes on while the deltas are in Q.                          *)
LEMMA PrefixFacts ==
  ASSUME NEW c \in Seq(Deltas), NEW Q
  PROVE  LET G == {i \in DOMAIN c : \A j \in 1..i : c[j] \in Q}
             p == SubSeq(c, 1, Cardinality(G))
         IN /\ p \in Seq(Deltas) /\ Len(p) <= Len(c)
            /\ \A i \in 1..Len(p) : p[i] = c[i] /\ c[i] \in Q
            /\ Len(c) >= 1 /\ c[1] \in Q => Len(p) >= 1
            /\ Len(p) < Len(c) => c[Len(p) + 1] \notin Q
<1> DEFINE G == {i \in DOMAIN c : \A j \in 1..i : c[j] \in Q}
           p == SubSeq(c, 1, Cardinality(G))
<1>1. Len(c) \in Nat /\ DOMAIN c = 1..Len(c)
  OBVIOUS
<1>2. G \in SUBSET (1..Len(c)) /\ \A i \in G : 1..i \subseteq G
  BY <1>1
<1>3. \E n \in Nat : n = Cardinality(G) /\ G = 1..n
  <2> HIDE DEF G
  <2>1. Cardinality(G) \in Nat /\ G = 1..(Cardinality(G) + 1 - 1)
    BY <1>1, <1>2, InitialSegment
  <2> QED BY <2>1
<1>4. PICK n \in Nat : n = Cardinality(G) /\ G = 1..n
  BY <1>3
<1>5. n <= Len(c)
  <2>1. CASE n = 0
    BY <2>1, <1>1
  <2>2. CASE n # 0
    <3>1. n \in G
      <4>1. n \in 1..n
        BY <2>2
      <4> HIDE DEF G
      <4> QED BY <1>4, <4>1, Zenon
    <3> QED BY <3>1, <1>1
  <2> QED BY <2>1, <2>2
<1>6. p = SubSeq(c, 1, n)
  BY <1>4
<1>7. p \in Seq(Deltas) /\ Len(p) = n /\ \A i \in 1..n : p[i] = c[i]
  <2> HIDE DEF p
  <2> QED BY <1>5, <1>6
<1>8. \A i \in 1..n : c[i] \in Q
  <2>1. ASSUME NEW i \in 1..n PROVE i \in G
    <3> HIDE DEF G
    <3> QED BY <1>4
  <2> QED BY <2>1
<1>9. ASSUME Len(c) >= 1, c[1] \in Q PROVE n >= 1
  <2>1. 1 \in G
    BY <1>1, <1>9
  <2>2. 1 \in 1..n
    <3> HIDE DEF G
    <3> QED BY <1>4, <2>1, Zenon
  <2> QED BY <2>2
<1>11. ASSUME n < Len(c) PROVE c[n + 1] \notin Q
  <2>1. n + 1 \in DOMAIN c /\ n + 1 \notin 1..n
    BY <1>1, <1>11
  <2>2. n + 1 \notin G
    <3> HIDE DEF G
    <3> QED BY <1>4, <2>1, Zenon
  <2>3. PICK j \in 1..(n + 1) : c[j] \notin Q
    BY <2>1, <2>2
  <2>4. j = n + 1
    BY <1>8, <2>3
  <2> QED BY <2>3, <2>4
<1> HIDE DEF p
<1>10. /\ p \in Seq(Deltas) /\ Len(p) <= Len(c)
       /\ \A i \in 1..Len(p) : p[i] = c[i] /\ c[i] \in Q
       /\ Len(c) >= 1 /\ c[1] \in Q => Len(p) >= 1
       /\ Len(p) < Len(c) => c[Len(p) + 1] \notin Q
  BY <1>5, <1>7, <1>8, <1>9, <1>11
<1> QED BY <1>10 DEF p

(* A walk of this kind along next.                                         *)
LEMMA RunFacts ==
  ASSUME \A e \in Deltas : dl[e].next \in Pointers, NEW d \in Deltas, NEW Q
  PROVE  LET c == Chain(d)
             p == SubSeq(c, 1, Cardinality({i \in DOMAIN c : \A j \in 1..i : c[j] \in Q}))
         IN /\ p \in Seq(Deltas)
            /\ \A i \in 1..Len(p) : p[i] \in Q
            /\ \A i \in 1..(Len(p) - 1) : p[i+1] = dl[p[i]].next
            /\ d \in Q => Len(p) >= 1 /\ p[1] = d
            /\ d \in Q => dl[p[Len(p)]].next \notin Q \/ (Len(p) = Len(c) /\ p[Len(p)] = c[Len(c)])
<1> DEFINE c == Chain(d)
           p == SubSeq(c, 1, Cardinality({i \in DOMAIN c : \A j \in 1..i : c[j] \in Q}))
<1>1. /\ c \in Seq(Deltas) /\ Len(c) >= 1 /\ c[1] = d
      /\ \A i \in 1..(Len(c) - 1) : c[i+1] = dl[c[i]].next
  BY ChainFacts
<1> HIDE DEF c
<1>2. /\ p \in Seq(Deltas) /\ Len(p) <= Len(c)
      /\ \A i \in 1..Len(p) : p[i] = c[i] /\ c[i] \in Q
      /\ Len(c) >= 1 /\ c[1] \in Q => Len(p) >= 1
      /\ Len(p) < Len(c) => c[Len(p) + 1] \notin Q
  BY <1>1, PrefixFacts
<1> HIDE DEF p
<1>3. ASSUME NEW i \in 1..(Len(p) - 1) PROVE p[i+1] = dl[p[i]].next
  <2>1. i \in 1..Len(p) /\ i + 1 \in 1..Len(p) /\ i \in 1..(Len(c) - 1)
    BY <1>1, <1>2
  <2> QED BY <1>1, <1>2, <2>1
<1>4. d \in Q => Len(p) >= 1 /\ p[1] = d
  <2>1. SUFFICES ASSUME d \in Q PROVE Len(p) >= 1 /\ p[1] = d
    OBVIOUS
  <2>2. Len(p) >= 1 /\ Len(p) \in Nat
    BY <1>1, <1>2, <2>1
  <2>3. 1 \in 1..Len(p)
    BY <2>2
  <2> QED BY <1>1, <1>2, <2>2, <2>3
<1>5. d \in Q => dl[p[Len(p)]].next \notin Q \/ (Len(p) = Len(c) /\ p[Len(p)] = c[Len(c)])
  <2>1. SUFFICES ASSUME d \in Q, Len(p) < Len(c) \/ Len(p) = Len(c)
                 PROVE  dl[p[Len(p)]].next \notin Q \/ (Len(p) = Len(c) /\ p[Len(p)] = c[Len(c)])
    BY <1>1, <1>2
  <2>2. Len(p) \in 1..Len(p) /\ Len(p) \in Nat /\ Len(c) \in Nat
    BY <1>1, <1>2, <1>4, <2>1
  <2>3. CASE Len(p) < Len(c)
    <3>1. Len(p) \in 1..(Len(c) - 1)
      BY <2>2, <2>3
    <3> QED BY <1>1, <1>2, <2>2, <2>3, <3>1
  <2>4. CASE Len(p) = Len(c)
    BY <1>2, <2>2, <2>4
  <2> QED BY <2>1, <2>3, <2>4
<1> QED BY <1>2, <1>3, <1>4, <1>5 DEF p, c

-----------------------------------------------------------------------------
(* Types.                                                                  *)

(* It is TypeOK, with rd a function.                                       *)
LEMMA TypesOK == Types => TypeOK
BY DEF Types, TypeOK, TxRecords, Phases, Propagations, DeltaRecords, VertexRecords, Reads, GcRecords

(* The first state.                                                        *)
LEMMA InitTypes == Init => Types
<1> SUFFICES ASSUME Init PROVE Types
  OBVIOUS
<1> USE DeltaChainConstants, MvccConstants
<1>1. NewTx \in TxRecords
  BY DEF NewTx, TxRecords, Timestamps, Wheres, Phases, Propagations
<1>2. NoDelta \in DeltaRecords
  BY DEF NoDelta, DeltaRecords, Pointers
<1>3. Image0 \in Images
  BY DEF Image0, Images, Pointers
<1>4. [head |-> Null, flag |-> FALSE, val |-> Null, edges |-> {}, readers |-> {}] \in VertexRecords
  BY DEF VertexRecords, Pointers
<1>5. gc \in GcRecords
  BY DEF Init, GcRecords, Timestamps
<1> HIDE DEF NewTx, NoDelta, Image0
<1> QED BY <1>1, <1>2, <1>3, <1>4, <1>5 DEF Init, Types, Timestamps

-----------------------------------------------------------------------------
(* Coherent, under the steps of the chains.                                *)

(* Steps that touch no chain: transactions may only stop being at work,     *)
(* and deltas only stop being attached or in use.                          *)
Frame(T, g, T2, g2) ==
  /\ \A u \in Txns : /\ T2[u].n = T[u].n /\ T2[u].ts = T[u].ts /\ T2[u].start = T[u].start
                     /\ Done(T2, u) <=> Done(T, u)
                     /\ Alive(T2, u) => Alive(T, u)
  /\ \A d \in Deltas : /\ Attached(T2, d) => Attached(T, d)
                       /\ InUse(T2, g2, d) => InUse(T, g, d)

(* They keep the chains coherent.                                          *)
LEMMA FrameCoherent ==
  ASSUME NEW T, NEW D, NEW X, NEW g, NEW T2, NEW X2, NEW g2,
         D \in [Deltas -> DeltaRecords], X \in [Vertices -> VertexRecords],
         Coherent(T, D, X, g), Frame(T, g, T2, g2), \A v \in Vertices : X2[v].head = X[v].head
  PROVE  Coherent(T2, D, X2, g2)
<1>0. /\ \A d \in Deltas : d[1] \in Txns /\ D[d].next \in Pointers
      /\ \A v \in Vertices : X[v].head \in Pointers
  BY DEF DeltaRecords, VertexRecords, Deltas
<1>00. \A d \in Deltas : D[d].obj \in Vertices \cup {Null}
  BY DEF DeltaRecords
<1>1. \A d \in Deltas : Created(T2, d) <=> Created(T, d)
  BY <1>0 DEF Frame, Created
<1>2. \A t \in Txns, v \in Vertices : Wrote(T2, D, t, v) <=> Wrote(T, D, t, v)
  BY <1>1 DEF Wrote
<1>3. /\ \A u \in Txns : /\ T2[u].ts = T[u].ts /\ T2[u].start = T[u].start
                         /\ Done(T2, u) <=> Done(T, u)
                         /\ Alive(T2, u) => Alive(T, u)
      /\ \A d \in Deltas : /\ Attached(T2, d) => Attached(T, d)
                           /\ InUse(T2, g2, d) => InUse(T, g, d)
  BY DEF Frame
<1>4. Shape(T2, D, X2)
  BY <1>0, <1>1 DEF Coherent, Shape, Pointers
<1>5. Ordered(T2, D)
  BY <1>3 DEF Coherent, Ordered
<1>6. BackLinked(T2, D)
  BY <1>3 DEF Coherent, BackLinked
<1>7. HeadLinked(T2, D, X2, g2)
  <2>1. SUFFICES ASSUME NEW d \in Deltas, Attached(T2, d), InUse(T2, g2, d), D[d].prev \in Vertices
                 PROVE  X2[D[d].obj].head = d
    BY DEF HeadLinked
  <2>2. X[D[d].obj].head = d
    BY <1>3, <2>1 DEF Coherent, HeadLinked
  <2>3. D[d].obj \in Vertices
    BY <1>00, <1>3, <2>1 DEF Coherent, Shape, Attached
  <2> QED BY <2>2, <2>3
<1>8. Interleaved(T2, D)
  BY <1>0, <1>3 DEF Coherent, Interleaved
<1>9. WriterOnTop(T2, D, X2)
  BY <1>2, <1>3 DEF Coherent, WriterOnTop
<1>10. Covered(T2, D, X2)
  <2>1. SUFFICES ASSUME NEW t \in Txns, NEW v \in Vertices, Done(T2, t), Wrote(T2, D, t, v)
                 PROVE  Past(T2, t) \/ \E S \in SUBSET Deltas : Reaches(T2, D, S, X2[v].head, t)
    BY DEF Covered
  <2>2. CASE Past(T, t)
    BY <1>3, <2>2 DEF Past
  <2>3. CASE \E S \in SUBSET Deltas : Reaches(T, D, S, X[v].head, t)
    BY <1>0, <1>3, <2>3 DEF Reaches
  <2> QED BY <1>2, <1>3, <2>1, <2>2, <2>3 DEF Coherent, Covered
<1>11. ClosedIsLast(T2, D, X2)
  <2>1. \A v \in Vertices : X[v].head # Null => X[v].head[1] \in Txns
    BY <1>0 DEF Pointers
  <2> QED BY <1>2, <1>3, <2>1 DEF Coherent, ClosedIsLast
<1>12. FirstCommitter(T2, D)
  BY <1>2, <1>3 DEF Coherent, FirstCommitter
<1> QED BY <1>4, <1>5, <1>6, <1>7, <1>8, <1>9, <1>10, <1>11, <1>12 DEF Coherent

-----------------------------------------------------------------------------
(* CreateAndLinkDelta: D2, T2, X2 are what it makes of D, T, X.            *)
Links(T, D, X, T2, D2, X2, t, v, act, state) ==
  LET d == <<t, T[t].n + 1>>
      h == X[v].head
  IN /\ d \in Deltas
     /\ \A u \in Txns : /\ T2[u].pc = T[u].pc /\ T2[u].start = T[u].start /\ T2[u].ts = T[u].ts
                        /\ T2[u].where = T[u].where /\ T2[u].i = T[u].i
                        /\ T2[u].unlinkable = T[u].unlinkable
                        /\ T2[u].n = IF u = t THEN T[u].n + 1 ELSE T[u].n
     /\ D2[d].obj = v /\ D2[d].act = act /\ D2[d].state = state /\ D2[d].next = h /\ D2[d].prev = v
     /\ \A e \in Deltas : e # d => /\ D2[e].obj = D[e].obj /\ D2[e].act = D[e].act
                                   /\ D2[e].next = D[e].next
                                   /\ e # h => D2[e].prev = D[e].prev /\ D2[e].state = D[e].state
                                   /\ e = h => D2[e].prev = d
                                   /\ NonSeq(D, e) => NonSeq(D2, e)
     /\ h # Null /\ act = "EDGE" /\ state = "NON_SEQUENTIAL" /\ D[h].act = "EDGE"
          /\ D[h].state = "SEQUENTIAL" => NonSeq(D2, h)
     /\ X2[v].head = d
     /\ \A w \in Vertices : w # v => X2[w].head = X[w].head

(* It does, and keeps the types.                                           *)
LEMMA LinkFacts ==
  ASSUME NEW s, Typed(s.tx, s.dl, s.vx), NEW t \in Txns, NEW v \in Vertices,
         NEW act \in {"SET", "EDGE"}, NEW arg \in Pointers,
         NEW state \in {"SEQUENTIAL", "NON_SEQUENTIAL", "FORCED_SEQUENTIAL"},
         s.tx[t].n < MaxDeltas, s.vx[v].head # <<t, s.tx[t].n + 1>>
  PROVE  LET s2 == CreateAndLinkDelta(s, t, v, act, arg, state)
         IN /\ Typed(s2.tx, s2.dl, s2.vx)
            /\ Links(s.tx, s.dl, s.vx, s2.tx, s2.dl, s2.vx, t, v, act, state)
<1> DEFINE T == s.tx
           D == s.dl
           X == s.vx
           d == <<t, T[t].n + 1>>
           h == X[v].head
           new == [obj |-> v, act |-> act, arg |-> arg, state |-> state,
                   cid |-> T[t].cid, next |-> h, prev |-> v]
           spreads == /\ h # Null /\ act = "EDGE" /\ state = "NON_SEQUENTIAL"
                      /\ D[h].act = "EDGE" /\ D[h].state = "SEQUENTIAL"
           T2 == [u \in Txns |->
                    IF u = t THEN [T[t] EXCEPT !.n = @ + 1]
                    ELSE IF spreads /\ u = h[1] /\ T[u].propagation = "NONE"
                         THEN [T[u] EXCEPT !.propagation = "PENDING"] ELSE T[u]]
           below == [D[h] EXCEPT !.prev = d, !.state = IF spreads THEN "NON_SEQUENTIAL" ELSE @]
           D2 == [e \in Deltas |-> IF e = d THEN new ELSE IF e = h THEN below ELSE D[e]]
           X2 == [X EXCEPT ![v].head  = d,
                           ![v].val   = IF act = "SET" THEN d ELSE @,
                           ![v].edges = IF act = "EDGE" THEN @ \cup {d} ELSE @]
<1>1. CreateAndLinkDelta(s, t, v, act, arg, state) = [tx |-> T2, dl |-> D2, vx |-> X2]
  BY DEF CreateAndLinkDelta
<1>2. T \in [Txns -> TxRecords] /\ D \in [Deltas -> DeltaRecords] /\ X \in [Vertices -> VertexRecords]
  BY DEF Typed
<1>3. T[t].n \in 0..MaxDeltas /\ T[t].cid \in 0..MaxCommand /\ MaxDeltas \in Nat
  BY <1>2, DeltaChainConstants DEF TxRecords
<1>4. d \in Deltas /\ h \in Pointers
  <2>1. d \in Deltas
    BY <1>3 DEF Deltas
  <2> QED BY <1>2, <2>1 DEF VertexRecords
<1>5. h # Null => D[h] \in DeltaRecords
  BY <1>2, <1>4 DEF Pointers
<1>6. new \in DeltaRecords
  <2>1. d \in Pointers /\ h \in Pointers
    BY <1>4 DEF Pointers
  <2> HIDE DEF h
  <2> QED BY <1>3, <2>1 DEF DeltaRecords
<1>7. h # Null => /\ below \in DeltaRecords /\ below.obj = D[h].obj /\ below.act = D[h].act
                  /\ below.next = D[h].next /\ below.prev = d
                  /\ below.state = IF spreads THEN "NON_SEQUENTIAL" ELSE D[h].state
  <2> DEFINE q == D[h]
             st == IF spreads THEN "NON_SEQUENTIAL" ELSE q.state
  <2> SUFFICES ASSUME h # Null
               PROVE  /\ below \in DeltaRecords /\ below.obj = D[h].obj /\ below.act = D[h].act
                      /\ below.next = D[h].next /\ below.prev = d /\ below.state = st
    OBVIOUS
  <2>1. q \in DeltaRecords /\ d \in Pointers \cup Vertices
    BY <1>4, <1>5 DEF Pointers
  <2>2. st \in {"SEQUENTIAL", "NON_SEQUENTIAL", "FORCED_SEQUENTIAL"}
    BY <2>1 DEF DeltaRecords
  <2>3. below = [q EXCEPT !.prev = d, !.state = st]
    BY <2>1 DEF DeltaRecords
  <2> HIDE DEF q, st, d, below
  <2>4. /\ below \in DeltaRecords /\ below.obj = q.obj /\ below.act = q.act
        /\ below.next = q.next /\ below.prev = d /\ below.state = st
    BY <2>1, <2>2, <2>3 DEF DeltaRecords
  <2> QED BY <2>4 DEF q
<1>8. T2 \in [Txns -> TxRecords]
  <2>1. [T[t] EXCEPT !.n = @ + 1] \in TxRecords
    <3> DEFINE q == T[t]
    <3>1. q \in TxRecords /\ q.n + 1 \in 0..MaxDeltas
      BY <1>2, <1>3
    <3> HIDE DEF q
    <3>2. [q EXCEPT !.n = @ + 1] \in TxRecords
      BY <3>1 DEF TxRecords
    <3> QED BY <3>2 DEF q
  <2>2. ASSUME NEW u \in Txns PROVE [T[u] EXCEPT !.propagation = "PENDING"] \in TxRecords
    <3> DEFINE q == T[u]
    <3>1. q \in TxRecords /\ "PENDING" \in Propagations
      BY <1>2 DEF Propagations
    <3> HIDE DEF q
    <3>2. [q EXCEPT !.propagation = "PENDING"] \in TxRecords
      BY <3>1 DEF TxRecords
    <3> QED BY <3>2 DEF q
  <2> QED BY <1>2, <2>1, <2>2
<1>9. D2 \in [Deltas -> DeltaRecords]
  <2>1. ASSUME NEW e \in Deltas, e = h PROVE below \in DeltaRecords
    <3>1. h # Null
      BY <2>1, PointerConstants
    <3> HIDE DEF below
    <3> QED BY <1>7, <3>1
  <2> HIDE DEF below, new
  <2> QED BY <1>2, <1>6, <2>1
<1>10. X2 \in [Vertices -> VertexRecords] /\ X2[v].head = d
       /\ \A w \in Vertices : w # v => X2[w].head = X[w].head
  <2> DEFINE val == IF act = "SET" THEN d ELSE X[v].val
             edges == IF act = "EDGE" THEN X[v].edges \cup {d} ELSE X[v].edges
             q == X[v]
             r == [q EXCEPT !.head = d, !.val = val, !.edges = edges]
  <2>1. q \in VertexRecords
    BY <1>2
  <2>2. val \in Pointers /\ edges \in SUBSET Deltas /\ d \in Pointers
    BY <2>1, <1>4 DEF VertexRecords, Pointers
  <2>3. X2 = [X EXCEPT ![v] = r]
    BY <1>2
  <2> HIDE DEF q, val, edges
  <2>4. r \in VertexRecords /\ r.head = d
    BY <2>1, <2>2 DEF VertexRecords
  <2> HIDE DEF r, X2, X
  <2> QED BY <1>2, <2>3, <2>4
<1>11. Typed(T2, D2, X2)
  BY <1>8, <1>9, <1>10 DEF Typed
<1>12. ASSUME NEW u \in Txns
       PROVE  /\ T2[u].pc = T[u].pc /\ T2[u].start = T[u].start /\ T2[u].ts = T[u].ts
              /\ T2[u].where = T[u].where /\ T2[u].i = T[u].i
              /\ T2[u].unlinkable = T[u].unlinkable
              /\ T2[u].n = IF u = t THEN T[u].n + 1 ELSE T[u].n
  <2> DEFINE q == T[u]
  <2>1. q \in TxRecords
    BY <1>2
  <2>2. CASE u = t
    <3>1. T2[u] = [q EXCEPT !.n = @ + 1] /\ q = T[u]
      BY <2>2
    <3> HIDE DEF q, T2, T
    <3> QED BY <2>1, <2>2, <3>1 DEF TxRecords
  <2>3. CASE u # t
    <3>1. (T2[u] = [q EXCEPT !.propagation = "PENDING"] \/ T2[u] = q) /\ q = T[u]
      BY <2>3
    <3> HIDE DEF q, T2, T
    <3> QED BY <2>1, <2>3, <3>1 DEF TxRecords
  <2> QED BY <2>2, <2>3
<1>13. D2[d] = new /\ \A e \in Deltas : e # d => D2[e] = IF e = h THEN below ELSE D[e]
  BY <1>4
<1>14. D2[d].obj = v /\ D2[d].act = act /\ D2[d].state = state /\ D2[d].next = h /\ D2[d].prev = v
  <2> HIDE DEF D2
  <2> QED BY <1>13
<1>15. ASSUME NEW e \in Deltas, e # d
       PROVE  /\ D2[e].obj = D[e].obj /\ D2[e].act = D[e].act /\ D2[e].next = D[e].next
              /\ e # h => D2[e].prev = D[e].prev /\ D2[e].state = D[e].state
              /\ e = h => D2[e].prev = d
              /\ NonSeq(D, e) => NonSeq(D2, e)
  <2> HIDE DEF D2, below
  <2>1. CASE e = h
    <3>1. h # Null /\ D2[e] = below
      BY <1>13, <1>15, <2>1, PointerConstants
    <3>2. /\ below.obj = D[h].obj /\ below.act = D[h].act /\ below.next = D[h].next /\ below.prev = d
          /\ below.state = IF spreads THEN "NON_SEQUENTIAL" ELSE D[h].state
      BY <1>7, <3>1
    <3> HIDE DEF D, d, h
    <3> QED BY <2>1, <3>1, <3>2 DEF NonSeq
  <2>2. CASE e # h
    <3>1. D2[e] = D[e]
      BY <1>13, <1>15, <2>2
    <3> QED BY <2>2, <3>1 DEF NonSeq
  <2> QED BY <2>1, <2>2
<1>16. spreads => NonSeq(D2, h)
  <2>1. SUFFICES ASSUME spreads PROVE NonSeq(D2, h)
    OBVIOUS
  <2>2. h \in Deltas /\ h # d
    BY <1>4, <2>1 DEF Pointers
  <2>3. D2[h] = below
    BY <1>13, <2>2
  <2>4. below.act = "EDGE" /\ below.state = "NON_SEQUENTIAL"
    <3> HIDE DEF below
    <3> QED BY <1>7, <2>1
  <2> HIDE DEF D2, below
  <2> QED BY <2>3, <2>4 DEF NonSeq
<1>17. Links(T, D, X, T2, D2, X2, t, v, act, state)
  <2> HIDE DEF T2, D2, X2
  <2> QED BY <1>4, <1>10, <1>12, <1>14, <1>15, <1>16 DEF Links
<1> HIDE DEF T2, D2, X2
<1> QED BY <1>1, <1>11, <1>17

(* What else CreateAndLinkDelta does.                                      *)
LinkMore(D, X, D2, X2, d, v, act, arg, state) ==
  /\ D2[d].arg = arg
  /\ \A e \in Deltas : e # d =>
       /\ D2[e].arg = D[e].arg
       /\ \/ D2[e].state = D[e].state
          \/ /\ e = X[v].head /\ act = "EDGE" /\ state = "NON_SEQUENTIAL"
             /\ D[e].act = "EDGE" /\ D[e].state = "SEQUENTIAL"
  /\ \A w \in Vertices : /\ X2[w].flag = X[w].flag
                         /\ X2[w].val = IF w = v /\ act = "SET" THEN d ELSE X[w].val
                         /\ X2[w].edges = IF w = v /\ act = "EDGE" THEN X[w].edges \cup {d} ELSE X[w].edges

(* It does.                                                                *)
LEMMA LinkMoreFacts ==
  ASSUME NEW s, Typed(s.tx, s.dl, s.vx), NEW t \in Txns, NEW v \in Vertices,
         NEW act \in {"SET", "EDGE"}, NEW arg \in Pointers,
         NEW state \in {"SEQUENTIAL", "NON_SEQUENTIAL", "FORCED_SEQUENTIAL"},
         s.tx[t].n < MaxDeltas, s.vx[v].head # <<t, s.tx[t].n + 1>>
  PROVE  LET s2 == CreateAndLinkDelta(s, t, v, act, arg, state)
         IN LinkMore(s.dl, s.vx, s2.dl, s2.vx, <<t, s.tx[t].n + 1>>, v, act, arg, state)
<1> DEFINE T == s.tx
           D == s.dl
           X == s.vx
           d == <<t, T[t].n + 1>>
           h == X[v].head
           new == [obj |-> v, act |-> act, arg |-> arg, state |-> state,
                   cid |-> T[t].cid, next |-> h, prev |-> v]
           spreads == /\ h # Null /\ act = "EDGE" /\ state = "NON_SEQUENTIAL"
                      /\ D[h].act = "EDGE" /\ D[h].state = "SEQUENTIAL"
           T2 == [u \in Txns |->
                    IF u = t THEN [T[t] EXCEPT !.n = @ + 1]
                    ELSE IF spreads /\ u = h[1] /\ T[u].propagation = "NONE"
                         THEN [T[u] EXCEPT !.propagation = "PENDING"] ELSE T[u]]
           below == [D[h] EXCEPT !.prev = d, !.state = IF spreads THEN "NON_SEQUENTIAL" ELSE @]
           D2 == [e \in Deltas |-> IF e = d THEN new ELSE IF e = h THEN below ELSE D[e]]
           X2 == [X EXCEPT ![v].head  = d,
                           ![v].val   = IF act = "SET" THEN d ELSE @,
                           ![v].edges = IF act = "EDGE" THEN @ \cup {d} ELSE @]
<1>1. CreateAndLinkDelta(s, t, v, act, arg, state) = [tx |-> T2, dl |-> D2, vx |-> X2]
  BY DEF CreateAndLinkDelta
<1>2. T \in [Txns -> TxRecords] /\ D \in [Deltas -> DeltaRecords] /\ X \in [Vertices -> VertexRecords]
  BY DEF Typed
<1>3. d \in Deltas /\ h \in Pointers
  <2>1. T[t].n \in 0..MaxDeltas /\ MaxDeltas \in Nat
    BY <1>2, DeltaChainConstants DEF TxRecords
  <2>2. d \in Deltas
    BY <2>1 DEF Deltas
  <2> QED BY <1>2, <2>2 DEF VertexRecords
<1>4. h # Null => below.arg = D[h].arg /\ (below.state = D[h].state \/ spreads)
  <2> DEFINE q == D[h]
             st == IF spreads THEN "NON_SEQUENTIAL" ELSE q.state
  <2> SUFFICES ASSUME h # Null PROVE below.arg = q.arg /\ below.state = st
    OBVIOUS
  <2>1. q \in DeltaRecords
    BY <1>2, <1>3 DEF Pointers
  <2>2. below = [q EXCEPT !.prev = d, !.state = st]
    BY <2>1 DEF DeltaRecords
  <2> HIDE DEF q, st, d, below
  <2> QED BY <2>1, <2>2 DEF DeltaRecords
<1>5. D2[d] = new /\ \A e \in Deltas : e # d => D2[e] = IF e = h THEN below ELSE D[e]
  BY <1>3
<1>6. D2[d].arg = arg
  <2> HIDE DEF D2
  <2> QED BY <1>5
<1>7. ASSUME NEW e \in Deltas, e # d
      PROVE  /\ D2[e].arg = D[e].arg
             /\ D2[e].state = D[e].state \/ (e = h /\ spreads)
  <2> HIDE DEF D2, below
  <2>1. CASE e = h
    <3>1. h # Null /\ D2[e] = below
      BY <1>5, <1>7, <2>1, PointerConstants
    <3> HIDE DEF spreads
    <3> QED BY <1>4, <2>1, <3>1
  <2>2. CASE e # h
    BY <1>5, <1>7, <2>2
  <2> QED BY <2>1, <2>2
<1>8. ASSUME NEW w \in Vertices
      PROVE  /\ X2[w].flag = X[w].flag
             /\ X2[w].val = IF w = v /\ act = "SET" THEN d ELSE X[w].val
             /\ X2[w].edges = IF w = v /\ act = "EDGE" THEN X[w].edges \cup {d} ELSE X[w].edges
  <2> DEFINE val == IF act = "SET" THEN d ELSE X[v].val
             edges == IF act = "EDGE" THEN X[v].edges \cup {d} ELSE X[v].edges
             q == X[v]
             r == [q EXCEPT !.head = d, !.val = val, !.edges = edges]
  <2>1. q \in VertexRecords /\ q = X[v] /\ val = (IF act = "SET" THEN d ELSE X[v].val)
        /\ edges = (IF act = "EDGE" THEN X[v].edges \cup {d} ELSE X[v].edges)
    BY <1>2
  <2>2. X2 = [X EXCEPT ![v] = r]
    BY <1>2
  <2> HIDE DEF q, val, edges
  <2>3. r.flag = q.flag /\ r.val = val /\ r.edges = edges
    BY <2>1 DEF VertexRecords
  <2> HIDE DEF r, X2, X, d
  <2> QED BY <1>2, <2>1, <2>2, <2>3
<1> HIDE DEF T2, D2, X2
<1>9. LinkMore(D, X, D2, X2, d, v, act, arg, state)
  BY <1>6, <1>7, <1>8 DEF LinkMore
<1> QED BY <1>1, <1>9

(* What PrepareForWrite and PrepareForNonSequentialWrite leave of the      *)
(* deltas that may be linked.                                              *)
Admitted(T, D, X, t, v, act, state) ==
  /\ X[v].head # Null /\ X[v].head[1] # t /\ Alive(T, X[v].head[1]) =>
       /\ act = "EDGE" /\ state = "NON_SEQUENTIAL"
       /\ D[X[v].head].act = "EDGE" /\ D[X[v].head].state # "FORCED_SEQUENTIAL"
  /\ ~(act = "EDGE" /\ state = "NON_SEQUENTIAL") =>
       \A w \in Txns : w # t /\ Done(T, w) /\ Wrote(T, D, w, v) => T[w].ts < T[t].start
  /\ act = "EDGE" /\ Wrote(T, D, t, v) => state = "FORCED_SEQUENTIAL"

(* Linking an admitted delta keeps the chains coherent.                    *)
LEMMA LinkCoherent ==
  ASSUME NEW T, NEW D, NEW X, NEW g, NEW T2, NEW D2, NEW X2, Typed(T, D, X),
         NEW t \in Txns, NEW v \in Vertices, NEW act \in {"SET", "EDGE"}, NEW state,
         Coherent(T, D, X, g), Links(T, D, X, T2, D2, X2, t, v, act, state),
         Admitted(T, D, X, t, v, act, state), Alive(T, t),
         \A u \in Txns : Alive(T, u) => T[u].ts \in Nat /\ T[u].ts >= kTransactionInitialId
  PROVE  Coherent(T2, D2, X2, g)
<1> DEFINE d == <<t, T[t].n + 1>>
           h == X[v].head
<1>1. /\ \A e \in Deltas : e[1] \in Txns /\ e[2] \in Nat
      /\ Null \notin Deltas /\ Vertices \cap Deltas = {} /\ v \notin Deltas
      /\ kTransactionInitialId \in Nat
  BY PointerConstants, DeltaChainConstants DEF Deltas, Txns, kTransactionInitialId
<1>2. /\ \A e \in Deltas : D[e].next \in Pointers
      /\ \A w \in Vertices : X[w].head \in Pointers
      /\ \A u \in Txns : T[u].n \in Nat /\ T[u].ts \in Nat
  <2>1. \A u \in Txns : T[u].n \in 0..MaxDeltas /\ T[u].ts \in 0..3*N
    BY DEF Typed, TxRecords
  <2> QED BY <2>1, DeltaChainConstants DEF Typed, DeltaRecords, VertexRecords
<1>3. /\ d \in Deltas /\ d[1] = t /\ d[2] = T[t].n + 1
      /\ X2[v].head = d /\ \A w \in Vertices : w # v => X2[w].head = X[w].head
  BY DEF Links
<1>4. \A u \in Txns : /\ T2[u].pc = T[u].pc /\ T2[u].start = T[u].start /\ T2[u].ts = T[u].ts
                      /\ T2[u].where = T[u].where /\ T2[u].i = T[u].i
                      /\ T2[u].n = IF u = t THEN T[u].n + 1 ELSE T[u].n
  BY DEF Links
<1>5. D2[d].obj = v /\ D2[d].act = act /\ D2[d].state = state /\ D2[d].next = h /\ D2[d].prev = v
  BY DEF Links
<1>6. \A e \in Deltas : e # d => /\ D2[e].obj = D[e].obj /\ D2[e].act = D[e].act
                                 /\ D2[e].next = D[e].next
                                 /\ e # h => D2[e].prev = D[e].prev /\ D2[e].state = D[e].state
                                 /\ e = h => D2[e].prev = d
                                 /\ NonSeq(D, e) => NonSeq(D2, e)
  BY DEF Links
<1>7. h # Null /\ act = "EDGE" /\ state = "NON_SEQUENTIAL" /\ D[h].act = "EDGE"
        /\ D[h].state = "SEQUENTIAL" => NonSeq(D2, h)
  BY DEF Links
<1>8. ~Created(T, d)
  BY <1>2, <1>3 DEF Created
<1>9. \A e \in Deltas : Created(T2, e) <=> Created(T, e) \/ e = d
  <2>1. ASSUME NEW e \in Deltas PROVE Created(T2, e) <=> Created(T, e) \/ e = d
    <3>1. CASE e[1] # t
      BY <1>1, <1>3, <1>4, <3>1 DEF Created
    <3>2. CASE e[1] = t
      <4>1. e = d <=> e[2] = T[t].n + 1
        BY <3>2, <1>3 DEF Deltas
      <4> HIDE DEF d
      <4> QED BY <1>1, <1>2, <1>4, <3>2, <4>1 DEF Created
    <3> QED BY <3>1, <3>2
  <2> QED BY <2>1
<1> HIDE DEF d
<1>10. \A u \in Txns : (Alive(T2, u) <=> Alive(T, u)) /\ (Done(T2, u) <=> Done(T, u))
  BY <1>4 DEF Alive, Done
<1>11. \A e \in Deltas : Attached(T2, e) <=> Attached(T, e) \/ e = d
  BY <1>1, <1>3, <1>4, <1>9, <1>10 DEF Attached
<1>12. \A e \in Deltas : InUse(T2, g, e) <=> InUse(T, g, e)
  BY <1>1, <1>4 DEF InUse
<1>13. ASSUME NEW u \in Txns, NEW w \in Vertices
       PROVE  Wrote(T2, D2, u, w) <=> Wrote(T, D, u, w) \/ (act = "SET" /\ u = t /\ w = v)
  <2>1. ASSUME NEW e \in Deltas, e # d
        PROVE  D2[e].obj = D[e].obj /\ D2[e].act = D[e].act /\ (Created(T2, e) <=> Created(T, e))
    BY <1>6, <1>9, <2>1
  <2>2. ASSUME Wrote(T2, D2, u, w)
        PROVE  Wrote(T, D, u, w) \/ (act = "SET" /\ u = t /\ w = v)
    <3>1. PICK e \in Deltas : e[1] = u /\ Created(T2, e) /\ D2[e].obj = w /\ D2[e].act = "SET"
      BY <2>2 DEF Wrote
    <3>2. CASE e = d
      BY <1>3, <1>5, <3>1, <3>2
    <3>3. CASE e # d
      BY <2>1, <3>1, <3>3 DEF Wrote
    <3> QED BY <3>2, <3>3
  <2>3. ASSUME Wrote(T, D, u, w) PROVE Wrote(T2, D2, u, w)
    <3>1. PICK e \in Deltas : e[1] = u /\ Created(T, e) /\ D[e].obj = w /\ D[e].act = "SET"
      BY <2>3 DEF Wrote
    <3>2. e # d
      BY <1>8, <3>1
    <3> QED BY <2>1, <3>1, <3>2 DEF Wrote
  <2>4. ASSUME act = "SET", u = t, w = v PROVE Wrote(T2, D2, u, w)
    BY <1>3, <1>5, <1>9, <2>4 DEF Wrote
  <2> QED BY <2>2, <2>3, <2>4
<1>14. /\ \A e \in Deltas : ~Created(T, e) => D[e].next = Null /\ D[e].prev = Null
       /\ \A e \in Deltas : Created(T, e) => /\ D[e].obj \in Vertices
                                             /\ D[e].prev \in Deltas \/ D[e].prev = D[e].obj
       /\ \A e \in Deltas : D[e].next \in Deltas => Created(T, D[e].next) /\ D[D[e].next].obj = D[e].obj
       /\ \A e \in Deltas : D[e].prev \in Deltas => Created(T, D[e].prev) /\ D[D[e].prev].obj = D[e].obj
       /\ \A w \in Vertices : X[w].head # Null => Created(T, X[w].head) /\ D[X[w].head].obj = w
  BY DEF Coherent, Shape
<1>15. h # Null => h \in Deltas /\ Created(T, h) /\ D[h].obj = v /\ h # d
  BY <1>2, <1>8, <1>14 DEF Pointers
<1> HIDE DEF h
<1>16. \A w \in Vertices : w # v /\ X[w].head # Null =>
         X[w].head \in Deltas /\ X[w].head # d /\ X[w].head # h
  BY <1>2, <1>8, <1>14, <1>15 DEF Pointers
<1>20. Shape(T2, D2, X2)
  <2>1. ASSUME NEW e \in Deltas, ~Created(T2, e) PROVE D2[e].next = Null /\ D2[e].prev = Null
    BY <1>1, <1>6, <1>9, <1>14, <1>15, <2>1
  <2>2. ASSUME NEW e \in Deltas, Created(T2, e)
        PROVE  D2[e].obj \in Vertices /\ (D2[e].prev \in Deltas \/ D2[e].prev = D2[e].obj)
    BY <1>3, <1>5, <1>6, <1>9, <1>14, <2>2
  <2>3. ASSUME NEW e \in Deltas, D2[e].next \in Deltas
        PROVE  Created(T2, D2[e].next) /\ D2[D2[e].next].obj = D2[e].obj
    <3>1. CASE e = d
      BY <1>1, <1>5, <1>6, <1>9, <1>15, <2>3, <3>1
    <3>2. CASE e # d
      BY <1>6, <1>8, <1>9, <1>14, <2>3, <3>2
    <3> QED BY <3>1, <3>2
  <2>4. ASSUME NEW e \in Deltas, D2[e].prev \in Deltas
        PROVE  Created(T2, D2[e].prev) /\ D2[D2[e].prev].obj = D2[e].obj
    <3>1. e # d
      BY <1>1, <1>5, <2>4
    <3>2. CASE e = h
      <4>1. h # Null
        BY <1>1, <3>2
      <4>2. D2[e].prev = d /\ D2[e].obj = v
        BY <1>6, <1>15, <3>1, <3>2, <4>1
      <4> QED BY <1>3, <1>5, <1>9, <4>2
    <3>3. CASE e # h
      BY <1>6, <1>8, <1>9, <1>14, <2>4, <3>1, <3>3
    <3> QED BY <3>2, <3>3
  <2>5. ASSUME NEW w \in Vertices, X2[w].head # Null
        PROVE  Created(T2, X2[w].head) /\ D2[X2[w].head].obj = w
    <3>1. CASE w = v
      BY <1>3, <1>5, <1>9, <3>1
    <3>2. CASE w # v
      BY <1>3, <1>6, <1>9, <1>14, <1>16, <2>5, <3>2
    <3> QED BY <3>1, <3>2
  <2> QED BY <2>1, <2>2, <2>3, <2>4, <2>5 DEF Shape
<1>21. Ordered(T2, D2)
  <2>1. PICK r \in [Deltas -> Nat] : \A e \in Deltas :
           /\ D[e].next \in Deltas => r[D[e].next] < r[e]
           /\ Attached(T, e) /\ D[e].prev \in Deltas => r[e] < r[D[e].prev]
    BY DEF Coherent, Ordered
  <2> DEFINE m == IF h = Null THEN 0 ELSE r[h] + 1
             r2 == [r EXCEPT ![d] = m]
  <2>2. m \in Nat /\ (h # Null => r[h] < m /\ r[h] \in Nat)
    BY <1>15
  <2> HIDE DEF m
  <2>3. r2 \in [Deltas -> Nat] /\ r2[d] = m /\ \A e \in Deltas : e # d => r2[e] = r[e]
    BY <1>3, <2>2
  <2> HIDE DEF r2
  <2>4. ASSUME NEW e \in Deltas, D2[e].next \in Deltas PROVE r2[D2[e].next] < r2[e]
    <3>1. CASE e = d
      BY <1>1, <1>5, <1>15, <2>2, <2>3, <2>4, <3>1
    <3>2. CASE e # d
      <4>1. D2[e].next = D[e].next /\ D[e].next \in Deltas /\ D[e].next # d
        BY <1>6, <1>8, <1>14, <2>4, <3>2
      <4> QED BY <2>1, <2>3, <3>2, <4>1
    <3> QED BY <3>1, <3>2
  <2>5. ASSUME NEW e \in Deltas, Attached(T2, e), D2[e].prev \in Deltas PROVE r2[e] < r2[D2[e].prev]
    <3>1. e # d /\ Attached(T, e)
      BY <1>1, <1>5, <1>11, <2>5
    <3>2. CASE e = h
      <4>1. h # Null /\ D2[e].prev = d
        BY <1>1, <1>6, <3>1, <3>2
      <4> QED BY <2>2, <2>3, <3>1, <3>2, <4>1
    <3>3. CASE e # h
      <4>1. D2[e].prev = D[e].prev /\ D[e].prev \in Deltas /\ D[e].prev # d
        BY <1>6, <1>8, <1>14, <2>5, <3>1, <3>3
      <4> QED BY <2>1, <2>3, <3>1, <4>1
    <3> QED BY <3>2, <3>3
  <2> QED BY <2>3, <2>4, <2>5 DEF Ordered
<1>22. BackLinked(T2, D2)
  <2>1. ASSUME NEW e \in Deltas, Attached(T2, e), D2[e].prev \in Deltas
        PROVE  /\ e # d /\ Attached(T, e)
               /\ e = h => D2[e].prev = d
               /\ e # h => D2[e].prev = D[e].prev /\ D[e].prev # d
    BY <1>1, <1>5, <1>6, <1>8, <1>11, <1>14, <2>1
  <2>2. ASSUME NEW e \in Deltas, Attached(T2, e), D2[e].prev \in Deltas
        PROVE  D2[D2[e].prev].next \in {e, Null}
    <3>1. CASE e = h
      BY <1>5, <2>1, <2>2, <3>1
    <3>2. CASE e # h
      <4>1. D[D[e].prev].next \in {e, Null}
        BY <2>1, <2>2, <3>2 DEF Coherent, BackLinked
      <4> QED BY <1>6, <2>1, <2>2, <3>2, <4>1
    <3> QED BY <3>1, <3>2
  <2>3. ASSUME NEW e \in Deltas, NEW f \in Deltas, Attached(T2, e), Attached(T2, f),
               D2[e].prev \in Deltas, D2[e].prev = D2[f].prev
        PROVE  e = f
    <3>1. CASE e = h \/ f = h
      BY <2>1, <2>3, <3>1
    <3>2. CASE e # h /\ f # h
      BY <2>1, <2>3, <3>2 DEF Coherent, BackLinked
    <3> QED BY <3>1, <3>2
  <2> QED BY <2>2, <2>3 DEF BackLinked
<1>23. HeadLinked(T2, D2, X2, g)
  <2>1. SUFFICES ASSUME NEW e \in Deltas, Attached(T2, e), InUse(T2, g, e), D2[e].prev \in Vertices
                 PROVE  X2[D2[e].obj].head = e
    BY DEF HeadLinked
  <2>2. CASE e = d
    BY <1>3, <1>5, <2>2
  <2>3. CASE e # d
    <3>1. e # h /\ D[e].prev = D2[e].prev /\ D[e].obj = D2[e].obj
      BY <1>1, <1>3, <1>6, <2>1, <2>3
    <3>2. X[D[e].obj].head = e
      BY <1>11, <1>12, <2>1, <2>3, <3>1 DEF Coherent, HeadLinked
    <3>3. D[e].obj \in Vertices /\ D[e].obj # v
      BY <1>11, <1>14, <2>1, <2>3, <3>1, <3>2 DEF Attached, h
    <3> QED BY <1>3, <3>1, <3>2, <3>3
  <2> QED BY <2>2, <2>3
<1>24. Interleaved(T2, D2)
  <2>1. SUFFICES ASSUME NEW e \in Deltas, D2[e].next \in Deltas, D2[e].next[1] # e[1],
                        Alive(T2, D2[e].next[1])
                 PROVE  NonSeq(D2, D2[e].next)
    BY DEF Interleaved
  <2>2. CASE e = d
    <3>1. D2[e].next = h /\ h # Null /\ h[1] # t /\ Alive(T, h[1]) /\ h \in Deltas /\ h # d
      BY <1>1, <1>3, <1>5, <1>10, <1>15, <2>1, <2>2
    <3>2. act = "EDGE" /\ state = "NON_SEQUENTIAL" /\ D[h].act = "EDGE"
            /\ D[h].state \in {"SEQUENTIAL", "NON_SEQUENTIAL"}
      <4>1. D[h].state \in {"SEQUENTIAL", "NON_SEQUENTIAL", "FORCED_SEQUENTIAL"}
        BY <3>1 DEF Typed, DeltaRecords
      <4> QED BY <3>1, <4>1 DEF Admitted, h
    <3>3. CASE D[h].state = "SEQUENTIAL"
      BY <1>7, <3>1, <3>2, <3>3
    <3>4. CASE D[h].state = "NON_SEQUENTIAL"
      <4>1. NonSeq(D, h)
        BY <3>2, <3>4 DEF NonSeq
      <4> QED BY <1>6, <3>1, <4>1
    <3> QED BY <3>2, <3>3, <3>4
  <2>3. CASE e # d
    <3>1. D2[e].next = D[e].next /\ D[e].next # d /\ Alive(T, D[e].next[1])
      BY <1>1, <1>6, <1>8, <1>10, <1>14, <2>1, <2>3
    <3>2. NonSeq(D, D[e].next)
      BY <2>1, <3>1 DEF Coherent, Interleaved
    <3> QED BY <1>6, <2>1, <3>1, <3>2
  <2> QED BY <2>2, <2>3
<1>25. WriterOnTop(T2, D2, X2)
  <2>1. SUFFICES ASSUME NEW u \in Txns, NEW w \in Vertices, Alive(T2, u), Wrote(T2, D2, u, w)
                 PROVE  /\ X2[w].head # Null /\ X2[w].head[1] = u
                        /\ D2[X2[w].head].act = "SET" \/ D2[X2[w].head].state = "FORCED_SEQUENTIAL"
    BY DEF WriterOnTop
  <2>2. Alive(T, u)
    BY <1>10, <2>1
  <2>3. ASSUME Wrote(T, D, u, w)
        PROVE  /\ X[w].head # Null /\ X[w].head[1] = u
               /\ D[X[w].head].act = "SET" \/ D[X[w].head].state = "FORCED_SEQUENTIAL"
    BY <2>2, <2>3 DEF Coherent, WriterOnTop
  <2>4. CASE w # v
    <3>1. Wrote(T, D, u, w)
      BY <1>13, <2>1, <2>4
    <3> QED BY <1>3, <1>6, <1>16, <2>3, <2>4, <3>1
  <2>5. CASE w = v /\ u = t
    <3>1. X2[w].head = d /\ d # Null /\ d[1] = u /\ D2[d].act = act /\ D2[d].state = state
      BY <1>1, <1>3, <1>5, <2>5
    <3>2. act = "EDGE" => state = "FORCED_SEQUENTIAL"
      BY <1>13, <2>1, <2>5 DEF Admitted
    <3> QED BY <3>1, <3>2
  <2>6. CASE w = v /\ u # t
    <3>1. Wrote(T, D, u, v)
      BY <1>13, <2>1, <2>6
    <3>2. h # Null /\ h[1] = u /\ (D[h].act = "SET" \/ D[h].state = "FORCED_SEQUENTIAL")
      BY <2>3, <2>6, <3>1 DEF h
    <3> QED BY <2>2, <2>6, <3>2 DEF Admitted, h
  <2> QED BY <2>4, <2>5, <2>6
<1>26. Covered(T2, D2, X2)
  <2>1. SUFFICES ASSUME NEW w \in Txns, NEW x \in Vertices, Done(T2, w), Wrote(T2, D2, w, x)
                 PROVE  Past(T2, w) \/ \E S \in SUBSET Deltas : Reaches(T2, D2, S, X2[x].head, w)
    BY DEF Covered
  <2>2. Done(T, w) /\ w # t /\ Wrote(T, D, w, x) /\ T[w].ts < T[t].ts
    <3>1. Done(T, w)
      BY <1>10, <2>1
    <3>2. T[w].ts < kTransactionInitialId /\ kTransactionInitialId <= T[t].ts
      BY <3>1 DEF Done
    <3> QED BY <1>1, <1>2, <1>13, <2>1, <3>1, <3>2
  <2>3. CASE Past(T, w)
    BY <1>4, <1>10, <2>3 DEF Past
  <2>4. CASE \E S \in SUBSET Deltas : Reaches(T, D, S, X[x].head, w)
    <3>1. PICK S \in SUBSET Deltas : Reaches(T, D, S, X[x].head, w)
      BY <2>4
    <3>2. X[x].head \in S
          /\ \A e \in S : T[w].ts <= T[e[1]].ts /\ (e[1] # w => D[e].next \in S)
      BY <3>1 DEF Reaches
    <3>3. d \notin S
      BY <1>1, <1>3, <1>8, <1>14, <2>2, <3>2
    <3>4. \A e \in S : T2[w].ts <= T2[e[1]].ts /\ (e[1] # w => D2[e].next \in S)
      BY <1>1, <1>4, <1>6, <3>2, <3>3
    <3>5. CASE x # v
      <4>1. Reaches(T2, D2, S, X2[x].head, w)
        BY <1>3, <3>2, <3>4, <3>5 DEF Reaches
      <4> QED BY <4>1
    <3>6. CASE x = v
      <4>1. T2[w].ts <= T2[d[1]].ts /\ D2[d].next \in S
        BY <1>2, <1>3, <1>4, <1>5, <2>2, <3>2, <3>6 DEF h
      <4>2. Reaches(T2, D2, S \cup {d}, X2[x].head, w)
        BY <1>3, <3>4, <3>6, <4>1 DEF Reaches
      <4> QED BY <1>3, <4>2
    <3> QED BY <3>5, <3>6
  <2> QED BY <2>2, <2>3, <2>4 DEF Coherent, Covered
<1>27. ClosedIsLast(T2, D2, X2)
  <2>1. SUFFICES ASSUME NEW x \in Vertices, X2[x].head # Null, Alive(T2, X2[x].head[1]),
                        ~NonSeq(D2, X2[x].head),
                        NEW w \in Txns, w # X2[x].head[1], Done(T2, w), Wrote(T2, D2, w, x)
                 PROVE  T2[w].ts < T2[X2[x].head[1]].start
    BY DEF ClosedIsLast
  <2>2. CASE x = v
    <3>1. X2[x].head[1] = t /\ w # t /\ Done(T, w) /\ Wrote(T, D, w, v)
      BY <1>3, <1>10, <1>13, <2>1, <2>2
    <3>2. ~(act = "EDGE" /\ state = "NON_SEQUENTIAL")
      BY <1>3, <1>5, <2>1, <2>2 DEF NonSeq
    <3>3. T[w].ts < T[t].start
      BY <3>1, <3>2 DEF Admitted
    <3> QED BY <1>4, <3>1, <3>3
  <2>3. CASE x # v
    <3>1. X2[x].head = X[x].head /\ X[x].head \in Deltas /\ X[x].head # d
      BY <1>3, <1>16, <2>1, <2>3
    <3>2. ~NonSeq(D, X[x].head) /\ Alive(T, X[x].head[1]) /\ Done(T, w) /\ Wrote(T, D, w, x)
      BY <1>1, <1>6, <1>10, <1>13, <2>1, <2>3, <3>1
    <3>3. T[w].ts < T[X[x].head[1]].start
      BY <2>1, <3>1, <3>2 DEF Coherent, ClosedIsLast
    <3> QED BY <1>1, <1>4, <3>1, <3>3
  <2> QED BY <2>2, <2>3
<1>28. FirstCommitter(T2, D2)
  <2>1. SUFFICES ASSUME NEW p \in Txns, NEW q \in Txns, NEW x \in Vertices,
                        p # q, Done(T2, p), Alive(T2, q) \/ Done(T2, q),
                        Wrote(T2, D2, p, x), Wrote(T2, D2, q, x)
                 PROVE  T2[p].ts < T2[q].start \/ (Done(T2, q) /\ T2[q].ts < T2[p].start)
    BY DEF FirstCommitter
  <2>2. ~Done(T, t)
    BY <1>1 DEF Done
  <2>3. Done(T, p) /\ p # t /\ Wrote(T, D, p, x) /\ (Alive(T, q) \/ Done(T, q))
    BY <1>10, <1>13, <2>1, <2>2
  <2>4. CASE Wrote(T, D, q, x)
    <3>1. T[p].ts < T[q].start \/ (Done(T, q) /\ T[q].ts < T[p].start)
      BY <2>1, <2>3, <2>4 DEF Coherent, FirstCommitter
    <3> QED BY <1>4, <1>10, <3>1
  <2>5. CASE ~Wrote(T, D, q, x)
    <3>1. act = "SET" /\ q = t /\ x = v
      BY <1>13, <2>1, <2>5
    <3>2. T[p].ts < T[t].start
      BY <2>3, <3>1 DEF Admitted
    <3> QED BY <1>4, <3>1, <3>2
  <2> QED BY <2>4, <2>5
<1> QED BY <1>20, <1>21, <1>22, <1>23, <1>24, <1>25, <1>26, <1>27, <1>28 DEF Coherent

-----------------------------------------------------------------------------
(* process_vertex_deltas takes the run from d to last out of the chain.    *)
Unlinks(T, D, X, T2, D2, X2, d, last) ==
  LET v     == D[d].obj
      below == D[last].next
      first == X[v].head = d
  IN /\ last \in Deltas /\ last[1] = d[1] /\ D[last].obj = v
     /\ \A r \in [Deltas -> Nat] :
          (\A e \in Deltas : D[e].next \in Deltas => r[D[e].next] < r[e]) => r[last] <= r[d]
     /\ \A w \in Txns : \A S \in SUBSET Deltas :
          w # d[1] /\ d \in S /\ (\A e \in S : e[1] # w => D[e].next \in S) => last \in S
     /\ \A u \in Txns : /\ T2[u].pc = T[u].pc /\ T2[u].start = T[u].start /\ T2[u].ts = T[u].ts
                        /\ T2[u].where = T[u].where /\ T2[u].n = T[u].n
                        /\ T2[u].i = IF u = d[1] THEN d[2] + 1 ELSE T[u].i
     /\ \A e \in Deltas :
          /\ D2[e].obj = D[e].obj /\ D2[e].act = D[e].act /\ D2[e].state = D[e].state
          /\ D2[e].prev = IF e = below THEN IF first THEN v ELSE D[d].prev ELSE D[e].prev
          /\ D2[e].next = IF e # below /\ ~first /\ e = D[d].prev THEN below ELSE D[e].next
     /\ \A w \in Vertices : X2[w].head = IF w = v /\ first THEN below ELSE X[w].head

(* The chains stay coherent.                                               *)
LEMMA UnlinkCoherent ==
  ASSUME NEW T, NEW D, NEW X, NEW g, NEW T2, NEW D2, NEW X2, Typed(T, D, X),
         Coherent(T, D, X, g), NEW d \in Deltas, NEW last, Unlinks(T, D, X, T2, D2, X2, d, last),
         Attached(T, d), InUse(T, g, d), T[d[1]].i = d[2],
         T[d[1]].pc = "aborting", ~Done(T, d[1])
  PROVE  Coherent(T2, D2, X2, g)
<1> DEFINE v     == D[d].obj
           below == D[last].next
           above == D[d].prev
           first == X[v].head = d
<1>1. /\ \A e \in Deltas : e[1] \in Txns /\ e[2] \in Nat
      /\ Null \notin Deltas /\ Vertices \cap Deltas = {}
  BY PointerConstants, DeltaChainConstants DEF Deltas, Txns
<1>2. /\ \A e \in Deltas : D[e].next \in Pointers
      /\ \A w \in Vertices : X[w].head \in Pointers
      /\ \A u \in Txns : T[u].n \in Nat /\ T[u].ts \in Nat /\ T[u].i \in Nat
  <2>1. \A u \in Txns : T[u].n \in 0..MaxDeltas /\ T[u].ts \in 0..3*N /\ T[u].i \in Nat
    BY DEF Typed, TxRecords
  <2> QED BY <2>1, DeltaChainConstants DEF Typed, DeltaRecords, VertexRecords
<1>3. last \in Deltas /\ last[1] = d[1] /\ D[last].obj = v
  BY DEF Unlinks
<1>4. \A u \in Txns : /\ T2[u].pc = T[u].pc /\ T2[u].start = T[u].start /\ T2[u].ts = T[u].ts
                      /\ T2[u].where = T[u].where /\ T2[u].n = T[u].n
                      /\ T2[u].i = IF u = d[1] THEN d[2] + 1 ELSE T[u].i
  BY DEF Unlinks
<1>5. \A e \in Deltas :
        /\ D2[e].obj = D[e].obj /\ D2[e].act = D[e].act /\ D2[e].state = D[e].state
        /\ D2[e].prev = IF e = below THEN IF first THEN v ELSE above ELSE D[e].prev
        /\ D2[e].next = IF e # below /\ ~first /\ e = above THEN below ELSE D[e].next
  BY DEF Unlinks
<1>6. \A w \in Vertices : X2[w].head = IF w = v /\ first THEN below ELSE X[w].head
  BY DEF Unlinks
<1>7. /\ \A u \in Txns : (Alive(T2, u) <=> Alive(T, u)) /\ (Done(T2, u) <=> Done(T, u))
      /\ \A e \in Deltas : Created(T2, e) <=> Created(T, e)
      /\ \A e \in Deltas : InUse(T2, g, e) <=> InUse(T, g, e)
  BY <1>1, <1>4 DEF Alive, Done, Created, InUse
<1>8. \A e \in Deltas : Attached(T2, e) => Attached(T, e) /\ e # d
  <2>1. SUFFICES ASSUME NEW e \in Deltas, Attached(T2, e) PROVE Attached(T, e) /\ e # d
    OBVIOUS
  <2>2. CASE e[1] # d[1]
    BY <1>1, <1>4, <1>7, <2>1, <2>2 DEF Attached
  <2>3. CASE e[1] = d[1]
    <3>1. ~Alive(T, e[1]) /\ ~Done(T, e[1])
      BY <2>3 DEF Alive
    <3>2. T2[e[1]].i <= e[2] /\ T2[e[1]].i = d[2] + 1
      BY <1>1, <1>4, <1>7, <2>1, <2>3, <3>1 DEF Attached
    <3>3. d[2] <= e[2] /\ e # d
      BY <1>1, <3>2
    <3> QED BY <1>1, <1>7, <2>1, <2>3, <3>3 DEF Attached
  <2> QED BY <2>2, <2>3
<1>9. \A u \in Txns, w \in Vertices : Wrote(T2, D2, u, w) <=> Wrote(T, D, u, w)
  BY <1>5, <1>7 DEF Wrote
<1>10. /\ \A e \in Deltas : ~Created(T, e) => D[e].next = Null /\ D[e].prev = Null
       /\ \A e \in Deltas : Created(T, e) => /\ D[e].obj \in Vertices
                                             /\ D[e].prev \in Deltas \/ D[e].prev = D[e].obj
       /\ \A e \in Deltas : D[e].next \in Deltas => Created(T, D[e].next) /\ D[D[e].next].obj = D[e].obj
       /\ \A e \in Deltas : D[e].prev \in Deltas => Created(T, D[e].prev) /\ D[D[e].prev].obj = D[e].obj
       /\ \A w \in Vertices : X[w].head # Null => Created(T, X[w].head) /\ D[X[w].head].obj = w
  BY DEF Coherent, Shape
<1>11. v \in Vertices /\ v \notin Deltas /\ (above \in Deltas \/ above = v) /\ below \in Pointers
  BY <1>1, <1>2, <1>3, <1>10 DEF Attached
<1>12. ~first => above \in Deltas
  <2>1. above \in Vertices => first
    BY DEF Coherent, HeadLinked
  <2> QED BY <1>11, <2>1
<1>13. below \in Deltas => Created(T, below) /\ D[below].obj = v
  BY <1>3, <1>10
<1>14. above \in Deltas => Created(T, above) /\ D[above].obj = v /\ D[above].next \in {d, Null}
  BY <1>10 DEF Coherent, BackLinked
<1>15. PICK r \in [Deltas -> Nat] : \A e \in Deltas :
         /\ D[e].next \in Deltas => r[D[e].next] < r[e]
         /\ Attached(T, e) /\ D[e].prev \in Deltas => r[e] < r[D[e].prev]
  BY DEF Coherent, Ordered
<1>16. r[last] <= r[d]
  BY <1>15 DEF Unlinks
<1>17. above \in Deltas /\ below \in Deltas => r[below] < r[above] /\ below # above
  <2>1. SUFFICES ASSUME above \in Deltas, below \in Deltas PROVE r[below] < r[above]
    BY <1>15
  <2>2. r[below] < r[last] /\ r[d] < r[above]
    BY <1>3, <1>15, <2>1
  <2>3. r[below] \in Nat /\ r[last] \in Nat /\ r[d] \in Nat /\ r[above] \in Nat
    BY <1>3, <2>1
  <2> HIDE DEF below, above
  <2> QED BY <1>16, <2>2, <2>3
<1>18. below \in Deltas /\ Alive(T, below[1]) => NonSeq(D, below)
  <2>1. ASSUME below \in Deltas, Alive(T, below[1]) PROVE below[1] # last[1]
    BY <1>3, <2>1 DEF Alive
  <2> QED BY <1>3, <2>1 DEF Coherent, Interleaved
<1>19. ASSUME NEW w \in Txns, NEW S \in SUBSET Deltas, w # d[1], d \in S,
              \A e \in S : e[1] # w => D[e].next \in S
       PROVE  below \in S
  <2>1. last \in S
    BY <1>19 DEF Unlinks
  <2> QED BY <1>3, <1>19, <2>1
<1> HIDE DEF v, below, above, first
<1>20. Shape(T2, D2, X2)
  <2>1. ASSUME NEW e \in Deltas, ~Created(T2, e) PROVE D2[e].next = Null /\ D2[e].prev = Null
    <3>1. ~Created(T, e) /\ e # below /\ (~first => e # above)
      BY <1>7, <1>12, <1>13, <1>14, <2>1
    <3> QED BY <1>5, <1>10, <3>1
  <2>2. ASSUME NEW e \in Deltas, Created(T2, e)
        PROVE  D2[e].obj \in Vertices /\ (D2[e].prev \in Deltas \/ D2[e].prev = D2[e].obj)
    <3>1. CASE e = below
      BY <1>5, <1>11, <1>12, <1>13, <3>1
    <3>2. CASE e # below
      BY <1>5, <1>7, <1>10, <2>2, <3>2
    <3> QED BY <3>1, <3>2
  <2>3. ASSUME NEW e \in Deltas, D2[e].next \in Deltas
        PROVE  Created(T2, D2[e].next) /\ D2[D2[e].next].obj = D2[e].obj
    <3>1. CASE e # below /\ ~first /\ e = above
      BY <1>5, <1>7, <1>13, <1>14, <2>3, <3>1
    <3>2. CASE ~(e # below /\ ~first /\ e = above)
      BY <1>5, <1>7, <1>10, <2>3, <3>2
    <3> QED BY <3>1, <3>2
  <2>4. ASSUME NEW e \in Deltas, D2[e].prev \in Deltas
        PROVE  Created(T2, D2[e].prev) /\ D2[D2[e].prev].obj = D2[e].obj
    <3>1. CASE e = below
      BY <1>5, <1>7, <1>11, <1>13, <1>14, <2>4, <3>1
    <3>2. CASE e # below
      BY <1>5, <1>7, <1>10, <2>4, <3>2
    <3> QED BY <3>1, <3>2
  <2>5. ASSUME NEW w \in Vertices, X2[w].head # Null
        PROVE  Created(T2, X2[w].head) /\ D2[X2[w].head].obj = w
    <3>1. CASE w = v /\ first
      <4>1. X2[w].head = below /\ below \in Deltas
        BY <1>6, <1>11, <2>5, <3>1 DEF Pointers
      <4> QED BY <1>5, <1>7, <1>13, <3>1, <4>1
    <3>2. CASE ~(w = v /\ first)
      <4>1. X2[w].head = X[w].head /\ X[w].head \in Deltas
        BY <1>2, <1>6, <2>5, <3>2 DEF Pointers
      <4> QED BY <1>5, <1>7, <1>10, <2>5, <4>1
    <3> QED BY <3>1, <3>2
  <2> QED BY <2>1, <2>2, <2>3, <2>4, <2>5 DEF Shape
<1>21. Ordered(T2, D2)
  <2>1. ASSUME NEW e \in Deltas, D2[e].next \in Deltas PROVE r[D2[e].next] < r[e]
    <3>1. CASE e # below /\ ~first /\ e = above
      BY <1>5, <1>17, <2>1, <3>1
    <3>2. CASE ~(e # below /\ ~first /\ e = above)
      BY <1>5, <1>15, <2>1, <3>2
    <3> QED BY <3>1, <3>2
  <2>2. ASSUME NEW e \in Deltas, Attached(T2, e), D2[e].prev \in Deltas PROVE r[e] < r[D2[e].prev]
    <3>1. CASE e = below
      BY <1>5, <1>11, <1>17, <2>2, <3>1
    <3>2. CASE e # below
      BY <1>5, <1>8, <1>15, <2>2, <3>2
    <3> QED BY <3>1, <3>2
  <2> QED BY <2>1, <2>2 DEF Ordered
<1>22. BackLinked(T2, D2)
  <2>0. /\ \A e \in Deltas : Attached(T, e) /\ D[e].prev \in Deltas => D[D[e].prev].next \in {e, Null}
        /\ \A e, f \in Deltas : Attached(T, e) /\ Attached(T, f) /\ D[e].prev \in Deltas
                                /\ D[e].prev = D[f].prev => e = f
    BY DEF Coherent, BackLinked
  <2>1. ASSUME NEW e \in Deltas, Attached(T2, e), D2[e].prev \in Deltas, e # below
        PROVE  Attached(T, e) /\ D2[e].prev = D[e].prev /\ D[e].prev # above
    <3>1. Attached(T, e) /\ e # d /\ D2[e].prev = D[e].prev
      BY <1>5, <1>8, <2>1
    <3> QED BY <2>0, <2>1, <3>1 DEF above
  <2>2. ASSUME NEW e \in Deltas, Attached(T2, e), D2[e].prev \in Deltas, e = below
        PROVE  D2[e].prev = above /\ ~first
    BY <1>5, <1>11, <2>2
  <2>3. ASSUME NEW e \in Deltas, Attached(T2, e), D2[e].prev \in Deltas
        PROVE  D2[D2[e].prev].next \in {e, Null}
    <3>1. CASE e = below
      <4>1. D2[e].prev = above /\ ~first /\ above \in Deltas /\ below # above
        BY <1>17, <2>2, <2>3, <3>1
      <4> QED BY <1>5, <3>1, <4>1
    <3>2. CASE e # below
      <4>1. Attached(T, e) /\ D2[e].prev = D[e].prev /\ D[e].prev # above
        BY <2>1, <2>3, <3>2
      <4>2. D2[D2[e].prev].next = D[D[e].prev].next
        BY <1>5, <2>3, <4>1
      <4> QED BY <2>0, <2>3, <4>1, <4>2
    <3> QED BY <3>1, <3>2
  <2>4. ASSUME NEW e \in Deltas, NEW f \in Deltas, Attached(T2, e), Attached(T2, f),
               D2[e].prev \in Deltas, D2[e].prev = D2[f].prev
        PROVE  e = f
    BY <2>0, <2>1, <2>2, <2>4
  <2> QED BY <2>3, <2>4 DEF BackLinked
<1>23. HeadLinked(T2, D2, X2, g)
  <2>1. SUFFICES ASSUME NEW e \in Deltas, Attached(T2, e), InUse(T2, g, e), D2[e].prev \in Vertices
                 PROVE  X2[D2[e].obj].head = e
    BY DEF HeadLinked
  <2>2. CASE e = below
    <3>1. first
      BY <1>1, <1>5, <1>12, <2>1, <2>2
    <3> QED BY <1>5, <1>6, <1>11, <1>13, <2>2, <3>1
  <2>3. CASE e # below
    <3>1. D2[e].prev = D[e].prev /\ D2[e].obj = D[e].obj /\ Attached(T, e) /\ e # d
      BY <1>5, <1>8, <2>1, <2>3
    <3>2. X[D[e].obj].head = e
      BY <1>7, <2>1, <3>1 DEF Coherent, HeadLinked
    <3>3. D[e].obj \in Vertices
      BY <1>10, <3>1 DEF Attached
    <3>4. ~(D[e].obj = v /\ first)
      BY <3>1, <3>2 DEF first
    <3> QED BY <1>6, <3>1, <3>2, <3>3, <3>4
  <2> QED BY <2>2, <2>3
<1>24. Interleaved(T2, D2)
  <2>1. SUFFICES ASSUME NEW e \in Deltas, D2[e].next \in Deltas, D2[e].next[1] # e[1],
                        Alive(T2, D2[e].next[1])
                 PROVE  NonSeq(D2, D2[e].next)
    BY DEF Interleaved
  <2>2. NonSeq(D, D2[e].next)
    <3>1. CASE e # below /\ ~first /\ e = above
      BY <1>1, <1>5, <1>7, <1>18, <2>1, <3>1
    <3>2. CASE ~(e # below /\ ~first /\ e = above)
      BY <1>1, <1>5, <1>7, <2>1, <3>2 DEF Coherent, Interleaved
    <3> QED BY <3>1, <3>2
  <2> QED BY <1>5, <2>1, <2>2 DEF NonSeq
<1>25. WriterOnTop(T2, D2, X2)
  <2>1. SUFFICES ASSUME NEW u \in Txns, NEW w \in Vertices, Alive(T2, u), Wrote(T2, D2, u, w)
                 PROVE  /\ X2[w].head # Null /\ X2[w].head[1] = u
                        /\ D2[X2[w].head].act = "SET" \/ D2[X2[w].head].state = "FORCED_SEQUENTIAL"
    BY DEF WriterOnTop
  <2>2. Alive(T, u) /\ X[w].head # Null /\ X[w].head[1] = u
        /\ (D[X[w].head].act = "SET" \/ D[X[w].head].state = "FORCED_SEQUENTIAL")
    BY <1>7, <1>9, <2>1 DEF Coherent, WriterOnTop
  <2>3. X[w].head \in Deltas /\ X[w].head # d
    BY <1>2, <2>2 DEF Pointers, Alive
  <2>4. X2[w].head = X[w].head
    BY <1>6, <2>3 DEF first
  <2> QED BY <1>5, <2>2, <2>3, <2>4
<1>26. Covered(T2, D2, X2)
  <2>1. SUFFICES ASSUME NEW w \in Txns, NEW x \in Vertices, Done(T2, w), Wrote(T2, D2, w, x)
                 PROVE  Past(T2, w) \/ \E S \in SUBSET Deltas : Reaches(T2, D2, S, X2[x].head, w)
    BY DEF Covered
  <2>2. Done(T, w) /\ w # d[1] /\ Wrote(T, D, w, x)
    BY <1>7, <1>9, <2>1
  <2>3. CASE Past(T, w)
    BY <1>4, <1>7, <2>3 DEF Past
  <2>4. CASE \E S \in SUBSET Deltas : Reaches(T, D, S, X[x].head, w)
    <3>1. PICK S \in SUBSET Deltas : Reaches(T, D, S, X[x].head, w)
      BY <2>4
    <3>2. X[x].head \in S
          /\ \A e \in S : T[w].ts <= T[e[1]].ts /\ (e[1] # w => D[e].next \in S)
      BY <3>1 DEF Reaches
    <3>3. d \in S => below \in S
      BY <1>19, <2>2, <3>2
    <3>4. ASSUME NEW e \in S, e[1] # w PROVE D2[e].next \in S
      <4>1. D[e].next \in S
        BY <3>2, <3>4
      <4>2. CASE e # below /\ ~first /\ e = above
        <5>1. D[e].next = d
          BY <1>1, <1>14, <4>1, <4>2
        <5> QED BY <1>5, <3>3, <4>1, <4>2, <5>1
      <4>3. CASE ~(e # below /\ ~first /\ e = above)
        BY <1>5, <4>1, <4>3
      <4> QED BY <4>2, <4>3
    <3>5. X2[x].head \in S
      BY <1>6, <3>2, <3>3 DEF first
    <3>6. \A e \in S : T2[w].ts <= T2[e[1]].ts
      BY <1>1, <1>4, <3>2
    <3> QED BY <3>4, <3>5, <3>6 DEF Reaches
  <2> QED BY <2>2, <2>3, <2>4 DEF Coherent, Covered
<1>27. ClosedIsLast(T2, D2, X2)
  <2>1. SUFFICES ASSUME NEW x \in Vertices, X2[x].head # Null, Alive(T2, X2[x].head[1]),
                        ~NonSeq(D2, X2[x].head),
                        NEW w \in Txns, w # X2[x].head[1], Done(T2, w), Wrote(T2, D2, w, x)
                 PROVE  T2[w].ts < T2[X2[x].head[1]].start
    BY DEF ClosedIsLast
  <2>2. X2[x].head \in Deltas
    BY <1>2, <1>6, <1>11, <2>1 DEF Pointers
  <2>3. ~NonSeq(D, X2[x].head) /\ Alive(T, X2[x].head[1])
    BY <1>1, <1>5, <1>7, <2>1, <2>2 DEF NonSeq
  <2>4. X2[x].head = X[x].head
    BY <1>6, <1>18, <2>2, <2>3
  <2>5. T[w].ts < T[X[x].head[1]].start
    BY <1>7, <1>9, <2>1, <2>3, <2>4 DEF Coherent, ClosedIsLast
  <2> QED BY <1>1, <1>4, <2>2, <2>4, <2>5
<1>28. FirstCommitter(T2, D2)
  BY <1>4, <1>7, <1>9 DEF Coherent, FirstCommitter
<1> QED BY <1>20, <1>21, <1>22, <1>23, <1>24, <1>25, <1>26, <1>27, <1>28 DEF Coherent

-----------------------------------------------------------------------------
(* A transaction begins.                                                   *)
LEMMA BeginCoherent ==
  ASSUME NEW T, NEW D, NEW X, NEW g, NEW T2, Typed(T, D, X), Coherent(T, D, X, g),
         NEW t \in Txns, T[t].pc = "new", T[t].n = 0, T2[t].n = 0,
         T2[t].ts >= kTransactionInitialId, T2[t].ts \in Nat,
         \A u \in Txns : u # t => T2[u] = T[u],
         \A u \in Txns : Done(T, u) => T[u].ts < T2[t].start
  PROVE  Coherent(T2, D, X, g)
<1>1. /\ \A e \in Deltas : e[1] \in Txns /\ e[2] \in Nat \ {0}
      /\ Null \notin Deltas /\ kTransactionInitialId \in Nat
  BY PointerConstants, DeltaChainConstants DEF Deltas, Txns, kTransactionInitialId
<1>2. /\ \A e \in Deltas : D[e].next \in Pointers
      /\ \A w \in Vertices : X[w].head \in Pointers
  BY DEF Typed, DeltaRecords, VertexRecords
<1>3. \A e \in Deltas : /\ Created(T2, e) <=> Created(T, e)
                        /\ Created(T, e) => e[1] # t
  BY <1>1 DEF Created
<1>4. \A u \in Txns : Done(T2, u) <=> Done(T, u)
  BY <1>1 DEF Done
<1>5. \A u \in Txns : u # t => (Alive(T2, u) <=> Alive(T, u))
  BY DEF Alive
<1>6. \A e \in Deltas : Attached(T2, e) <=> Attached(T, e)
  BY <1>1, <1>3 DEF Attached, Alive, Done
<1>7. \A e \in Deltas : Attached(T, e) /\ InUse(T2, g, e) => InUse(T, g, e)
  BY <1>1, <1>3 DEF InUse, Attached
<1>8. /\ \A u \in Txns, w \in Vertices : Wrote(T2, D, u, w) <=> Wrote(T, D, u, w)
      /\ \A u \in Txns, w \in Vertices : Wrote(T, D, u, w) => u # t
  BY <1>3 DEF Wrote
<1>9. \A w \in Vertices : X[w].head # Null => X[w].head \in Deltas /\ X[w].head[1] \in Txns \ {t}
  BY <1>1, <1>2, <1>3 DEF Coherent, Shape, Pointers
<1>10. \A e \in Deltas : D[e].next \in Deltas => D[e].next[1] \in Txns \ {t}
  BY <1>1, <1>3 DEF Coherent, Shape
<1>20. Shape(T2, D, X)
  BY <1>3, <1>9 DEF Coherent, Shape
<1>21. Ordered(T2, D)
  BY <1>6 DEF Coherent, Ordered
<1>22. BackLinked(T2, D)
  BY <1>6 DEF Coherent, BackLinked
<1>23. HeadLinked(T2, D, X, g)
  BY <1>6, <1>7 DEF Coherent, HeadLinked
<1>24. Interleaved(T2, D)
  BY <1>5, <1>10 DEF Coherent, Interleaved
<1>25. WriterOnTop(T2, D, X)
  BY <1>5, <1>8 DEF Coherent, WriterOnTop
<1>26. Covered(T2, D, X)
  <2>1. SUFFICES ASSUME NEW w \in Txns, NEW x \in Vertices, Done(T2, w), Wrote(T2, D, w, x)
                 PROVE  Past(T2, w) \/ \E S \in SUBSET Deltas : Reaches(T2, D, S, X[x].head, w)
    BY DEF Covered
  <2>2. Done(T, w) /\ w # t /\ Wrote(T, D, w, x) /\ T2[w] = T[w]
    BY <1>4, <1>8, <2>1
  <2>3. CASE Past(T, w)
    <3>1. ASSUME NEW u \in Txns, Alive(T2, u) PROVE T2[w].ts < T2[u].start
      <4>1. CASE u = t
        BY <2>2, <4>1
      <4>2. CASE u # t
        BY <1>5, <2>2, <2>3, <3>1, <4>2 DEF Past
      <4> QED BY <4>1, <4>2
    <3> QED BY <3>1 DEF Past
  <2>4. CASE \E S \in SUBSET Deltas : Reaches(T, D, S, X[x].head, w)
    <3>1. PICK S \in SUBSET Deltas : Reaches(T, D, S, X[x].head, w)
      BY <2>4
    <3>2. X[x].head \in S
          /\ \A e \in S : T[w].ts <= T[e[1]].ts /\ (e[1] # w => D[e].next \in S)
      BY <3>1 DEF Reaches
    <3>3. ASSUME NEW e \in S PROVE T2[w].ts <= T2[e[1]].ts
      <4>1. CASE e[1] = t
        <5>1. ~Created(T, e)
          BY <1>3, <4>1
        <5>2. D[e].next = Null
          BY <5>1 DEF Coherent, Shape
        <5> QED BY <1>1, <2>2, <3>2, <4>1, <5>2
      <4>2. CASE e[1] # t
        BY <1>1, <2>2, <3>2, <4>2
      <4> QED BY <4>1, <4>2
    <3> QED BY <3>2, <3>3 DEF Reaches
  <2> QED BY <2>2, <2>3, <2>4 DEF Coherent, Covered
<1>27. ClosedIsLast(T2, D, X)
  BY <1>4, <1>5, <1>8, <1>9 DEF Coherent, ClosedIsLast
<1>28. FirstCommitter(T2, D)
  BY <1>4, <1>5, <1>8 DEF Coherent, FirstCommitter
<1> QED BY <1>20, <1>21, <1>22, <1>23, <1>24, <1>25, <1>26, <1>27, <1>28 DEF Coherent

(* A transaction commits: its timestamp is the highest so far.             *)
LEMMA CommitCoherent ==
  ASSUME NEW T, NEW D, NEW X, NEW g, NEW T2, Typed(T, D, X), Coherent(T, D, X, g),
         NEW t \in Txns, Alive(T, t), ~Done(T, t), Done(T2, t), ~Alive(T2, t), T2[t].ts \in Nat,
         T2[t].n = T[t].n, T2[t].where = T[t].where, T2[t].start = T[t].start,
         \A u \in Txns : u # t => T2[u] = T[u],
         \A u \in Txns : Done(T, u) => T[u].ts < T2[t].ts
  PROVE  Coherent(T2, D, X, g)
<1>1. \A e \in Deltas : e[1] \in Txns
  BY DEF Deltas
<1>2. /\ \A e \in Deltas : D[e].next \in Pointers
      /\ \A w \in Vertices : X[w].head \in Pointers
      /\ \A u \in Txns : T[u].ts \in Nat
  <2>1. \A u \in Txns : T[u].ts \in 0..3*N
    BY DEF Typed, TxRecords
  <2> QED BY <2>1, DeltaChainConstants DEF Typed, DeltaRecords, VertexRecords
<1>3. /\ \A e \in Deltas : Created(T2, e) <=> Created(T, e)
      /\ \A e \in Deltas : InUse(T2, g, e) <=> InUse(T, g, e)
  BY <1>1 DEF Created, InUse
<1>4. /\ \A u \in Txns : Done(T2, u) <=> Done(T, u) \/ u = t
      /\ \A u \in Txns : Alive(T2, u) <=> Alive(T, u) /\ u # t
      /\ \A u \in Txns : T2[u].start = T[u].start
      /\ \A u \in Txns : u # t => T2[u].ts = T[u].ts
  BY DEF Done, Alive
<1>5. \A e \in Deltas : Attached(T2, e) => Attached(T, e)
  BY <1>1, <1>3, <1>4 DEF Attached
<1>6. \A u \in Txns, w \in Vertices : Wrote(T2, D, u, w) <=> Wrote(T, D, u, w)
  BY <1>3 DEF Wrote
<1>7. \A w \in Vertices : X[w].head # Null => X[w].head \in Deltas /\ X[w].head[1] \in Txns
  BY <1>1, <1>2 DEF Pointers
<1>8. \A u \in Txns, w \in Vertices :
        Alive(T, u) /\ Wrote(T, D, u, w) => X[w].head # Null /\ X[w].head[1] = u
  BY DEF Coherent, WriterOnTop
<1>20. Shape(T2, D, X)
  BY <1>3, <1>7 DEF Coherent, Shape
<1>21. Ordered(T2, D)
  BY <1>5 DEF Coherent, Ordered
<1>22. BackLinked(T2, D)
  BY <1>5 DEF Coherent, BackLinked
<1>23. HeadLinked(T2, D, X, g)
  BY <1>3, <1>5 DEF Coherent, HeadLinked
<1>24. Interleaved(T2, D)
  BY <1>1, <1>4 DEF Coherent, Interleaved
<1>25. WriterOnTop(T2, D, X)
  BY <1>4, <1>6 DEF Coherent, WriterOnTop
<1>26. Covered(T2, D, X)
  <2>1. SUFFICES ASSUME NEW w \in Txns, NEW x \in Vertices, Done(T2, w), Wrote(T2, D, w, x)
                 PROVE  Past(T2, w) \/ \E S \in SUBSET Deltas : Reaches(T2, D, S, X[x].head, w)
    BY DEF Covered
  <2>2. CASE w = t
    <3>1. X[x].head \in Deltas /\ X[x].head[1] = t
      BY <1>6, <1>7, <1>8, <2>1, <2>2
    <3>2. Reaches(T2, D, {X[x].head}, X[x].head, w)
      BY <2>2, <3>1 DEF Reaches
    <3> QED BY <3>1, <3>2
  <2>3. CASE w # t
    <3>1. Done(T, w) /\ Wrote(T, D, w, x) /\ T2[w].ts = T[w].ts
      BY <1>4, <1>6, <2>1, <2>3
    <3>2. CASE Past(T, w)
      BY <1>4, <3>1, <3>2 DEF Past
    <3>3. CASE \E S \in SUBSET Deltas : Reaches(T, D, S, X[x].head, w)
      <4>1. PICK S \in SUBSET Deltas : Reaches(T, D, S, X[x].head, w)
        BY <3>3
      <4>2. X[x].head \in S
            /\ \A e \in S : T[w].ts <= T[e[1]].ts /\ (e[1] # w => D[e].next \in S)
        BY <4>1 DEF Reaches
      <4>3. ASSUME NEW e \in S PROVE T2[w].ts <= T2[e[1]].ts
        <5>1. CASE e[1] = t
          BY <1>2, <3>1, <5>1
        <5>2. CASE e[1] # t
          BY <1>1, <1>4, <3>1, <4>2, <5>2
        <5> QED BY <5>1, <5>2
      <4> QED BY <4>2, <4>3 DEF Reaches
    <3> QED BY <3>1, <3>2, <3>3 DEF Coherent, Covered
  <2> QED BY <2>2, <2>3
<1>27. ClosedIsLast(T2, D, X)
  <2>1. SUFFICES ASSUME NEW x \in Vertices, X[x].head # Null, Alive(T2, X[x].head[1]),
                        ~NonSeq(D, X[x].head),
                        NEW w \in Txns, w # X[x].head[1], Done(T2, w), Wrote(T2, D, w, x)
                 PROVE  T2[w].ts < T2[X[x].head[1]].start
    BY DEF ClosedIsLast
  <2>2. w # t
    BY <1>6, <1>8, <2>1
  <2>3. T[w].ts < T[X[x].head[1]].start
    BY <1>4, <1>6, <1>7, <2>1, <2>2 DEF Coherent, ClosedIsLast
  <2> QED BY <1>4, <1>7, <2>1, <2>2, <2>3
<1>28. FirstCommitter(T2, D)
  <2>1. SUFFICES ASSUME NEW p \in Txns, NEW q \in Txns, NEW x \in Vertices,
                        p # q, Done(T2, p), Alive(T2, q) \/ Done(T2, q),
                        Wrote(T2, D, p, x), Wrote(T2, D, q, x)
                 PROVE  T2[p].ts < T2[q].start \/ (Done(T2, q) /\ T2[q].ts < T2[p].start)
    BY DEF FirstCommitter
  <2>2. Wrote(T, D, p, x) /\ Wrote(T, D, q, x)
    BY <1>6, <2>1
  <2>3. CASE p = t
    <3>1. ~Alive(T, q)
      BY <1>8, <2>1, <2>2, <2>3
    <3>2. Done(T, q) /\ Done(T2, q)
      BY <1>4, <2>1, <2>3, <3>1
    <3>3. T[q].ts < T[t].start
      BY <2>1, <2>2, <2>3, <3>2 DEF Coherent, FirstCommitter
    <3> QED BY <1>4, <2>1, <2>3, <3>2, <3>3
  <2>4. CASE q = t
    <3>1. Done(T, p)
      BY <1>4, <2>1, <2>4
    <3>2. T[p].ts < T[t].start
      BY <2>1, <2>2, <2>4, <3>1 DEF Coherent, FirstCommitter
    <3> QED BY <1>4, <2>1, <2>4, <3>2
  <2>5. CASE p # t /\ q # t
    BY <1>4, <2>1, <2>2, <2>5 DEF Coherent, FirstCommitter
  <2> QED BY <2>3, <2>4, <2>5
<1> QED BY <1>20, <1>21, <1>22, <1>23, <1>24, <1>25, <1>26, <1>27, <1>28 DEF Coherent

-----------------------------------------------------------------------------
(* The collector unlinks d, a delta no transaction at work can need.       *)
Cuts(T, g, D, X, T2, g2, D2, X2, d) ==
  /\ \A u \in Txns : /\ T2[u].n = T[u].n /\ T2[u].ts = T[u].ts /\ T2[u].start = T[u].start
                     /\ Done(T2, u) <=> Done(T, u)
                     /\ Alive(T2, u) <=> Alive(T, u)
  /\ \A e \in Deltas : /\ Attached(T2, e) => Attached(T, e)
                       /\ InUse(T2, g2, e) => InUse(T, g, e) /\ e # d
  /\ \A e \in Deltas :
       /\ D2[e].obj = D[e].obj /\ D2[e].act = D[e].act /\ D2[e].state = D[e].state
       /\ D2[e].prev = D[e].prev
       /\ D2[e].next = D[e].next \/ (e = D[d].prev /\ D2[e].next = Null)
  /\ \A w \in Vertices :
       \/ X2[w].head = X[w].head
       \/ w = D[d].obj /\ D[d].prev \in Vertices /\ X2[w].head = Null

(* The chains stay coherent.                                               *)
LEMMA CutCoherent ==
  ASSUME NEW T, NEW D, NEW X, NEW g, NEW T2, NEW D2, NEW X2, NEW g2, Typed(T, D, X),
         Coherent(T, D, X, g), NEW d \in Deltas, Cuts(T, g, D, X, T2, g2, D2, X2, d),
         Attached(T, d), InUse(T, g, d), ~Alive(T, d[1]), Past(T, d[1])
  PROVE  Coherent(T2, D2, X2, g2)
<1>1. (\A e \in Deltas : e[1] \in Txns) /\ Null \notin Deltas
  BY PointerConstants DEF Deltas
<1>2. /\ \A e \in Deltas : D[e].next \in Pointers
      /\ \A w \in Vertices : X[w].head \in Pointers
      /\ \A u \in Txns : T[u].ts \in Nat /\ T[u].start \in Nat
  <2>1. \A u \in Txns : T[u].ts \in 0..3*N /\ T[u].start \in 0..2*N
    BY DEF Typed, TxRecords, Timestamps
  <2> QED BY <2>1, DeltaChainConstants DEF Typed, DeltaRecords, VertexRecords
<1>3. \A u \in Txns : /\ T2[u].n = T[u].n /\ T2[u].ts = T[u].ts /\ T2[u].start = T[u].start
                      /\ Done(T2, u) <=> Done(T, u)
                      /\ Alive(T2, u) <=> Alive(T, u)
  BY DEF Cuts
<1>4. \A e \in Deltas : /\ Attached(T2, e) => Attached(T, e)
                        /\ InUse(T2, g2, e) => InUse(T, g, e) /\ e # d
  BY DEF Cuts
<1>5. \A e \in Deltas :
        /\ D2[e].obj = D[e].obj /\ D2[e].act = D[e].act /\ D2[e].state = D[e].state
        /\ D2[e].prev = D[e].prev
        /\ D2[e].next = D[e].next \/ (e = D[d].prev /\ D2[e].next = Null)
  BY DEF Cuts
<1>6. \A w \in Vertices : \/ X2[w].head = X[w].head
                          \/ w = D[d].obj /\ X[w].head = d /\ X2[w].head = Null
  BY DEF Cuts, Coherent, HeadLinked
<1>7. \A e \in Deltas : Created(T2, e) <=> Created(T, e)
  BY <1>1, <1>3 DEF Created
<1>8. \A u \in Txns, w \in Vertices : Wrote(T2, D2, u, w) <=> Wrote(T, D, u, w)
  BY <1>5, <1>7 DEF Wrote
<1>9. \A e \in Deltas : NonSeq(D2, e) <=> NonSeq(D, e)
  BY <1>5 DEF NonSeq
<1>10. \A w \in Vertices : X[w].head # Null => X[w].head \in Deltas /\ X[w].head[1] \in Txns
  BY <1>1, <1>2 DEF Pointers
<1>20. Shape(T2, D2, X2)
  <2>1. \A e \in Deltas : ~Created(T2, e) => D2[e].next = Null /\ D2[e].prev = Null
    BY <1>5, <1>7 DEF Coherent, Shape
  <2>2. \A e \in Deltas : Created(T2, e) => /\ D2[e].obj \in Vertices
                                            /\ D2[e].prev \in Deltas \/ D2[e].prev = D2[e].obj
    BY <1>5, <1>7 DEF Coherent, Shape
  <2>3. \A e \in Deltas : D2[e].next \in Deltas =>
          Created(T2, D2[e].next) /\ D2[D2[e].next].obj = D2[e].obj
    BY <1>1, <1>5, <1>7 DEF Coherent, Shape
  <2>4. \A e \in Deltas : D2[e].prev \in Deltas =>
          Created(T2, D2[e].prev) /\ D2[D2[e].prev].obj = D2[e].obj
    BY <1>5, <1>7 DEF Coherent, Shape
  <2>5. \A w \in Vertices : X2[w].head # Null => Created(T2, X2[w].head) /\ D2[X2[w].head].obj = w
    BY <1>5, <1>6, <1>7, <1>10 DEF Coherent, Shape
  <2> QED BY <2>1, <2>2, <2>3, <2>4, <2>5 DEF Shape
<1>21. Ordered(T2, D2)
  <2>1. PICK r \in [Deltas -> Nat] : \A e \in Deltas :
           /\ D[e].next \in Deltas => r[D[e].next] < r[e]
           /\ Attached(T, e) /\ D[e].prev \in Deltas => r[e] < r[D[e].prev]
    BY DEF Coherent, Ordered
  <2>2. \A e \in Deltas :
           /\ D2[e].next \in Deltas => r[D2[e].next] < r[e]
           /\ Attached(T2, e) /\ D2[e].prev \in Deltas => r[e] < r[D2[e].prev]
    BY <1>1, <1>4, <1>5, <2>1
  <2> QED BY <2>2 DEF Ordered
<1>22. BackLinked(T2, D2)
  BY <1>4, <1>5 DEF Coherent, BackLinked
<1>23. HeadLinked(T2, D2, X2, g2)
  <2>1. SUFFICES ASSUME NEW e \in Deltas, Attached(T2, e), InUse(T2, g2, e), D2[e].prev \in Vertices
                 PROVE  X2[D2[e].obj].head = e
    BY DEF HeadLinked
  <2>2. X[D[e].obj].head = e /\ e # d /\ D[e].obj = D2[e].obj
    BY <1>4, <1>5, <2>1 DEF Coherent, HeadLinked
  <2>3. D[e].obj \in Vertices
    BY <1>4, <2>1 DEF Attached, Coherent, Shape
  <2> QED BY <1>6, <2>2, <2>3
<1>24. Interleaved(T2, D2)
  BY <1>1, <1>3, <1>5, <1>9 DEF Coherent, Interleaved
<1>25. WriterOnTop(T2, D2, X2)
  <2>1. SUFFICES ASSUME NEW u \in Txns, NEW w \in Vertices, Alive(T2, u), Wrote(T2, D2, u, w)
                 PROVE  /\ X2[w].head # Null /\ X2[w].head[1] = u
                        /\ D2[X2[w].head].act = "SET" \/ D2[X2[w].head].state = "FORCED_SEQUENTIAL"
    BY DEF WriterOnTop
  <2>2. Alive(T, u) /\ X[w].head # Null /\ X[w].head[1] = u
        /\ (D[X[w].head].act = "SET" \/ D[X[w].head].state = "FORCED_SEQUENTIAL")
    BY <1>3, <1>8, <2>1 DEF Coherent, WriterOnTop
  <2>3. X2[w].head = X[w].head
    BY <1>6, <2>2
  <2> QED BY <1>5, <1>10, <2>2, <2>3
<1>26. Covered(T2, D2, X2)
  <2>1. SUFFICES ASSUME NEW w \in Txns, NEW x \in Vertices, Done(T2, w), Wrote(T2, D2, w, x)
                 PROVE  Past(T2, w) \/ \E S \in SUBSET Deltas : Reaches(T2, D2, S, X2[x].head, w)
    BY DEF Covered
  <2>2. Done(T, w) /\ Wrote(T, D, w, x)
    BY <1>3, <1>8, <2>1
  <2>3. CASE Past(T, w)
    BY <1>3, <2>3 DEF Past
  <2>4. CASE \E S \in SUBSET Deltas : Reaches(T, D, S, X[x].head, w)
    <3>1. PICK S \in SUBSET Deltas : Reaches(T, D, S, X[x].head, w)
      BY <2>4
    <3>2. X[x].head \in S
          /\ \A e \in S : T[w].ts <= T[e[1]].ts /\ (e[1] # w => D[e].next \in S)
      BY <3>1 DEF Reaches
    <3>3. CASE d \in S
      <4>1. T[w].ts <= T[d[1]].ts
        BY <3>2, <3>3
      <4>2. ASSUME NEW u \in Txns, Alive(T, u) PROVE T[w].ts < T[u].start
        <5>1. T[d[1]].ts < T[u].start
          BY <4>2 DEF Past
        <5> QED BY <1>1, <1>2, <4>1, <5>1
      <4> QED BY <1>3, <4>2 DEF Past
    <3>4. CASE d \notin S
      <4>1. X2[x].head \in S
        BY <1>6, <3>2, <3>4
      <4>2. ASSUME NEW e \in S, e[1] # w PROVE D2[e].next \in S
        <5>1. D[e].next \in S
          BY <3>2, <4>2
        <5>2. CASE e = D[d].prev
          <6>1. D[e].next \in {d, Null}
            BY <5>2 DEF Coherent, BackLinked
          <6> QED BY <1>1, <3>4, <5>1, <6>1
        <5>3. CASE e # D[d].prev
          BY <1>5, <5>1, <5>3
        <5> QED BY <5>2, <5>3
      <4>3. \A e \in S : T2[w].ts <= T2[e[1]].ts
        BY <1>1, <1>3, <3>2
      <4> QED BY <4>1, <4>2, <4>3 DEF Reaches
    <3> QED BY <3>3, <3>4
  <2> QED BY <2>2, <2>3, <2>4 DEF Coherent, Covered
<1>27. ClosedIsLast(T2, D2, X2)
  <2>1. SUFFICES ASSUME NEW x \in Vertices, X2[x].head # Null, Alive(T2, X2[x].head[1]),
                        ~NonSeq(D2, X2[x].head),
                        NEW w \in Txns, w # X2[x].head[1], Done(T2, w), Wrote(T2, D2, w, x)
                 PROVE  T2[w].ts < T2[X2[x].head[1]].start
    BY DEF ClosedIsLast
  <2>2. X2[x].head = X[x].head
    BY <1>6, <2>1
  <2>3. T[w].ts < T[X[x].head[1]].start
    BY <1>3, <1>8, <1>9, <1>10, <2>1, <2>2 DEF Coherent, ClosedIsLast
  <2> QED BY <1>3, <1>10, <2>1, <2>2, <2>3
<1>28. FirstCommitter(T2, D2)
  BY <1>3, <1>8 DEF Coherent, FirstCommitter
<1> QED BY <1>20, <1>21, <1>22, <1>23, <1>24, <1>25, <1>26, <1>27, <1>28 DEF Coherent

(* The fast discard empties chains when nobody is at work.                 *)
LEMMA DiscardCoherent ==
  ASSUME NEW T, NEW D, NEW X, NEW g, NEW T2, NEW X2, Typed(T, D, X),
         Coherent(T, D, X, g), Frame(T, g, T2, g), \A u \in Txns : ~Alive(T2, u),
         \A w \in Vertices :
           \/ X2[w].head = X[w].head
           \/ /\ X2[w].head = Null
              /\ \A e \in Deltas : ~(Attached(T2, e) /\ InUse(T2, g, e) /\ X[w].head = e)
  PROVE  Coherent(T2, D, X2, g)
<1>1. Coherent(T2, D, X, g)
  BY FrameCoherent DEF Typed
<1>2. \A w \in Vertices : X[w].head # Null => X[w].head[1] \in Txns
  BY DEF Typed, VertexRecords, Pointers, Deltas
<1>20. Shape(T2, D, X2)
  BY <1>1 DEF Coherent, Shape
<1>23. HeadLinked(T2, D, X2, g)
  <2>1. SUFFICES ASSUME NEW e \in Deltas, Attached(T2, e), InUse(T2, g, e), D[e].prev \in Vertices
                 PROVE  X2[D[e].obj].head = e
    BY DEF HeadLinked
  <2>2. X[D[e].obj].head = e
    BY <1>1, <2>1 DEF Coherent, HeadLinked
  <2>3. D[e].obj \in Vertices
    BY <1>1, <2>1 DEF Coherent, Shape, Attached
  <2> QED BY <2>1, <2>2, <2>3
<1>25. WriterOnTop(T2, D, X2)
  BY DEF WriterOnTop
<1>26. Covered(T2, D, X2)
  BY DEF Covered, Past
<1>27. ClosedIsLast(T2, D, X2)
  BY <1>2 DEF ClosedIsLast
<1> QED BY <1>1, <1>20, <1>23, <1>25, <1>26, <1>27 DEF Coherent

-----------------------------------------------------------------------------
(* Ids and life cycles.                                                    *)

(* The first state.                                                        *)
LEMMA InitIInv == Init => IInv
<1> SUFFICES ASSUME Init PROVE IInv
  OBVIOUS
<1>0. Types
  BY InitTypes
<1>1. /\ \A t \in Txns : /\ tx[t].pc = "new" /\ tx[t].n = 0 /\ tx[t].ts = 0 /\ tx[t].where = "own"
      /\ \A d \in Deltas : dl[d].next = Null /\ dl[d].prev = Null
      /\ \A v \in Vertices : vx[v].head = Null
      /\ timestamp = 0 /\ gc.oldest = 0 /\ gc.txn = Null
  BY DEF Init, NewTx, NoDelta
<1>2. /\ \A d \in Deltas : d[1] \in Txns /\ d[2] \in Nat \ {0}
      /\ Null \notin Deltas /\ Null \notin Vertices
  BY PointerConstants, DeltaChainConstants DEF Deltas, Txns
<1>3. Clock(tx, timestamp, open, gc)
  <2>1. Begun(tx) = {} /\ Ended(tx) = {}
    BY <1>1 DEF Begun, Ended, Done
  <2>2. timestamp = Cardinality(Begun(tx)) + Cardinality(Ended(tx))
    BY <1>1, <2>1, FS_EmptySet
  <2>3. \A t \in Txns : Sound(t, tx[t], timestamp, open, gc)
    BY <1>1 DEF Sound
  <2> QED BY <1>1, <2>2, <2>3 DEF Clock, Distinct, GcSound, Done
<1>4. (\A d \in Deltas : ~Created(tx, d)) /\ (\A t \in Txns : ~Alive(tx, t) /\ ~Done(tx, t))
  BY <1>1, <1>2 DEF Created, Alive, Done
<1>5. \A t \in Txns, v \in Vertices : ~Wrote(tx, dl, t, v)
  BY <1>4 DEF Wrote
<1>6. Shape(tx, dl, vx)
  BY <1>1, <1>2, <1>4 DEF Shape
<1>7. Ordered(tx, dl)
  <2>1. [d \in Deltas |-> 0] \in [Deltas -> Nat]
    OBVIOUS
  <2> QED BY <1>1, <1>2, <2>1 DEF Ordered
<1>8. BackLinked(tx, dl) /\ HeadLinked(tx, dl, vx, gc) /\ Interleaved(tx, dl)
  BY <1>1, <1>2 DEF BackLinked, HeadLinked, Interleaved
<1>9. WriterOnTop(tx, dl, vx) /\ Covered(tx, dl, vx) /\ ClosedIsLast(tx, dl, vx) /\ FirstCommitter(tx, dl)
  BY <1>1, <1>5 DEF WriterOnTop, Covered, ClosedIsLast, FirstCommitter
<1> QED BY <1>0, <1>3, <1>6, <1>7, <1>8, <1>9 DEF IInv, Coherent

(* A step of t that changes its record to r and touches no chain.          *)
LEMMA RecordStep ==
  ASSUME NEW T, NEW D, NEW X, NEW g, NEW X2, NEW now, NEW ids, NEW ids2, Typed(T, D, X),
         Clock(T, now, ids, g), Coherent(T, D, X, g),
         NEW t \in Txns, NEW r \in TxRecords,
         r.n = T[t].n, r.ts = T[t].ts, r.start = T[t].start,
         T[t].pc # "new", T[t].pc # "end", r.pc # "new",
         r.pc = "running" => T[t].pc = "running",
         r.pc = "aborting" => T[t].pc = "running" \/ (T[t].pc = "aborting" /\ T[t].i <= r.i),
         r.where \in {"own", "committed", "waiting", "linked"} =>
           T[t].where \in {"own", "committed", "waiting", "linked"},
         ids2 \subseteq ids,
         \A x \in ids : x \notin ids2 => x = T[t].start \/ (Done(T, t) /\ x = T[t].ts),
         Sound(t, r, now, ids2, g), \A v \in Vertices : X2[v].head = X[v].head
  PROVE  /\ Clock([T EXCEPT ![t] = r], now, ids2, g)
         /\ Coherent([T EXCEPT ![t] = r], D, X2, g)
<1> DEFINE T2 == [T EXCEPT ![t] = r]
<1>0. T \in [Txns -> TxRecords] /\ D \in [Deltas -> DeltaRecords] /\ X \in [Vertices -> VertexRecords]
  BY DEF Typed
<1>1. T2[t] = r /\ \A u \in Txns : u # t => T2[u] = T[u]
  BY <1>0
<1>2. \A u \in Txns : /\ T2[u].n = T[u].n /\ T2[u].ts = T[u].ts /\ T2[u].start = T[u].start
                      /\ T2[u].pc = "new" <=> T[u].pc = "new"
                      /\ Done(T2, u) <=> Done(T, u)
                      /\ Alive(T2, u) => Alive(T, u)
  BY <1>1 DEF Done, Alive
<1> HIDE DEF T2
<1>3. /\ \A d \in Deltas : d[1] \in Txns /\ d[2] \in Nat /\ d[2] >= 1
      /\ \A u \in Txns : T[u].n \in Nat
  <2>1. \A u \in Txns : T[u].n \in 0..MaxDeltas
    BY <1>0 DEF TxRecords
  <2> QED BY <2>1, DeltaChainConstants DEF Deltas, Txns
<1>4. ASSUME NEW d \in Deltas, Attached(T2, d) PROVE Attached(T, d)
  <2>1. CASE d[1] # t
    BY <1>1, <1>3, <1>4, <2>1 DEF Attached, Created, Alive, Done
  <2>2. CASE d[1] = t
    <3>1. Created(T, d)
      BY <1>2, <1>3, <1>4 DEF Attached, Created
    <3>2. CASE r.pc # "aborting"
      BY <1>1, <1>2, <1>3, <1>4, <2>2, <3>1, <3>2 DEF Attached
    <3>3. CASE r.pc = "aborting" /\ T[t].pc = "running"
      BY <2>2, <3>1, <3>3 DEF Attached, Alive
    <3>4. CASE r.pc = "aborting" /\ T[t].pc = "aborting" /\ T[t].i <= r.i
      <4>1. ~Alive(T2, t)
        BY <1>1, <3>4 DEF Alive
      <4>2. CASE Done(T2, t)
        BY <1>2, <2>2, <3>1, <4>2 DEF Attached
      <4>3. CASE ~Done(T2, t)
        <5>1. r.i <= d[2] /\ r.i \in Nat /\ T[t].i \in Nat
          BY <1>0, <1>1, <1>4, <2>2, <4>1, <4>3 DEF Attached, TxRecords
        <5>2. T[t].i <= d[2]
          BY <1>3, <3>4, <5>1
        <5> QED BY <2>2, <3>1, <3>4, <5>2 DEF Attached
      <4> QED BY <4>2, <4>3
    <3> QED BY <3>2, <3>3, <3>4
  <2> QED BY <2>1, <2>2
<1>5. \A d \in Deltas : InUse(T2, g, d) => InUse(T, g, d)
  <2>1. ASSUME NEW d \in Deltas, InUse(T2, g, d) PROVE InUse(T, g, d)
    <3>1. CASE d[1] # t
      BY <1>1, <1>3, <2>1, <3>1 DEF InUse
    <3>2. CASE d[1] = t
      BY <1>1, <2>1, <3>2 DEF InUse
    <3> QED BY <3>1, <3>2
  <2> QED BY <2>1
<1>6. Frame(T, g, T2, g)
  BY <1>2, <1>4, <1>5 DEF Frame
<1>7. Coherent(T2, D, X2, g)
  BY <1>0, <1>6, FrameCoherent
<1>8. now = Cardinality(Begun(T2)) + Cardinality(Ended(T2))
  <2>1. Begun(T2) = Begun(T) /\ Ended(T2) = Ended(T)
    BY <1>2 DEF Begun, Ended
  <2> QED BY <2>1 DEF Clock
<1>9. Distinct(T2)
  BY <1>2 DEF Clock, Distinct
<1>10. g.txn # t
  <2>1. Sound(t, T[t], now, ids, g)
    BY DEF Clock
  <2>2. T[t].where # "linked"
    BY <2>1 DEF Sound
  <2>3. Null # t
    BY PointerConstants
  <2> QED BY <2>2, <2>3 DEF Clock, GcSound
<1>11. GcSound(T2, now, g)
  <2>1. ASSUME g.txn # Null PROVE T2[g.txn] = T[g.txn]
    <3>1. CASE g.txn \in Txns
      BY <1>1, <1>10, <3>1
    <3>2. CASE g.txn \notin Txns
      BY <1>0, <1>10 DEF T2
    <3> QED BY <3>1, <3>2
  <2> QED BY <2>1 DEF Clock, GcSound
<1>12. ASSUME NEW u \in Txns, u # t PROVE Sound(u, T[u], now, ids2, g)
  <2>1. Sound(u, T[u], now, ids, g)
    BY DEF Clock
  <2>2. ASSUME T[u].pc \in {"running", "aborting"} PROVE T[u].start \in ids2
    <3>1. T[u].start \in ids
      BY <2>1, <2>2 DEF Sound
    <3>2. T[u].start # T[t].start
      <4>1. T[u].start \in 0..2*N /\ T[t].start \in 0..2*N
        BY <1>0 DEF TxRecords, Timestamps
      <4>2. T[u].start \in Nat /\ T[t].start \in Nat /\ u \in Nat /\ t \in Nat
        BY <4>1, DeltaChainConstants DEF Txns
      <4>3. u < t \/ t < u
        BY <1>12, <4>2
      <4>4. T[u].start < T[t].start \/ T[t].start < T[u].start
        BY <2>2, <4>3 DEF Clock, Distinct
      <4> QED BY <4>2, <4>4
    <3>3. Done(T, t) => T[u].start # T[t].ts
      BY <2>2 DEF Clock, Distinct
    <3> QED BY <3>1, <3>2, <3>3
  <2> QED BY <2>1, <2>2 DEF Sound
<1>13. \A u \in Txns : Sound(u, T2[u], now, ids2, g)
  BY <1>1, <1>12
<1>14. Clock(T2, now, ids2, g)
  BY <1>8, <1>9, <1>11, <1>13 DEF Clock
<1> QED BY <1>7, <1>14 DEF T2

-----------------------------------------------------------------------------
(* The steps of a transaction.                                             *)

(* One that changes its record to r and touches no chain.                  *)
LEMMA QuietStep ==
  ASSUME IInv, NEW t \in Txns, NEW r \in TxRecords, tx' = [tx EXCEPT ![t] = r],
         dl' = dl, gc' = gc, timestamp' = timestamp, rd' = rd, db' = db, snap' = snap,
         vx' \in [Vertices -> VertexRecords], \A v \in Vertices : vx'[v].head = vx[v].head,
         engine' \in Txns \cup {Null},
         r.n = tx[t].n, r.ts = tx[t].ts, r.start = tx[t].start,
         tx[t].pc # "new", tx[t].pc # "end", r.pc # "new",
         r.pc = "running" => tx[t].pc = "running",
         r.pc = "aborting" => tx[t].pc = "running" \/ (tx[t].pc = "aborting" /\ tx[t].i <= r.i),
         r.where \in {"own", "committed", "waiting", "linked"} =>
           tx[t].where \in {"own", "committed", "waiting", "linked"},
         open' \subseteq open,
         \A x \in open : x \notin open' => x = tx[t].start \/ (Done(tx, t) /\ x = tx[t].ts),
         Sound(t, r, timestamp, open', gc)
  PROVE  IInv'
<1>1. Typed(tx, dl, vx) /\ Clock(tx, timestamp, open, gc) /\ Coherent(tx, dl, vx, gc)
  BY DEF IInv, Types, Typed
<1>2. Clock([tx EXCEPT ![t] = r], timestamp, open', gc) /\ Coherent([tx EXCEPT ![t] = r], dl, vx', gc)
  BY <1>1, RecordStep
<1>3. tx' \in [Txns -> TxRecords]
  BY <1>1 DEF Typed
<1>4. Types'
  BY <1>3 DEF IInv, Types
<1>5. Clock(tx', timestamp', open', gc') /\ Coherent(tx', dl', vx', gc')
  BY <1>2
<1> QED BY <1>4, <1>5 DEF IInv

(* Transaction::command_id goes up.                                        *)
LEMMA AdvanceCommandInv == ASSUME IInv, NEW t \in Txns, AdvanceCommand(t) PROVE IInv'
<1> DEFINE q == tx[t]
           r == [q EXCEPT !.cid = @ + 1]
<1>1. /\ q \in TxRecords /\ tx \in [Txns -> TxRecords] /\ Sound(t, q, timestamp, open, gc)
      /\ Shape(tx, dl, vx)
  BY DEF IInv, Types, Clock, Coherent
<1>2. q.pc = "running"
  BY DEF AdvanceCommand, Running
<1>3. /\ tx' = [tx EXCEPT ![t] = r] /\ open' = open
      /\ UNCHANGED <<dl, vx, timestamp, engine, rd, gc, db, snap>>
  BY <1>1 DEF AdvanceCommand
<1>4. q.cid + 1 \in 0..MaxCommand
  BY <1>1, MvccConstants DEF AdvanceCommand, TxRecords
<1>5. q = tx[t] /\ (Done(tx, t) <=> q.pc # "new" /\ q.ts < kTransactionInitialId)
  BY DEF Done
<1> HIDE DEF q
<1>6. r \in TxRecords
  BY <1>1, <1>4 DEF TxRecords, Phases, Propagations, Wheres
<1>7. /\ r.n = q.n /\ r.ts = q.ts /\ r.start = q.start /\ r.pc = q.pc
      /\ r.where = q.where /\ r.i = q.i /\ r.unlinkable = q.unlinkable
  BY <1>1 DEF TxRecords
<1> HIDE DEF r
<1>8. q.ts \in Nat /\ q.start \in Nat /\ q.n \in Nat /\ q.i \in Nat
  <2>1. q.ts \in 0..3*N /\ q.start \in 0..2*N /\ q.n \in 0..MaxDeltas /\ q.i \in Nat
    BY <1>1 DEF TxRecords, Timestamps
  <2> QED BY <2>1, DeltaChainConstants
<1>9. Sound(t, r, timestamp, open', gc)
  BY <1>1, <1>2, <1>3, <1>4, <1>7, <1>8 DEF Sound
<1>10. /\ vx' \in [Vertices -> VertexRecords] /\ engine' \in Txns \cup {Null}
      /\ \A v \in Vertices : vx'[v].head = vx[v].head
  BY <1>3 DEF IInv, Types
<1>11. /\ open' \subseteq open
      /\ \A x \in open : x \notin open' => x = tx[t].start \/ (Done(tx, t) /\ x = tx[t].ts)
  BY <1>1, <1>2, <1>3, <1>5 DEF Sound
<1> QED BY <1>1, <1>2, <1>3, <1>4, <1>5, <1>6, <1>7, <1>8, <1>9, <1>10, <1>11, QuietStep DEF Sound

(* non_seq_propagation is handled.                                         *)
LEMMA HandlePropagationInv == ASSUME IInv, NEW t \in Txns, HandlePropagation(t) PROVE IInv'
<1> DEFINE q == tx[t]
           todo == IF tx[t].nonseq \/ tx[t].propagation = "PENDING" THEN VerticesToCheck(t) ELSE {}
           r == [q EXCEPT !.pc = "flags", !.propagation = "HANDLED", !.todo = todo]
<1>1. /\ q \in TxRecords /\ tx \in [Txns -> TxRecords] /\ Sound(t, q, timestamp, open, gc)
      /\ Shape(tx, dl, vx)
  BY DEF IInv, Types, Clock, Coherent
<1>2. q.pc = "stored"
  BY DEF HandlePropagation, Running
<1>3. /\ tx' = [tx EXCEPT ![t] = r] /\ open' = open
      /\ UNCHANGED <<dl, vx, timestamp, engine, rd, gc, db, snap>>
  BY <1>1 DEF HandlePropagation
<1>4. todo \in SUBSET Vertices
  BY <1>1 DEF VerticesToCheck, Shape, Created
<1>5. q = tx[t] /\ (Done(tx, t) <=> q.pc # "new" /\ q.ts < kTransactionInitialId)
  BY DEF Done
<1> HIDE DEF q, todo
<1>6. r \in TxRecords
  BY <1>1, <1>4 DEF TxRecords, Phases, Propagations, Wheres
<1>7. /\ r.n = q.n /\ r.ts = q.ts /\ r.start = q.start /\ r.pc = "flags"
      /\ r.where = q.where /\ r.i = q.i /\ r.unlinkable = q.unlinkable
  BY <1>1 DEF TxRecords
<1> HIDE DEF r
<1>8. q.ts \in Nat /\ q.start \in Nat /\ q.n \in Nat /\ q.i \in Nat
  <2>1. q.ts \in 0..3*N /\ q.start \in 0..2*N /\ q.n \in 0..MaxDeltas /\ q.i \in Nat
    BY <1>1 DEF TxRecords, Timestamps
  <2> QED BY <2>1, DeltaChainConstants
<1>9. Sound(t, r, timestamp, open', gc)
  BY <1>1, <1>2, <1>3, <1>4, <1>7, <1>8 DEF Sound
<1>10. /\ vx' \in [Vertices -> VertexRecords] /\ engine' \in Txns \cup {Null}
      /\ \A v \in Vertices : vx'[v].head = vx[v].head
  BY <1>3 DEF IInv, Types
<1>11. /\ open' \subseteq open
      /\ \A x \in open : x \notin open' => x = tx[t].start \/ (Done(tx, t) /\ x = tx[t].ts)
  BY <1>1, <1>2, <1>3, <1>5 DEF Sound
<1> QED BY <1>1, <1>2, <1>3, <1>4, <1>5, <1>6, <1>7, <1>8, <1>9, <1>10, <1>11, QuietStep DEF Sound

(* The commit timestamp is reported.                                       *)
LEMMA ReportCommitTimestampInv == ASSUME IInv, NEW t \in Txns, ReportCommitTimestamp(t) PROVE IInv'
<1> DEFINE q == tx[t]
           pc == IF tx[t].where = "freed" THEN "end" ELSE "handover"
           r == [q EXCEPT !.pc = pc]
<1>1. /\ q \in TxRecords /\ tx \in [Txns -> TxRecords] /\ Sound(t, q, timestamp, open, gc)
      /\ Shape(tx, dl, vx)
  BY DEF IInv, Types, Clock, Coherent
<1>2. q.pc = "finalize"
  BY DEF ReportCommitTimestamp, Running
<1>3. /\ tx' = [tx EXCEPT ![t] = r] /\ open' = open \ {q.ts}
      /\ UNCHANGED <<dl, vx, timestamp, engine, rd, gc, db, snap>>
  BY <1>1 DEF ReportCommitTimestamp
<1>4. pc \in {"end", "handover"} /\ (pc = "handover" => q.where # "freed")
  OBVIOUS
<1>5. q = tx[t] /\ (Done(tx, t) <=> q.pc # "new" /\ q.ts < kTransactionInitialId)
  BY DEF Done
<1> HIDE DEF q, pc
<1>6. r \in TxRecords
  BY <1>1, <1>4 DEF TxRecords, Phases, Propagations, Wheres
<1>7. /\ r.n = q.n /\ r.ts = q.ts /\ r.start = q.start /\ r.pc = pc
      /\ r.where = q.where /\ r.i = q.i /\ r.unlinkable = q.unlinkable
  BY <1>1 DEF TxRecords
<1> HIDE DEF r
<1>8. q.ts \in Nat /\ q.start \in Nat /\ q.n \in Nat /\ q.i \in Nat
  <2>1. q.ts \in 0..3*N /\ q.start \in 0..2*N /\ q.n \in 0..MaxDeltas /\ q.i \in Nat
    BY <1>1 DEF TxRecords, Timestamps
  <2> QED BY <2>1, DeltaChainConstants
<1>9. Sound(t, r, timestamp, open', gc)
  BY <1>1, <1>2, <1>3, <1>4, <1>7, <1>8 DEF Sound
<1>10. /\ vx' \in [Vertices -> VertexRecords] /\ engine' \in Txns \cup {Null}
      /\ \A v \in Vertices : vx'[v].head = vx[v].head
  BY <1>3 DEF IInv, Types
<1>11. /\ open' \subseteq open
      /\ \A x \in open : x \notin open' => x = tx[t].start \/ (Done(tx, t) /\ x = tx[t].ts)
  BY <1>1, <1>2, <1>3, <1>5 DEF Sound
<1> QED BY <1>1, <1>2, <1>3, <1>4, <1>5, <1>6, <1>7, <1>8, <1>9, <1>10, <1>11, QuietStep DEF Sound

(* The deltas are handed over.                                             *)
LEMMA HandOverInv == ASSUME IInv, NEW t \in Txns, HandOver(t) PROVE IInv'
<1> DEFINE q == tx[t]
           place == IF tx[t].nonseq THEN "waiting" ELSE "committed"
           r == [q EXCEPT !.pc = "end", !.unlinkable = q.ts, !.where = place]
<1>1. /\ q \in TxRecords /\ tx \in [Txns -> TxRecords] /\ Sound(t, q, timestamp, open, gc)
      /\ Shape(tx, dl, vx)
  BY DEF IInv, Types, Clock, Coherent
<1>2. q.pc = "handover"
  BY DEF HandOver, Running
<1>3. /\ tx' = [tx EXCEPT ![t] = r] /\ open' = open
      /\ UNCHANGED <<dl, vx, timestamp, engine, rd, gc, db, snap>>
  BY <1>1 DEF HandOver
<1>4. place \in {"waiting", "committed"}
  BY Zenon
<1>5. q.ts \in Timestamps
  BY <1>1, <1>2, DeltaChainConstants DEF Sound, TxRecords, Timestamps, kTransactionInitialId
<1>6. q = tx[t] /\ (Done(tx, t) <=> q.pc # "new" /\ q.ts < kTransactionInitialId)
  BY DEF Done
<1> HIDE DEF q, place
<1>7. r \in TxRecords
  BY <1>1, <1>4, <1>5 DEF TxRecords, Phases, Propagations, Wheres
<1>8. /\ r.n = q.n /\ r.ts = q.ts /\ r.start = q.start /\ r.pc = "end"
      /\ r.where = place /\ r.i = q.i /\ r.unlinkable = q.ts
  BY <1>1 DEF TxRecords
<1> HIDE DEF r
<1>9. q.ts \in Nat /\ q.start \in Nat /\ q.n \in Nat /\ q.i \in Nat
  <2>1. q.ts \in 0..3*N /\ q.start \in 0..2*N /\ q.n \in 0..MaxDeltas /\ q.i \in Nat
    BY <1>1 DEF TxRecords, Timestamps
  <2> QED BY <2>1, DeltaChainConstants
<1>10. Sound(t, r, timestamp, open', gc)
  BY <1>1, <1>2, <1>3, <1>4, <1>5, <1>8, <1>9 DEF Sound
<1>11. /\ vx' \in [Vertices -> VertexRecords] /\ engine' \in Txns \cup {Null}
      /\ \A v \in Vertices : vx'[v].head = vx[v].head
  BY <1>3 DEF IInv, Types
<1>12. /\ open' \subseteq open
      /\ \A x \in open : x \notin open' => x = tx[t].start \/ (Done(tx, t) /\ x = tx[t].ts)
  BY <1>1, <1>2, <1>3, <1>6 DEF Sound
<1> QED BY <1>1, <1>2, <1>3, <1>4, <1>5, <1>6, <1>7, <1>8, <1>9, <1>10, <1>11, <1>12, QuietStep DEF Sound

(* A commit without deltas.                                                *)
LEMMA CommitNothingInv == ASSUME IInv, NEW t \in Txns, CommitNothing(t) PROVE IInv'
<1> DEFINE q == tx[t]
           r == [q EXCEPT !.pc = "end"]
<1>1. /\ q \in TxRecords /\ tx \in [Txns -> TxRecords] /\ Sound(t, q, timestamp, open, gc)
      /\ Shape(tx, dl, vx)
  BY DEF IInv, Types, Clock, Coherent
<1>2. q.pc = "running"
  BY DEF CommitNothing, Running
<1>3. /\ tx' = [tx EXCEPT ![t] = r] /\ open' = open \ {q.start}
      /\ UNCHANGED <<dl, vx, timestamp, engine, rd, gc, db, snap>>
  BY <1>1 DEF CommitNothing
<1>4. q = tx[t] /\ (Done(tx, t) <=> q.pc # "new" /\ q.ts < kTransactionInitialId)
  BY DEF Done
<1> HIDE DEF q
<1>5. r \in TxRecords
  BY <1>1 DEF TxRecords, Phases, Propagations, Wheres
<1>6. /\ r.n = q.n /\ r.ts = q.ts /\ r.start = q.start /\ r.pc = "end"
      /\ r.where = q.where /\ r.i = q.i /\ r.unlinkable = q.unlinkable
  BY <1>1 DEF TxRecords
<1> HIDE DEF r
<1>7. q.ts \in Nat /\ q.start \in Nat /\ q.n \in Nat /\ q.i \in Nat
  <2>1. q.ts \in 0..3*N /\ q.start \in 0..2*N /\ q.n \in 0..MaxDeltas /\ q.i \in Nat
    BY <1>1 DEF TxRecords, Timestamps
  <2> QED BY <2>1, DeltaChainConstants
<1>8. Sound(t, r, timestamp, open', gc)
  BY <1>1, <1>2, <1>3, <1>6, <1>7 DEF Sound
<1>9. /\ vx' \in [Vertices -> VertexRecords] /\ engine' \in Txns \cup {Null}
      /\ \A v \in Vertices : vx'[v].head = vx[v].head
  BY <1>3 DEF IInv, Types
<1>10. /\ open' \subseteq open
      /\ \A x \in open : x \notin open' => x = tx[t].start \/ (Done(tx, t) /\ x = tx[t].ts)
  BY <1>1, <1>2, <1>3, <1>4 DEF Sound
<1> QED BY <1>1, <1>2, <1>3, <1>4, <1>5, <1>6, <1>7, <1>8, <1>9, <1>10, QuietStep DEF Sound

(* An abort begins.                                                        *)
LEMMA AbortBeginInv == ASSUME IInv, NEW t \in Txns, AbortBegin(t) PROVE IInv'
<1> DEFINE q == tx[t]
           pc == IF tx[t].n = 0 THEN "report" ELSE "aborting"
           r == [q EXCEPT !.pc = pc, !.i = 1, !.propagation = "HANDLED"]
<1>1. /\ q \in TxRecords /\ tx \in [Txns -> TxRecords] /\ Sound(t, q, timestamp, open, gc)
      /\ Shape(tx, dl, vx)
  BY DEF IInv, Types, Clock, Coherent
<1>2. q.pc = "running"
  BY DEF AbortBegin, Running
<1>3. /\ tx' = [tx EXCEPT ![t] = r] /\ open' = open
      /\ UNCHANGED <<dl, vx, timestamp, engine, rd, gc, db, snap>>
  BY <1>1 DEF AbortBegin
<1>4. pc \in {"report", "aborting"}
  OBVIOUS
<1>5. pc = "aborting" => q.n > 0
  BY <1>1, DeltaChainConstants DEF TxRecords
<1>6. q = tx[t] /\ (Done(tx, t) <=> q.pc # "new" /\ q.ts < kTransactionInitialId)
  BY DEF Done
<1> HIDE DEF q, pc
<1>7. r \in TxRecords
  BY <1>1, <1>4, <1>5 DEF TxRecords, Phases, Propagations, Wheres
<1>8. /\ r.n = q.n /\ r.ts = q.ts /\ r.start = q.start /\ r.pc = pc
      /\ r.where = q.where /\ r.i = 1 /\ r.unlinkable = q.unlinkable
  BY <1>1 DEF TxRecords
<1> HIDE DEF r
<1>9. q.ts \in Nat /\ q.start \in Nat /\ q.n \in Nat /\ q.i \in Nat
  <2>1. q.ts \in 0..3*N /\ q.start \in 0..2*N /\ q.n \in 0..MaxDeltas /\ q.i \in Nat
    BY <1>1 DEF TxRecords, Timestamps
  <2> QED BY <2>1, DeltaChainConstants
<1>10. Sound(t, r, timestamp, open', gc)
  BY <1>1, <1>2, <1>3, <1>4, <1>5, <1>8, <1>9 DEF Sound
<1>11. /\ vx' \in [Vertices -> VertexRecords] /\ engine' \in Txns \cup {Null}
      /\ \A v \in Vertices : vx'[v].head = vx[v].head
  BY <1>3 DEF IInv, Types
<1>12. /\ open' \subseteq open
      /\ \A x \in open : x \notin open' => x = tx[t].start \/ (Done(tx, t) /\ x = tx[t].ts)
  BY <1>1, <1>2, <1>3, <1>6 DEF Sound
<1> QED BY <1>1, <1>2, <1>3, <1>4, <1>5, <1>6, <1>7, <1>8, <1>9, <1>10, <1>11, <1>12, QuietStep DEF Sound

(* The deltas of an abort become garbage.                                  *)
LEMMA AbortHandOverInv == ASSUME IInv, NEW t \in Txns, AbortHandOver(t) PROVE IInv'
<1> DEFINE q == tx[t]
           r == [q EXCEPT !.pc = "report", !.where = "garbage", !.mark = timestamp]
<1>1. /\ q \in TxRecords /\ tx \in [Txns -> TxRecords] /\ Sound(t, q, timestamp, open, gc)
      /\ Shape(tx, dl, vx)
  BY DEF IInv, Types, Clock, Coherent
<1>2. q.pc = "aborting"
  BY DEF AbortHandOver, Running
<1>3. /\ tx' = [tx EXCEPT ![t] = r] /\ open' = open
      /\ UNCHANGED <<dl, vx, timestamp, engine, rd, gc, db, snap>>
  BY <1>1 DEF AbortHandOver
<1>4. timestamp \in Timestamps
  BY DEF IInv, Types
<1>5. q = tx[t] /\ (Done(tx, t) <=> q.pc # "new" /\ q.ts < kTransactionInitialId)
  BY DEF Done
<1> HIDE DEF q
<1>6. r \in TxRecords
  BY <1>1, <1>4 DEF TxRecords, Phases, Propagations, Wheres
<1>7. /\ r.n = q.n /\ r.ts = q.ts /\ r.start = q.start /\ r.pc = "report"
      /\ r.where = "garbage" /\ r.i = q.i /\ r.unlinkable = q.unlinkable
  BY <1>1 DEF TxRecords
<1> HIDE DEF r
<1>8. q.ts \in Nat /\ q.start \in Nat /\ q.n \in Nat /\ q.i \in Nat
  <2>1. q.ts \in 0..3*N /\ q.start \in 0..2*N /\ q.n \in 0..MaxDeltas /\ q.i \in Nat
    BY <1>1 DEF TxRecords, Timestamps
  <2> QED BY <2>1, DeltaChainConstants
<1>9. Sound(t, r, timestamp, open', gc)
  BY <1>1, <1>2, <1>3, <1>4, <1>7, <1>8 DEF Sound
<1>10. /\ vx' \in [Vertices -> VertexRecords] /\ engine' \in Txns \cup {Null}
      /\ \A v \in Vertices : vx'[v].head = vx[v].head
  BY <1>3 DEF IInv, Types
<1>11. /\ open' \subseteq open
      /\ \A x \in open : x \notin open' => x = tx[t].start \/ (Done(tx, t) /\ x = tx[t].ts)
  BY <1>1, <1>2, <1>3, <1>5 DEF Sound
<1> QED BY <1>1, <1>2, <1>3, <1>4, <1>5, <1>6, <1>7, <1>8, <1>9, <1>10, <1>11, QuietStep DEF Sound

(* An abort reports the start timestamp.                                   *)
LEMMA AbortReportInv == ASSUME IInv, NEW t \in Txns, AbortReport(t) PROVE IInv'
<1> DEFINE q == tx[t]
           r == [q EXCEPT !.pc = "end"]
<1>1. /\ q \in TxRecords /\ tx \in [Txns -> TxRecords] /\ Sound(t, q, timestamp, open, gc)
      /\ Shape(tx, dl, vx)
  BY DEF IInv, Types, Clock, Coherent
<1>2. q.pc = "report"
  BY DEF AbortReport, Running
<1>3. /\ tx' = [tx EXCEPT ![t] = r] /\ open' = open \ {q.start}
      /\ UNCHANGED <<dl, vx, timestamp, engine, rd, gc, db, snap>>
  BY <1>1 DEF AbortReport
<1>4. q = tx[t] /\ (Done(tx, t) <=> q.pc # "new" /\ q.ts < kTransactionInitialId)
  BY DEF Done
<1> HIDE DEF q
<1>5. r \in TxRecords
  BY <1>1 DEF TxRecords, Phases, Propagations, Wheres
<1>6. /\ r.n = q.n /\ r.ts = q.ts /\ r.start = q.start /\ r.pc = "end"
      /\ r.where = q.where /\ r.i = q.i /\ r.unlinkable = q.unlinkable
  BY <1>1 DEF TxRecords
<1> HIDE DEF r
<1>7. q.ts \in Nat /\ q.start \in Nat /\ q.n \in Nat /\ q.i \in Nat
  <2>1. q.ts \in 0..3*N /\ q.start \in 0..2*N /\ q.n \in 0..MaxDeltas /\ q.i \in Nat
    BY <1>1 DEF TxRecords, Timestamps
  <2> QED BY <2>1, DeltaChainConstants
<1>8. Sound(t, r, timestamp, open', gc)
  BY <1>1, <1>2, <1>3, <1>6, <1>7 DEF Sound
<1>9. /\ vx' \in [Vertices -> VertexRecords] /\ engine' \in Txns \cup {Null}
      /\ \A v \in Vertices : vx'[v].head = vx[v].head
  BY <1>3 DEF IInv, Types
<1>10. /\ open' \subseteq open
      /\ \A x \in open : x \notin open' => x = tx[t].start \/ (Done(tx, t) /\ x = tx[t].ts)
  BY <1>1, <1>2, <1>3, <1>4 DEF Sound
<1> QED BY <1>1, <1>2, <1>3, <1>4, <1>5, <1>6, <1>7, <1>8, <1>9, <1>10, QuietStep DEF Sound

(* A step of a running transaction that changes no more than its marks.    *)
LEMMA MarkStep ==
  ASSUME NEW T, NEW D, NEW X, NEW g, NEW X2, NEW now, NEW ids, Typed(T, D, X),
         Clock(T, now, ids, g), Coherent(T, D, X, g),
         NEW t \in Txns, T[t].pc = "running", NEW r \in TxRecords,
         r.n = T[t].n, r.ts = T[t].ts, r.start = T[t].start, r.pc = "running",
         r.where = T[t].where, r.unlinkable = T[t].unlinkable,
         X2 \in [Vertices -> VertexRecords], \A v \in Vertices : X2[v].head = X[v].head
  PROVE  /\ Typed([T EXCEPT ![t] = r], D, X2)
         /\ Clock([T EXCEPT ![t] = r], now, ids, g)
         /\ Coherent([T EXCEPT ![t] = r], D, X2, g)
<1>1. Typed([T EXCEPT ![t] = r], D, X2)
  BY DEF Typed
<1>2. Sound(t, T[t], now, ids, g)
  BY DEF Clock
<1>3. Sound(t, r, now, ids, g)
  BY <1>2 DEF Sound
<1> QED BY <1>1, <1>3, RecordStep

(* Linking a delta leaves ids and life cycles alone.                       *)
LEMMA LinkClock ==
  ASSUME NEW T, NEW D, NEW X, NEW g, NEW T2, NEW D2, NEW X2, NEW now, NEW ids,
         Typed(T, D, X), Clock(T, now, ids, g), g.txn \in Txns \cup {Null},
         NEW t \in Txns, T[t].pc = "running", NEW v, NEW act, NEW state,
         Links(T, D, X, T2, D2, X2, t, v, act, state)
  PROVE  Clock(T2, now, ids, g)
<1>1. \A u \in Txns : /\ T2[u].pc = T[u].pc /\ T2[u].start = T[u].start /\ T2[u].ts = T[u].ts
                      /\ T2[u].where = T[u].where /\ T2[u].i = T[u].i
                      /\ T2[u].unlinkable = T[u].unlinkable
                      /\ T2[u].n = IF u = t THEN T[u].n + 1 ELSE T[u].n
  BY DEF Links
<1>2. \A u \in Txns : Done(T2, u) <=> Done(T, u)
  BY <1>1 DEF Done
<1>3. T[t].n \in Nat
  <2>1. T[t].n \in 0..MaxDeltas
    BY DEF Typed, TxRecords
  <2> QED BY <2>1, DeltaChainConstants
<1>4. now = Cardinality(Begun(T2)) + Cardinality(Ended(T2))
  <2>1. Begun(T2) = Begun(T) /\ Ended(T2) = Ended(T)
    BY <1>1, <1>2 DEF Begun, Ended
  <2> QED BY <2>1 DEF Clock
<1>5. Distinct(T2)
  BY <1>1, <1>2 DEF Clock, Distinct
<1>6. ASSUME NEW u \in Txns PROVE Sound(u, T2[u], now, ids, g)
  <2>1. Sound(u, T[u], now, ids, g)
    BY DEF Clock
  <2>2. CASE u # t
    BY <1>1, <2>1, <2>2 DEF Sound
  <2>3. CASE u = t
    <3>1. T2[u].n = T[t].n + 1 /\ T2[u].n > 0
      BY <1>1, <1>3, <2>3
    <3> QED BY <1>1, <2>1, <2>3, <3>1 DEF Sound
  <2> QED BY <2>2, <2>3
<1>7. GcSound(T2, now, g)
  <2>1. ASSUME g.txn # Null, g.txn \in Txns
        PROVE  T2[g.txn].where = T[g.txn].where /\ T2[g.txn].n = T[g.txn].n
    <3>1. T[g.txn].where = "linked" /\ Sound(t, T[t], now, ids, g)
      BY <2>1 DEF Clock, GcSound
    <3>2. g.txn # t
      BY <3>1 DEF Sound
    <3> QED BY <1>1, <2>1, <3>2
  <2> QED BY <2>1 DEF Clock, GcSound
<1> QED BY <1>4, <1>5, <1>6, <1>7 DEF Clock

(* What ids say about the state of a transaction.                          *)
LEMMA IdFacts ==
  ASSUME IInv, NEW t \in Txns
  PROVE  /\ tx[t].ts \in Nat /\ tx[t].start \in Nat /\ tx[t].n \in Nat /\ tx[t].i \in Nat
         /\ timestamp \in Nat /\ kTransactionInitialId \in Nat /\ timestamp <= kTransactionInitialId
         /\ tx[t].start <= kTransactionInitialId /\ tx[t].n <= MaxDeltas
         /\ Alive(tx, t) => tx[t].ts = TransactionId(t) /\ tx[t].ts > kTransactionInitialId
                            /\ tx[t].start < kTransactionInitialId
         /\ Sound(t, tx[t], timestamp, open, gc) /\ tx[t] \in TxRecords
         /\ \A u \in Txns : tx[u].pc # "new" => (tx[u].ts = TransactionId(t) <=>
                                                   u = t /\ ~Done(tx, u))
<1>1. /\ tx \in [Txns -> TxRecords] /\ timestamp \in 0..2*N
      /\ \A u \in Txns : Sound(u, tx[u], timestamp, open, gc)
  BY DEF IInv, Types, Clock, Timestamps
<1>2. tx[t] \in TxRecords
  BY <1>1
<1>3. tx[t].ts \in 0..3*N /\ tx[t].start \in 0..2*N /\ tx[t].n \in 0..MaxDeltas /\ tx[t].i \in Nat
  BY <1>2 DEF TxRecords, Timestamps
<1>4. /\ tx[t].ts \in Nat /\ tx[t].start \in Nat /\ tx[t].n \in Nat /\ tx[t].i \in Nat
      /\ timestamp \in Nat /\ kTransactionInitialId \in Nat /\ timestamp <= kTransactionInitialId
      /\ tx[t].start <= kTransactionInitialId /\ tx[t].n <= MaxDeltas
  BY <1>1, <1>3, DeltaChainConstants DEF kTransactionInitialId
<1>5. \A u \in Txns : /\ u \in Nat /\ u > 0 /\ TransactionId(u) \in Nat
                      /\ TransactionId(u) = kTransactionInitialId + u
  BY <1>4 DEF Txns, TransactionId
<1>6. ASSUME Alive(tx, t)
      PROVE  /\ tx[t].ts = TransactionId(t) /\ tx[t].ts > kTransactionInitialId
             /\ tx[t].start < kTransactionInitialId
  <2>1. tx[t].ts = TransactionId(t) /\ tx[t].start < timestamp
    BY <1>1, <1>6 DEF Sound, Alive
  <2> QED BY <1>4, <1>5, <2>1
<1>7. ASSUME NEW u \in Txns, tx[u].pc # "new"
      PROVE  tx[u].ts = TransactionId(t) <=> u = t /\ ~Done(tx, u)
  <2>1. tx[u].ts < kTransactionInitialId \/ tx[u].ts = TransactionId(u)
    <3>1. tx[u].pc \in Phases
      BY <1>1 DEF TxRecords
    <3>2. Sound(u, tx[u], timestamp, open, gc)
      BY <1>1
    <3> QED BY <1>7, <3>1, <3>2 DEF Sound, Phases
  <2>2. tx[u].ts \in Nat
    <3>1. tx[u].ts \in 0..3*N
      BY <1>1 DEF TxRecords
    <3> QED BY <3>1, DeltaChainConstants
  <2> QED BY <1>4, <1>5, <1>7, <2>1, <2>2 DEF Done
<1> QED BY <1>1, <1>2, <1>4, <1>6, <1>7

(* The deltas there are.                                                   *)
LEMMA DeltaFacts ==
  ASSUME IInv, NEW d \in Deltas
  PROVE  /\ d[1] \in Txns /\ d[2] \in 1..MaxDeltas /\ d = <<d[1], d[2]>> /\ d # Null /\ d \notin Vertices
         /\ Created(tx, d) => tx[d[1]].pc # "new"
         /\ dl[d] \in DeltaRecords /\ dl[d].next \in Pointers
<1>1. d[1] \in Txns /\ d[2] \in 1..MaxDeltas /\ d = <<d[1], d[2]>>
  BY DEF Deltas
<1>2. Created(tx, d) => tx[d[1]].pc # "new"
  <2>1. Sound(d[1], tx[d[1]], timestamp, open, gc)
    BY <1>1 DEF IInv, Clock
  <2>2. d[2] >= 1 /\ d[2] \in Nat
    BY <1>1, DeltaChainConstants
  <2> QED BY <2>1, <2>2 DEF Created, Sound
<1>3. dl[d] \in DeltaRecords
  BY DEF IInv, Types
<1>4. dl[d].next \in Pointers
  BY <1>3 DEF DeltaRecords
<1> QED BY <1>1, <1>2, <1>3, <1>4, PointerConstants

(* A head: whose it is, and what PrepareForWrite and its like ask of it.   *)
LEMMA HeadFacts ==
  ASSUME IInv, NEW t \in Txns, Alive(tx, t), NEW v \in Vertices, vx[v].head # Null
  PROVE  /\ vx[v].head \in Deltas /\ vx[v].head[1] \in Txns
         /\ TsOf(vx[v].head) = tx[vx[v].head[1]].ts /\ TsOf(vx[v].head) \in Nat
         /\ Own(t, vx[v].head) <=> vx[v].head[1] = t
         /\ Alive(tx, vx[v].head[1]) => TsOf(vx[v].head) >= tx[t].start
         /\ vx[v].head # <<t, tx[t].n + 1>>
<1> DEFINE h == vx[v].head
<1>1. h \in Deltas
  BY DEF IInv, Types, VertexRecords, Pointers
<1>2. h[1] \in Txns /\ Created(tx, h) /\ tx[h[1]].pc # "new"
  BY <1>1, DeltaFacts DEF IInv, Coherent, Shape
<1>3. TsOf(h) = tx[h[1]].ts /\ TsOf(h) \in Nat
  BY <1>2, IdFacts DEF TsOf
<1>4. Own(t, h) <=> h[1] = t
  <2>1. tx[h[1]].ts = TransactionId(t) <=> h[1] = t /\ ~Done(tx, h[1])
    BY <1>2, IdFacts
  <2>2. ~Done(tx, t)
    BY IdFacts DEF Done
  <2> QED BY <1>3, <2>1, <2>2 DEF Own
<1>5. Alive(tx, h[1]) => TsOf(h) >= tx[t].start
  <2>1. SUFFICES ASSUME Alive(tx, h[1]) PROVE TsOf(h) >= tx[t].start
    OBVIOUS
  <2>2. tx[h[1]].ts > kTransactionInitialId
    BY <1>2, <2>1, IdFacts
  <2>3. /\ kTransactionInitialId \in Nat /\ tx[t].start \in Nat
        /\ tx[t].start <= kTransactionInitialId
    BY IdFacts
  <2> QED BY <1>3, <2>2, <2>3
<1>6. h # <<t, tx[t].n + 1>>
  <2>1. tx[t].n \in Nat
    BY IdFacts
  <2> QED BY <1>2, <2>1 DEF Created
<1> QED BY <1>1, <1>2, <1>3, <1>4, <1>5, <1>6

(* Where a vertex may be written without joining others, the writers that  *)
(* committed had done so before the transaction began.                     *)
LEMMA SeenBefore ==
  ASSUME IInv, NEW t \in Txns, Alive(tx, t), NEW v \in Vertices,
         \/ vx[v].head = Null
         \/ vx[v].head # Null /\ Own(t, vx[v].head) /\ ~IsDeltaNonSequential(vx[v].head)
         \/ vx[v].head # Null /\ ~Own(t, vx[v].head) /\ TsOf(vx[v].head) < tx[t].start
  PROVE  \A w \in Txns : w # t /\ Done(tx, w) /\ Wrote(tx, dl, w, v) => tx[w].ts < tx[t].start
<1> SUFFICES ASSUME NEW w \in Txns, w # t, Done(tx, w), Wrote(tx, dl, w, v)
             PROVE  tx[w].ts < tx[t].start
  OBVIOUS
<1> DEFINE h == vx[v].head
<1>1. Past(tx, w) \/ \E S \in SUBSET Deltas : Reaches(tx, dl, S, h, w)
  BY DEF IInv, Coherent, Covered
<1>2. tx[w].ts \in Nat /\ tx[t].start \in Nat
  BY IdFacts
<1>3. CASE Past(tx, w)
  BY <1>3 DEF Past
<1>4. CASE h # Null /\ Own(t, h) /\ ~IsDeltaNonSequential(h)
  <2>1. h[1] = t /\ ~NonSeq(dl, h)
    BY <1>4, HeadFacts DEF IsDeltaNonSequential, CanBeNonSequential, NonSeq
  <2> QED BY <1>4, <2>1 DEF IInv, Coherent, ClosedIsLast
<1>5. ASSUME NEW S \in SUBSET Deltas, Reaches(tx, dl, S, h, w), h # Null, TsOf(h) < tx[t].start
      PROVE  tx[w].ts < tx[t].start
  <2>1. tx[w].ts <= tx[h[1]].ts
    BY <1>5 DEF Reaches
  <2>2. TsOf(h) = tx[h[1]].ts /\ TsOf(h) \in Nat
    BY <1>5, HeadFacts
  <2> QED BY <1>2, <1>5, <2>1, <2>2
<1>6. ASSUME NEW S \in SUBSET Deltas, Reaches(tx, dl, S, h, w) PROVE h # Null
  BY <1>6, PointerConstants DEF Reaches
<1> QED BY <1>1, <1>3, <1>4, <1>5, <1>6

(* PrepareForWrite admits.                                                 *)
LEMMA WriteAdmitted ==
  ASSUME IInv, NEW t \in Txns, Alive(tx, t), NEW v \in Vertices, PrepareForWrite(t, v)
  PROVE  Admitted(tx, dl, vx, t, v, "SET", "SEQUENTIAL")
<1> DEFINE h == vx[v].head
<1>1. \A w \in Txns : w # t /\ Done(tx, w) /\ Wrote(tx, dl, w, v) => tx[w].ts < tx[t].start
  BY SeenBefore DEF PrepareForWrite
<1>2. h # Null /\ h[1] # t => ~Alive(tx, h[1])
  <2>1. SUFFICES ASSUME h # Null, h[1] # t, Alive(tx, h[1]) PROVE FALSE
    OBVIOUS
  <2>2. TsOf(h) \in Nat /\ ~Own(t, h) /\ TsOf(h) >= tx[t].start /\ tx[t].start \in Nat
    BY <2>1, HeadFacts, IdFacts
  <2> QED BY <2>1, <2>2 DEF PrepareForWrite
<1> QED BY <1>1, <1>2 DEF Admitted

(* The walk over a chain that is open to t begins at the head.             *)
LEMMA BlockerAtHead ==
  ASSUME IInv, NEW t \in Txns, Alive(tx, t), NEW v \in Vertices, vx[v].head # Null,
         ~Own(t, vx[v].head), TsOf(vx[v].head) >= tx[t].start,
         ~IsDeltaNonSequential(vx[v].head), ~ActiveBlocker(t, v)
  PROVE  CanBeNonSequential(vx[v].head)
<1> DEFINE h == vx[v].head
           Open(d) == Own(t, d) \/ (TsOf(d) >= tx[t].start /\ ~IsDeltaNonSequential(d))
           Q == {d \in Deltas : Open(d)}
           c == Chain(h)
           p == SubSeq(c, 1, Cardinality({i \in DOMAIN c : \A j \in 1..i : c[j] \in Q}))
           walked == SubSeq(c, 1, Cardinality({i \in DOMAIN c : \A j \in 1..i : Open(c[j])}))
<1>1. h \in Deltas /\ \A e \in Deltas : dl[e].next \in Pointers
  BY HeadFacts, DeltaFacts
<1>2. h \in Q
  BY <1>1
<1>3. c \in Seq(Deltas)
  BY <1>1, ChainFacts
<1> HIDE DEF c, h
<1>4. p \in Seq(Deltas) /\ Len(p) >= 1 /\ p[1] = h
  <2> HIDE DEF Q
  <2> QED BY <1>1, <1>2, RunFacts DEF c
<1>5. {i \in DOMAIN c : \A j \in 1..i : c[j] \in Q} = {i \in DOMAIN c : \A j \in 1..i : Open(c[j])}
  <2>1. \A i \in DOMAIN c : \A j \in 1..i : c[j] \in Deltas
    BY <1>3
  <2> HIDE DEF Open
  <2> QED BY <2>1
<1>6. walked = p
  BY <1>5
<1>7. 1 \in DOMAIN walked /\ walked[1] = h
  <2> HIDE DEF p, walked
  <2> QED BY <1>4, <1>6
<1>8. ActiveBlocker(t, v) <=> \E i \in DOMAIN walked : ~Own(t, walked[i]) /\ ~CanBeNonSequential(walked[i])
  BY DEF ActiveBlocker, PrefixWhile, c, h
<1> HIDE DEF walked
<1> QED BY <1>7, <1>8 DEF h

(* PrepareForNonSequentialWrite admits.                                    *)
LEMMA EdgeAdmitted ==
  ASSUME IInv, NEW t \in Txns, Alive(tx, t), NEW v \in Vertices,
         PrepareForNonSequentialWrite(t, v) # "SERIALIZATION_ERROR"
  PROVE  LET state == ComputeDeltaChainState(t, v, PrepareForNonSequentialWrite(t, v))
         IN /\ state \in {"SEQUENTIAL", "NON_SEQUENTIAL", "FORCED_SEQUENTIAL"}
            /\ Admitted(tx, dl, vx, t, v, "EDGE", state)
<1> DEFINE h == vx[v].head
           result == PrepareForNonSequentialWrite(t, v)
           state == ComputeDeltaChainState(t, v, result)
           fails == /\ h # Null
                    /\ ~Own(t, h) /\ TsOf(h) >= tx[t].start /\ ~IsDeltaNonSequential(h)
                    /\ \/ CanBeNonSequential(h) /\ dl[h].state = "FORCED_SEQUENTIAL"
                       \/ ActiveBlocker(t, v)
           nonSequential == IF h = Null THEN FALSE
                            ELSE IF ~Own(t, h) /\ TsOf(h) < tx[t].start THEN vx[v].flag
                            ELSE IF Own(t, h) THEN IsDeltaNonSequential(h) ELSE TRUE
<1>1. result = IF fails THEN "SERIALIZATION_ERROR" ELSE IF nonSequential THEN "NON_SEQUENTIAL" ELSE "SUCCESS"
  BY DEF PrepareForNonSequentialWrite
<1>2. ~fails
  BY <1>1
<1>3. state \in {"SEQUENTIAL", "NON_SEQUENTIAL", "FORCED_SEQUENTIAL"}
  BY DEF ComputeDeltaChainState
<1>4. state = IF BlockerUpstream(t, v) THEN "FORCED_SEQUENTIAL"
              ELSE IF result = "NON_SEQUENTIAL" THEN "NON_SEQUENTIAL" ELSE "SEQUENTIAL"
  BY DEF ComputeDeltaChainState
<1>5. (result = "NON_SEQUENTIAL") <=> nonSequential
  <2> HIDE DEF result, fails, nonSequential
  <2> QED BY <1>1, <1>2
<1> HIDE DEF result, state
<1>6. h # Null => (Own(t, h) <=> h[1] = t) /\ TsOf(h) \in Nat /\ tx[t].start \in Nat
  BY HeadFacts, IdFacts
<1>7. ASSUME h # Null, h[1] # t, Alive(tx, h[1])
      PROVE  state = "NON_SEQUENTIAL" /\ dl[h].act = "EDGE" /\ dl[h].state # "FORCED_SEQUENTIAL"
  <2>1. ~Own(t, h) /\ TsOf(h) >= tx[t].start
    BY <1>6, <1>7, HeadFacts
  <2>2. ~BlockerUpstream(t, v)
    BY <2>1 DEF BlockerUpstream
  <2>3. nonSequential
    BY <1>6, <1>7, <2>1
  <2>4. state = "NON_SEQUENTIAL"
    <3> HIDE DEF nonSequential
    <3> QED BY <1>4, <1>5, <2>2, <2>3
  <2>5. CASE IsDeltaNonSequential(h)
    BY <2>4, <2>5 DEF IsDeltaNonSequential, CanBeNonSequential
  <2>6. CASE ~IsDeltaNonSequential(h)
    <3>1. ~ActiveBlocker(t, v) /\ ~(CanBeNonSequential(h) /\ dl[h].state = "FORCED_SEQUENTIAL")
      BY <1>2, <1>7, <2>1, <2>6
    <3>2. CanBeNonSequential(h)
      BY <1>7, <2>1, <2>6, <3>1, BlockerAtHead
    <3> QED BY <2>4, <3>1, <3>2 DEF CanBeNonSequential
  <2> QED BY <2>5, <2>6
<1>8. ASSUME state # "NON_SEQUENTIAL"
      PROVE  \A w \in Txns : w # t /\ Done(tx, w) /\ Wrote(tx, dl, w, v) => tx[w].ts < tx[t].start
  <2>1. CASE BlockerUpstream(t, v)
    <3>1. h # Null /\ Own(t, h) /\ ~IsDeltaNonSequential(h)
      BY <2>1 DEF BlockerUpstream, IsDeltaNonSequential
    <3> QED BY <3>1, SeenBefore
  <2>2. CASE ~BlockerUpstream(t, v)
    <3>1. ~nonSequential
      <4> HIDE DEF nonSequential
      <4> QED BY <1>4, <1>5, <1>8, <2>2
    <3>2. \/ h = Null \/ (h # Null /\ Own(t, h) /\ ~IsDeltaNonSequential(h))
          \/ (h # Null /\ ~Own(t, h) /\ TsOf(h) < tx[t].start)
      BY <3>1
    <3> QED BY <3>2, SeenBefore
  <2> QED BY <2>1, <2>2
<1>9. ASSUME Wrote(tx, dl, t, v) PROVE state = "FORCED_SEQUENTIAL"
  <2>1. h # Null /\ h[1] = t /\ (dl[h].act = "SET" \/ dl[h].state = "FORCED_SEQUENTIAL")
    BY <1>9 DEF IInv, Coherent, WriterOnTop
  <2>2. BlockerUpstream(t, v)
    BY <1>6, <2>1 DEF BlockerUpstream, CanBeNonSequential
  <2> QED BY <1>4, <2>2
<1>10. Admitted(tx, dl, vx, t, v, "EDGE", state)
  BY <1>7, <1>8, <1>9 DEF Admitted
<1> QED BY <1>3, <1>10 DEF state, result

(* What was admitted still is once another delta of t has been linked.     *)
LEMMA NextAdmitted ==
  ASSUME NEW T, NEW D, NEW X, NEW g, NEW T2, NEW D2, NEW X2, Typed(T, D, X),
         Coherent(T, D, X, g), NEW t \in Txns, NEW v \in Vertices, NEW state,
         Links(T, D, X, T2, D2, X2, t, v, "EDGE", state), Admitted(T, D, X, t, v, "EDGE", state),
         NEW w \in Vertices, NEW other,
         (w = v /\ other = state) \/ (w # v /\ Admitted(T, D, X, t, w, "EDGE", other))
  PROVE  Admitted(T2, D2, X2, t, w, "EDGE", other)
<1> DEFINE d == <<t, T[t].n + 1>>
<1>1. /\ d \in Deltas
      /\ \A u \in Txns : /\ T2[u].pc = T[u].pc /\ T2[u].start = T[u].start /\ T2[u].ts = T[u].ts
                         /\ T2[u].n = IF u = t THEN T[u].n + 1 ELSE T[u].n
      /\ D2[d].act = "EDGE"
      /\ \A e \in Deltas : e # d => /\ D2[e].obj = D[e].obj /\ D2[e].act = D[e].act
                                    /\ e # X[v].head => D2[e].state = D[e].state
      /\ X2[v].head = d
      /\ \A x \in Vertices : x # v => X2[x].head = X[x].head
  BY DEF Links
<1>2. /\ \A u \in Txns : (Done(T2, u) <=> Done(T, u)) /\ (Alive(T2, u) <=> Alive(T, u))
      /\ \A e \in Deltas : e[1] \in Txns /\ e[2] \in Nat /\ e = <<e[1], e[2]>>
      /\ \A u \in Txns : T[u].n \in Nat
  <2>1. \A u \in Txns : T[u].n \in 0..MaxDeltas
    BY DEF Typed, TxRecords
  <2>2. \A e \in Deltas : e[1] \in Txns /\ e[2] \in Nat /\ e = <<e[1], e[2]>>
    BY DeltaChainConstants DEF Deltas
  <2>3. \A u \in Txns : T[u].n \in Nat
    BY <2>1, DeltaChainConstants
  <2> QED BY <1>1, <2>2, <2>3 DEF Done, Alive
<1>3. \A e \in Deltas : e # d => (Created(T2, e) <=> Created(T, e))
  <2>1. SUFFICES ASSUME NEW e \in Deltas, e # d PROVE Created(T2, e) <=> Created(T, e)
    OBVIOUS
  <2>2. e[1] = t => e[2] # T[t].n + 1
    BY <1>2, <2>1
  <2> QED BY <1>1, <1>2, <2>2 DEF Created
<1>4. ~Created(T, d) /\ d[1] = t
  BY <1>2 DEF Created
<1> HIDE DEF d
<1>5. \A u \in Txns : Wrote(T2, D2, u, w) => Wrote(T, D, u, w)
  BY <1>1, <1>3 DEF Wrote
<1>6. CASE w = v /\ other = state
  BY <1>1, <1>2, <1>4, <1>5, <1>6 DEF Admitted
<1>7. CASE w # v /\ Admitted(T, D, X, t, w, "EDGE", other)
  <2> DEFINE h == X[w].head
  <2>1. X2[w].head = h
    BY <1>1, <1>7
  <2>2. ASSUME h # Null
        PROVE  h \in Deltas /\ h # d /\ D2[h].act = D[h].act /\ D2[h].state = D[h].state
    <3>1. h \in Deltas
      BY <2>2 DEF Typed, VertexRecords, Pointers
    <3>2. Created(T, h) /\ D[h].obj = w
      BY <2>2 DEF Coherent, Shape
    <3>3. X[v].head # h
      BY <1>7, <2>2, <3>2 DEF Coherent, Shape
    <3> QED BY <1>1, <1>4, <3>1, <3>2, <3>3
  <2>3. h # Null => h[1] \in Txns
    BY <1>2, <2>2
  <2> QED BY <1>1, <1>2, <1>5, <1>7, <2>1, <2>2, <2>3 DEF Admitted
<1> QED BY <1>6, <1>7

(* CreateAndLinkDelta keeps what IInv says of a configuration.             *)
LEMMA LinkStep ==
  ASSUME NEW s, NEW g, NEW now, NEW ids, g.txn \in Txns \cup {Null}, Typed(s.tx, s.dl, s.vx),
         Clock(s.tx, now, ids, g), Coherent(s.tx, s.dl, s.vx, g),
         NEW t \in Txns, s.tx[t].pc = "running", NEW v \in Vertices,
         NEW act \in {"SET", "EDGE"}, NEW arg \in Pointers,
         NEW state \in {"SEQUENTIAL", "NON_SEQUENTIAL", "FORCED_SEQUENTIAL"},
         s.tx[t].n < MaxDeltas, Admitted(s.tx, s.dl, s.vx, t, v, act, state)
  PROVE  LET s2 == CreateAndLinkDelta(s, t, v, act, arg, state)
         IN /\ Typed(s2.tx, s2.dl, s2.vx) /\ Clock(s2.tx, now, ids, g)
            /\ Coherent(s2.tx, s2.dl, s2.vx, g)
            /\ Links(s.tx, s.dl, s.vx, s2.tx, s2.dl, s2.vx, t, v, act, state)
            /\ LinkMore(s.dl, s.vx, s2.dl, s2.vx, <<t, s.tx[t].n + 1>>, v, act, arg, state)
<1> DEFINE s2 == CreateAndLinkDelta(s, t, v, act, arg, state)
<1>1. s.vx[v].head # <<t, s.tx[t].n + 1>>
  <2>1. SUFFICES ASSUME s.vx[v].head = <<t, s.tx[t].n + 1>> PROVE FALSE
    OBVIOUS
  <2>2. s.tx[t].n \in 0..MaxDeltas
    BY DEF Typed, TxRecords
  <2>3. s.tx[t].n \in Nat
    BY <2>2, DeltaChainConstants
  <2>4. <<t, s.tx[t].n + 1>> \in Pointers
    BY <2>1 DEF Typed, VertexRecords
  <2>5. s.vx[v].head \in Deltas
    BY <2>1, <2>2, <2>3, DeltaChainConstants DEF Deltas
  <2>6. Created(s.tx, s.vx[v].head)
    BY <2>5, PointerConstants DEF Coherent, Shape
  <2> QED BY <2>1, <2>3, <2>6 DEF Created
<1>2. Typed(s2.tx, s2.dl, s2.vx) /\ Links(s.tx, s.dl, s.vx, s2.tx, s2.dl, s2.vx, t, v, act, state)
  BY <1>1, LinkFacts
<1>6. LinkMore(s.dl, s.vx, s2.dl, s2.vx, <<t, s.tx[t].n + 1>>, v, act, arg, state)
  BY <1>1, LinkMoreFacts
<1> HIDE DEF s2
<1>3. \A u \in Txns : Alive(s.tx, u) => s.tx[u].ts \in Nat /\ s.tx[u].ts >= kTransactionInitialId
  <2>1. SUFFICES ASSUME NEW u \in Txns, Alive(s.tx, u)
                 PROVE  s.tx[u].ts \in Nat /\ s.tx[u].ts >= kTransactionInitialId
    OBVIOUS
  <2>2. s.tx[u].ts = TransactionId(u)
    BY <2>1 DEF Clock, Sound, Alive
  <2>3. u \in Nat
    BY DEF Txns
  <2> QED BY <2>2, <2>3, DeltaChainConstants DEF TransactionId, kTransactionInitialId
<1>4. Coherent(s2.tx, s2.dl, s2.vx, g)
  BY <1>2, <1>3, LinkCoherent DEF Alive
<1>5. Clock(s2.tx, now, ids, g)
  BY <1>2, LinkClock
<1> QED BY <1>2, <1>4, <1>5, <1>6 DEF s2

(* VertexAccessor::SetProperty.                                            *)
LEMMA SetPropertyInv ==
  ASSUME IInv, NEW t \in Txns, NEW v \in Vertices, SetProperty(t, v)
  PROVE  IInv'
<1>1. /\ Typed(tx, dl, vx) /\ Clock(tx, timestamp, open, gc) /\ Coherent(tx, dl, vx, gc)
      /\ gc.txn \in Txns \cup {Null} /\ tx[t].pc = "running" /\ tx[t].n < MaxDeltas
      /\ vx[v].val \in Pointers /\ Alive(tx, t)
      /\ UNCHANGED <<timestamp, open, engine, rd, gc, db, snap>>
  BY DEF IInv, Types, Typed, GcRecords, SetProperty, Running, VertexRecords, Alive
<1>2. State.tx = tx /\ State.dl = dl /\ State.vx = vx
  BY DEF State
<1>3. CASE PrepareForWrite(t, v)
  <2> DEFINE s == State
             s2 == CreateAndLinkDelta(s, t, v, "SET", vx[v].val, "SEQUENTIAL")
  <2>1. tx' = s2.tx /\ dl' = s2.dl /\ vx' = s2.vx
    BY <1>3 DEF SetProperty, Become
  <2>2. Admitted(s.tx, s.dl, s.vx, t, v, "SET", "SEQUENTIAL")
    BY <1>1, <1>2, <1>3, WriteAdmitted
  <2>3. /\ s.tx = tx /\ s.dl = dl /\ s.vx = vx
    BY <1>2
  <2> HIDE DEF s
  <2>4. Typed(s2.tx, s2.dl, s2.vx) /\ Clock(s2.tx, timestamp, open, gc) /\ Coherent(s2.tx, s2.dl, s2.vx, gc)
    BY <1>1, <2>2, <2>3, LinkStep
  <2> HIDE DEF s2
  <2>5. /\ tx' \in [Txns -> TxRecords] /\ dl' \in [Deltas -> DeltaRecords]
        /\ vx' \in [Vertices -> VertexRecords]
    BY <2>1, <2>4 DEF Typed
  <2>6. Types'
    BY <1>1, <2>5 DEF IInv, Types
  <2>7. Clock(tx', timestamp', open', gc') /\ Coherent(tx', dl', vx', gc')
    BY <1>1, <2>1, <2>4
  <2> QED BY <2>6, <2>7 DEF IInv
<1>4. CASE ~PrepareForWrite(t, v)
  <2> DEFINE q == tx[t]
             r == [q EXCEPT !.err = TRUE]
  <2>1. tx' = [tx EXCEPT ![t] = r] /\ dl' = dl /\ vx' = vx
    BY <1>1, <1>4 DEF SetProperty, Typed
  <2>2. q \in TxRecords /\ q = tx[t]
    BY <1>1 DEF Typed
  <2> HIDE DEF q
  <2>3. /\ r \in TxRecords /\ r.n = q.n /\ r.ts = q.ts /\ r.start = q.start /\ r.pc = q.pc
        /\ r.where = q.where /\ r.unlinkable = q.unlinkable
    BY <2>2 DEF TxRecords
  <2> HIDE DEF r
  <2>4. vx \in [Vertices -> VertexRecords]
    BY <1>1 DEF Typed
  <2>5. /\ Typed(tx', dl, vx) /\ Clock(tx', timestamp, open, gc)
        /\ Coherent(tx', dl, vx, gc)
    BY <1>1, <2>1, <2>2, <2>3, <2>4, MarkStep
  <2>6. Types'
    BY <1>1, <2>1, <2>5 DEF IInv, Types, Typed
  <2>7. Clock(tx', timestamp', open', gc') /\ Coherent(tx', dl', vx', gc')
    BY <1>1, <2>1, <2>5
  <2> QED BY <2>6, <2>7 DEF IInv
<1> QED BY <1>3, <1>4

(* The marks of PrepareForNonSequentialWrite.                              *)
Marks(T, X, T2, X2, t) ==
  /\ T2 = [T EXCEPT ![t] = T2[t]] /\ T2[t] \in TxRecords
  /\ T2[t].n = T[t].n /\ T2[t].ts = T[t].ts /\ T2[t].start = T[t].start /\ T2[t].pc = T[t].pc
  /\ T2[t].where = T[t].where /\ T2[t].unlinkable = T[t].unlinkable /\ T2[t].i = T[t].i
  /\ X2 \in [Vertices -> VertexRecords]
  /\ \A w \in Vertices : /\ X2[w].head = X[w].head /\ X2[w].val = X[w].val
                         /\ X2[w].edges = X[w].edges /\ (X[w].flag => X2[w].flag)

(* That is all Prepared leaves.                                            *)
LEMMA PreparedMarks ==
  ASSUME NEW s, NEW T, NEW D, NEW X, s = [tx |-> T, dl |-> D, vx |-> X], Typed(T, D, X),
         NEW t \in Txns, NEW v \in Vertices,
         NEW result \in {"NON_SEQUENTIAL", "SERIALIZATION_ERROR", "SUCCESS"}
  PROVE  LET s2 == Prepared(s, t, v, result)
         IN /\ s2 = [tx |-> s2.tx, dl |-> D, vx |-> s2.vx]
            /\ Marks(T, X, s2.tx, s2.vx, t)
            /\ s2.tx[t].err <=> result = "SERIALIZATION_ERROR" \/ T[t].err
            /\ result = "NON_SEQUENTIAL" => s2.vx[v].flag
<1> DEFINE s2 == Prepared(s, t, v, result)
           q == T[t]
           x == X[v]
<1>1. /\ T \in [Txns -> TxRecords] /\ X \in [Vertices -> VertexRecords]
      /\ q \in TxRecords /\ x \in VertexRecords /\ q = T[t] /\ x = X[v]
  BY DEF Typed
<1>2. CASE result = "NON_SEQUENTIAL"
  <2> DEFINE r == [q EXCEPT !.nonseq = TRUE]
             y == [x EXCEPT !.flag = TRUE]
  <2>1. s2 = [tx |-> [T EXCEPT ![t] = r], dl |-> D, vx |-> [X EXCEPT ![v] = y]]
    <3>1. s2 = [s EXCEPT !.tx[t].nonseq = TRUE, !.vx[v].flag = TRUE]
      BY <1>2 DEF Prepared
    <3> QED BY <3>1
  <2> HIDE DEF q, x, s2
  <2>2. /\ r \in TxRecords /\ r.n = q.n /\ r.ts = q.ts /\ r.start = q.start /\ r.pc = q.pc
        /\ r.where = q.where /\ r.unlinkable = q.unlinkable /\ r.err = q.err /\ r.i = q.i
        /\ y \in VertexRecords /\ y.head = x.head /\ y.val = x.val /\ y.edges = x.edges /\ y.flag
    BY <1>1 DEF TxRecords, VertexRecords
  <2> HIDE DEF r, y
  <2>3. /\ s2.tx[t] = r /\ s2.tx = [T EXCEPT ![t] = r] /\ s2.vx \in [Vertices -> VertexRecords]
        /\ s2.vx = [X EXCEPT ![v] = y] /\ s2.vx[v].flag
        /\ \A w \in Vertices : /\ s2.vx[w].head = X[w].head /\ s2.vx[w].val = X[w].val
                               /\ s2.vx[w].edges = X[w].edges /\ (X[w].flag => s2.vx[w].flag)
    BY <1>1, <2>1, <2>2
  <2>4. s2.tx[t].err <=> result = "SERIALIZATION_ERROR" \/ T[t].err
    BY <1>1, <1>2, <2>2, <2>3
  <2>5. Marks(T, X, s2.tx, s2.vx, t)
    BY <1>1, <2>2, <2>3 DEF Marks
  <2> QED BY <2>1, <2>3, <2>4, <2>5 DEF s2
<1>3. CASE result = "SERIALIZATION_ERROR"
  <2> DEFINE r == [q EXCEPT !.err = TRUE]
  <2>1. s2 = [tx |-> [T EXCEPT ![t] = r], dl |-> D, vx |-> X]
    <3>1. s2 = [s EXCEPT !.tx[t].err = TRUE]
      BY <1>3 DEF Prepared
    <3> QED BY <3>1
  <2> HIDE DEF q, x, s2
  <2>2. /\ r \in TxRecords /\ r.n = q.n /\ r.ts = q.ts /\ r.start = q.start /\ r.pc = q.pc
        /\ r.where = q.where /\ r.unlinkable = q.unlinkable /\ r.err = TRUE /\ r.i = q.i
    BY <1>1 DEF TxRecords
  <2> HIDE DEF r
  <2>3. s2.tx[t] = r /\ s2.tx = [T EXCEPT ![t] = r] /\ s2.vx = X
    BY <1>1, <2>1, <2>2
  <2>4. s2.tx[t].err <=> result = "SERIALIZATION_ERROR" \/ T[t].err
    BY <1>3, <2>2, <2>3
  <2>5. Marks(T, X, s2.tx, s2.vx, t)
    BY <1>1, <2>2, <2>3 DEF Marks
  <2> QED BY <1>3, <2>1, <2>4, <2>5 DEF s2
<1>4. CASE result = "SUCCESS"
  <2>1. s2 = s
    BY <1>4 DEF Prepared
  <2> HIDE DEF s2
  <2>2. s2.tx = T /\ s2.vx = X /\ s2.dl = D
    BY <2>1
  <2>3. Marks(T, X, s2.tx, s2.vx, t)
    BY <1>1, <2>2 DEF Marks
  <2> QED BY <1>4, <2>1, <2>2, <2>3 DEF s2
<1> QED BY <1>2, <1>3, <1>4

(* Marks keep what IInv says of a configuration, and what is admitted.     *)
LEMMA MarksStep ==
  ASSUME NEW T, NEW D, NEW X, NEW g, NEW T2, NEW X2, NEW now, NEW ids, Typed(T, D, X),
         Clock(T, now, ids, g), Coherent(T, D, X, g),
         NEW t \in Txns, T[t].pc = "running", Marks(T, X, T2, X2, t)
  PROVE  /\ Typed(T2, D, X2) /\ Clock(T2, now, ids, g) /\ Coherent(T2, D, X2, g)
         /\ \A v \in Vertices : \A act, state :
              Admitted(T, D, X, t, v, act, state) => Admitted(T2, D, X2, t, v, act, state)
<1>1. Typed(T2, D, X2) /\ Clock(T2, now, ids, g) /\ Coherent(T2, D, X2, g)
  <2> DEFINE r == T2[t]
  <2>0. T2 = [T EXCEPT ![t] = r]
    BY DEF Marks
  <2>1. /\ r \in TxRecords
        /\ r.n = T[t].n /\ r.ts = T[t].ts /\ r.start = T[t].start /\ r.pc = "running"
        /\ r.where = T[t].where /\ r.unlinkable = T[t].unlinkable
        /\ X2 \in [Vertices -> VertexRecords] /\ \A w \in Vertices : X2[w].head = X[w].head
    BY DEF Marks
  <2> HIDE DEF r
  <2>2. /\ Typed([T EXCEPT ![t] = r], D, X2) /\ Clock([T EXCEPT ![t] = r], now, ids, g)
        /\ Coherent([T EXCEPT ![t] = r], D, X2, g)
    BY <2>1, MarkStep
  <2> QED BY <2>0, <2>2
<1>2. /\ \A u \in Txns : /\ T2[u].n = T[u].n /\ T2[u].ts = T[u].ts /\ T2[u].start = T[u].start
                         /\ T2[u].pc = T[u].pc
      /\ \A w \in Vertices : X2[w].head = X[w].head
  <2>1. \A u \in Txns : u # t => T2[u] = T[u]
    BY DEF Marks, Typed
  <2> QED BY <2>1 DEF Marks
<1>3. ASSUME NEW v \in Vertices, NEW act, NEW state, Admitted(T, D, X, t, v, act, state)
      PROVE  Admitted(T2, D, X2, t, v, act, state)
  <2>1. X[v].head # Null => X[v].head[1] \in Txns
    BY DEF Typed, VertexRecords, Pointers, Deltas
  <2>2. \A u \in Txns : (Done(T2, u) <=> Done(T, u)) /\ (Alive(T2, u) <=> Alive(T, u))
    BY <1>2 DEF Done, Alive
  <2>3. \A u \in Txns : Wrote(T2, D, u, v) <=> Wrote(T, D, u, v)
    <3>1. \A d \in Deltas : d[1] \in Txns
      BY DEF Deltas
    <3> QED BY <1>2, <3>1 DEF Wrote, Created
  <2> QED BY <1>2, <1>3, <2>1, <2>2, <2>3 DEF Admitted
<1> QED BY <1>1, <1>3

(* A step that changes the chains' configuration alone.                    *)
LEMMA BecomeInv ==
  ASSUME IInv, UNCHANGED <<timestamp, open, engine, rd, gc, db, snap>>,
         NEW s, Become(s), Typed(s.tx, s.dl, s.vx), Clock(s.tx, timestamp, open, gc),
         Coherent(s.tx, s.dl, s.vx, gc)
  PROVE  IInv'
<1>1. tx' = s.tx /\ dl' = s.dl /\ vx' = s.vx
  BY DEF Become
<1>2. Types'
  BY <1>1 DEF IInv, Types, Typed
<1>3. Clock(tx', timestamp', open', gc') /\ Coherent(tx', dl', vx', gc')
  BY <1>1
<1> QED BY <1>2, <1>3 DEF IInv

(* A delta of t for an edge at v is linked.                                *)
EdgeLinked(T, D, X, T2, D2, X2, t, v, state) ==
  /\ Typed(T, D, X) /\ Coherent(T, D, X, gc)
  /\ Links(T, D, X, T2, D2, X2, t, v, "EDGE", state)
  /\ LinkMore(D, X, D2, X2, <<t, T[t].n + 1>>, v, "EDGE", Null, state)

(* CreateEdge leaves marks, and two deltas unless one end is refused.      *)
BothLinked(T1, X1, T2, D2, X2, t, from, to, fromState, toState) ==
  /\ Marks(tx, vx, T1, X1, t)
  /\ PrepareForNonSequentialWrite(t, from) # "SERIALIZATION_ERROR"
  /\ PrepareForNonSequentialWrite(t, to) # "SERIALIZATION_ERROR"
  /\ PrepareForNonSequentialWrite(t, from) = "NON_SEQUENTIAL" => X1[from].flag
  /\ PrepareForNonSequentialWrite(t, to) = "NON_SEQUENTIAL" => X1[to].flag
  /\ fromState = ComputeDeltaChainState(t, from, PrepareForNonSequentialWrite(t, from))
  /\ toState = ComputeDeltaChainState(t, to, PrepareForNonSequentialWrite(t, to))
  /\ EdgeLinked(T1, dl, X1, T2, D2, X2, t, from, fromState)
  /\ EdgeLinked(T2, D2, X2, tx', dl', vx', t, to, toState)
EdgeSteps(t, from, to) ==
  \/ dl' = dl /\ Marks(tx, vx, tx', vx', t)
  \/ \E T1, X1, T2, D2, X2, fromState, toState :
       BothLinked(T1, X1, T2, D2, X2, t, from, to, fromState, toState)

(* InMemoryAccessor::CreateEdge.                                           *)
LEMMA CreateEdgeSteps ==
  ASSUME IInv, NEW t \in Txns, NEW from \in Vertices, NEW to \in Vertices, CreateEdge(t, from, to)
  PROVE  IInv' /\ EdgeSteps(t, from, to)
<1> DEFINE fromResult == PrepareForNonSequentialWrite(t, from)
           fromState  == ComputeDeltaChainState(t, from, fromResult)
           s1 == Prepared(State, t, from, fromResult)
           toResult == PrepareForNonSequentialWrite(t, to)
           toState  == IF to = from THEN fromState ELSE ComputeDeltaChainState(t, to, toResult)
           s2 == IF to = from THEN s1 ELSE Prepared(s1, t, to, toResult)
           s3 == CreateAndLinkDelta(s2, t, from, "EDGE", Null, fromState)
           s4 == CreateAndLinkDelta(s3, t, to, "EDGE", Null, toState)
           Good(s) == /\ Typed(s.tx, s.dl, s.vx) /\ Clock(s.tx, timestamp, open, gc)
                      /\ Coherent(s.tx, s.dl, s.vx, gc)
<1>1. /\ Typed(tx, dl, vx) /\ Clock(tx, timestamp, open, gc) /\ Coherent(tx, dl, vx, gc)
      /\ gc.txn \in Txns \cup {Null} /\ tx[t].pc = "running" /\ tx[t].n + 1 < MaxDeltas
      /\ Alive(tx, t) /\ ~tx[t].err /\ Null \in Pointers /\ tx[t].n \in Nat
      /\ UNCHANGED <<timestamp, open, engine, rd, gc, db, snap>>
  <2>1. tx[t].n \in Nat
    BY IdFacts
  <2> QED BY <2>1 DEF IInv, Types, Typed, GcRecords, CreateEdge, Running, Alive, Pointers
<1>2. IF fromResult = "SERIALIZATION_ERROR" THEN Become(s1)
      ELSE IF s2.tx[t].err THEN Become(s2) ELSE Become(s4)
  BY DEF CreateEdge
<1>3. /\ fromResult \in {"NON_SEQUENTIAL", "SERIALIZATION_ERROR", "SUCCESS"}
      /\ toResult \in {"NON_SEQUENTIAL", "SERIALIZATION_ERROR", "SUCCESS"}
  BY DEF PrepareForNonSequentialWrite
<1>4. fromResult # "SERIALIZATION_ERROR" =>
        /\ fromState \in {"SEQUENTIAL", "NON_SEQUENTIAL", "FORCED_SEQUENTIAL"}
        /\ Admitted(tx, dl, vx, t, from, "EDGE", fromState)
  BY <1>1, EdgeAdmitted
<1>5. to # from /\ toResult # "SERIALIZATION_ERROR" =>
        /\ toState \in {"SEQUENTIAL", "NON_SEQUENTIAL", "FORCED_SEQUENTIAL"}
        /\ Admitted(tx, dl, vx, t, to, "EDGE", toState)
  BY <1>1, EdgeAdmitted
<1>6. to = from => toState = fromState
  OBVIOUS
<1>7. /\ s1 = [tx |-> s1.tx, dl |-> dl, vx |-> s1.vx]
      /\ Marks(tx, vx, s1.tx, s1.vx, t)
      /\ s1.tx[t].err <=> fromResult = "SERIALIZATION_ERROR" \/ tx[t].err
      /\ fromResult = "NON_SEQUENTIAL" => s1.vx[from].flag
  <2> HIDE DEF fromResult
  <2> QED BY <1>1, <1>3, PreparedMarks DEF State
<1>8. (to = from => s2 = s1) /\ (to # from => s2 = Prepared(s1, t, to, toResult))
  OBVIOUS
<1>9. /\ Typed(s1.tx, dl, s1.vx) /\ Clock(s1.tx, timestamp, open, gc) /\ Coherent(s1.tx, dl, s1.vx, gc)
      /\ \A v \in Vertices : \A act, state :
           Admitted(tx, dl, vx, t, v, act, state) => Admitted(s1.tx, dl, s1.vx, t, v, act, state)
  <2> HIDE DEF s1
  <2> QED BY <1>1, <1>7, MarksStep
<1> HIDE DEF s1, s2, fromResult, toResult, fromState, toState
<1>10. Good(s1) /\ s1.dl = dl /\ s1.tx[t].pc = "running" /\ s1.tx[t].n = tx[t].n
  BY <1>1, <1>7, <1>9 DEF Marks
<1>11. /\ s2 = [tx |-> s2.tx, dl |-> dl, vx |-> s2.vx]
       /\ Marks(s1.tx, s1.vx, s2.tx, s2.vx, t)
       /\ to # from => (s2.tx[t].err <=> toResult = "SERIALIZATION_ERROR" \/ s1.tx[t].err)
       /\ to # from /\ toResult = "NON_SEQUENTIAL" => s2.vx[to].flag
  <2>1. CASE to # from
    BY <1>3, <1>7, <1>8, <1>9, <2>1, PreparedMarks
  <2>2. CASE to = from
    <3>1. s1.tx = [s1.tx EXCEPT ![t] = s1.tx[t]] /\ s1.tx[t] \in TxRecords /\ s1.vx \in [Vertices -> VertexRecords]
      BY <1>9 DEF Typed
    <3>2. Marks(s1.tx, s1.vx, s1.tx, s1.vx, t)
      BY <3>1 DEF Marks
    <3> QED BY <1>7, <1>8, <2>2, <3>2
  <2> QED BY <2>1, <2>2
<1>12. /\ Typed(s2.tx, dl, s2.vx) /\ Clock(s2.tx, timestamp, open, gc) /\ Coherent(s2.tx, dl, s2.vx, gc)
       /\ \A v \in Vertices : \A act, state :
            Admitted(s1.tx, dl, s1.vx, t, v, act, state) => Admitted(s2.tx, dl, s2.vx, t, v, act, state)
  BY <1>9, <1>10, <1>11, MarksStep
<1>13. Good(s2) /\ s2.dl = dl /\ s2.tx[t].pc = "running" /\ s2.tx[t].n = tx[t].n
  BY <1>10, <1>11, <1>12 DEF Marks
<1>17. Marks(tx, vx, s2.tx, s2.vx, t)
  BY <1>1, <1>7, <1>11 DEF Marks, Typed
<1>14. CASE fromResult = "SERIALIZATION_ERROR"
  <2>1. Become(s1)
    BY <1>2, <1>14
  <2>2. EdgeSteps(t, from, to)
    BY <1>7, <1>10, <2>1 DEF EdgeSteps, Become
  <2> QED BY <1>1, <1>10, <2>1, <2>2, BecomeInv
<1>15. CASE fromResult # "SERIALIZATION_ERROR" /\ s2.tx[t].err
  <2>1. Become(s2)
    BY <1>2, <1>15
  <2>2. EdgeSteps(t, from, to)
    BY <1>13, <1>17, <2>1 DEF EdgeSteps, Become
  <2> QED BY <1>1, <1>13, <2>1, <2>2, BecomeInv
<1>16. CASE fromResult # "SERIALIZATION_ERROR" /\ ~s2.tx[t].err
  <2>1. Become(s4)
    BY <1>2, <1>16
  <2>2. /\ fromState \in {"SEQUENTIAL", "NON_SEQUENTIAL", "FORCED_SEQUENTIAL"}
        /\ Admitted(s2.tx, s2.dl, s2.vx, t, from, "EDGE", fromState)
    BY <1>4, <1>9, <1>12, <1>13, <1>16
  <2>3. /\ toState \in {"SEQUENTIAL", "NON_SEQUENTIAL", "FORCED_SEQUENTIAL"}
        /\ (to = from /\ toState = fromState) \/
             (to # from /\ Admitted(s2.tx, s2.dl, s2.vx, t, to, "EDGE", toState))
    <3>1. CASE to = from
      BY <1>6, <2>2, <3>1
    <3>2. CASE to # from
      <4>1. toResult # "SERIALIZATION_ERROR"
        BY <1>11, <1>16, <3>2
      <4> QED BY <1>5, <1>9, <1>12, <1>13, <3>2, <4>1
    <3> QED BY <3>1, <3>2
  <2>4. s2.tx[t].n < MaxDeltas
    BY <1>1, <1>13, DeltaChainConstants
  <2>5. /\ Good(s3) /\ Links(s2.tx, s2.dl, s2.vx, s3.tx, s3.dl, s3.vx, t, from, "EDGE", fromState)
        /\ LinkMore(s2.dl, s2.vx, s3.dl, s3.vx, <<t, s2.tx[t].n + 1>>, from, "EDGE", Null, fromState)
    BY <1>1, <1>13, <2>2, <2>4, LinkStep
  <2> HIDE DEF s3
  <2>6. Admitted(s3.tx, s3.dl, s3.vx, t, to, "EDGE", toState)
    BY <1>13, <2>2, <2>3, <2>5, NextAdmitted
  <2>7. s3.tx[t].n < MaxDeltas /\ s3.tx[t].pc = "running"
    <3>1. s3.tx[t].n = s2.tx[t].n + 1 /\ s3.tx[t].pc = s2.tx[t].pc
      BY <2>5 DEF Links
    <3> QED BY <1>1, <1>13, <3>1
  <2>8. /\ Good(s4) /\ Links(s3.tx, s3.dl, s3.vx, s4.tx, s4.dl, s4.vx, t, to, "EDGE", toState)
        /\ LinkMore(s3.dl, s3.vx, s4.dl, s4.vx, <<t, s3.tx[t].n + 1>>, to, "EDGE", Null, toState)
    BY <1>1, <2>3, <2>5, <2>6, <2>7, LinkStep
  <2> HIDE DEF s4
  <2>9. tx' = s4.tx /\ dl' = s4.dl /\ vx' = s4.vx
    BY <2>1 DEF Become
  <2>10. /\ EdgeLinked(s2.tx, dl, s2.vx, s3.tx, s3.dl, s3.vx, t, from, fromState)
         /\ EdgeLinked(s3.tx, s3.dl, s3.vx, tx', dl', vx', t, to, toState)
    BY <1>13, <2>5, <2>8, <2>9 DEF EdgeLinked
  <2>11. /\ toResult # "SERIALIZATION_ERROR"
         /\ fromResult = "NON_SEQUENTIAL" => s2.vx[from].flag
         /\ toResult = "NON_SEQUENTIAL" => s2.vx[to].flag
         /\ fromState = ComputeDeltaChainState(t, from, fromResult)
         /\ toState = ComputeDeltaChainState(t, to, toResult)
    <3>1. fromResult = "NON_SEQUENTIAL" => s2.vx[from].flag
      BY <1>7, <1>11 DEF Marks
    <3>2. to = from => toResult = fromResult
      BY DEF toResult, fromResult
    <3>3. fromState = ComputeDeltaChainState(t, from, fromResult)
      BY DEF fromState
    <3>4. to # from => toState = ComputeDeltaChainState(t, to, toResult)
      BY DEF toState
    <3>5. CASE to = from
      BY <1>6, <1>16, <3>1, <3>2, <3>3, <3>5
    <3>6. CASE to # from
      BY <1>11, <1>16, <3>1, <3>3, <3>4, <3>6
    <3> QED BY <3>5, <3>6
  <2>12. BothLinked(s2.tx, s2.vx, s3.tx, s3.dl, s3.vx, t, from, to, fromState, toState)
    BY <1>16, <1>17, <2>10, <2>11 DEF BothLinked, fromResult, toResult
  <2>13. EdgeSteps(t, from, to)
    BY <2>12 DEF EdgeSteps
  <2> QED BY <1>1, <2>1, <2>8, <2>13, BecomeInv
<1> QED BY <1>14, <1>15, <1>16

(* The flag of a vertex is looked at once the commit is visible.           *)
LEMMA RefreshFlagInv ==
  ASSUME IInv, NEW t \in Txns, NEW v \in Vertices, RefreshFlag(t, v)
  PROVE  IInv'
<1> DEFINE q == tx[t]
           x == vx[v]
           flag == vx[v].flag /\ HasUncommittedNonSequentialDeltas(Chain(vx[v].head), t)
           r == [q EXCEPT !.todo = q.todo \ {v}]
           y == [x EXCEPT !.flag = flag]
<1>1. /\ q \in TxRecords /\ tx \in [Txns -> TxRecords] /\ Sound(t, q, timestamp, open, gc)
      /\ x \in VertexRecords /\ vx \in [Vertices -> VertexRecords]
  BY DEF IInv, Types, Clock
<1>2. q.pc = "flags"
  BY DEF RefreshFlag
<1>3. /\ tx' = [tx EXCEPT ![t] = r] /\ vx' = [vx EXCEPT ![v] = y]
      /\ UNCHANGED <<dl, timestamp, open, engine, rd, gc, db, snap>>
  BY <1>1 DEF RefreshFlag
<1>4. flag \in BOOLEAN
  BY Zenon
<1>5. q = tx[t] /\ x = vx[v]
  OBVIOUS
<1> HIDE DEF q, x, flag
<1>6. /\ r \in TxRecords /\ y \in VertexRecords
      /\ r.n = q.n /\ r.ts = q.ts /\ r.start = q.start /\ r.pc = q.pc
      /\ r.where = q.where /\ r.i = q.i /\ r.unlinkable = q.unlinkable
      /\ y.head = x.head
  <2>1. q.todo \ {v} \in SUBSET Vertices
    BY <1>1 DEF TxRecords
  <2> QED BY <1>1, <1>4, <2>1 DEF TxRecords, VertexRecords
<1> HIDE DEF r, y
<1>7. Sound(t, r, timestamp, open, gc)
  BY <1>1, <1>6 DEF Sound
<1>8. vx' \in [Vertices -> VertexRecords] /\ \A w \in Vertices : vx'[w].head = vx[w].head
  BY <1>1, <1>3, <1>5, <1>6
<1>9. engine' \in Txns \cup {Null}
  BY <1>3 DEF IInv, Types
<1> QED BY <1>2, <1>3, <1>5, <1>6, <1>7, <1>8, <1>9, QuietStep

(* Undoing a delta yields a vertex value.                                  *)
LEMMA UndoImage ==
  ASSUME IInv, NEW image \in Images, NEW d \in Deltas
  PROVE  Undo(image, d) \in Images
<1>1. dl[d].arg \in Pointers
  BY DEF IInv, Types, DeltaRecords
<1>2. image.edges \ {d} \in SUBSET Deltas
  BY DEF Images
<1>3. [image EXCEPT !.val = dl[d].arg] \in Images /\ [image EXCEPT !.edges = @ \ {d}] \in Images
  BY <1>1, <1>2 DEF Images
<1> QED BY <1>3 DEF Undo

(* A read touches the readers of a vertex alone.                           *)
LEMMA ReadStep ==
  ASSUME IInv, UNCHANGED <<tx, dl, timestamp, open, engine, gc, db, snap>>,
         vx' \in [Vertices -> VertexRecords], \A w \in Vertices : vx'[w].head = vx[w].head,
         rd' \in [Txns -> Reads \cup {Null}]
  PROVE  IInv'
<1>1. Types'
  BY DEF IInv, Types
<1>2. Frame(tx, gc, tx, gc)
  BY DEF Frame
<1>3. Coherent(tx, dl, vx', gc)
  BY <1>2, FrameCoherent DEF IInv, Types
<1>4. Clock(tx', timestamp', open', gc') /\ Coherent(tx', dl', vx', gc')
  BY <1>3 DEF IInv
<1> QED BY <1>1, <1>4 DEF IInv

(* The copy under the vertex lock.                                         *)
LEMMA ReadBeginInv ==
  ASSUME IInv, NEW t \in Txns, NEW v \in Vertices, NEW view \in {"OLD", "NEW"}, ReadBegin(t, v, view)
  PROVE  IInv'
<1> DEFINE x == vx[v]
           y == [x EXCEPT !.readers = @ \cup {t}]
           r == [v |-> v, view |-> view, cur |-> x.head, image |-> [val |-> x.val, edges |-> x.edges]]
<1>1. vx \in [Vertices -> VertexRecords] /\ x \in VertexRecords /\ rd \in [Txns -> Reads \cup {Null}]
  BY DEF IInv, Types
<1>2. /\ rd' = [rd EXCEPT ![t] = r] /\ (vx' = [vx EXCEPT ![v] = y] \/ vx' = vx)
      /\ UNCHANGED <<tx, dl, timestamp, open, engine, gc, db, snap>> /\ x = vx[v]
  BY <1>1 DEF ReadBegin
<1> HIDE DEF x
<1>3. y \in VertexRecords /\ y.head = x.head
  BY <1>1 DEF VertexRecords
<1>4. r \in Reads
  BY <1>1 DEF Reads, Images, VertexRecords
<1> HIDE DEF y, r
<1>5. vx' \in [Vertices -> VertexRecords] /\ \A w \in Vertices : vx'[w].head = vx[w].head
  BY <1>1, <1>2, <1>3
<1>6. rd' \in [Txns -> Reads \cup {Null}]
  BY <1>1, <1>2, <1>4
<1> QED BY <1>2, <1>5, <1>6, ReadStep

(* One round of ApplyDeltasForRead.                                        *)
LEMMA ReadDeltaInv == ASSUME IInv, NEW t \in Txns, ReadDelta(t) PROVE IInv'
<1> DEFINE q == rd[t]
           d == q.cur
           r == IF ~Sees(t, q.view, d) THEN [q EXCEPT !.image = Undo(q.image, d), !.cur = dl[d].next]
                ELSE [q EXCEPT !.cur = IF IsDeltaNonSequential(d) THEN dl[d].next ELSE Null]
<1>1. /\ rd \in [Txns -> Reads \cup {Null}] /\ q # Null /\ d # Null
      /\ vx \in [Vertices -> VertexRecords]
      /\ UNCHANGED <<tx, dl, vx, timestamp, open, engine, gc, db, snap>>
  BY DEF IInv, Types, ReadDelta
<1>0. rd' = [rd EXCEPT ![t] = r]
  BY DEF ReadDelta
<1>2. q \in Reads
  BY <1>1
<1>3. d \in Deltas /\ q.image \in Images
  BY <1>1, <1>2 DEF Reads, Pointers
<1>4. dl[d].next \in Pointers /\ Null \in Pointers /\ Undo(q.image, d) \in Images
  BY <1>3, DeltaFacts, UndoImage DEF Pointers
<1>5. r \in Reads
  <2> DEFINE nx == dl[d].next
             im == Undo(q.image, d)
  <2>1. r = [q EXCEPT !.image = im, !.cur = nx] \/ r = [q EXCEPT !.cur = nx] \/ r = [q EXCEPT !.cur = Null]
    BY <1>2 DEF Reads
  <2>2. nx \in Pointers /\ im \in Images
    BY <1>4
  <2> HIDE DEF nx, im, q, r
  <2> QED BY <1>2, <1>4, <2>1, <2>2 DEF Reads
<1> HIDE DEF r
<1>6. rd' \in [Txns -> Reads \cup {Null}]
  BY <1>0, <1>1, <1>5
<1>7. vx' \in [Vertices -> VertexRecords] /\ \A w \in Vertices : vx'[w].head = vx[w].head
  BY <1>1
<1> QED BY <1>1, <1>6, <1>7, ReadStep

(* A read lets go of the vertex lock.                                      *)
LEMMA ReadEndInv == ASSUME IInv, NEW t \in Txns, ReadEnd(t) PROVE IInv'
<1> DEFINE v == rd[t].v
           x == vx[v]
           y == [x EXCEPT !.readers = @ \ {t}]
<1>1. /\ rd \in [Txns -> Reads \cup {Null}] /\ rd[t] # Null
      /\ vx \in [Vertices -> VertexRecords] /\ rd' = [rd EXCEPT ![t] = Null]
      /\ UNCHANGED <<tx, dl, timestamp, open, engine, gc, db, snap>>
  BY DEF IInv, Types, ReadEnd
<1>2. v \in Vertices
  BY <1>1 DEF Reads
<1>3. vx' = [vx EXCEPT ![v] = y] /\ x = vx[v] /\ x \in VertexRecords
  BY <1>1, <1>2 DEF ReadEnd
<1> HIDE DEF x, v
<1>4. y \in VertexRecords /\ y.head = x.head
  BY <1>3 DEF VertexRecords
<1> HIDE DEF y
<1>5. vx' \in [Vertices -> VertexRecords] /\ \A w \in Vertices : vx'[w].head = vx[w].head
  BY <1>1, <1>2, <1>3, <1>4
<1>6. rd' \in [Txns -> Reads \cup {Null}]
  BY <1>1
<1> QED BY <1>1, <1>5, <1>6, ReadStep

(* Sets of transactions.                                                   *)
LEMMA CountFacts ==
  ASSUME NEW A \in SUBSET Txns
  PROVE  /\ Cardinality(A) \in Nat /\ Cardinality(A) <= N
         /\ \A t \in Txns : t \notin A => /\ Cardinality(A \cup {t}) = Cardinality(A) + 1
                                          /\ Cardinality(A) + 1 <= N
<1>1. IsFiniteSet(Txns) /\ Cardinality(Txns) = N
  BY FS_Interval, DeltaChainConstants DEF Txns
<1>2. ASSUME NEW B \in SUBSET Txns PROVE IsFiniteSet(B) /\ Cardinality(B) \in Nat /\ Cardinality(B) <= N
  BY <1>1, FS_Subset, FS_CardinalityType
<1>3. ASSUME NEW t \in Txns, t \notin A
      PROVE  Cardinality(A \cup {t}) = Cardinality(A) + 1 /\ Cardinality(A) + 1 <= N
  <2>1. Cardinality(A \cup {t}) = Cardinality(A) + 1
    BY <1>2, <1>3, FS_AddElement
  <2>2. Cardinality(A \cup {t}) <= N
    BY <1>2
  <2> QED BY <2>1, <2>2
<1> QED BY <1>2, <1>3

(* CreateTransaction.                                                      *)
LEMMA BeginInv == ASSUME IInv, NEW t \in Txns, Begin(t) PROVE IInv'
<1> DEFINE q == tx[t]
           r == [q EXCEPT !.pc = "running", !.start = timestamp, !.ts = TransactionId(t)]
<1>1. /\ q \in TxRecords /\ tx \in [Txns -> TxRecords]
      /\ \A u \in Txns : Sound(u, tx[u], timestamp, open, gc)
      /\ Distinct(tx) /\ GcSound(tx, timestamp, gc)
      /\ timestamp = Cardinality(Begun(tx)) + Cardinality(Ended(tx)) /\ Coherent(tx, dl, vx, gc)
      /\ Typed(tx, dl, vx) /\ gc.txn \in Txns \cup {Null} /\ gc \in GcRecords
  BY DEF IInv, Types, Clock, Typed, GcRecords
<1>2. /\ tx' = [tx EXCEPT ![t] = r] /\ open' = open \cup {timestamp} /\ timestamp' = timestamp + 1
      /\ snap' = [snap EXCEPT ![t] = db] /\ UNCHANGED <<dl, vx, engine, rd, gc, db>>
  BY <1>1 DEF Begin
<1>3. q.pc = "new" /\ (\A u \in 1 .. t - 1 : tx[u].pc # "new") /\ q = tx[t]
  BY DEF Begin
<1>4. /\ TransactionId(t) \in Nat /\ TransactionId(t) \in 0..3*N /\ TransactionId(t) > kTransactionInitialId
      /\ kTransactionInitialId = 2*N /\ kTransactionInitialId \in Nat /\ t \in Nat
  BY DeltaChainConstants DEF TransactionId, kTransactionInitialId, Txns
<1>5. timestamp \in Nat /\ timestamp \in Timestamps
  BY IdFacts DEF IInv, Types
<1> HIDE DEF q
<1>6. /\ r \in TxRecords /\ r.pc = "running" /\ r.start = timestamp /\ r.ts = TransactionId(t)
      /\ r.n = q.n /\ r.where = q.where /\ r.unlinkable = q.unlinkable
  BY <1>1, <1>4, <1>5 DEF TxRecords, Phases
<1> HIDE DEF r
<1>7. q.n = 0 /\ q.where = "own" /\ ~Done(tx, t)
  <2>1. Sound(t, q, timestamp, open, gc)
    BY <1>1, <1>3
  <2> QED BY <1>3, <2>1 DEF Sound, Done
<1>8. tx'[t] = r /\ \A u \in Txns : u # t => tx'[u] = tx[u]
  BY <1>1, <1>2
<1>9. ~Done(tx', t) /\ \A u \in Txns : Done(tx', u) <=> Done(tx, u)
  BY <1>4, <1>6, <1>7, <1>8 DEF Done
<1>10. timestamp' = Cardinality(Begun(tx')) + Cardinality(Ended(tx')) /\ timestamp' <= 2*N
  <2>1. Begun(tx') = Begun(tx) \cup {t} /\ t \notin Begun(tx) /\ Ended(tx') = Ended(tx)
    BY <1>3, <1>6, <1>8, <1>9 DEF Begun, Ended
  <2>2. Begun(tx) \in SUBSET Txns /\ Ended(tx) \in SUBSET Txns
    BY DEF Begun, Ended
  <2>3. /\ Cardinality(Begun(tx)) \in Nat /\ Cardinality(Ended(tx)) \in Nat
        /\ Cardinality(Begun(tx) \cup {t}) = Cardinality(Begun(tx)) + 1
        /\ Cardinality(Begun(tx)) + 1 <= N /\ Cardinality(Ended(tx)) <= N
    BY <2>1, <2>2, CountFacts
  <2> DEFINE a == Cardinality(Begun(tx))
             b == Cardinality(Ended(tx))
  <2>4. a \in Nat /\ b \in Nat /\ a + 1 <= N /\ b <= N /\ timestamp' = (a + 1) + b
    BY <1>1, <1>2, <2>3
  <2>5. Cardinality(Begun(tx')) = a + 1 /\ Cardinality(Ended(tx')) = b
    BY <2>1, <2>3
  <2> HIDE DEF a, b
  <2> QED BY <2>4, <2>5, DeltaChainConstants
<1>11. timestamp' \in Timestamps
  BY <1>2, <1>5, <1>10, DeltaChainConstants DEF Timestamps
<1>12. \A u \in Txns : /\ tx[u].start \in Nat /\ tx[u].ts \in Nat
                       /\ tx[u].pc # "new" => tx[u].start < timestamp
                       /\ Done(tx, u) => tx[u].ts < timestamp
  <2>1. SUFFICES ASSUME NEW u \in Txns
                 PROVE  /\ tx[u].start \in Nat /\ tx[u].ts \in Nat
                        /\ tx[u].pc # "new" => tx[u].start < timestamp
                        /\ Done(tx, u) => tx[u].ts < timestamp
    OBVIOUS
  <2>2. Sound(u, tx[u], timestamp, open, gc)
    BY <1>1
  <2> QED BY <2>2, IdFacts DEF Sound, Done
<1>13. gc.oldest <= timestamp /\ gc.oldest \in Nat
  <2>1. gc.oldest \in 0..2*N
    BY <1>1 DEF GcRecords, Timestamps
  <2> QED BY <1>1, <2>1, DeltaChainConstants DEF GcSound
<1>14. ASSUME NEW u \in Txns PROVE Sound(u, tx'[u], timestamp', open', gc)
  <2>1. CASE u # t
    <3>1. Sound(u, tx[u], timestamp, open, gc)
      BY <1>1
    <3>2. /\ tx[u].start < timestamp => tx[u].start < timestamp + 1
          /\ tx[u].ts < timestamp => tx[u].ts < timestamp + 1
      BY <1>5, <1>12
    <3>3. tx[u].start \in open => tx[u].start \in open'
      BY <1>2
    <3> QED BY <1>2, <1>8, <2>1, <3>1, <3>2, <3>3 DEF Sound
  <2>2. CASE u = t
    <3>1. timestamp < timestamp' /\ timestamp \in open' /\ ~(TransactionId(t) < kTransactionInitialId)
      BY <1>2, <1>4, <1>5
    <3> QED BY <1>6, <1>7, <1>8, <1>13, <2>2, <3>1 DEF Sound
  <2> QED BY <2>1, <2>2
<1>15. Distinct(tx')
  <2>1. ASSUME NEW a \in Txns, NEW b \in Txns, a < b, tx'[b].pc # "new"
        PROVE  tx'[a].pc # "new" /\ tx'[a].start < tx'[b].start
    <3>1. CASE b = t
      <4>1. a \in 1..t-1 /\ a # t
        BY <2>1, <3>1 DEF Txns
      <4>2. tx[a].pc # "new" /\ tx[a].start < timestamp
        BY <1>3, <1>12, <4>1
      <4> QED BY <1>6, <1>8, <3>1, <4>1, <4>2
    <3>2. CASE b # t /\ a = t
      BY <1>1, <1>3, <1>8, <2>1, <3>2 DEF Distinct
    <3>3. CASE b # t /\ a # t
      BY <1>1, <1>8, <2>1, <3>3 DEF Distinct
    <3> QED BY <3>1, <3>2, <3>3
  <2>2. ASSUME NEW a \in Txns, NEW b \in Txns, Done(tx', a), tx'[b].pc # "new"
        PROVE  tx'[b].start # tx'[a].ts
    <3>1. Done(tx, a) /\ a # t
      BY <1>9, <2>2
    <3>2. CASE b = t
      BY <1>5, <1>6, <1>8, <1>12, <3>1, <3>2
    <3>3. CASE b # t
      BY <1>1, <1>8, <2>2, <3>1, <3>3 DEF Distinct
    <3> QED BY <3>2, <3>3
  <2> QED BY <2>1, <2>2 DEF Distinct
<1>16. GcSound(tx', timestamp', gc)
  <2>1. gc.oldest <= timestamp'
    BY <1>2, <1>5, <1>13
  <2>2. gc.txn # Null => tx'[gc.txn].where = tx[gc.txn].where /\ tx'[gc.txn].n = tx[gc.txn].n
    BY <1>1, <1>3, <1>6, <1>8
  <2> QED BY <1>1, <2>1, <2>2 DEF GcSound
<1>17. Clock(tx', timestamp', open', gc)
  BY <1>10, <1>14, <1>15, <1>16 DEF Clock
<1>18. Coherent(tx', dl, vx, gc)
  <2>1. tx'[t].n = 0 /\ tx'[t].ts >= kTransactionInitialId /\ tx'[t].ts \in Nat /\ tx'[t].start = timestamp
        /\ tx[t].pc = "new" /\ tx[t].n = 0
    BY <1>3, <1>4, <1>6, <1>7, <1>8
  <2>2. \A u \in Txns : Done(tx, u) => tx[u].ts < tx'[t].start
    BY <1>12, <2>1
  <2> QED BY <1>1, <1>8, <2>1, <2>2, BeginCoherent
<1>19. Types'
  <2>1. tx' \in [Txns -> TxRecords]
    BY <1>1, <1>2, <1>6
  <2>2. open' \subseteq Timestamps
    BY <1>2, <1>5 DEF IInv, Types
  <2>3. snap' \in [Txns -> [Vertices -> Images]]
    BY <1>2 DEF IInv, Types
  <2> QED BY <1>2, <1>11, <2>1, <2>2, <2>3 DEF IInv, Types
<1>20. Clock(tx', timestamp', open', gc') /\ Coherent(tx', dl', vx', gc')
  BY <1>2, <1>17, <1>18
<1> QED BY <1>19, <1>20 DEF IInv

(* What a commit installs is a vertex value.                               *)
LEMMA OverlayImage ==
  ASSUME NEW image \in Images, NEW sets \in SUBSET Deltas, NEW edges \in SUBSET Deltas
  PROVE  Overlay(image, sets, edges) \in Images
<1>1. image.val \in Pointers /\ image.edges \cup edges \in SUBSET Deltas
  BY DEF Images
<1>2. ASSUME sets # {} PROVE Newest(sets) \in Deltas
  <2> DEFINE S == {d[2] : d \in sets}
  <2>1. S \in SUBSET (0..MaxDeltas) /\ S # {}
    BY <1>2, DeltaChainConstants DEF Deltas
  <2>2. \E x \in S : \A y \in S : x >= y
    BY <2>1, GreatestExists, DeltaChainConstants
  <2>3. \E d \in sets : \A e \in sets : d[2] >= e[2]
    BY <2>2
  <2>4. Newest(sets) \in sets
    BY <2>3, Zenon DEF Newest
  <2> QED BY <2>4
<1>3. (IF sets = {} THEN image.val ELSE Newest(sets)) \in Pointers
  BY <1>1, <1>2 DEF Pointers
<1> QED BY <1>1, <1>3 DEF Overlay, Images

(* PrepareForCommitPhase, up to the store that makes a commit visible.     *)
LEMMA StoreCommitTimestampInv == ASSUME IInv, NEW t \in Txns, StoreCommitTimestamp(t) PROVE IInv'
<1> DEFINE q == tx[t]
           r == [q EXCEPT !.pc = "stored", !.ts = timestamp]
<1>1. /\ q \in TxRecords /\ tx \in [Txns -> TxRecords]
      /\ \A u \in Txns : Sound(u, tx[u], timestamp, open, gc)
      /\ Distinct(tx) /\ GcSound(tx, timestamp, gc)
      /\ timestamp = Cardinality(Begun(tx)) + Cardinality(Ended(tx)) /\ Coherent(tx, dl, vx, gc)
      /\ Typed(tx, dl, vx) /\ gc.txn \in Txns \cup {Null} /\ gc \in GcRecords
  BY DEF IInv, Types, Clock, Typed, GcRecords
<1>2. /\ tx' = [tx EXCEPT ![t] = r] /\ open' = open \cup {timestamp} /\ timestamp' = timestamp + 1
      /\ engine' = t /\ UNCHANGED <<dl, vx, rd, gc, snap>>
  BY <1>1 DEF StoreCommitTimestamp
<1>3. q.pc = "running" /\ q.n > 0 /\ q = tx[t] /\ Alive(tx, t)
  BY DEF StoreCommitTimestamp, Running, Alive
<1>4. timestamp \in Nat /\ timestamp \in Timestamps
  BY IdFacts DEF IInv, Types
<1>5. ~Done(tx, t) /\ kTransactionInitialId \in Nat /\ kTransactionInitialId = 2*N
  BY <1>3, IdFacts DEF Done, kTransactionInitialId
<1> DEFINE a == Cardinality(Begun(tx))
           b == Cardinality(Ended(tx))
<1>6. a \in Nat /\ b \in Nat /\ a <= N /\ b + 1 <= N /\ Cardinality(Ended(tx) \cup {t}) = b + 1
  <2>1. Begun(tx) \in SUBSET Txns /\ Ended(tx) \in SUBSET Txns /\ t \notin Ended(tx)
    BY <1>5 DEF Begun, Ended
  <2> QED BY <2>1, CountFacts
<1>7. timestamp = a + b
  BY <1>1
<1>8. timestamp < kTransactionInitialId
  <2> HIDE DEF a, b
  <2> QED BY <1>5, <1>6, <1>7, DeltaChainConstants
<1> HIDE DEF q
<1>9. timestamp \in 0..3*N
  BY <1>4, DeltaChainConstants DEF Timestamps
<1>10. /\ r \in TxRecords /\ r.pc = "stored" /\ r.start = q.start /\ r.ts = timestamp
       /\ r.n = q.n /\ r.where = q.where /\ r.unlinkable = q.unlinkable
  BY <1>1, <1>9 DEF TxRecords, Phases
<1> HIDE DEF r
<1>11. tx'[t] = r /\ \A u \in Txns : u # t => tx'[u] = tx[u]
  BY <1>1, <1>2
<1>12. Done(tx', t) /\ ~Alive(tx', t) /\ \A u \in Txns : u # t => (Done(tx', u) <=> Done(tx, u))
  BY <1>8, <1>10, <1>11 DEF Done, Alive
<1>13. timestamp' = Cardinality(Begun(tx')) + Cardinality(Ended(tx')) /\ timestamp' <= 2*N
  <2>1. Begun(tx') = Begun(tx)
    BY <1>3, <1>10, <1>11 DEF Begun
  <2>2. Ended(tx') = Ended(tx) \cup {t}
    BY <1>12 DEF Ended
  <2>3. Cardinality(Begun(tx')) = a /\ Cardinality(Ended(tx')) = b + 1
    BY <1>6, <2>1, <2>2
  <2> HIDE DEF a, b
  <2> QED BY <1>2, <1>5, <1>6, <1>7, <1>8, <2>3, DeltaChainConstants
<1>14. timestamp' \in Timestamps
  BY <1>2, <1>4, <1>13, DeltaChainConstants DEF Timestamps
<1>15. \A u \in Txns : /\ tx[u].start \in Nat /\ tx[u].ts \in Nat
                       /\ tx[u].pc # "new" => tx[u].start < timestamp
                       /\ Done(tx, u) => tx[u].ts < timestamp
  <2>1. SUFFICES ASSUME NEW u \in Txns
                 PROVE  /\ tx[u].start \in Nat /\ tx[u].ts \in Nat
                        /\ tx[u].pc # "new" => tx[u].start < timestamp
                        /\ Done(tx, u) => tx[u].ts < timestamp
    OBVIOUS
  <2>2. Sound(u, tx[u], timestamp, open, gc)
    BY <1>1
  <2> QED BY <2>2, IdFacts DEF Sound, Done
<1>16. gc.oldest <= timestamp /\ gc.oldest \in Nat
  <2>1. gc.oldest \in 0..2*N
    BY <1>1 DEF GcRecords, Timestamps
  <2> QED BY <1>1, <2>1, DeltaChainConstants DEF GcSound
<1>17. ASSUME NEW u \in Txns PROVE Sound(u, tx'[u], timestamp', open', gc)
  <2>1. CASE u # t
    <3>1. Sound(u, tx[u], timestamp, open, gc)
      BY <1>1
    <3>2. /\ tx[u].start < timestamp => tx[u].start < timestamp + 1
          /\ tx[u].ts < timestamp => tx[u].ts < timestamp + 1
      BY <1>4, <1>15
    <3>3. tx[u].start \in open => tx[u].start \in open'
      BY <1>2
    <3> QED BY <1>2, <1>11, <2>1, <3>1, <3>2, <3>3 DEF Sound
  <2>2. CASE u = t
    <3>1. Sound(t, q, timestamp, open, gc)
      BY <1>1, <1>3
    <3>2. timestamp < timestamp' /\ q.start < timestamp /\ q.start < timestamp'
      BY <1>2, <1>3, <1>4, <1>15
    <3>3. q.where = "own"
      BY <1>3, <3>1 DEF Sound
    <3> QED BY <1>3, <1>8, <1>10, <1>11, <2>2, <3>2, <3>3 DEF Sound
  <2> QED BY <2>1, <2>2
<1>18. \A u \in Txns : tx'[u].start = tx[u].start /\ (tx'[u].pc = "new" <=> tx[u].pc = "new")
  BY <1>3, <1>10, <1>11
<1>19. Distinct(tx')
  <2>1. ASSUME NEW x \in Txns, NEW y \in Txns, Done(tx', x), tx'[y].pc # "new"
        PROVE  tx'[y].start # tx'[x].ts
    <3>1. CASE x = t
      BY <1>4, <1>10, <1>11, <1>15, <1>18, <2>1, <3>1
    <3>2. CASE x # t
      BY <1>1, <1>11, <1>12, <1>18, <2>1, <3>2 DEF Distinct
    <3> QED BY <3>1, <3>2
  <2> QED BY <1>1, <1>18, <2>1 DEF Distinct
<1>20. GcSound(tx', timestamp', gc)
  <2>1. gc.oldest <= timestamp'
    BY <1>2, <1>4, <1>16
  <2>2. gc.txn # Null => tx'[gc.txn].where = tx[gc.txn].where /\ tx'[gc.txn].n = tx[gc.txn].n
    BY <1>1, <1>3, <1>10, <1>11
  <2> QED BY <1>1, <2>1, <2>2 DEF GcSound
<1>21. Clock(tx', timestamp', open', gc)
  BY <1>13, <1>17, <1>19, <1>20 DEF Clock
<1>22. Coherent(tx', dl, vx, gc)
  <2>1. /\ tx'[t].n = tx[t].n /\ tx'[t].where = tx[t].where /\ tx'[t].start = tx[t].start
        /\ tx'[t].ts = timestamp /\ tx'[t].ts \in Nat
    BY <1>3, <1>4, <1>10, <1>11
  <2>2. \A u \in Txns : Done(tx, u) => tx[u].ts < tx'[t].ts
    BY <1>15, <2>1
  <2> QED BY <1>1, <1>3, <1>5, <1>11, <1>12, <2>1, <2>2, CommitCoherent
<1>23. Types'
  <2>1. tx' \in [Txns -> TxRecords]
    BY <1>1, <1>2, <1>10
  <2>2. open' \subseteq Timestamps
    BY <1>2, <1>4 DEF IInv, Types
  <2>3. db' \in [Vertices -> Images]
    <3>1. ASSUME NEW v \in Vertices
          PROVE  Overlay(db[v], Writes(t, v, "SET"), Writes(t, v, "EDGE")) \in Images
      <4>1. db[v] \in Images
        BY DEF IInv, Types
      <4>2. Writes(t, v, "SET") \in SUBSET Deltas /\ Writes(t, v, "EDGE") \in SUBSET Deltas
        BY DEF Writes
      <4> QED BY <4>1, <4>2, OverlayImage
    <3> QED BY <3>1 DEF StoreCommitTimestamp
  <2> QED BY <1>2, <1>14, <2>1, <2>2, <2>3 DEF IInv, Types
<1>24. Clock(tx', timestamp', open', gc') /\ Coherent(tx', dl', vx', gc')
  BY <1>2, <1>21, <1>22
<1> QED BY <1>23, <1>24 DEF IInv

(* FinalizeCommitPhase ends and keeps the deltas.                          *)
LEMMA FinishCommitKeepsInv ==
  ASSUME IInv, NEW t \in Txns, FinishCommit(t), ~MayDiscard(t, open')
  PROVE  IInv'
<1> DEFINE q == tx[t]
           r == [q EXCEPT !.pc = "finalize"]
<1>1. /\ q \in TxRecords /\ tx \in [Txns -> TxRecords] /\ Sound(t, q, timestamp, open, gc)
      /\ vx \in [Vertices -> VertexRecords]
  BY DEF IInv, Types, Clock
<1>2. q.pc = "flags" /\ q = tx[t]
  BY DEF FinishCommit
<1>3. /\ tx' = [tx EXCEPT ![t] = r] /\ open' = open \ {q.start} /\ engine' = Null /\ vx' = vx
      /\ UNCHANGED <<dl, timestamp, rd, gc, db, snap>>
  BY <1>1 DEF FinishCommit
<1> HIDE DEF q
<1>4. /\ r \in TxRecords /\ r.n = q.n /\ r.ts = q.ts /\ r.start = q.start /\ r.pc = "finalize"
      /\ r.where = q.where /\ r.i = q.i /\ r.unlinkable = q.unlinkable
  BY <1>1 DEF TxRecords, Phases
<1> HIDE DEF r
<1>5. Sound(t, r, timestamp, open', gc)
  BY <1>1, <1>2, <1>4 DEF Sound
<1>6. /\ open' \subseteq open
      /\ \A x \in open : x \notin open' => x = tx[t].start \/ (Done(tx, t) /\ x = tx[t].ts)
  BY <1>2, <1>3
<1>7. vx' \in [Vertices -> VertexRecords] /\ \A w \in Vertices : vx'[w].head = vx[w].head
  BY <1>1, <1>3
<1>8. r.pc # "new" /\ r.pc # "running" /\ r.pc # "aborting" /\ tx[t].pc # "new" /\ tx[t].pc # "end"
  BY <1>2, <1>4
<1>9. engine' \in Txns \cup {Null}
  BY <1>3
<1> QED BY <1>2, <1>3, <1>4, <1>5, <1>6, <1>7, <1>8, <1>9, QuietStep

(* CheckForFastDiscardOfDeltas: nobody is at work.                         *)
LEMMA DiscardAlone ==
  ASSUME IInv, NEW t \in Txns, tx[t].pc = "flags", NEW ids, ids = open \ {tx[t].start},
         MayDiscard(t, ids), NEW u \in Txns
  PROVE  tx[u].pc \notin {"running", "aborting"}
<1> SUFFICES ASSUME tx[u].pc \in {"running", "aborting"} PROVE FALSE
  OBVIOUS
<1>1. /\ tx[u].pc # "new" /\ u # t /\ tx[u].start \in Nat /\ tx[t].start \in Nat /\ tx[t].ts \in Nat
      /\ timestamp \in Nat /\ u \in Nat /\ t \in Nat
  BY IdFacts DEF Txns
<1>2. tx[u].start \in open /\ tx[t].start < tx[t].ts /\ Distinct(tx)
  <2>1. Sound(u, tx[u], timestamp, open, gc) /\ Sound(t, tx[t], timestamp, open, gc) /\ Distinct(tx)
    BY DEF IInv, Clock
  <2> QED BY <1>1, <2>1 DEF Sound
<1>3. ~(u > t)
  BY <1>1 DEF MayDiscard
<1>4. u < t
  BY <1>1, <1>3
<1>5. tx[u].start < tx[t].start
  BY <1>2, <1>4 DEF Distinct
<1>6. tx[u].start \in ids \cup {timestamp}
  BY <1>1, <1>2, <1>5
<1>7. tx[t].ts <= tx[u].start
  <2>1. ids \cup {timestamp} \in SUBSET Nat
    <3>1. open \subseteq Timestamps /\ Timestamps \subseteq Nat
      BY DeltaChainConstants DEF IInv, Types, Timestamps
    <3>2. ids \subseteq Nat
      BY <3>1
    <3> QED BY <1>1, <3>2
  <2>2. Min(ids \cup {timestamp}) <= tx[u].start
    BY <1>6, <2>1, MinIsLeast
  <2> QED BY <2>2 DEF MayDiscard, OldestActive
<1> QED BY <1>1, <1>2, <1>5, <1>7

(* The only transaction there is empties every list.                       *)
LEMMA FinishCommitDiscardsInv ==
  ASSUME IInv, NEW t \in Txns, FinishCommit(t), MayDiscard(t, open')
  PROVE  IInv'
<1>1. /\ tx \in [Txns -> TxRecords] /\ vx \in [Vertices -> VertexRecords] /\ Typed(tx, dl, vx)
      /\ \A u \in Txns : Sound(u, tx[u], timestamp, open, gc)
      /\ Distinct(tx) /\ GcSound(tx, timestamp, gc)
      /\ timestamp = Cardinality(Begun(tx)) + Cardinality(Ended(tx)) /\ Coherent(tx, dl, vx, gc)
  BY DEF IInv, Types, Clock, Typed
<1>2. /\ FastDiscard(t) /\ tx[t].pc = "flags" /\ open' = open \ {tx[t].start} /\ engine' = Null
      /\ gc.pc = "idle" /\ UNCHANGED <<dl, timestamp, rd, gc, db, snap>>
  BY DEF FinishCommit, MayDiscard
<1>3. gc.txn = Null
  BY <1>1, <1>2 DEF GcSound
<1>4. \A u \in Txns : tx[u].pc \notin {"running", "aborting"} /\ ~Alive(tx, u)
  BY <1>2, DiscardAlone DEF Alive
<1>5. ASSUME NEW u \in Txns
      PROVE  /\ tx'[u] \in TxRecords /\ tx'[u].n = tx[u].n /\ tx'[u].ts = tx[u].ts
             /\ tx'[u].start = tx[u].start /\ tx'[u].i = tx[u].i /\ tx'[u].unlinkable = tx[u].unlinkable
             /\ tx'[u].pc = IF u = t THEN "finalize" ELSE tx[u].pc
             /\ tx'[u].where = IF u = t \/ tx[u].where \in {"committed", "waiting", "garbage"}
                               THEN "freed" ELSE tx[u].where
  <2> DEFINE q == tx[u]
  <2>1. q \in TxRecords /\ q = tx[u]
    BY <1>1
  <2>2. CASE u = t
    <3>1. tx'[u] = [q EXCEPT !.pc = "finalize", !.where = "freed"]
      BY <1>2, <2>2 DEF FastDiscard
    <3> HIDE DEF q
    <3> QED BY <2>1, <2>2, <3>1 DEF TxRecords, Phases, Wheres
  <2>3. CASE u # t /\ tx[u].where \in {"committed", "waiting", "garbage"}
    <3>1. tx'[u] = [q EXCEPT !.where = "freed"]
      BY <1>2, <2>3 DEF FastDiscard
    <3> HIDE DEF q
    <3> QED BY <2>1, <2>3, <3>1 DEF TxRecords, Phases, Wheres
  <2>4. CASE u # t /\ tx[u].where \notin {"committed", "waiting", "garbage"}
    <3>1. tx'[u] = q
      BY <1>2, <2>4 DEF FastDiscard
    <3> QED BY <2>1, <2>4, <3>1
  <2> QED BY <2>2, <2>3, <2>4
<1>6. tx' \in [Txns -> TxRecords]
  <2>1. \E f : tx' = [u \in Txns |-> f[u]]
    <3> DEFINE f == [u \in Txns |->
                  IF u = t THEN [tx[t] EXCEPT !.pc = "finalize", !.where = "freed"]
                  ELSE IF tx[u].where \in {"committed", "waiting", "garbage"}
                       THEN [tx[u] EXCEPT !.where = "freed"] ELSE tx[u]]
    <3>1. tx' = f
      BY <1>2, Zenon DEF FastDiscard
    <3>2. f = [u \in Txns |-> f[u]]
      BY Zenon
    <3> HIDE DEF f
    <3> QED BY <3>1, <3>2
  <2> QED BY <1>5, <2>1
<1>7. /\ \A u \in Txns : (Done(tx', u) <=> Done(tx, u)) /\ ~Alive(tx', u)
                         /\ (tx'[u].pc = "new" <=> tx[u].pc = "new")
      /\ Done(tx, t)
  <2>1. Done(tx, t)
    BY <1>1, <1>2 DEF Done, Sound
  <2> QED BY <1>2, <1>4, <1>5, <2>1 DEF Done, Alive
<1>8. /\ \A d \in Deltas : d[1] \in Txns
      /\ \A d \in Deltas : d \notin Vertices
  BY DeltaFacts
<1>9. Frame(tx, gc, tx', gc)
  <2>1. ASSUME NEW d \in Deltas PROVE Attached(tx', d) => Attached(tx, d)
    <3>1. CASE d[1] = t
      BY <1>5, <1>7, <3>1 DEF Attached, Created
    <3>2. CASE d[1] # t
      BY <1>5, <1>7, <1>8, <3>2 DEF Attached, Created, Alive
    <3> QED BY <3>1, <3>2
  <2>2. ASSUME NEW d \in Deltas PROVE InUse(tx', gc, d) => InUse(tx, gc, d)
    BY <1>5, <1>8 DEF InUse
  <2> QED BY <1>4, <1>5, <1>7, <2>1, <2>2 DEF Frame
<1>10. ASSUME NEW w \in Vertices
       PROVE  /\ vx'[w] \in VertexRecords
              /\ \/ vx'[w].head = vx[w].head
                 \/ /\ vx'[w].head = Null
                    /\ \A e \in Deltas : ~(Attached(tx', e) /\ InUse(tx', gc, e) /\ vx[w].head = e)
  <2> DEFINE x == vx[w]
  <2>1. x \in VertexRecords /\ x = vx[w]
    BY <1>1
  <2>2. CASE w \in Heads(Discarded(t))
    <3>1. vx'[w] = [x EXCEPT !.head = Null, !.flag = FALSE]
      BY <1>2, <2>2 DEF FastDiscard
    <3>2. vx'[w] \in VertexRecords /\ vx'[w].head = Null
      <4> HIDE DEF x
      <4>1. Null \in Pointers
        BY DEF Pointers
      <4> QED BY <2>1, <3>1, <4>1 DEF VertexRecords
    <3>3. PICK d \in Deltas : d[1] \in Discarded(t) /\ Created(tx, d) /\ dl[d].prev = w
      BY <2>2 DEF Heads, Created
    <3>4. d[1] = t \/ tx[d[1]].where \in {"committed", "waiting"}
      BY <3>3 DEF Discarded
    <3>5. Done(tx, d[1]) /\ tx[d[1]].where \in {"own", "committed", "waiting", "linked"}
      <4>1. CASE d[1] = t
        BY <1>1, <1>2, <1>7, <4>1 DEF Sound
      <4>2. CASE tx[d[1]].where \in {"committed", "waiting"}
        <5>1. Sound(d[1], tx[d[1]], timestamp, open, gc)
          BY <1>1, <1>8
        <5> QED BY <4>2, <5>1 DEF Sound, Done
      <4> QED BY <3>4, <4>1, <4>2
    <3>6. Attached(tx, d) /\ InUse(tx, gc, d)
      <4>1. gc.txn # d[1]
        BY <1>3, <1>8, PointerConstants
      <4> QED BY <3>3, <3>5, <4>1 DEF Attached, InUse
    <3>7. vx[w].head = d
      <4>1. dl[d].obj = w
        BY <1>1, <1>8, <3>3 DEF Coherent, Shape
      <4> QED BY <1>1, <3>3, <3>6, <4>1 DEF Coherent, HeadLinked
    <3>8. ~InUse(tx', gc, d)
      <4>1. tx'[d[1]].where = "freed"
        BY <1>5, <1>8, <3>4
      <4> QED BY <4>1 DEF InUse
    <3> QED BY <3>2, <3>7, <3>8
  <2>3. CASE w \notin Heads(Discarded(t))
    <3>1. vx'[w] = x
      BY <1>2, <2>3 DEF FastDiscard
    <3> QED BY <2>1, <3>1
  <2> QED BY <2>2, <2>3
<1>11. vx' \in [Vertices -> VertexRecords]
  <2>1. \E f : vx' = [w \in Vertices |-> f[w]]
    <3> DEFINE f == [v \in Vertices |-> IF v \in Heads(Discarded(t))
                               THEN [vx[v] EXCEPT !.head = Null, !.flag = FALSE] ELSE vx[v]]
    <3>1. vx' = f /\ f = [u \in Vertices |-> f[u]]
      BY <1>2 DEF FastDiscard
    <3> HIDE DEF f
    <3> QED BY <3>1
  <2> QED BY <1>10, <2>1
<1>12. Coherent(tx', dl, vx', gc)
  BY <1>1, <1>7, <1>9, <1>10, DiscardCoherent
<1>13. Clock(tx', timestamp, open', gc)
  <2>1. Begun(tx') = Begun(tx) /\ Ended(tx') = Ended(tx)
    BY <1>7 DEF Begun, Ended
  <2>2. Distinct(tx')
    BY <1>1, <1>5, <1>7 DEF Distinct
  <2>3. GcSound(tx', timestamp, gc)
    BY <1>1, <1>3 DEF GcSound
  <2>4. ASSUME NEW u \in Txns PROVE Sound(u, tx'[u], timestamp, open', gc)
    <3>1. Sound(u, tx[u], timestamp, open, gc) /\ tx[u].pc \notin {"running", "aborting"}
      BY <1>1, <1>4
    <3>2. CASE u = t
      BY <1>2, <1>5, <3>1, <3>2 DEF Sound
    <3>3. CASE u # t /\ tx[u].where \in {"committed", "waiting", "garbage"}
      <4>1. tx'[u].where = "freed" /\ tx'[u].pc = tx[u].pc
        BY <1>5, <3>3
      <4> QED BY <1>5, <3>1, <3>3, <4>1 DEF Sound
    <3>4. CASE u # t /\ tx[u].where \notin {"committed", "waiting", "garbage"}
      <4>1. tx'[u].where = tx[u].where /\ tx'[u].pc = tx[u].pc
        BY <1>5, <3>4
      <4> QED BY <1>5, <3>1, <3>4, <4>1 DEF Sound
    <3> QED BY <3>2, <3>3, <3>4
  <2> QED BY <1>1, <2>1, <2>2, <2>3, <2>4 DEF Clock
<1>14. Types'
  BY <1>2, <1>6, <1>11 DEF IInv, Types
<1>15. Clock(tx', timestamp', open', gc') /\ Coherent(tx', dl', vx', gc')
  BY <1>2, <1>12, <1>13
<1> QED BY <1>14, <1>15 DEF IInv

-----------------------------------------------------------------------------
(* An abort.                                                               *)

(* The values a vertex goes through while the first m deltas of p are      *)
(* undone.                                                                 *)
Undoing(p, image, m) ==
  {g \in [0..m -> Images] : g[0] = image /\ \A i \in 1..m : g[i] = Undo(g[i-1], p[i])}

(* They exist.                                                             *)
LEMMA UndoingExists ==
  ASSUME IInv, NEW p \in Seq(Deltas), NEW image \in Images, NEW k \in Nat, k <= Len(p)
  PROVE  Undoing(p, image, k) # {}
<1> DEFINE A == {m \in Nat : m <= Len(p) /\ Undoing(p, image, m) = {}}
<1>1. SUFFICES ASSUME A # {} PROVE FALSE
  OBVIOUS
<1>2. PICK m \in A : \A y \in A : m <= y
  BY <1>1, LeastExists
<1>3. m # 0
  <2>1. [i \in 0..0 |-> image] \in Undoing(p, image, 0)
    BY DEF Undoing
  <2> QED BY <2>1
<1>4. m - 1 \in Nat /\ m - 1 \notin A /\ m - 1 <= Len(p) /\ m \in 1..Len(p)
  BY <1>2, <1>3
<1>5. PICK g : g \in Undoing(p, image, m - 1)
  BY <1>4
<1> DEFINE im == Undo(g[m-1], p[m])
           h == [i \in 0..m |-> IF i < m THEN g[i] ELSE im]
<1>6. /\ g \in [0..(m-1) -> Images] /\ g[0] = image
      /\ \A i \in 1..(m-1) : g[i] = Undo(g[i-1], p[i])
  BY <1>5 DEF Undoing
<1>7. im \in Images
  <2>1. g[m-1] \in Images /\ p[m] \in Deltas
    BY <1>4, <1>6
  <2> QED BY <2>1, UndoImage
<1>8. h \in [0..m -> Images]
  <2> HIDE DEF im
  <2> QED BY <1>4, <1>6, <1>7
<1>9. h[0] = image
  BY <1>3, <1>6
<1>10. ASSUME NEW i \in 1..m PROVE h[i] = Undo(h[i-1], p[i])
  <2>1. h[i-1] = g[i-1]
    <3> HIDE DEF im
    <3> QED OBVIOUS
  <2>2. CASE i < m
    <3>1. h[i] = g[i] /\ i \in 1..(m-1)
      BY <1>4, <2>2
    <3> HIDE DEF h
    <3> QED BY <1>6, <2>1, <3>1
  <2>3. CASE i = m
    <3>1. h[i] = Undo(g[m-1], p[m])
      BY <2>3
    <3> HIDE DEF h
    <3> QED BY <2>1, <2>3, <3>1
  <2> QED BY <2>2, <2>3
<1>11. h \in Undoing(p, image, m)
  <2> HIDE DEF h
  <2> QED BY <1>8, <1>9, <1>10 DEF Undoing
<1> QED BY <1>11

(* A run is undone delta by delta.                                         *)
LEMMA UndoneSteps ==
  ASSUME IInv, NEW p \in Seq(Deltas), NEW image \in Images
  PROVE  \E f \in [0..Len(p) -> Images] :
           /\ f[0] = image /\ \A n \in 1..Len(p) : f[n] = Undo(f[n-1], p[n])
           /\ Undone(image, p) = f[Len(p)]
<1> DEFINE K == Len(p)
           Step(f) == [n \in 0..K |-> IF n = 0 THEN image ELSE Undo(f[n-1], p[n])]
           after == CHOOSE f : f = Step(f)
<1>1. Undone(image, p) = after[K]
  BY DEF Undone
<1>2. K \in Nat
  OBVIOUS
<1>3. PICK g : g \in Undoing(p, image, K)
  BY <1>2, UndoingExists
<1> HIDE DEF K
<1>4. g = Step(g)
  <2>1. /\ g \in [0..K -> Images] /\ g[0] = image
        /\ \A i \in 1..K : g[i] = Undo(g[i-1], p[i])
    BY <1>3 DEF Undoing
  <2>2. ASSUME NEW n \in 0..K PROVE g[n] = Step(g)[n]
    BY <2>1, <1>2
  <2> QED BY <2>1, <2>2
<1>5. after = Step(after)
  BY <1>4, Zenon
<1> HIDE DEF after
<1>6. after[0] = image /\ \A n \in 1..K : after[n] = Undo(after[n-1], p[n])
  BY <1>2, <1>5
<1>7. \A n \in 0..K : after[n] \in Images
  <2> DEFINE B == {n \in 0..K : after[n] \notin Images}
  <2>1. SUFFICES ASSUME B # {} PROVE FALSE
    OBVIOUS
  <2>2. PICK m \in B : \A y \in B : m <= y
    <3>1. B \in SUBSET Nat
      OBVIOUS
    <3> QED BY <2>1, <3>1, LeastExists
  <2>3. m # 0
    BY <1>6
  <2>4. m \in 1..K /\ m - 1 \in 0..K /\ m - 1 \notin B
    BY <1>2, <2>2, <2>3
  <2>5. after[m-1] \in Images /\ p[m] \in Deltas
    BY <2>4 DEF K
  <2>6. after[m] \in Images
    BY <1>6, <2>4, <2>5, UndoImage
  <2> QED BY <2>2, <2>6
<1>8. after \in [0..K -> Images]
  BY <1>5, <1>7
<1> QED BY <1>1, <1>6, <1>8 DEF K

(* What is left of a vertex when a run is undone.                          *)
LEMMA UndoneImage ==
  ASSUME IInv, NEW p \in Seq(Deltas), NEW image \in Images
  PROVE  Undone(image, p) \in Images
<1>1. Len(p) \in 0..Len(p)
  OBVIOUS
<1> QED BY <1>1, UndoneSteps

(* A run stays in a set that next does not leave.                          *)
LEMMA RunStays ==
  ASSUME NEW p \in Seq(Deltas), Len(p) >= 1, \A i \in 1..(Len(p) - 1) : p[i+1] = dl[p[i]].next,
         NEW Q, \A i \in 1..Len(p) : p[i] \in Q,
         NEW K, p[1] \in K, \A e \in Deltas : e \in K /\ e \in Q /\ dl[e].next \in Deltas => dl[e].next \in K
  PROVE  p[Len(p)] \in K
<1> DEFINE B == {i \in 1..Len(p) : p[i] \notin K}
<1>1. SUFFICES ASSUME B # {} PROVE FALSE
  OBVIOUS
<1>2. PICK m \in B : \A y \in B : m <= y
  <2>1. B \in SUBSET Nat
    OBVIOUS
  <2> QED BY <1>1, <2>1, LeastExists
<1>3. m # 1
  OBVIOUS
<1>4. m \in 1..Len(p) /\ m - 1 \in 1..(Len(p) - 1) /\ m - 1 \in 1..Len(p) /\ m - 1 \notin B
  BY <1>2, <1>3
<1>5. p[m-1] \in K /\ p[m-1] \in Q /\ p[m-1] \in Deltas /\ p[m] \in Deltas
  BY <1>4
<1>6. p[m] = dl[p[m-1]].next
  <2>1. (m - 1) + 1 = m
    BY <1>4
  <2> QED BY <1>4, <2>1
<1>7. p[m] \in K
  BY <1>5, <1>6
<1> QED BY <1>2, <1>7

(* Whose delta it is.                                                      *)
LEMMA OwnFacts ==
  ASSUME IInv, NEW t \in Txns, NEW e \in Deltas, Own(t, e)
  PROVE  e[1] = t
<1>1. e[1] \in Txns /\ tx[e[1]].ts = TransactionId(t)
  BY DeltaFacts DEF Own, TsOf
<1>2. CASE tx[e[1]].pc # "new"
  BY <1>1, <1>2, IdFacts
<1>3. CASE tx[e[1]].pc = "new"
  <2>1. tx[e[1]].ts = 0
    BY <1>1, <1>3, IdFacts DEF Sound
  <2>2. TransactionId(t) > 0
    BY DeltaChainConstants DEF TransactionId, kTransactionInitialId, Txns
  <2> QED BY <1>1, <2>1, <2>2
<1> QED BY <1>2, <1>3

(* The delta an abort is at.                                               *)
LEMMA AbortFacts ==
  ASSUME IInv, NEW t \in Txns, tx[t].pc = "aborting", tx[t].i <= tx[t].n
  PROVE  LET d == <<t, tx[t].i>>
         IN /\ d \in Deltas /\ Attached(tx, d) /\ InUse(tx, gc, d) /\ ~Done(tx, t) /\ Own(t, d)
            /\ dl[d].obj \in Vertices /\ gc.txn # t
<1> DEFINE d == <<t, tx[t].i>>
<1>1. /\ Sound(t, tx[t], timestamp, open, gc) /\ tx[t].i \in Nat /\ tx[t].n \in Nat
      /\ tx[t].n <= MaxDeltas /\ kTransactionInitialId \in Nat
  BY IdFacts
<1>2. tx[t].i >= 1 /\ tx[t].ts = TransactionId(t) /\ tx[t].where = "own"
  BY <1>1 DEF Sound
<1>3. d \in Deltas
  BY <1>1, <1>2, DeltaChainConstants DEF Deltas
<1>4. ~Done(tx, t)
  <2>1. ~(TransactionId(t) < kTransactionInitialId)
    BY <1>1 DEF TransactionId, Txns
  <2> QED BY <1>2, <2>1 DEF Done
<1>5. gc.txn # t
  BY <1>2, PointerConstants DEF IInv, Clock, GcSound
<1>6. Created(tx, d) /\ Attached(tx, d) /\ InUse(tx, gc, d)
  BY <1>1, <1>2, <1>5 DEF Created, Attached, InUse
<1>7. Own(t, d)
  BY <1>2 DEF Own, TsOf
<1>8. dl[d].obj \in Vertices
  BY <1>3, <1>6 DEF IInv, Coherent, Shape
<1> QED BY <1>3, <1>4, <1>5, <1>6, <1>7, <1>8

(* The record of an abort that goes on to the next delta.                  *)
LEMMA AbortRecord ==
  ASSUME IInv, NEW t \in Txns, tx[t].pc = "aborting", tx' = [tx EXCEPT ![t].i = @ + 1]
  PROVE  /\ tx' = [tx EXCEPT ![t] = tx'[t]] /\ tx'[t] \in TxRecords /\ tx'[t].pc = "aborting"
         /\ tx'[t].n = tx[t].n /\ tx'[t].ts = tx[t].ts /\ tx'[t].start = tx[t].start
         /\ tx'[t].where = tx[t].where /\ tx'[t].i = tx[t].i + 1 /\ tx'[t].unlinkable = tx[t].unlinkable
         /\ tx' \in [Txns -> TxRecords] /\ \A u \in Txns : u # t => tx'[u] = tx[u]
         /\ Sound(t, tx'[t], timestamp, open, gc)
<1> DEFINE q == tx[t]
           r == [q EXCEPT !.i = @ + 1]
<1>1. q \in TxRecords /\ tx \in [Txns -> TxRecords] /\ q = tx[t] /\ Sound(t, q, timestamp, open, gc)
  BY DEF IInv, Types, Clock
<1>2. tx' = [tx EXCEPT ![t] = r]
  BY <1>1
<1> HIDE DEF q
<1>3. /\ r \in TxRecords /\ r.pc = q.pc /\ r.n = q.n /\ r.ts = q.ts /\ r.start = q.start
      /\ r.where = q.where /\ r.i = q.i + 1 /\ r.unlinkable = q.unlinkable
  BY <1>1 DEF TxRecords
<1> HIDE DEF r
<1>4. q.i \in Nat
  BY <1>1, IdFacts
<1>5. Sound(t, r, timestamp, open, gc)
  BY <1>1, <1>3, <1>4 DEF Sound
<1>6. tx'[t] = r /\ tx' \in [Txns -> TxRecords] /\ \A u \in Txns : u # t => tx'[u] = tx[u]
  BY <1>1, <1>2, <1>3
<1> QED BY <1>1, <1>2, <1>3, <1>5, <1>6

(* A delta inside a run was undone with the run.                           *)
LEMMA AbortSkipInv ==
  ASSUME IInv, NEW t \in Txns, AbortStep(t), ~HeadsRun(t, <<t, tx[t].i>>)
  PROVE  IInv'
<1>1. /\ tx[t].pc = "aborting" /\ tx' = [tx EXCEPT ![t].i = @ + 1]
      /\ UNCHANGED <<dl, vx, timestamp, open, engine, rd, gc, db, snap>>
  BY DEF AbortStep
<1> DEFINE r == tx'[t]
<1>2. /\ tx' = [tx EXCEPT ![t] = r] /\ r \in TxRecords /\ r.pc = "aborting"
      /\ r.n = tx[t].n /\ r.ts = tx[t].ts /\ r.start = tx[t].start
      /\ r.where = tx[t].where /\ r.i = tx[t].i + 1 /\ Sound(t, r, timestamp, open, gc)
  BY <1>1, AbortRecord
<1>3. tx[t].i <= r.i
  BY <1>2, IdFacts
<1>4. /\ vx' \in [Vertices -> VertexRecords] /\ \A w \in Vertices : vx'[w].head = vx[w].head
      /\ engine' \in Txns \cup {Null} /\ open' = open
  BY <1>1 DEF IInv, Types
<1> HIDE DEF r
<1> QED BY <1>1, <1>2, <1>3, <1>4, QuietStep

(* process_vertex_deltas undoes p and takes it out of the chain of v.      *)
RunTaken(t, d, v, p) ==
  /\ p \in Seq(Deltas) /\ Len(p) >= 1 /\ p[1] = d
  /\ \A i \in 1..Len(p) : p[i][1] = t
  /\ \A i \in 1..(Len(p) - 1) : p[i+1] = dl[p[i]].next
  /\ dl[p[Len(p)]].next \in Deltas =>
       dl[p[Len(p)]].next[1] # t \/ p[Len(p)] = Chain(d)[Len(Chain(d))]
  /\ Unlinks(tx, dl, vx, tx', dl', vx', d, p[Len(p)])
  /\ vx'[v].val = Undone([val |-> vx[v].val, edges |-> vx[v].edges], p).val
  /\ vx'[v].edges = Undone([val |-> vx[v].val, edges |-> vx[v].edges], p).edges
  /\ vx'[v].flag = (vx[v].flag /\ HasUncommittedNonSequentialDeltas(Chain(vx[v].head), t))
  /\ \A w \in Vertices : w # v => vx'[w] = vx[w]
  /\ \A e \in Deltas : dl'[e].arg = dl[e].arg

(* There is such a run.                                                    *)
LEMMA AbortRunSteps ==
  ASSUME IInv, NEW t \in Txns, AbortStep(t), HeadsRun(t, <<t, tx[t].i>>)
  PROVE  IInv' /\ \E p : RunTaken(t, <<t, tx[t].i>>, dl[<<t, tx[t].i>>].obj, p)
<1> DEFINE d == <<t, tx[t].i>>
           v == dl[d].obj
           c == Chain(d)
           Q == {e \in Deltas : Own(t, e)}
           p == SubSeq(c, 1, Cardinality({i \in DOMAIN c : \A j \in 1..i : c[j] \in Q}))
           run == SubSeq(c, 1, Cardinality({i \in DOMAIN c : \A j \in 1..i : Own(t, c[j])}))
           last == run[Len(run)]
           below == dl[last].next
           above == dl[d].prev
           first == vx[v].head = d
           image == Undone([val |-> vx[v].val, edges |-> vx[v].edges], run)
           flag == vx[v].flag /\ HasUncommittedNonSequentialDeltas(Chain(vx[v].head), t)
<1>1. /\ tx[t].pc = "aborting" /\ tx[t].i <= tx[t].n /\ tx' = [tx EXCEPT ![t].i = @ + 1]
      /\ ProcessVertexDeltas(t, d)
      /\ UNCHANGED <<timestamp, open, engine, rd, gc, db, snap>>
  BY DEF AbortStep
<1>2. /\ d \in Deltas /\ Attached(tx, d) /\ InUse(tx, gc, d) /\ ~Done(tx, t) /\ Own(t, d)
      /\ v \in Vertices /\ gc.txn # t
  BY <1>1, AbortFacts
<1>3. /\ vx' = [vx EXCEPT ![v].val = image.val, ![v].edges = image.edges,
                          ![v].head = IF first THEN below ELSE @, ![v].flag = flag]
      /\ dl' = [e \in Deltas |->
                  IF e = below THEN [dl[e] EXCEPT !.prev = IF first THEN v ELSE above]
                  ELSE IF ~first /\ e = above THEN [dl[e] EXCEPT !.next = below]
                  ELSE dl[e]]
  BY <1>1, Zenon DEF ProcessVertexDeltas, GetVertexFromDelta, PrefixWhile
<1>4. \A e \in Deltas : dl[e].next \in Pointers /\ (e \in Q => e[1] = t)
  BY DeltaFacts, OwnFacts
<1>5. c \in Seq(Deltas)
  BY <1>2, <1>4, ChainFacts
<1>6. {i \in DOMAIN c : \A j \in 1..i : c[j] \in Q} = {i \in DOMAIN c : \A j \in 1..i : Own(t, c[j])}
  <2>1. \A i \in DOMAIN c : \A j \in 1..i : c[j] \in Deltas
    BY <1>5
  <2> HIDE DEF c
  <2> QED BY <2>1
<1>7. run = p
  BY <1>6
<1>8. d \in Q
  BY <1>2
<1>9. /\ p \in Seq(Deltas) /\ \A i \in 1..Len(p) : p[i] \in Q
      /\ \A i \in 1..(Len(p) - 1) : p[i+1] = dl[p[i]].next
      /\ Len(p) >= 1 /\ p[1] = d
      /\ dl[p[Len(p)]].next \notin Q \/ p[Len(p)] = c[Len(c)]
  <2>1. d \in Deltas /\ \A e \in Deltas : dl[e].next \in Pointers
    BY <1>2, <1>4
  <2> HIDE DEF Q, d
  <2>2. /\ p \in Seq(Deltas) /\ \A i \in 1..Len(p) : p[i] \in Q
        /\ \A i \in 1..(Len(p) - 1) : p[i+1] = dl[p[i]].next
        /\ d \in Q => Len(p) >= 1 /\ p[1] = d
        /\ d \in Q => dl[p[Len(p)]].next \notin Q \/ (Len(p) = Len(c) /\ p[Len(p)] = c[Len(c)])
    BY <2>1, RunFacts, Zenon
  <2> QED BY <1>8, <2>2
<1> HIDE DEF run, p, c
<1>10. /\ run \in Seq(Deltas) /\ \A i \in 1..Len(run) : run[i] \in Q
       /\ \A i \in 1..(Len(run) - 1) : run[i+1] = dl[run[i]].next
       /\ Len(run) >= 1 /\ run[1] = d
       /\ dl[last].next \notin Q \/ last = c[Len(c)]
  BY <1>7, <1>9
<1>11. last \in Deltas /\ last \in Q /\ last[1] = t
  <2>1. Len(run) \in 1..Len(run)
    BY <1>10
  <2> QED BY <1>4, <1>10, <2>1
<1>12. below \in Pointers /\ above \in Pointers \cup Vertices
  BY <1>2, <1>4, <1>11 DEF IInv, Types, DeltaRecords
<1>13. dl[last].obj = v
  <2> DEFINE K == {e \in Deltas : dl[e].obj = v}
  <2>1. run[1] \in K
    BY <1>2, <1>10
  <2>2. \A e \in Deltas : e \in K /\ e \in Q /\ dl[e].next \in Deltas => dl[e].next \in K
    BY DEF IInv, Coherent, Shape
  <2>3. run[Len(run)] \in K
    <3> HIDE DEF K, Q
    <3> QED BY <1>10, <2>1, <2>2, RunStays
  <2> QED BY <2>3
<1>14. ASSUME NEW r \in [Deltas -> Nat], \A e \in Deltas : dl[e].next \in Deltas => r[dl[e].next] < r[e]
       PROVE  r[last] <= r[d]
  <2> DEFINE K == {e \in Deltas : r[e] <= r[d]}
  <2>1. run[1] \in K
    BY <1>2, <1>10
  <2>2. \A e \in Deltas : e \in K /\ e \in Q /\ dl[e].next \in Deltas => dl[e].next \in K
    <3>1. SUFFICES ASSUME NEW e \in Deltas, e \in K, dl[e].next \in Deltas PROVE r[dl[e].next] <= r[d]
      OBVIOUS
    <3>2. r[e] \in Nat /\ r[dl[e].next] \in Nat /\ r[d] \in Nat /\ r[dl[e].next] < r[e] /\ r[e] <= r[d]
      BY <1>2, <1>14, <3>1
    <3> QED BY <3>2
  <2>3. run[Len(run)] \in K
    <3> HIDE DEF K, Q
    <3> QED BY <1>10, <2>1, <2>2, RunStays
  <2> QED BY <2>3
<1>15. ASSUME NEW w \in Txns, NEW S \in SUBSET Deltas, w # t, d \in S,
              \A e \in S : e[1] # w => dl[e].next \in S
       PROVE  last \in S
  <2>1. \A e \in Deltas : e \in S /\ e \in Q /\ dl[e].next \in Deltas => dl[e].next \in S
    BY <1>4, <1>15
  <2> HIDE DEF Q, last
  <2>2. /\ run \in Seq(Deltas) /\ \A i \in 1..Len(run) : run[i] \in Q
        /\ \A i \in 1..(Len(run) - 1) : run[i+1] = dl[run[i]].next
        /\ Len(run) >= 1 /\ run[1] = d
    BY <1>10
  <2>3. run[Len(run)] \in S
    BY <1>15, <2>1, <2>2, RunStays
  <2> QED BY <2>3 DEF last
<1> DEFINE T2 == tx'
<1>16. /\ T2[t].pc = "aborting"
       /\ T2[t].n = tx[t].n /\ T2[t].ts = tx[t].ts /\ T2[t].start = tx[t].start
       /\ T2[t].where = tx[t].where /\ T2[t].i = tx[t].i + 1 /\ T2[t].unlinkable = tx[t].unlinkable
       /\ T2 \in [Txns -> TxRecords] /\ (\A u \in Txns : u # t => T2[u] = tx[u])
       /\ Sound(t, T2[t], timestamp, open, gc) /\ T2[t] \in TxRecords /\ T2 = [tx EXCEPT ![t] = T2[t]]
  BY <1>1, AbortRecord
<1>17. ASSUME NEW e \in Deltas
       PROVE  /\ dl'[e] \in DeltaRecords
              /\ dl'[e].obj = dl[e].obj /\ dl'[e].act = dl[e].act /\ dl'[e].state = dl[e].state
              /\ dl'[e].arg = dl[e].arg
              /\ dl'[e].prev = IF e = below THEN IF first THEN v ELSE above ELSE dl[e].prev
              /\ dl'[e].next = IF e # below /\ ~first /\ e = above THEN below ELSE dl[e].next
  <2> DEFINE q == dl[e]
             up == IF first THEN v ELSE above
  <2>1. q \in DeltaRecords /\ up \in Pointers \cup Vertices /\ q = dl[e] /\ up = IF first THEN v ELSE above
    BY <1>2, <1>12 DEF IInv, Types
  <2>2. CASE e = below
    <3>1. dl'[e] = [q EXCEPT !.prev = up]
      BY <1>3, <2>2
    <3> HIDE DEF q, up, below, first, v, above
    <3> QED BY <2>1, <2>2, <3>1 DEF DeltaRecords
  <2>3. CASE e # below /\ ~first /\ e = above
    <3>1. dl'[e] = [q EXCEPT !.next = below]
      BY <1>3, <2>3
    <3> HIDE DEF q, up, below, first, v, above
    <3> QED BY <1>12, <2>1, <2>3, <3>1 DEF DeltaRecords
  <2>4. CASE e # below /\ ~(~first /\ e = above)
    <3>1. dl'[e] = q
      BY <1>3, <2>4
    <3> HIDE DEF q, up, below, first, v, above
    <3> QED BY <2>1, <2>4, <3>1 DEF DeltaRecords
  <2> QED BY <2>2, <2>3, <2>4
<1>18. dl' \in [Deltas -> DeltaRecords]
  <2>1. DOMAIN dl' = Deltas /\ dl' = [e \in Deltas |-> dl'[e]]
    <3> HIDE DEF below, first, v, above
    <3> QED BY <1>3
  <2> QED BY <1>17, <2>1
<1>19. /\ vx' \in [Vertices -> VertexRecords]
       /\ \A w \in Vertices : vx'[w].head = IF w = v /\ first THEN below ELSE vx[w].head
       /\ vx'[v].val = image.val /\ vx'[v].edges = image.edges /\ vx'[v].flag = flag
       /\ \A w \in Vertices : w # v => vx'[w] = vx[w]
  <2> DEFINE x == vx[v]
             head == IF first THEN below ELSE vx[v].head
             im == image
             y == [x EXCEPT !.val = im.val, !.edges = im.edges, !.head = head, !.flag = flag]
  <2>1. x \in VertexRecords /\ vx \in [Vertices -> VertexRecords] /\ x = vx[v]
    BY <1>2 DEF IInv, Types
  <2>2. im \in Images
    <3>1. [val |-> vx[v].val, edges |-> vx[v].edges] \in Images
      <4> HIDE DEF x
      <4> QED BY <2>1 DEF VertexRecords, Images
    <3> QED BY <1>10, <3>1, UndoneImage
  <2>3. head \in Pointers
    <3> HIDE DEF below, first, v
    <3> QED BY <1>12, <2>1 DEF VertexRecords
  <2>4. flag \in BOOLEAN
    BY Zenon
  <2>5. vx' = [vx EXCEPT ![v] = y]
    <3> HIDE DEF image, below, first, flag, v
    <3> QED BY <1>3, <2>1
  <2>6. head = (IF first THEN below ELSE vx[v].head) /\ im = image
    OBVIOUS
  <2> HIDE DEF im, image, flag, head, x, v, first, below
  <2>7. y \in VertexRecords /\ y.head = head /\ y.val = im.val /\ y.edges = im.edges /\ y.flag = flag
    BY <2>1, <2>2, <2>3, <2>4 DEF VertexRecords, Images
  <2> HIDE DEF y
  <2> QED BY <1>2, <2>1, <2>5, <2>6, <2>7
<1>20. Unlinks(tx, dl, vx, T2, dl', vx', d, last)
  <2>1. \A u \in Txns : /\ T2[u].pc = tx[u].pc /\ T2[u].start = tx[u].start /\ T2[u].ts = tx[u].ts
                        /\ T2[u].where = tx[u].where /\ T2[u].n = tx[u].n
                        /\ T2[u].i = IF u = d[1] THEN d[2] + 1 ELSE tx[u].i
    <3> HIDE DEF T2
    <3> QED BY <1>1, <1>16
  <2>2. d[1] = t
    OBVIOUS
  <2> HIDE DEF T2, d, last
  <2> QED BY <1>11, <1>13, <1>14, <1>15, <1>17, <1>19, <2>1, <2>2 DEF Unlinks
<1>21. Coherent(tx', dl', vx', gc)
  <2>1. Typed(tx, dl, vx) /\ Coherent(tx, dl, vx, gc)
    BY DEF IInv, Types, Typed
  <2>2. d[1] = t /\ tx[d[1]].i = d[2] /\ tx[d[1]].pc = "aborting"
    BY <1>1
  <2> HIDE DEF d, last
  <2> QED BY <1>2, <1>20, <2>1, <2>2, UnlinkCoherent
<1>22. Clock(tx', timestamp, open, gc)
  <2> DEFINE r == T2[t]
  <2>1. Typed(tx, dl, vx) /\ Coherent(tx, dl, vx, gc) /\ Clock(tx, timestamp, open, gc)
    BY DEF IInv, Types, Typed
  <2>2. tx[t].i <= r.i
    BY <1>16, IdFacts
  <2>3. /\ r \in TxRecords /\ r.pc = "aborting" /\ r.n = tx[t].n /\ r.ts = tx[t].ts
        /\ r.start = tx[t].start /\ r.where = tx[t].where /\ Sound(t, r, timestamp, open, gc)
    BY <1>16
  <2>4. tx' = [tx EXCEPT ![t] = r]
    BY <1>16
  <2> HIDE DEF r, T2
  <2>5. Clock([tx EXCEPT ![t] = r], timestamp, open, gc)
    BY <1>1, <2>1, <2>2, <2>3, RecordStep
  <2> QED BY <2>4, <2>5
<1>23. Types'
  BY <1>1, <1>16, <1>18, <1>19 DEF IInv, Types
<1>24. Clock(tx', timestamp', open', gc') /\ Coherent(tx', dl', vx', gc')
  BY <1>1, <1>21, <1>22
<1>25. IInv'
  BY <1>23, <1>24 DEF IInv
<1>26. dl[last].next \in Deltas => dl[last].next[1] # t \/ last = c[Len(c)]
  <2>1. tx[t].ts = TransactionId(t)
    BY <1>2 DEF Own, TsOf
  <2>2. \A e \in Deltas : e[1] = t => e \in Q
    BY <2>1 DEF Own, TsOf
  <2> HIDE DEF Q, last
  <2> QED BY <1>10, <2>2
<1>27. RunTaken(t, d, v, run)
  <2>1. \A i \in 1..Len(run) : run[i][1] = t
    BY <1>4, <1>10
  <2>2. last = run[Len(run)] /\ c = Chain(d) /\ flag = (vx[v].flag /\ HasUncommittedNonSequentialDeltas(Chain(vx[v].head), t))
    BY DEF c
  <2>3. image = Undone([val |-> vx[v].val, edges |-> vx[v].edges], run)
    OBVIOUS
  <2>4. \A e \in Deltas : dl'[e].arg = dl[e].arg
    BY <1>17
  <2> HIDE DEF image, flag, last, d, v, Q
  <2> QED BY <1>10, <1>19, <1>20, <1>26, <2>1, <2>2, <2>3, <2>4 DEF RunTaken
<1> HIDE DEF d, v, run
<1>28. \E q : RunTaken(t, d, v, q)
  BY <1>27
<1> QED BY <1>25, <1>28 DEF d, v

-----------------------------------------------------------------------------
(* The collector.                                                          *)

(* A step between two deltas moves containers from list to list.           *)
LEMMA ListStep ==
  ASSUME IInv, UNCHANGED <<dl, vx, timestamp, open, engine, rd, db, snap>>,
         tx' \in [Txns -> TxRecords], gc' \in GcRecords, gc.txn = Null, gc'.txn = Null,
         gc'.oldest <= timestamp,
         \A u \in Txns : /\ tx'[u].n = tx[u].n /\ tx'[u].ts = tx[u].ts /\ tx'[u].start = tx[u].start
                         /\ tx'[u].pc = tx[u].pc /\ tx'[u].i = tx[u].i
                         /\ tx'[u].where \in {"own", "committed", "waiting", "linked"} =>
                              tx[u].where \in {"own", "committed", "waiting", "linked"}
                         /\ Sound(u, tx'[u], timestamp, open, gc')
  PROVE  IInv'
<1>1. \A u \in Txns : (Done(tx', u) <=> Done(tx, u)) /\ (Alive(tx', u) <=> Alive(tx, u))
  BY DEF Done, Alive
<1>2. \A d \in Deltas : d[1] \in Txns /\ d[1] # Null
  BY DeltaFacts, PointerConstants
<1>3. Frame(tx, gc, tx', gc')
  <2>1. \A d \in Deltas : Attached(tx', d) => Attached(tx, d)
    BY <1>1, <1>2 DEF Attached, Created
  <2>2. \A d \in Deltas : InUse(tx', gc', d) => InUse(tx, gc, d)
    BY <1>2 DEF InUse
  <2> QED BY <1>1, <2>1, <2>2 DEF Frame
<1>4. Coherent(tx', dl, vx, gc')
  BY <1>3, FrameCoherent DEF IInv, Types
<1>5. Clock(tx', timestamp, open, gc')
  <2>1. Begun(tx') = Begun(tx) /\ Ended(tx') = Ended(tx)
    BY <1>1 DEF Begun, Ended
  <2>2. Distinct(tx')
    BY <1>1 DEF IInv, Clock, Distinct
  <2>3. GcSound(tx', timestamp, gc')
    BY DEF GcSound
  <2> QED BY <2>1, <2>2, <2>3 DEF IInv, Clock
<1>6. Types'
  BY DEF IInv, Types
<1>7. Clock(tx', timestamp', open', gc') /\ Coherent(tx', dl', vx', gc')
  BY <1>4, <1>5
<1> QED BY <1>6, <1>7 DEF IInv

(* Between two deltas the collector has no container in hand.              *)
LEMMA GcFacts ==
  ASSUME IInv
  PROVE  /\ gc \in GcRecords /\ gc.oldest \in Nat /\ gc.oldest <= timestamp
         /\ gc.pc # "unlink" => gc.txn = Null
         /\ gc.i \in Nat /\ timestamp \in Nat /\ timestamp \in Timestamps
         /\ open \cup {timestamp} \in SUBSET Nat /\ open \cup {timestamp} \in SUBSET Timestamps
<1>1. gc \in GcRecords /\ open \subseteq Timestamps /\ timestamp \in Timestamps /\ GcSound(tx, timestamp, gc)
  BY DEF IInv, Types, Clock
<1>2. gc.oldest \in 0..2*N /\ gc.i \in 0..MaxDeltas
  BY <1>1 DEF GcRecords, Timestamps
<1>3. Timestamps \subseteq Nat
  BY DeltaChainConstants DEF Timestamps
<1>4. gc.oldest \in Nat /\ gc.i \in Nat /\ timestamp \in Nat
  BY <1>1, <1>2, <1>3, DeltaChainConstants
<1>5. open \cup {timestamp} \in SUBSET Nat /\ open \cup {timestamp} \in SUBSET Timestamps
  BY <1>1, <1>3
<1> QED BY <1>1, <1>4, <1>5 DEF GcSound

(* The horizon is read.                                                    *)
LEMMA GcBeginInv == ASSUME IInv, GcBegin PROVE IInv'
<1> DEFINE old == OldestActive(open)
           g == [gc EXCEPT !.pc = "room", !.oldest = old]
<1>1. gc.pc = "idle" /\ gc' = g /\ UNCHANGED <<tx, dl, vx, timestamp, open, engine, rd, db, snap>>
  BY DEF GcBegin
<1>2. old \in open \cup {timestamp} /\ \A y \in open \cup {timestamp} : old <= y
  <2>1. open \cup {timestamp} \in SUBSET Nat /\ open \cup {timestamp} # {}
    BY GcFacts
  <2> QED BY <2>1, MinIsLeast DEF OldestActive
<1>3. old \in Timestamps /\ old <= timestamp /\ (\A y \in open : old <= y) /\ gc \in GcRecords /\ gc.txn = Null
  BY <1>1, <1>2, GcFacts
<1> HIDE DEF old
<1>4. g \in GcRecords /\ g.pc = "room" /\ g.oldest = old /\ g.txn = Null
  BY <1>3 DEF GcRecords
<1> HIDE DEF g
<1>5. ASSUME NEW u \in Txns PROVE Sound(u, tx[u], timestamp, open, g)
  <2>1. Sound(u, tx[u], timestamp, open, gc)
    BY DEF IInv, Clock
  <2>2. tx[u].pc \in {"running", "aborting"} => old <= tx[u].start
    BY <1>3, <2>1 DEF Sound
  <2> QED BY <1>1, <1>4, <2>1, <2>2 DEF Sound
<1>6. tx' \in [Txns -> TxRecords]
  BY <1>1 DEF IInv, Types
<1> QED BY <1>1, <1>3, <1>4, <1>5, <1>6, ListStep

(* What a container waits for are deltas.                                  *)
LEMMA ContributorsAreDeltas ==
  ASSUME IInv, NEW t \in Txns
  PROVE  Contributors(t) \subseteq Deltas
<1> DEFINE Run(c) == SubSeq(c, 1, Cardinality({i \in DOMAIN c : \A j \in 1..i : IsDeltaNonSequential(c[j])}))
           Mine == {e \in Deltas : e[1] = t /\ e[2] <= tx[t].n}
<1>1. Contributors(t) = UNION {{Run(Chain(d))[k] : k \in DOMAIN Run(Chain(d))} : d \in Mine}
  BY DEF Contributors, PrefixWhile
<1>2. ASSUME NEW d \in Mine, NEW k \in DOMAIN Run(Chain(d)) PROVE Run(Chain(d))[k] \in Deltas
  <2> DEFINE c == Chain(d)
             Q == {e \in Deltas : IsDeltaNonSequential(e)}
             p == SubSeq(c, 1, Cardinality({i \in DOMAIN c : \A j \in 1..i : c[j] \in Q}))
  <2>1. d \in Deltas /\ \A e \in Deltas : dl[e].next \in Pointers
    BY DeltaFacts
  <2>2. c \in Seq(Deltas)
    BY <2>1, ChainFacts
  <2>3. p \in Seq(Deltas)
    <3> HIDE DEF Q
    <3> QED BY <2>1, RunFacts, Zenon
  <2>4. {i \in DOMAIN c : \A j \in 1..i : c[j] \in Q} = {i \in DOMAIN c : \A j \in 1..i : IsDeltaNonSequential(c[j])}
    <3>1. \A i \in DOMAIN c : \A j \in 1..i : c[j] \in Deltas
      BY <2>2
    <3> HIDE DEF c
    <3> QED BY <3>1
  <2>5. Run(c) = p
    BY <2>4
  <2>6. k \in DOMAIN p
    BY <2>5
  <2> HIDE DEF p
  <2>7. p[k] \in Deltas
    BY <2>3, <2>6
  <2> QED BY <2>5, <2>7
<1> HIDE DEF Run, Mine
<1> QED BY <1>1, <1>2

(* The waiting room.                                                       *)
LEMMA GcWaitingRoomInv == ASSUME IInv, GcWaitingRoom PROVE IInv'
<1> DEFINE ready(u) == tx[u].where = "waiting" /\ \A d \in Contributors(u) : Committed(d)
           top(u) == Max({tx[u].ts} \cup {TsOf(d) : d \in Contributors(u)})
           g == [gc EXCEPT !.pc = "pop"]
<1>1. /\ gc.pc = "room" /\ gc' = g /\ UNCHANGED <<dl, vx, timestamp, open, engine, rd, db, snap>>
      /\ tx' = [u \in Txns |-> IF ready(u) THEN [tx[u] EXCEPT !.where = "committed", !.unlinkable = top(u)]
                               ELSE tx[u]]
  BY DEF GcWaitingRoom
<1>2. gc \in GcRecords /\ gc.txn = Null /\ gc.oldest <= timestamp
  BY <1>1, GcFacts
<1>3. g \in GcRecords /\ g.pc = "pop" /\ g.txn = Null /\ g.oldest = gc.oldest
  BY <1>2 DEF GcRecords
<1> HIDE DEF g
<1>4. ASSUME NEW u \in Txns, ready(u) PROVE top(u) \in Timestamps /\ tx[u].ts <= top(u)
  <2> DEFINE S == {tx[u].ts} \cup {TsOf(d) : d \in Contributors(u)}
  <2>1. tx[u].ts < kTransactionInitialId
    <3>1. Sound(u, tx[u], timestamp, open, gc)
      BY IdFacts
    <3> QED BY <1>4, <3>1 DEF Sound
  <2>2. ASSUME NEW d \in Contributors(u) PROVE TsOf(d) \in 0..2*N
    <3>1. d \in Deltas
      BY ContributorsAreDeltas
    <3>2. d[1] \in Txns
      BY <3>1, DeltaFacts
    <3>3. TsOf(d) \in Nat
      BY <3>2, IdFacts DEF TsOf
    <3>4. TsOf(d) < 2*N
      BY <1>4 DEF Committed, kTransactionInitialId
    <3> QED BY <3>3, <3>4, DeltaChainConstants
  <2>3. tx[u].ts \in 0..2*N
    <3>1. tx[u].ts \in Nat
      BY IdFacts
    <3> QED BY <2>1, <3>1, DeltaChainConstants DEF kTransactionInitialId
  <2>4. S \in SUBSET (0..2*N) /\ S # {} /\ tx[u].ts \in S
    BY <2>2, <2>3
  <2>5. 2*N \in Nat
    BY DeltaChainConstants
  <2> HIDE DEF S
  <2>6. Max(S) \in S /\ \A y \in S : Max(S) >= y
    BY <2>4, <2>5, MaxIsGreatest
  <2>7. top(u) = Max(S)
    BY DEF S
  <2>8. top(u) \in 0..2*N /\ top(u) >= tx[u].ts
    BY <2>4, <2>6, <2>7
  <2> QED BY <2>3, <2>5, <2>8 DEF Timestamps
<1>5. ASSUME NEW u \in Txns
      PROVE  /\ tx'[u] \in TxRecords
             /\ tx'[u].n = tx[u].n /\ tx'[u].ts = tx[u].ts /\ tx'[u].start = tx[u].start
             /\ tx'[u].pc = tx[u].pc /\ tx'[u].i = tx[u].i
             /\ tx'[u].where \in {"own", "committed", "waiting", "linked"} =>
                  tx[u].where \in {"own", "committed", "waiting", "linked"}
             /\ Sound(u, tx'[u], timestamp, open, g)
  <2> DEFINE q == tx[u]
             m == top(u)
  <2>1. q \in TxRecords /\ q = tx[u] /\ Sound(u, q, timestamp, open, gc)
    BY IdFacts
  <2>2. CASE ready(u)
    <3>1. tx'[u] = [q EXCEPT !.where = "committed", !.unlinkable = m]
      BY <1>1, <2>2
    <3>2. m \in Timestamps /\ q.ts <= m /\ q.where = "waiting"
      BY <1>4, <2>2
    <3> HIDE DEF q, m
    <3>3. /\ tx'[u] \in TxRecords
          /\ tx'[u].n = q.n /\ tx'[u].ts = q.ts /\ tx'[u].start = q.start
          /\ tx'[u].pc = q.pc /\ tx'[u].i = q.i /\ tx'[u].where = "committed" /\ tx'[u].unlinkable = m
      BY <2>1, <3>1, <3>2 DEF TxRecords, Wheres
    <3>4. Sound(u, tx'[u], timestamp, open, g)
      BY <1>1, <1>3, <2>1, <3>2, <3>3 DEF Sound
    <3> QED BY <2>1, <3>2, <3>3, <3>4
  <2>3. CASE ~ready(u)
    <3>1. tx'[u] = q
      BY <1>1, <2>3
    <3> HIDE DEF q, m
    <3>2. Sound(u, tx'[u], timestamp, open, g)
      BY <1>1, <1>3, <2>1, <3>1 DEF Sound
    <3> QED BY <2>1, <3>1, <3>2
  <2> QED BY <2>2, <2>3
<1> HIDE DEF ready, top
<1>6. tx' \in [Txns -> TxRecords]
  <2>1. tx' = [u \in Txns |-> tx'[u]]
    BY <1>1
  <2> QED BY <1>5, <2>1
<1> QED BY <1>1, <1>2, <1>3, <1>5, <1>6, ListStep

(* Old garbage is freed, committed containers are taken out.               *)
LEMMA GcPopInv == ASSUME IInv, GcPop PROVE IInv'
<1> DEFINE free(u) == /\ tx[u].where = "garbage"
                      /\ timestamp = gc.oldest \/ tx[u].mark <= gc.oldest
           g == [gc EXCEPT !.pc = "unlink"]
<1>1. /\ gc.pc = "pop" /\ gc' = g /\ UNCHANGED <<dl, vx, timestamp, open, engine, rd, db, snap>>
      /\ tx' = [u \in Txns |->
                  IF free(u) THEN [tx[u] EXCEPT !.where = "freed"]
                  ELSE IF tx[u].where = "committed" THEN [tx[u] EXCEPT !.where = "linked"] ELSE tx[u]]
  BY DEF GcPop
<1>2. gc \in GcRecords /\ gc.txn = Null /\ gc.oldest <= timestamp
  BY <1>1, GcFacts
<1>3. g \in GcRecords /\ g.pc = "unlink" /\ g.txn = Null /\ g.oldest = gc.oldest
  BY <1>2 DEF GcRecords
<1> HIDE DEF g
<1>4. ASSUME NEW u \in Txns
      PROVE  /\ tx'[u] \in TxRecords
             /\ tx'[u].n = tx[u].n /\ tx'[u].ts = tx[u].ts /\ tx'[u].start = tx[u].start
             /\ tx'[u].pc = tx[u].pc /\ tx'[u].i = tx[u].i
             /\ tx'[u].where \in {"own", "committed", "waiting", "linked"} =>
                  tx[u].where \in {"own", "committed", "waiting", "linked"}
             /\ Sound(u, tx'[u], timestamp, open, g)
  <2> DEFINE q == tx[u]
  <2>1. q \in TxRecords /\ q = tx[u] /\ Sound(u, q, timestamp, open, gc)
    BY IdFacts
  <2>2. CASE free(u)
    <3>1. tx'[u] = [q EXCEPT !.where = "freed"] /\ q.where = "garbage"
      BY <1>1, <2>2
    <3> HIDE DEF q
    <3>2. /\ tx'[u] \in TxRecords
          /\ tx'[u].n = q.n /\ tx'[u].ts = q.ts /\ tx'[u].start = q.start
          /\ tx'[u].pc = q.pc /\ tx'[u].i = q.i /\ tx'[u].where = "freed" /\ tx'[u].unlinkable = q.unlinkable
      BY <2>1, <3>1 DEF TxRecords, Wheres
    <3>3. Sound(u, tx'[u], timestamp, open, g)
      BY <1>1, <1>3, <2>1, <3>1, <3>2 DEF Sound
    <3> QED BY <2>1, <3>2, <3>3
  <2>3. CASE ~free(u) /\ tx[u].where = "committed"
    <3>1. tx'[u] = [q EXCEPT !.where = "linked"] /\ q.where = "committed"
      BY <1>1, <2>3
    <3> HIDE DEF q
    <3>2. /\ tx'[u] \in TxRecords
          /\ tx'[u].n = q.n /\ tx'[u].ts = q.ts /\ tx'[u].start = q.start
          /\ tx'[u].pc = q.pc /\ tx'[u].i = q.i /\ tx'[u].where = "linked" /\ tx'[u].unlinkable = q.unlinkable
      BY <2>1, <3>1 DEF TxRecords, Wheres
    <3>3. Sound(u, tx'[u], timestamp, open, g)
      BY <1>1, <1>3, <2>1, <3>1, <3>2 DEF Sound
    <3> QED BY <2>1, <3>1, <3>2, <3>3
  <2>4. CASE ~free(u) /\ tx[u].where # "committed"
    <3>1. tx'[u] = q
      BY <1>1, <2>4
    <3> HIDE DEF q
    <3>2. Sound(u, tx'[u], timestamp, open, g)
      BY <1>1, <1>3, <2>1, <3>1 DEF Sound
    <3> QED BY <2>1, <3>1, <3>2
  <2> QED BY <2>2, <2>3, <2>4
<1> HIDE DEF free
<1>5. tx' \in [Txns -> TxRecords]
  <2>1. tx' = [u \in Txns |-> tx'[u]]
    BY <1>1
  <2> QED BY <1>4, <2>1
<1> QED BY <1>1, <1>2, <1>3, <1>4, <1>5, ListStep

(* The end of a run.                                                       *)
LEMMA GcEndInv == ASSUME IInv, GcEnd PROVE IInv'
<1> DEFINE g == [gc EXCEPT !.pc = "idle"]
           new(u) == CASE tx[u].where = "unlinked" ->
                            IF timestamp = gc.oldest THEN [tx[u] EXCEPT !.where = "freed"]
                            ELSE [tx[u] EXCEPT !.where = "garbage", !.mark = timestamp]
                       [] tx[u].where = "linked" -> [tx[u] EXCEPT !.where = "committed"]
                       [] OTHER -> tx[u]
<1>1. /\ gc.pc = "unlink" /\ gc.txn = Null /\ gc' = g
      /\ UNCHANGED <<dl, vx, timestamp, open, engine, rd, db, snap>>
  BY DEF GcEnd
<1>2. tx' = [u \in Txns |-> new(u)]
  BY DEF GcEnd
<1>3. gc \in GcRecords /\ gc.oldest <= timestamp /\ timestamp \in Timestamps
  BY GcFacts
<1>4. g \in GcRecords /\ g.pc = "idle" /\ g.txn = Null /\ g.oldest = gc.oldest
  BY <1>1, <1>3 DEF GcRecords
<1> HIDE DEF g
<1>5. ASSUME NEW u \in Txns
      PROVE  /\ tx'[u] \in TxRecords
             /\ tx'[u].n = tx[u].n /\ tx'[u].ts = tx[u].ts /\ tx'[u].start = tx[u].start
             /\ tx'[u].pc = tx[u].pc /\ tx'[u].i = tx[u].i
             /\ tx'[u].where \in {"own", "committed", "waiting", "linked"} =>
                  tx[u].where \in {"own", "committed", "waiting", "linked"}
             /\ Sound(u, tx'[u], timestamp, open, g)
  <2> DEFINE q == tx[u]
  <2>1. q \in TxRecords /\ q = tx[u] /\ Sound(u, q, timestamp, open, gc)
    BY IdFacts
  <2>2. tx'[u] = new(u)
    BY <1>2
  <2>3. CASE tx[u].where = "unlinked"
    <3>1. /\ tx'[u] = [q EXCEPT !.where = "freed"] \/ tx'[u] = [q EXCEPT !.where = "garbage", !.mark = timestamp]
          /\ q.where = "unlinked"
      BY <2>2, <2>3
    <3> HIDE DEF q, new
    <3>2. /\ tx'[u] \in TxRecords
          /\ tx'[u].n = q.n /\ tx'[u].ts = q.ts /\ tx'[u].start = q.start
          /\ tx'[u].pc = q.pc /\ tx'[u].i = q.i /\ tx'[u].where \in {"freed", "garbage"}
      BY <1>3, <2>1, <3>1 DEF TxRecords, Wheres
    <3>3. q.pc \notin {"running", "stored", "flags", "handover", "aborting", "finalize"} /\ q.n > 0
      BY <2>1, <3>1 DEF Sound
    <3>4. Sound(u, tx'[u], timestamp, open, g)
      BY <1>1, <1>4, <2>1, <3>1, <3>2, <3>3 DEF Sound
    <3> QED BY <2>1, <3>2, <3>4
  <2>4. CASE tx[u].where = "linked"
    <3>1. tx'[u] = [q EXCEPT !.where = "committed"] /\ q.where = "linked"
      BY <2>2, <2>4
    <3> HIDE DEF q, new
    <3>2. /\ tx'[u] \in TxRecords
          /\ tx'[u].n = q.n /\ tx'[u].ts = q.ts /\ tx'[u].start = q.start
          /\ tx'[u].pc = q.pc /\ tx'[u].i = q.i /\ tx'[u].where = "committed" /\ tx'[u].unlinkable = q.unlinkable
      BY <2>1, <3>1 DEF TxRecords, Wheres
    <3>3. Sound(u, tx'[u], timestamp, open, g)
      BY <1>1, <1>4, <2>1, <3>1, <3>2 DEF Sound
    <3> QED BY <2>1, <3>1, <3>2, <3>3
  <2>5. CASE tx[u].where # "unlinked" /\ tx[u].where # "linked"
    <3>1. tx'[u] = q /\ q.where # "unlinked" /\ q.where # "linked"
      BY <2>2, <2>5
    <3> HIDE DEF q, new
    <3>2. Sound(u, tx'[u], timestamp, open, g)
      BY <1>1, <1>4, <2>1, <3>1 DEF Sound
    <3> QED BY <2>1, <3>1, <3>2
  <2> QED BY <2>3, <2>4, <2>5
<1> HIDE DEF new
<1>6. tx' \in [Txns -> TxRecords]
  <2>1. tx' = [u \in Txns |-> tx'[u]]
    BY <1>2
  <2> QED BY <1>5, <2>1
<1> QED BY <1>1, <1>3, <1>4, <1>5, <1>6, ListStep

(* One delta of a container that nobody at work can need.                  *)
LEMMA GcUnlinkInv == ASSUME IInv, NEW t \in Txns, GcUnlink(t) PROVE IInv'
<1> DEFINE i == IF gc.txn = t THEN gc.i + 1 ELSE 1
           d == <<t, i>>
           n == tx[t].n
           gtxn == IF i = n THEN Null ELSE t
           gi == IF i = n THEN 0 ELSE i
           g2 == [gc EXCEPT !.txn = gtxn, !.i = gi]
           p == dl[d].prev
           v == dl[d].obj
<1>1. /\ gc.pc = "unlink" /\ tx[t].where = "linked" /\ tx[t].unlinkable < gc.oldest
      /\ gc.txn \in {Null, t} /\ GcUnlinkDelta(d) /\ gc' = g2
      /\ tx' = (IF i = n THEN [tx EXCEPT ![t].where = "unlinked"] ELSE tx)
      /\ UNCHANGED <<timestamp, open, engine, rd, db, snap>>
  BY DEF GcUnlink, Unlinkable
<1>2. /\ Typed(tx, dl, vx) /\ Clock(tx, timestamp, open, gc) /\ Coherent(tx, dl, vx, gc)
      /\ tx \in [Txns -> TxRecords] /\ dl \in [Deltas -> DeltaRecords] /\ vx \in [Vertices -> VertexRecords]
  BY DEF IInv, Types, Typed
<1>3. /\ Sound(t, tx[t], timestamp, open, gc) /\ tx[t].ts \in Nat /\ n \in Nat /\ n <= MaxDeltas
      /\ tx[t] \in TxRecords /\ MaxDeltas \in Nat
  BY IdFacts, DeltaChainConstants
<1>4. /\ n > 0 /\ tx[t].pc = "end" /\ tx[t].ts < kTransactionInitialId
      /\ tx[t].ts <= tx[t].unlinkable
  BY <1>1, <1>3 DEF Sound
<1>5. /\ gc \in GcRecords /\ gc.oldest \in Nat /\ gc.oldest <= timestamp /\ gc.i \in Nat
      /\ t # Null /\ (gc.txn = t => 1 <= gc.i /\ gc.i < n)
  <2>1. GcSound(tx, timestamp, gc) /\ t # Null
    BY <1>2, PointerConstants DEF Clock
  <2> QED BY <2>1, GcFacts DEF GcSound
<1>6. i \in Nat /\ i >= 1 /\ i <= n /\ (gc.txn = t => i = gc.i + 1)
  BY <1>3, <1>4, <1>5
<1>7. d \in Deltas /\ d[1] = t /\ d[2] = i
  BY <1>3, <1>6 DEF Deltas
<1>8. Done(tx, t) /\ ~Alive(tx, t) /\ Attached(tx, d) /\ InUse(tx, gc, d)
  <2>1. Done(tx, t) /\ ~Alive(tx, t)
    BY <1>4 DEF Done, Alive
  <2>2. Created(tx, d)
    BY <1>6, <1>7 DEF Created
  <2>3. ~(gc.txn = t /\ i <= gc.i)
    BY <1>5, <1>6
  <2> HIDE DEF d
  <2> QED BY <1>1, <1>7, <2>1, <2>2, <2>3 DEF Attached, InUse
<1>9. Past(tx, t)
  <2>1. SUFFICES ASSUME NEW u \in Txns, Alive(tx, u) PROVE tx[t].ts < tx[u].start
    BY DEF Past
  <2>2. gc.oldest <= tx[u].start /\ tx[u].start \in Nat
    <3>1. Sound(u, tx[u], timestamp, open, gc) /\ tx[u].start \in Nat
      BY IdFacts
    <3> QED BY <1>1, <2>1, <3>1 DEF Sound, Alive
  <2>3. tx[t].unlinkable \in Nat
    <3>1. tx[t].unlinkable \in 0..2*N
      BY <1>3 DEF TxRecords, Timestamps
    <3> QED BY <3>1, DeltaChainConstants
  <2> QED BY <1>1, <1>3, <1>4, <1>5, <2>2, <2>3
<1>10. v \in Vertices /\ (p \in Deltas \/ p = v)
  <2>1. Created(tx, d)
    BY <1>8 DEF Attached
  <2> QED BY <1>2, <1>7, <2>1 DEF Coherent, Shape
<1>11. /\ g2 \in GcRecords /\ g2.pc = "unlink" /\ g2.oldest = gc.oldest /\ g2.txn = gtxn /\ g2.i = gi
  <2>1. gtxn \in Txns \cup {Null} /\ gi \in 0..MaxDeltas
    BY <1>3, <1>6
  <2> HIDE DEF gtxn, gi
  <2> QED BY <1>1, <1>5, <2>1 DEF GcRecords
<1> DEFINE q == tx[t]
<1>12. /\ i = n => /\ tx'[t] \in TxRecords /\ tx'[t].n = q.n /\ tx'[t].ts = q.ts /\ tx'[t].start = q.start
                   /\ tx'[t].pc = q.pc /\ tx'[t].i = q.i /\ tx'[t].where = "unlinked"
       /\ i # n => tx'[t] = q
       /\ \A u \in Txns : u # t => tx'[u] = tx[u]
       /\ tx' \in [Txns -> TxRecords] /\ q = tx[t] /\ q \in TxRecords
  <2> DEFINE r == [q EXCEPT !.where = "unlinked"]
  <2>1. IF i = n THEN tx' = [tx EXCEPT ![t] = r] ELSE tx' = tx
    BY <1>1, <1>2
  <2>2. q \in TxRecords /\ q = tx[t]
    BY <1>3
  <2> HIDE DEF q
  <2>3. /\ r \in TxRecords /\ r.n = q.n /\ r.ts = q.ts /\ r.start = q.start
        /\ r.pc = q.pc /\ r.i = q.i /\ r.where = "unlinked"
    BY <2>2 DEF TxRecords, Wheres
  <2> HIDE DEF r, i, n
  <2> QED BY <1>2, <2>1, <2>2, <2>3
<1>13. \A u \in Txns : /\ tx'[u].n = tx[u].n /\ tx'[u].ts = tx[u].ts /\ tx'[u].start = tx[u].start
                       /\ tx'[u].pc = tx[u].pc /\ tx'[u].i = tx[u].i
  <2> HIDE DEF i, n, q
  <2> QED BY <1>12
<1>14. \A u \in Txns : (Done(tx', u) <=> Done(tx, u)) /\ (Alive(tx', u) <=> Alive(tx, u))
  BY <1>13 DEF Done, Alive
<1>15. \A e \in Deltas : e[1] \in Txns /\ e[2] \in Nat
  <2>1. \A e \in Deltas : e[1] \in Txns /\ e[2] \in 1..MaxDeltas
    BY DeltaFacts
  <2> QED BY <2>1, DeltaChainConstants
<1>16. \A e \in Deltas : Attached(tx', e) => Attached(tx, e)
  BY <1>13, <1>14, <1>15 DEF Attached, Created
<1>17. ASSUME NEW e \in Deltas, InUse(tx', g2, e) PROVE InUse(tx, gc, e) /\ e # d
  <2>1. CASE e[1] # t
    <3>1. tx'[e[1]] = tx[e[1]] /\ gc.txn # e[1] /\ e # d
      BY <1>1, <1>7, <1>12, <1>15, <2>1, PointerConstants
    <3> HIDE DEF d
    <3> QED BY <1>17, <3>1 DEF InUse
  <2>2. CASE e[1] = t
    <3>1. i # n
      <4>1. tx'[t].where # "unlinked"
        BY <1>17, <2>2 DEF InUse
      <4> QED BY <1>12, <4>1
    <3>2. g2.txn = t /\ g2.i = i /\ tx'[t] = tx[t]
      BY <1>11, <1>12, <3>1
    <3>3. ~(e[2] <= i)
      <4> HIDE DEF i, g2
      <4> QED BY <1>17, <2>2, <3>2 DEF InUse
    <3>4. e[2] # i /\ (gc.txn = t => ~(e[2] <= gc.i))
      BY <1>5, <1>6, <1>15, <3>3
    <3>5. e # d
      BY <1>7, <3>4
    <3> QED BY <1>1, <2>2, <3>4, <3>5 DEF InUse
  <2> QED BY <2>1, <2>2
<1> HIDE DEF i, g2, gtxn, gi, n, q
<1>18. /\ dl' \in [Deltas -> DeltaRecords]
       /\ \A e \in Deltas : /\ dl'[e].obj = dl[e].obj /\ dl'[e].act = dl[e].act
                            /\ dl'[e].state = dl[e].state /\ dl'[e].prev = dl[e].prev
                            /\ dl'[e].next = dl[e].next \/ (e = p /\ dl'[e].next = Null)
  <2>1. CASE dl' = dl
    BY <1>2, <2>1
  <2>2. CASE p \in Deltas /\ dl' = [dl EXCEPT ![p].next = Null]
    <3> DEFINE x == dl[p]
               y == [x EXCEPT !.next = Null]
    <3>1. x \in DeltaRecords /\ x = dl[p] /\ Null \in Pointers
      BY <1>2, <2>2 DEF Pointers
    <3>2. dl' = [dl EXCEPT ![p] = y]
      BY <1>2, <2>2
    <3> HIDE DEF x, p
    <3>3. /\ y \in DeltaRecords /\ y.obj = x.obj /\ y.act = x.act /\ y.state = x.state
          /\ y.prev = x.prev /\ y.next = Null
      BY <3>1 DEF DeltaRecords
    <3> HIDE DEF y
    <3> QED BY <1>2, <2>2, <3>1, <3>2, <3>3
  <2>3. dl' = dl \/ (p \in Deltas /\ dl' = [dl EXCEPT ![p].next = Null])
    <3>1. dl' = dl \/ (p \notin Vertices /\ dl' = [dl EXCEPT ![p].next = Null])
      BY <1>1 DEF GcUnlinkDelta
    <3> QED BY <1>10, <3>1
  <2> QED BY <2>1, <2>2, <2>3
<1>19. /\ vx' \in [Vertices -> VertexRecords]
       /\ \A w \in Vertices : \/ vx'[w].head = vx[w].head
                              \/ w = v /\ p \in Vertices /\ vx'[w].head = Null
  <2>1. CASE vx' = vx
    BY <1>2, <2>1
  <2>2. CASE p \in Vertices /\ vx' = [vx EXCEPT ![v].head = Null, ![v].flag = FALSE]
    <3> DEFINE x == vx[v]
               y == [x EXCEPT !.head = Null, !.flag = FALSE]
    <3>1. x \in VertexRecords /\ x = vx[v] /\ Null \in Pointers
      BY <1>2, <1>10 DEF Pointers
    <3>2. vx' = [vx EXCEPT ![v] = y]
      BY <1>2, <1>10, <2>2
    <3> HIDE DEF x, p, v
    <3>3. y \in VertexRecords /\ y.head = Null
      BY <3>1 DEF VertexRecords
    <3> HIDE DEF y
    <3> QED BY <1>2, <1>10, <2>2, <3>1, <3>2, <3>3
  <2>3. vx' = vx \/ (p \in Vertices /\ vx' = [vx EXCEPT ![v].head = Null, ![v].flag = FALSE])
    BY <1>1 DEF GcUnlinkDelta, GetVertexFromDelta
  <2> QED BY <2>1, <2>2, <2>3
<1>20. Cuts(tx, gc, dl, vx, tx', g2, dl', vx', d)
  <2> HIDE DEF d
  <2> QED BY <1>13, <1>14, <1>16, <1>17, <1>18, <1>19 DEF Cuts
<1>21. Coherent(tx', dl', vx', g2)
  <2>1. ~Alive(tx, d[1]) /\ Past(tx, d[1])
    BY <1>7, <1>8, <1>9
  <2> HIDE DEF d
  <2> QED BY <1>2, <1>7, <1>8, <1>20, <2>1, CutCoherent
<1>22. Clock(tx', timestamp, open, g2)
  <2>1. Begun(tx') = Begun(tx) /\ Ended(tx') = Ended(tx)
    BY <1>13, <1>14 DEF Begun, Ended
  <2>2. Distinct(tx')
    BY <1>2, <1>13, <1>14 DEF Clock, Distinct
  <2>3. GcSound(tx', timestamp, g2)
    <3>1. CASE i = n
      BY <1>5, <1>11, <3>1 DEF GcSound, gtxn
    <3>2. CASE i # n
      <4>1. g2.txn = t /\ g2.i = i /\ tx'[t].where = "linked" /\ tx'[t].n = n /\ i < n
        BY <1>1, <1>3, <1>6, <1>11, <1>12, <3>2 DEF gtxn, gi, n, q
      <4> QED BY <1>5, <1>6, <1>11, <4>1 DEF GcSound
    <3> QED BY <3>1, <3>2
  <2>4. ASSUME NEW u \in Txns PROVE Sound(u, tx'[u], timestamp, open, g2)
    <3>1. Sound(u, tx[u], timestamp, open, gc)
      BY IdFacts
    <3>2. CASE tx'[u] = tx[u]
      BY <1>1, <1>11, <3>1, <3>2 DEF Sound
    <3>3. CASE tx'[u] # tx[u]
      <4>1. u = t /\ i = n /\ tx'[t].where = "unlinked"
        BY <1>12, <3>3
      <4>2. tx'[t].n > 0
        BY <1>4, <1>12, <4>1 DEF n, q
      <4> QED BY <1>1, <1>4, <1>11, <1>12, <1>13, <3>1, <4>1, <4>2 DEF Sound
    <3> QED BY <3>2, <3>3
  <2> QED BY <1>2, <2>1, <2>2, <2>3, <2>4 DEF Clock
<1>23. Types'
  BY <1>1, <1>11, <1>12, <1>18, <1>19 DEF IInv, Types
<1>24. Clock(tx', timestamp', open', gc') /\ Coherent(tx', dl', vx', gc')
  BY <1>1, <1>21, <1>22
<1> QED BY <1>23, <1>24 DEF IInv

-----------------------------------------------------------------------------
(* The invariant is inductive: whatever a transaction or the collector     *)
(* does next.                                                              *)
LEMMA NextInv == IInv /\ [Next]_vars => IInv'
<1> SUFFICES ASSUME IInv, [Next]_vars PROVE IInv'
  OBVIOUS
<1>1. CASE UNCHANGED vars
  BY <1>1 DEF vars, IInv, Types, Clock, Coherent
<1>2. CASE CollectGarbage
  BY <1>2, GcBeginInv, GcWaitingRoomInv, GcPopInv, GcEndInv, GcUnlinkInv DEF CollectGarbage
<1>3. ASSUME NEW t \in Txns, Transaction(t) PROVE IInv'
  <2>1. CASE Begin(t) \/ AdvanceCommand(t)
    BY <2>1, BeginInv, AdvanceCommandInv
  <2>2. CASE Write(t)
    <3>1. ASSUME NEW v \in Settable, SetProperty(t, v) PROVE IInv'
      BY <3>1, SetPropertyInv, MvccConstants
    <3>2. ASSUME NEW e \in EdgeEnds, CreateEdge(t, e[1], e[2]) PROVE IInv'
      <4>1. e[1] \in Vertices /\ e[2] \in Vertices
        BY MvccConstants
      <4> QED BY <3>2, <4>1, CreateEdgeSteps
    <3> QED BY <2>2, <3>1, <3>2 DEF Write
  <2>3. CASE Read(t)
    BY <2>3, ReadBeginInv, ReadDeltaInv, ReadEndInv DEF Read
  <2>4. CASE Commit(t)
    BY <2>4, CommitNothingInv, StoreCommitTimestampInv, HandlePropagationInv, RefreshFlagInv,
       FinishCommitKeepsInv, FinishCommitDiscardsInv, ReportCommitTimestampInv, HandOverInv DEF Commit
  <2>5. CASE Abort(t)
    BY <2>5, AbortBeginInv, AbortSkipInv, AbortRunSteps, AbortHandOverInv, AbortReportInv DEF Abort
  <2> QED BY <1>3, <2>1, <2>2, <2>3, <2>4, <2>5 DEF Transaction
<1> QED BY <1>1, <1>2, <1>3 DEF Next

(* It holds in every state.                                                *)
LEMMA AlwaysIInv == Spec => []IInv
BY InitIInv, NextInv, PTL DEF Spec

(* Every reachable state is typed: the clock never passes the last id, no  *)
(* pointer is wild, and neither reader nor abort builds a value that is no *)
(* vertex value.                                                           *)
THEOREM MvccTypes == Spec => []TypeOK
<1>1. IInv => TypeOK
  BY TypesOK DEF IInv
<1> QED BY <1>1, AlwaysIInv, PTL

(* First committer wins: PrepareForWrite looks only at the head of a chain *)
(* (and, for edges, at a part of it); that is enough, whatever edges were  *)
(* created concurrently, aborted or collected in the meantime.             *)
THEOREM FirstCommitterWins == Spec => []NoLostUpdate
<1>1. ASSUME IInv PROVE NoLostUpdate
  <2>1. FirstCommitter(tx, dl)
    BY <1>1 DEF IInv, Coherent
  <2>2. \A t \in Txns : HasCommitted(t) <=> Done(tx, t)
    BY DEF HasCommitted, Done
  <2>3. \A t \in Txns, v \in Vertices : Writes(t, v, "SET") # {} => Wrote(tx, dl, t, v)
    BY DEF Writes, Wrote, Created
  <2> QED BY <2>1, <2>2, <2>3 DEF FirstCommitter, NoLostUpdate
<1> QED BY <1>1, AlwaysIInv, PTL

-----------------------------------------------------------------------------
(* Woven and Flagged, under the steps of the chains.                       *)

(* Types of what a delta and a vertex point to.                            *)
LEMMA PointerFacts ==
  ASSUME NEW T, NEW D, NEW X, Typed(T, D, X)
  PROVE  /\ \A d \in Deltas : /\ d[1] \in Txns /\ d[2] \in Nat /\ d[2] >= 1 /\ d # Null /\ d \notin Vertices
                              /\ d = <<d[1], d[2]>>
                              /\ D[d].next \in Deltas \cup {Null} /\ D[d].obj \in Vertices \cup {Null}
                              /\ D[d] \in DeltaRecords
         /\ \A v \in Vertices : X[v].head \in Deltas \cup {Null} /\ X[v] \in VertexRecords
         /\ \A u \in Txns : /\ T[u].n \in Nat /\ T[u].i \in Nat /\ T[u].start \in Nat /\ T[u].ts \in Nat
                            /\ T[u] \in TxRecords
<1>1. \A d \in Deltas : d[1] \in Txns /\ d[2] \in 1..MaxDeltas /\ d = <<d[1], d[2]>>
  BY DEF Deltas
<1>2. \A d \in Deltas : D[d].next \in Pointers /\ D[d].obj \in Vertices \cup {Null} /\ D[d] \in DeltaRecords
  BY DEF Typed, DeltaRecords
<1>3. \A v \in Vertices : X[v].head \in Pointers /\ X[v] \in VertexRecords
  BY DEF Typed, VertexRecords
<1>4. \A u \in Txns : /\ T[u].n \in 0..MaxDeltas /\ T[u].i \in Nat /\ T[u].start \in 0..2*N
                      /\ T[u].ts \in 0..3*N /\ T[u] \in TxRecords
  BY DEF Typed, TxRecords, Timestamps
<1> QED BY <1>1, <1>2, <1>3, <1>4, PointerConstants, DeltaChainConstants DEF Pointers

(* The vertex of a delta that was created.                                 *)
LEMMA ObjectFacts ==
  ASSUME NEW T, NEW D, NEW X, Typed(T, D, X), Shape(T, D, X)
  PROVE  /\ \A d \in Deltas : Created(T, d) => D[d].obj \in Vertices
         /\ \A d \in Deltas : D[d].next \in Deltas => Created(T, D[d].next) /\ D[D[d].next].obj = D[d].obj
         /\ \A d \in Deltas : D[d].prev \in Deltas => Created(T, D[d].prev) /\ D[D[d].prev].obj = D[d].obj
BY DEF Shape

(* What is above a delta is newer.                                         *)
LEMMA ThreadRank ==
  ASSUME NEW T, NEW D, NEW X, NEW S \in SUBSET Deltas, NEW y \in Deltas, Thread(T, D, X, S, y),
         NEW r, Aging(T, D, r), NEW x \in S
  PROVE  r[y] <= r[x]
<1> DEFINE A == {r[e] : e \in {f \in S : r[f] < r[y]}}
<1>1. r \in [Deltas -> Nat] /\ \A d \in Deltas : D[d].next \in Deltas => r[D[d].next] < r[d]
  BY DEF Aging
<1>2. SUFFICES ASSUME A # {} PROVE FALSE
  <2>1. r[x] < r[y] => r[x] \in A
    OBVIOUS
  <2> QED BY <1>1, <2>1
<1>3. A \in SUBSET Nat
  BY <1>1
<1>4. PICK m \in A : \A k \in A : m <= k
  BY <1>2, <1>3, LeastExists
<1>5. PICK e \in S : r[e] = m /\ r[e] < r[y]
  OBVIOUS
<1>6. e # y /\ D[e].next \in S
  BY <1>1, <1>5 DEF Thread, Joined
<1>7. r[D[e].next] < r[e] /\ r[D[e].next] \in Nat /\ r[e] \in Nat /\ r[y] \in Nat
  BY <1>1, <1>6
<1>8. r[D[e].next] \in A
  BY <1>5, <1>6, <1>7
<1> QED BY <1>4, <1>5, <1>7, <1>8

(* Two deltas of a chain: one is above the other.                          *)
LEMMA OneChain ==
  ASSUME NEW T, NEW D, NEW X, NEW S \in SUBSET Deltas, NEW R \in SUBSET Deltas,
         NEW x \in Deltas, NEW y \in Deltas, D[x].obj = D[y].obj,
         Thread(T, D, X, S, x), Thread(T, D, X, R, y), Aged(T, D)
  PROVE  x \in R \/ y \in S
<1> PICK r : Aging(T, D, r)
  BY DEF Aged
<1>1. r \in [Deltas -> Nat] /\ \A d \in Deltas : D[d].next \in Deltas => r[D[d].next] < r[d]
  BY DEF Aging
<1> DEFINE A == {r[e] : e \in S \cap R}
<1>2. A # {} /\ A \in SUBSET Nat
  BY <1>1 DEF Thread
<1>3. PICK m \in A : \A k \in A : m <= k
  BY <1>2, LeastExists
<1>4. PICK e \in S \cap R : r[e] = m
  OBVIOUS
<1>5. SUFFICES ASSUME e # x, e # y PROVE FALSE
  BY <1>4
<1>6. D[e].next \in S \cap R
  BY <1>5 DEF Thread, Joined
<1>7. r[D[e].next] < r[e] /\ r[D[e].next] \in A /\ r[D[e].next] \in Nat /\ r[e] \in Nat
  BY <1>1, <1>6
<1> QED BY <1>3, <1>4, <1>7

(* A transaction's delta above another one has a higher number.            *)
LEMMA AboveIsNewer ==
  ASSUME NEW T, NEW D, NEW X, Typed(T, D, X), NEW S \in SUBSET Deltas, NEW y \in Deltas,
         Thread(T, D, X, S, y), Aged(T, D), NEW x \in S, x # y, x[1] = y[1]
  PROVE  y[2] < x[2]
<1> PICK r : Aging(T, D, r)
  BY DEF Aged
<1>1. r[y] <= r[x]
  BY ThreadRank
<1>2. Created(T, x) /\ Created(T, y)
  BY DEF Thread, Joined, Present, Pend
<1>3. x[2] \in Nat /\ y[2] \in Nat /\ x[2] # y[2] /\ x \in Deltas
  BY PointerFacts
<1>4. r[x] \in Nat /\ r[y] \in Nat
  BY <1>3 DEF Aging
<1>5. x[2] < y[2] => r[x] < r[y]
  BY <1>2, <1>3 DEF Aging
<1> QED BY <1>1, <1>3, <1>4, <1>5

(* Steps that leave the links alone.                                       *)
LEMMA WovenFrame ==
  ASSUME NEW T, NEW D, NEW X, NEW T2, NEW X2, Woven(T, D, X),
         \A v \in Vertices : X2[v].head = X[v].head,
         Typed(T, D, X), Shape(T, D, X),
         \A x \in Deltas : Created(T2, x) <=> Created(T, x),
         \A x \in Deltas : Present(T, D, x) => Present(T2, D, x),
         \A x \in Deltas : Pend(T2, D, x) => Pend(T, D, x) /\ (Alive(T2, x[1]) => Alive(T, x[1])),
         \A x, y \in Deltas :
           /\ Pend(T2, D, y) /\ Present(T, D, x) /\ Done(T2, x[1])
           /\ Done(T, x[1]) => T[y[1]].start < T[x[1]].ts
           => T2[y[1]].start < T2[x[1]].ts
  PROVE  Woven(T2, D, X2)
<1>1. ASSUME NEW y \in Deltas, Pend(T2, D, y) PROVE \E S \in SUBSET Deltas : Thread(T2, D, X2, S, y)
  <2>1. Pend(T, D, y)
    BY <1>1
  <2>2. PICK S \in SUBSET Deltas : Thread(T, D, X, S, y)
    BY <2>1 DEF Woven, Threaded
  <2>3. D[y].obj \in Vertices
    BY <2>1, ObjectFacts DEF Pend
  <2>4. \A x \in S : Joined(T2, D, X2, S, y, x)
    BY <1>1, <2>2, <2>3 DEF Thread, Joined
  <2>5. Thread(T2, D, X2, S, y)
    BY <1>1, <2>2, <2>3, <2>4 DEF Thread
  <2> QED BY <2>5
<1>2. Threaded(T2, D, X2)
  BY <1>1 DEF Threaded
<1>3. Forward(T2, D)
  BY DEF Woven, Forward
<1>4. HeadBacked(T2, D, X2)
  <2>1. \A v \in Vertices : X[v].head # Null => X[v].head \in Deltas
    BY PointerFacts
  <2> QED BY <2>1 DEF Woven, HeadBacked
<1>5. Solo(T2, D)
  BY DEF Woven, Solo
<1>6. Aged(T2, D)
  BY DEF Woven, Aged, Aging
<1> QED BY <1>2, <1>3, <1>4, <1>5, <1>6 DEF Woven

(* Transactions that are as far as they were.                              *)
Same(T, T2) ==
  \A u \in Txns : /\ T2[u].n = T[u].n /\ T2[u].ts = T[u].ts /\ T2[u].start = T[u].start
                  /\ T2[u].pc = "aborting" => T2[u].i = T[u].i
                  /\ Done(T2, u) <=> Done(T, u)
                  /\ Alive(T2, u) <=> Alive(T, u)
                  /\ T2[u].pc = "aborting" <=> T[u].pc = "aborting"

(* Their deltas are where they were.                                       *)
LEMMA SameDeltas ==
  ASSUME NEW T, NEW D, NEW T2, Same(T, T2)
  PROVE  \A x \in Deltas : /\ Created(T2, x) <=> Created(T, x)
                           /\ Pend(T2, D, x) <=> Pend(T, D, x)
                           /\ Present(T2, D, x) <=> Present(T, D, x)
<1> SUFFICES ASSUME NEW x \in Deltas
             PROVE  /\ Created(T2, x) <=> Created(T, x)
                    /\ Pend(T2, D, x) <=> Pend(T, D, x)
                    /\ Present(T2, D, x) <=> Present(T, D, x)
  OBVIOUS
<1>1. \A d \in Deltas : d[1] \in Txns /\ (Created(T2, d) <=> Created(T, d))
  BY DEF Deltas, Same, Created
<1>2. T2[x[1]].pc = "aborting" => (Gone(T2, D, x) <=> Gone(T, D, x))
  BY <1>1 DEF Same, Gone
<1>3. Pend(T2, D, x) <=> Pend(T, D, x)
  BY <1>1, <1>2 DEF Same, Pend
<1> QED BY <1>1, <1>3 DEF Same, Present

(* Nothing is written, committed or undone.                                *)
Steady(T, D, X, T2, D2, X2) ==
  /\ \A x \in Deltas : /\ Pend(T2, D2, x) <=> Pend(T, D, x)
                       /\ Created(T2, x) /\ Done(T2, x[1]) <=> Created(T, x) /\ Done(T, x[1])
                       /\ D2[x].obj = D[x].obj /\ D2[x].act = D[x].act /\ D2[x].arg = D[x].arg
  /\ \A v \in Vertices : X2[v].val = X[v].val /\ X2[v].edges = X[v].edges

Kept == Woven(tx', dl', vx') /\ Flagged(tx', dl', vx') /\ Steady(tx, dl, vx, tx', dl', vx')

(* Transactions that are as far as they were do none of it.                *)
LEMMA SameSteady ==
  ASSUME NEW T, NEW D, NEW X, NEW T2, NEW X2, Same(T, T2),
         \A v \in Vertices : X2[v].val = X[v].val /\ X2[v].edges = X[v].edges
  PROVE  Steady(T, D, X, T2, D, X2)
<1>1. \A x \in Deltas : x[1] \in Txns
  BY DEF Deltas
<1>2. \A x \in Deltas : /\ Created(T2, x) <=> Created(T, x)
                        /\ Pend(T2, D, x) <=> Pend(T, D, x)
  BY SameDeltas
<1>3. \A x \in Deltas : Done(T2, x[1]) <=> Done(T, x[1])
  BY <1>1 DEF Same
<1> QED BY <1>2, <1>3 DEF Steady

(* And the chains with them.                                               *)
LEMMA SameWoven ==
  ASSUME NEW T, NEW D, NEW X, NEW T2, NEW X2, Woven(T, D, X), Typed(T, D, X), Shape(T, D, X),
         Same(T, T2), \A v \in Vertices : X2[v].head = X[v].head
  PROVE  /\ Woven(T2, D, X2)
         /\ Flagged(T, D, X) /\ (\A v \in Vertices : X[v].flag => X2[v].flag) => Flagged(T2, D, X2)
<1>1. \A x \in Deltas : x[1] \in Txns
  BY DEF Deltas
<1>2. \A x \in Deltas : /\ Created(T2, x) <=> Created(T, x)
                        /\ Pend(T2, D, x) <=> Pend(T, D, x)
                        /\ Present(T2, D, x) <=> Present(T, D, x)
  BY SameDeltas
<1>3. \A x \in Deltas : /\ T2[x[1]].ts = T[x[1]].ts /\ T2[x[1]].start = T[x[1]].start
                        /\ Done(T2, x[1]) <=> Done(T, x[1])
                        /\ Alive(T2, x[1]) <=> Alive(T, x[1])
  BY <1>1 DEF Same
<1>4. Woven(T2, D, X2)
  BY <1>2, <1>3, WovenFrame
<1>5. \A y \in Deltas : Pend(T, D, y) => D[y].obj \in Vertices
  BY ObjectFacts DEF Pend
<1>6. ASSUME Flagged(T, D, X), \A v \in Vertices : X[v].flag => X2[v].flag PROVE Flagged(T2, D, X2)
  BY <1>2, <1>3, <1>5, <1>6 DEF Flagged
<1> QED BY <1>4, <1>6

(* What a delta must be to go on top of what is there.                     *)
Fits(T, D, X, t, v, act, state) ==
  /\ \A y \in Deltas : Pend(T, D, y) /\ D[y].obj = v =>
       /\ Alive(T, y[1]) /\ NonSeq(D, y) => act = "EDGE" /\ state = "NON_SEQUENTIAL"
       /\ D[y].act = "SET" => y[1] = t /\ (act = "SET" \/ state = "FORCED_SEQUENTIAL")
  /\ ~(act = "EDGE" /\ state = "NON_SEQUENTIAL") =>
       \A z \in Deltas : z[1] = t /\ Created(T, z) /\ D[z].obj = v => z = X[v].head \/ OwnPrev(D, z)
  /\ act = "EDGE" /\ state = "NON_SEQUENTIAL" => X[v].flag

(* The deltas there are once d is linked.                                  *)
Linked(T, D, X, T2, D2, d, v) ==
  /\ d \in Deltas /\ ~Created(T, d) /\ X[v].head # d
  /\ \A e \in Deltas : D[e].next # d /\ D[e].prev # d
  /\ \A u \in Txns : /\ Alive(T2, u) <=> Alive(T, u)
                     /\ Done(T2, u) <=> Done(T, u)
                     /\ T2[u].ts = T[u].ts /\ T2[u].start = T[u].start
  /\ \A e \in Deltas : Created(T2, e) <=> Created(T, e) \/ e = d
  /\ \A e \in Deltas : e # d /\ e # X[v].head => (OwnPrev(D2, e) <=> OwnPrev(D, e))
  /\ X[v].head # Null => X[v].head \in Deltas /\ ~OwnPrev(D, X[v].head) /\ D[X[v].head].obj = v
  /\ \A x \in Deltas : Pend(T2, D2, x) <=> Pend(T, D, x) \/ x = d
  /\ \A x \in Deltas : Present(T2, D2, x) <=> Present(T, D, x) \/ x = d

(* They are as this says.                                                  *)
LEMMA LinkDeltas ==
  ASSUME NEW T, NEW D, NEW X, NEW T2, NEW D2, NEW X2, Typed(T, D, X), Shape(T, D, X),
         HeadBacked(T, D, X), NEW t \in Txns, Alive(T, t), NEW v \in Vertices,
         NEW act, NEW state, Links(T, D, X, T2, D2, X2, t, v, act, state)
  PROVE  Linked(T, D, X, T2, D2, <<t, T[t].n + 1>>, v)
<1> DEFINE d == <<t, T[t].n + 1>>
           h == X[v].head
<1>1. /\ d \in Deltas
      /\ \A u \in Txns : /\ T2[u].pc = T[u].pc /\ T2[u].start = T[u].start /\ T2[u].ts = T[u].ts
                         /\ T2[u].i = T[u].i
                         /\ T2[u].n = IF u = t THEN T[u].n + 1 ELSE T[u].n
      /\ \A e \in Deltas : e # d => /\ D2[e].obj = D[e].obj
                                    /\ e # h => D2[e].prev = D[e].prev
                                    /\ e = h => D2[e].prev = d
  BY DEF Links
<1>2. T[t].n \in Nat /\ d[1] = t /\ d[2] = T[t].n + 1
  BY PointerFacts
<1>3. ~Created(T, d)
  BY <1>2 DEF Created
<1>4. h # Null => h \in Deltas /\ D[h].prev = v /\ ~OwnPrev(D, h) /\ Created(T, h) /\ D[h].obj = v
  BY PointerFacts DEF HeadBacked, OwnPrev, Shape
<1>5. h # d
  BY <1>1, <1>3, <1>4, PointerConstants
<1>6. \A e \in Deltas : D[e].next # d /\ D[e].prev # d
  BY <1>1, <1>3 DEF Shape
<1>7. \A u \in Txns : (Alive(T2, u) <=> Alive(T, u)) /\ (Done(T2, u) <=> Done(T, u))
  BY <1>1 DEF Alive, Done
<1>8. \A e \in Deltas : e[1] \in Txns /\ e[2] \in Nat /\ e = <<e[1], e[2]>>
  BY PointerFacts
<1>9. \A e \in Deltas : Created(T2, e) <=> Created(T, e) \/ e = d
  BY <1>1, <1>2, <1>8 DEF Created
<1>10. \A e \in Deltas : e # d /\ e # h => (OwnPrev(D2, e) <=> OwnPrev(D, e))
  BY <1>1 DEF OwnPrev
<1>11. ASSUME NEW x \in Deltas, x[1] # t, x # d PROVE Gone(T2, D2, x) <=> Gone(T, D, x)
  <2>1. \A z \in Deltas : z[1] = x[1] => z # d
    BY <1>2, <1>11
  <2>2. h # Null /\ h[1] = x[1] => ~OwnPrev(D2, h)
    BY <1>1, <1>2, <1>4, <1>5, <1>11 DEF OwnPrev
  <2>3. \A z \in Deltas : z[1] = x[1] => (OwnPrev(D2, z) <=> OwnPrev(D, z))
    BY <1>4, <1>10, <2>1, <2>2, PointerConstants
  <2>4. \A z \in Deltas : z[1] = x[1] => (Created(T2, z) <=> Created(T, z)) /\ D2[z].obj = D[z].obj
    BY <1>1, <1>9, <2>1
  <2>5. T2[x[1]].i = T[x[1]].i /\ D2[x].obj = D[x].obj
    BY <1>1, <1>8, <1>11
  <2> QED BY <2>3, <2>4, <2>5 DEF Gone
<1>12. ASSUME NEW x \in Deltas PROVE Pend(T2, D2, x) <=> Pend(T, D, x) \/ x = d
  <2>1. CASE x[1] = t
    BY <1>2, <1>7, <1>9, <2>1 DEF Pend
  <2>2. CASE x[1] # t
    <3>1. x # d
      BY <1>2, <2>2
    <3>2. T2[x[1]].pc = T[x[1]].pc /\ (Alive(T2, x[1]) <=> Alive(T, x[1]))
      BY <1>1, <1>7, <1>8
    <3> QED BY <1>9, <1>11, <2>2, <3>1, <3>2 DEF Pend
  <2> QED BY <2>1, <2>2
<1>13. ASSUME NEW x \in Deltas PROVE Present(T2, D2, x) <=> Present(T, D, x) \/ x = d
  BY <1>7, <1>8, <1>9, <1>12 DEF Present
<1>14. /\ d \in Deltas /\ ~Created(T, d) /\ X[v].head # d
       /\ \A u \in Txns : /\ Alive(T2, u) <=> Alive(T, u)
                          /\ Done(T2, u) <=> Done(T, u)
                          /\ T2[u].ts = T[u].ts /\ T2[u].start = T[u].start
  BY <1>1, <1>3, <1>5, <1>7
<1> HIDE DEF d
<1>15. Linked(T, D, X, T2, D2, d, v)
  BY <1>4, <1>6, <1>9, <1>10, <1>12, <1>13, <1>14 DEF Linked
<1> QED BY <1>15 DEF d

(* Whether a delta is open to others once d is linked.                     *)
LEMMA LinkNonSeq ==
  ASSUME NEW T, NEW D, NEW X, NEW T2, NEW D2, NEW X2, NEW t, NEW v, NEW act, NEW arg, NEW state,
         Links(T, D, X, T2, D2, X2, t, v, act, state),
         LinkMore(D, X, D2, X2, <<t, T[t].n + 1>>, v, act, arg, state),
         NEW x \in Deltas, x # <<t, T[t].n + 1>>
  PROVE  /\ NonSeq(D, x) => NonSeq(D2, x)
         /\ NonSeq(D2, x) => NonSeq(D, x) \/ (x = X[v].head /\ act = "EDGE" /\ state = "NON_SEQUENTIAL")
         /\ D[x].act = "SET" \/ D[x].state = "FORCED_SEQUENTIAL" =>
              D2[x].act = "SET" \/ D2[x].state = "FORCED_SEQUENTIAL"
<1>1. (NonSeq(D, x) => NonSeq(D2, x)) /\ D2[x].act = D[x].act
  BY DEF Links
<1>2. \/ D2[x].state = D[x].state
      \/ /\ x = X[v].head /\ act = "EDGE" /\ state = "NON_SEQUENTIAL"
         /\ D[x].act = "EDGE" /\ D[x].state = "SEQUENTIAL"
  BY DEF LinkMore
<1> QED BY <1>1, <1>2 DEF NonSeq

(* The new delta keeps the chains together.                                *)
LEMMA LinkThreaded ==
  ASSUME NEW T, NEW D, NEW X, NEW T2, NEW D2, NEW X2, Typed(T, D, X), Shape(T, D, X),
         Woven(T, D, X), NEW t \in Txns, Alive(T, t), ~Done(T, t), NEW v \in Vertices,
         NEW act, NEW arg, NEW state, Links(T, D, X, T2, D2, X2, t, v, act, state),
         LinkMore(D, X, D2, X2, <<t, T[t].n + 1>>, v, act, arg, state),
         Fits(T, D, X, t, v, act, state)
  PROVE  Threaded(T2, D2, X2)
<1> DEFINE d == <<t, T[t].n + 1>>
           h == X[v].head
<1>1. /\ d \in Deltas /\ ~Created(T, d) /\ h # d /\ d[1] = t
      /\ \A e \in Deltas : D[e].next # d /\ D[e].prev # d
      /\ \A u \in Txns : /\ Alive(T2, u) <=> Alive(T, u)
                         /\ Done(T2, u) <=> Done(T, u)
                         /\ T2[u].ts = T[u].ts /\ T2[u].start = T[u].start
      /\ h # Null => h \in Deltas /\ ~OwnPrev(D, h) /\ D[h].obj = v
      /\ \A x \in Deltas : Pend(T2, D2, x) <=> Pend(T, D, x) \/ x = d
      /\ \A x \in Deltas : Present(T2, D2, x) <=> Present(T, D, x) \/ x = d
  <2>1. HeadBacked(T, D, X)
    BY DEF Woven
  <2>2. Linked(T, D, X, T2, D2, d, v)
    BY <2>1, LinkDeltas
  <2> QED BY <2>2 DEF Linked
<1>2. /\ D2[d].obj = v /\ D2[d].act = act /\ D2[d].state = state /\ D2[d].next = h /\ D2[d].prev = v
      /\ \A e \in Deltas : e # d => /\ D2[e].obj = D[e].obj /\ D2[e].act = D[e].act
                                    /\ D2[e].next = D[e].next
                                    /\ e # h => D2[e].prev = D[e].prev
                                    /\ e = h => D2[e].prev = d
      /\ X2[v].head = d
      /\ \A w \in Vertices : w # v => X2[w].head = X[w].head
  BY DEF Links
<1>3. \A e \in Deltas : e[1] \in Txns /\ e # Null /\ e \notin Vertices
  BY PointerFacts
<1>4. h # Null => D[h].prev = v
  BY DEF Woven, HeadBacked
<1>5. \A x \in Deltas : x # d =>
         /\ NonSeq(D, x) => NonSeq(D2, x)
         /\ NonSeq(D2, x) => NonSeq(D, x) \/ (x = h /\ act = "EDGE" /\ state = "NON_SEQUENTIAL")
         /\ D[x].act = "SET" \/ D[x].state = "FORCED_SEQUENTIAL" =>
              D2[x].act = "SET" \/ D2[x].state = "FORCED_SEQUENTIAL"
  <2>1. SUFFICES ASSUME NEW x \in Deltas, x # d
                 PROVE  /\ NonSeq(D, x) => NonSeq(D2, x)
                        /\ NonSeq(D2, x) => NonSeq(D, x) \/ (x = h /\ act = "EDGE" /\ state = "NON_SEQUENTIAL")
                        /\ D[x].act = "SET" \/ D[x].state = "FORCED_SEQUENTIAL" =>
                             D2[x].act = "SET" \/ D2[x].state = "FORCED_SEQUENTIAL"
    OBVIOUS
  <2> QED BY <2>1, LinkNonSeq
<1>6. \A y \in Deltas : Pend(T, D, y) /\ D[y].obj = v =>
       /\ Alive(T, y[1]) /\ NonSeq(D, y) => act = "EDGE" /\ state = "NON_SEQUENTIAL"
       /\ D[y].act = "SET" => y[1] = t /\ (act = "SET" \/ state = "FORCED_SEQUENTIAL")
  BY DEF Fits
<1>7. NonSeq(D2, d) <=> act = "EDGE" /\ state = "NON_SEQUENTIAL"
  BY <1>2 DEF NonSeq
<1>8. ~Done(T2, t)
  BY <1>1
<1> HIDE DEF d, h
<1>9. ASSUME NEW y \in Deltas, Pend(T2, D2, y) PROVE \E S \in SUBSET Deltas : Thread(T2, D2, X2, S, y)
  <2>1. CASE y = d
    <3>1. Joined(T2, D2, X2, {d}, d, d)
      BY <1>1, <1>2, <1>8 DEF Joined
    <3>2. Thread(T2, D2, X2, {d}, d)
      BY <1>2, <3>1 DEF Thread
    <3> QED BY <1>1, <2>1, <3>2
  <2>2. CASE y # d
    <3>1. Pend(T, D, y)
      BY <1>1, <1>9, <2>2
    <3>2. PICK S \in SUBSET Deltas : Thread(T, D, X, S, y)
      BY <3>1 DEF Woven, Threaded
    <3>3. /\ y \in S /\ X[D[y].obj].head \in S /\ \A x \in S : Joined(T, D, X, S, y, x)
          /\ Alive(T, y[1]) /\ NonSeq(D, y) => \A x \in S : NonSeq(D, x)
          /\ D[y].act = "SET" => \A x \in S : /\ x[1] = y[1]
                                              /\ D[x].act = "SET" \/ D[x].state = "FORCED_SEQUENTIAL"
      BY <3>2 DEF Thread
    <3>4. \A x \in S : x # d /\ x \in Deltas
      BY <1>1, <3>3 DEF Joined, Present, Pend
    <3>5. D2[y].obj = D[y].obj /\ D2[y].act = D[y].act /\ D[y].obj \in Vertices
      BY <1>2, <2>2, <3>1, ObjectFacts DEF Pend
    <3>6. CASE D[y].obj # v
      <4>1. \A x \in S : x # h
        BY <1>1, <1>3, <3>3, <3>4, <3>6 DEF Joined
      <4>2. \A x \in S : D2[x].next = D[x].next /\ D2[x].prev = D[x].prev /\ D2[x].obj = D[x].obj
        BY <1>2, <3>4, <4>1
      <4>3. X2[D2[y].obj].head = X[D[y].obj].head
        BY <1>2, <3>5, <3>6
      <4>4. \A x \in S : Joined(T2, D2, X2, S, y, x)
        BY <1>1, <1>3, <3>3, <3>4, <3>5, <4>2, <4>3 DEF Joined
      <4>5. \A x \in S : NonSeq(D, x) => NonSeq(D2, x)
        BY <1>5, <3>4
      <4>6. NonSeq(D2, y) => NonSeq(D, y)
        BY <1>5, <3>3, <2>2, <4>1
      <4>7. Alive(T2, y[1]) <=> Alive(T, y[1])
        BY <1>1, <1>3
      <4>8. Thread(T2, D2, X2, S, y)
        BY <1>5, <3>3, <3>4, <3>5, <4>3, <4>4, <4>5, <4>6, <4>7 DEF Thread
      <4> QED BY <4>8
    <3>7. CASE D[y].obj = v /\ y = h
      <4> DEFINE R == {h, d}
      <4>1. D2[h].prev = d /\ D2[h].obj = v
        BY <1>2, <2>2, <3>7
      <4>2. Joined(T2, D2, X2, R, y, h)
        BY <1>1, <1>2, <1>3, <1>9, <3>7, <4>1, <3>3 DEF Joined
      <4>3. Joined(T2, D2, X2, R, y, d)
        BY <1>1, <1>2, <1>8, <3>7, <4>1 DEF Joined
      <4>4. Alive(T2, y[1]) /\ NonSeq(D2, y) => NonSeq(D2, d)
        BY <1>1, <1>3, <1>5, <1>6, <1>7, <2>2, <3>1, <3>7
      <4>5. D2[y].act = "SET" => /\ d[1] = y[1]
                                 /\ D2[d].act = "SET" \/ D2[d].state = "FORCED_SEQUENTIAL"
        BY <1>1, <1>2, <1>6, <3>1, <3>5, <3>7
      <4>6. Thread(T2, D2, X2, R, y)
        BY <1>2, <3>5, <3>7, <4>2, <4>3, <4>4, <4>5 DEF Thread
      <4>7. R \in SUBSET Deltas
        BY <1>1, <3>7
      <4> QED BY <4>6, <4>7
    <3>8. CASE D[y].obj = v /\ y # h
      <4> DEFINE R == S \cup {d}
      <4>1. h \in S
        BY <3>3, <3>8 DEF h
      <4>2. ASSUME NEW x \in S PROVE Joined(T2, D2, X2, R, y, x)
        <5>1. x \in Deltas /\ x # d /\ D2[x].next = D[x].next /\ D2[x].obj = D[x].obj /\ D[x].obj = v
          BY <1>2, <3>3, <3>4, <3>8 DEF Joined
        <5>2. x # y => D[x].next \in S /\ D[D[x].next].prev = x
          BY <3>3 DEF Joined
        <5>3. x # y => D[x].next # h /\ D[x].next # d /\ D[x].next \in Deltas
          BY <1>3, <1>4, <3>4, <4>1, <5>1, <5>2
        <5>4. x = y \/ (D2[x].next \in R /\ D2[D2[x].next].prev = x)
          BY <1>2, <5>1, <5>2, <5>3
        <5>5. \/ D2[x].prev \in R /\ D2[D2[x].prev].next = x
              \/ D2[x].prev = D2[y].obj /\ X2[D2[y].obj].head = x
          <6>1. CASE x = h
            BY <1>2, <5>1, <6>1
          <6>2. CASE x # h
            <7>1. D[x].prev \in S /\ D[D[x].prev].next = x
              BY <3>3, <3>8, <6>2 DEF Joined, h
            <7>2. D2[x].prev = D[x].prev /\ D[x].prev # d /\ D[x].prev \in Deltas
              BY <1>2, <3>4, <5>1, <6>2, <7>1
            <7> QED BY <1>2, <7>1, <7>2
          <6> QED BY <6>1, <6>2
        <5>6. Present(T2, D2, x) /\ D2[x].obj = D2[y].obj
          BY <1>1, <3>3, <3>5, <5>1 DEF Joined
        <5>7. Done(T2, x[1]) => T2[y[1]].start < T2[x[1]].ts
          BY <1>1, <1>3, <3>3, <5>1 DEF Joined
        <5> QED BY <5>4, <5>5, <5>6, <5>7 DEF Joined
      <4>3. Joined(T2, D2, X2, R, y, d)
        BY <1>1, <1>2, <1>8, <3>4, <3>5, <3>8, <4>1 DEF Joined
      <4>4. Alive(T2, y[1]) /\ NonSeq(D2, y) => \A x \in R : NonSeq(D2, x)
        <5>1. SUFFICES ASSUME Alive(T2, y[1]), NonSeq(D2, y) PROVE \A x \in R : NonSeq(D2, x)
          OBVIOUS
        <5>2. Alive(T, y[1]) /\ NonSeq(D, y)
          BY <1>1, <1>3, <1>5, <2>2, <3>8, <5>1
        <5>3. NonSeq(D2, d)
          BY <1>6, <1>7, <3>1, <3>8, <5>2
        <5> QED BY <1>5, <3>3, <3>4, <5>2, <5>3
      <4>5. D2[y].act = "SET" => \A x \in R : /\ x[1] = y[1]
                                              /\ D2[x].act = "SET" \/ D2[x].state = "FORCED_SEQUENTIAL"
        <5>1. SUFFICES ASSUME D[y].act = "SET"
                       PROVE  \A x \in R : /\ x[1] = y[1]
                                           /\ D2[x].act = "SET" \/ D2[x].state = "FORCED_SEQUENTIAL"
          BY <3>5
        <5>2. d[1] = y[1] /\ (D2[d].act = "SET" \/ D2[d].state = "FORCED_SEQUENTIAL")
          BY <1>1, <1>2, <1>6, <3>1, <3>8, <5>1
        <5> QED BY <1>5, <3>3, <3>4, <5>1, <5>2
      <4>6. y \in R /\ X2[D2[y].obj].head \in R
        BY <1>2, <3>3, <3>5, <3>8
      <4>7. Thread(T2, D2, X2, R, y)
        BY <4>2, <4>3, <4>4, <4>5, <4>6 DEF Thread
      <4>8. R \in SUBSET Deltas
        BY <1>1
      <4> QED BY <4>7, <4>8
    <3> QED BY <3>6, <3>7, <3>8
  <2> QED BY <2>1, <2>2
<1> QED BY <1>9 DEF Threaded

(* CreateAndLinkDelta keeps the chains and the flags in order.             *)
LEMMA LinkWoven ==
  ASSUME NEW T, NEW D, NEW X, NEW T2, NEW D2, NEW X2, Typed(T, D, X), Shape(T, D, X),
         Woven(T, D, X), Flagged(T, D, X),
         NEW t \in Txns, Alive(T, t), ~Done(T, t), NEW v \in Vertices,
         NEW act, NEW arg, NEW state, Links(T, D, X, T2, D2, X2, t, v, act, state),
         LinkMore(D, X, D2, X2, <<t, T[t].n + 1>>, v, act, arg, state),
         Fits(T, D, X, t, v, act, state)
  PROVE  Woven(T2, D2, X2) /\ Flagged(T2, D2, X2)
<1> DEFINE d == <<t, T[t].n + 1>>
           h == X[v].head
<1>1. HeadBacked(T, D, X) /\ Forward(T, D) /\ Solo(T, D) /\ Aged(T, D)
  BY DEF Woven
<1>2. Linked(T, D, X, T2, D2, d, v)
  BY <1>1, LinkDeltas
<1>3. /\ d \in Deltas /\ ~Created(T, d) /\ h # d
      /\ \A e \in Deltas : D[e].next # d /\ D[e].prev # d
      /\ \A u \in Txns : Alive(T2, u) <=> Alive(T, u)
      /\ \A e \in Deltas : Created(T2, e) <=> Created(T, e) \/ e = d
      /\ \A e \in Deltas : e # d /\ e # h => (OwnPrev(D2, e) <=> OwnPrev(D, e))
      /\ h # Null => h \in Deltas /\ ~OwnPrev(D, h) /\ D[h].obj = v
      /\ \A x \in Deltas : Pend(T2, D2, x) <=> Pend(T, D, x) \/ x = d
      /\ \A x \in Deltas : Present(T2, D2, x) <=> Present(T, D, x) \/ x = d
  BY <1>2 DEF Linked
<1>4. /\ D2[d].obj = v /\ D2[d].act = act /\ D2[d].state = state /\ D2[d].next = h /\ D2[d].prev = v
      /\ \A e \in Deltas : e # d => /\ D2[e].obj = D[e].obj
                                    /\ D2[e].next = D[e].next
                                    /\ e # h => D2[e].prev = D[e].prev
                                    /\ e = h => D2[e].prev = d
      /\ X2[v].head = d
      /\ \A w \in Vertices : w # v => X2[w].head = X[w].head
  BY DEF Links
<1>5. \A e \in Deltas : e[1] \in Txns /\ e # Null /\ e \notin Vertices /\ e[2] \in Nat /\ e = <<e[1], e[2]>>
  BY PointerFacts
<1>6. h # Null => D[h].prev = v /\ Present(T, D, h)
  BY <1>1 DEF HeadBacked
<1>7. \A x \in Deltas : x # d =>
         /\ NonSeq(D, x) => NonSeq(D2, x)
         /\ NonSeq(D2, x) => NonSeq(D, x) \/ (x = h /\ act = "EDGE" /\ state = "NON_SEQUENTIAL")
  <2>1. SUFFICES ASSUME NEW x \in Deltas, x # d
                 PROVE  /\ NonSeq(D, x) => NonSeq(D2, x)
                        /\ NonSeq(D2, x) => NonSeq(D, x) \/ (x = h /\ act = "EDGE" /\ state = "NON_SEQUENTIAL")
    OBVIOUS
  <2> QED BY <2>1, LinkNonSeq
<1>8. NonSeq(D2, d) <=> act = "EDGE" /\ state = "NON_SEQUENTIAL"
  BY <1>4 DEF NonSeq
<1>9. d[1] = t /\ d[2] = T[t].n + 1 /\ T[t].n \in Nat
  BY PointerFacts
<1>10. Threaded(T2, D2, X2)
  BY LinkThreaded
<1>11. Forward(T2, D2)
  <2>1. SUFFICES ASSUME NEW x \in Deltas, Pend(T2, D2, x), D2[x].next \in Deltas
                 PROVE  D2[D2[x].next].prev = x /\ Present(T2, D2, D2[x].next)
    BY DEF Forward
  <2> HIDE DEF d, h
  <2>2. CASE x = d
    BY <1>3, <1>4, <1>5, <1>6, <2>1, <2>2
  <2>3. CASE x # d
    <3>1. D2[x].next = D[x].next /\ D[D[x].next].prev = x /\ Present(T, D, D[x].next)
      BY <1>1, <1>3, <1>4, <2>1, <2>3 DEF Forward
    <3>2. D[x].next # h /\ D[x].next # d
      BY <1>3, <1>5, <1>6, <2>1, <3>1
    <3> QED BY <1>3, <1>4, <2>1, <3>1, <3>2
  <2> QED BY <2>2, <2>3
<1>12. HeadBacked(T2, D2, X2)
  <2>1. SUFFICES ASSUME NEW w \in Vertices, X2[w].head # Null
                 PROVE  D2[X2[w].head].prev = w /\ Present(T2, D2, X2[w].head)
    BY DEF HeadBacked
  <2>2. CASE w = v
    BY <1>3, <1>4, <2>2
  <2>3. CASE w # v
    <3>1. X2[w].head = X[w].head /\ X[w].head \in Deltas /\ D[X[w].head].obj = w /\ Created(T, X[w].head)
      BY <1>4, <2>1, <2>3, PointerFacts DEF Shape
    <3>2. X[w].head # h /\ X[w].head # d
      BY <1>3, <1>5, <2>3, <3>1
    <3>3. D[X[w].head].prev = w /\ Present(T, D, X[w].head)
      BY <1>1, <2>1, <3>1 DEF HeadBacked
    <3> HIDE DEF d, h
    <3> QED BY <1>3, <1>4, <3>1, <3>2, <3>3
  <2> QED BY <2>2, <2>3
<1>13. Solo(T2, D2)
  <2>1. SUFFICES ASSUME NEW y \in Deltas, NEW z \in Deltas, Pend(T2, D2, y), z[1] = y[1],
                        D2[z].obj = D2[y].obj, z[2] < y[2], ~NonSeq(D2, y)
                 PROVE  OwnPrev(D2, z)
    BY DEF Solo
  <2>2. z # d
    BY <1>3, <1>5, <1>9, <2>1 DEF Pend, Created
  <2>3. CASE y = d
    <3>1. Created(T, z)
      BY <1>5, <1>9, <2>1, <2>3 DEF Created
    <3>2. z = h \/ OwnPrev(D, z)
      BY <1>4, <1>8, <1>9, <2>1, <2>2, <2>3, <3>1 DEF Fits
    <3>3. CASE z = h
      BY <1>3, <1>4, <1>9, <2>1, <2>2, <2>3, <3>3 DEF OwnPrev
    <3>4. CASE OwnPrev(D, z) /\ z # h
      BY <1>3, <2>2, <3>4
    <3> QED BY <3>2, <3>3, <3>4
  <2>4. CASE y # d
    <3>1. OwnPrev(D, z)
      BY <1>1, <1>3, <1>4, <1>7, <2>1, <2>2, <2>4 DEF Solo
    <3>2. z # h
      BY <1>3, <1>5, <3>1
    <3> QED BY <1>3, <2>2, <3>1, <3>2
  <2> QED BY <2>3, <2>4
<1>14. Aged(T2, D2)
  <2>1. PICK r : Aging(T, D, r)
    BY <1>1 DEF Aged
  <2>2. /\ r \in [Deltas -> Nat]
        /\ \A x \in Deltas : D[x].next \in Deltas => r[D[x].next] < r[x]
        /\ \A x, e \in Deltas : Created(T, x) /\ Created(T, e) /\ x[1] = e[1] /\ x[2] < e[2] => r[x] < r[e]
    BY <2>1 DEF Aging
  <2> DEFINE z == <<t, T[t].n>>
             k == (IF h = Null THEN 0 ELSE r[h] + 1) + (IF T[t].n = 0 THEN 0 ELSE r[z] + 1)
             r2 == [e \in Deltas |-> IF e = d THEN k ELSE r[e]]
  <2>3. h # Null => r[h] \in Nat
    BY <1>3, <2>2
  <2>4. T[t].n # 0 => z \in Deltas /\ r[z] \in Nat /\ z[1] = t /\ z[2] = T[t].n
    <3>1. T[t].n \in 0..MaxDeltas /\ MaxDeltas \in Nat
      BY DeltaChainConstants DEF Typed, TxRecords
    <3>2. T[t].n # 0 => z \in Deltas
      BY <3>1 DEF Deltas
    <3> QED BY <2>2, <3>2
  <2>5. k \in Nat /\ (h # Null => r[h] < k) /\ (T[t].n # 0 => r[z] < k)
    BY <2>3, <2>4
  <2>6. r2 \in [Deltas -> Nat]
    BY <2>2, <2>5
  <2> HIDE DEF k
  <2>7. ASSUME NEW x \in Deltas, D2[x].next \in Deltas PROVE r2[D2[x].next] < r2[x]
    <3> HIDE DEF d, h
    <3>1. CASE x = d
      BY <1>3, <1>4, <1>5, <2>5, <2>7, <3>1
    <3>2. CASE x # d
      BY <1>3, <1>4, <2>2, <2>7, <3>2
    <3> QED BY <3>1, <3>2
  <2>8. ASSUME NEW x \in Deltas, NEW e \in Deltas, Created(T2, x), Created(T2, e), x[1] = e[1], x[2] < e[2]
        PROVE  r2[x] < r2[e]
    <3>1. x # d
      BY <1>3, <1>5, <1>9, <2>8 DEF Created
    <3>2. Created(T, x)
      BY <1>3, <2>8, <3>1
    <3>3. CASE e # d
      BY <1>3, <2>2, <2>8, <3>1, <3>2, <3>3
    <3>4. CASE e = d
      <4>1. x[1] = t /\ x[2] <= T[t].n /\ T[t].n # 0 /\ x[2] \in Nat
        BY <1>5, <1>9, <2>8, <3>4, PointerFacts
      <4>2. x = z \/ r[x] < r[z]
        <5>1. Created(T, z)
          BY <1>9, <2>4, <4>1 DEF Created
        <5>2. x[2] = T[t].n => x = z
          BY <1>5, <4>1
        <5> HIDE DEF z
        <5> QED BY <1>9, <2>2, <2>4, <3>2, <4>1, <5>1, <5>2
      <4>3. r[x] < k
        <5>1. r[x] \in Nat /\ r[z] \in Nat /\ r[z] < k /\ k \in Nat
          BY <2>2, <2>4, <2>5, <4>1
        <5> HIDE DEF z
        <5> QED BY <4>2, <5>1
      <4> QED BY <3>1, <3>4, <4>3
    <3> QED BY <3>3, <3>4
  <2> HIDE DEF r2
  <2>9. Aging(T2, D2, r2)
    BY <2>6, <2>7, <2>8 DEF Aging
  <2> QED BY <2>9 DEF Aged
<1>15. Flagged(T2, D2, X2)
  <2>1. SUFFICES ASSUME NEW y \in Deltas, Pend(T2, D2, y), Alive(T2, y[1]), NonSeq(D2, y)
                 PROVE  X2[D2[y].obj].flag
    BY DEF Flagged
  <2>2. \A w \in Vertices : X2[w].flag = X[w].flag
    BY DEF LinkMore
  <2>3. act = "EDGE" /\ state = "NON_SEQUENTIAL" => X[v].flag
    BY DEF Fits
  <2>4. CASE y = d
    BY <1>4, <1>8, <2>1, <2>2, <2>3, <2>4
  <2>5. CASE y # d
    <3>1. Pend(T, D, y) /\ D2[y].obj = D[y].obj /\ Alive(T, y[1])
      BY <1>3, <1>4, <1>5, <2>1, <2>5
    <3>2. D[y].obj \in Vertices
      BY <3>1, ObjectFacts DEF Pend
    <3>3. CASE NonSeq(D, y)
      BY <2>2, <3>1, <3>2, <3>3 DEF Flagged
    <3>4. CASE y = h /\ act = "EDGE" /\ state = "NON_SEQUENTIAL"
      BY <1>3, <1>5, <2>2, <2>3, <3>1, <3>4
    <3> QED BY <1>7, <2>1, <2>5, <3>3, <3>4
  <2> QED BY <2>4, <2>5
<1> QED BY <1>10, <1>11, <1>12, <1>13, <1>14, <1>15 DEF Woven

-----------------------------------------------------------------------------
(* Stored, under the same steps.                                           *)

(* Steps that write, commit and undo nothing.                              *)
LEMMA SteadyStored ==
  ASSUME NEW T, NEW D, NEW X, NEW B, NEW T2, NEW D2, NEW X2, Steady(T, D, X, T2, D2, X2), Stored(T, D, X, B)
  PROVE  Stored(T2, D2, X2, B)
<1>1. \A x \in Deltas : /\ Pend(T2, D2, x) <=> Pend(T, D, x)
                        /\ Created(T2, x) /\ Done(T2, x[1]) <=> Created(T, x) /\ Done(T, x[1])
                        /\ D2[x].obj = D[x].obj /\ D2[x].act = D[x].act /\ D2[x].arg = D[x].arg
  BY DEF Steady
<1>2. \A v \in Vertices : X2[v].val = X[v].val /\ X2[v].edges = X[v].edges
  BY DEF Steady
<1>3. ASSUME NEW v \in Vertices PROVE SetsOf(T2, D2, v) = SetsOf(T, D, v) /\ SetsOf(T, D, v) \subseteq Deltas
  BY <1>1 DEF SetsOf
<1>4. ValuesStored(T2, D2, X2, B)
  <2>1. ASSUME NEW v \in Vertices, NEW y \in SetsOf(T, D, v) PROVE D2[y].arg = D[y].arg
    BY <1>1, <1>3, <2>1
  <2> QED BY <1>2, <1>3, <2>1 DEF Stored, ValuesStored
<1>5. \A x \in Deltas : Present(T2, D2, x) <=> Present(T, D, x)
  BY <1>1 DEF Present
<1>6. EdgesStored(T2, D2, X2, B)
  BY <1>1, <1>2, <1>5 DEF Stored, EdgesStored
<1> QED BY <1>4, <1>6 DEF Stored

(* One transaction at a time has uncommitted property writes on a vertex.  *)
LEMMA OneWriter ==
  ASSUME NEW T, NEW D, NEW X, Woven(T, D, X), NEW v, NEW x \in SetsOf(T, D, v), NEW y \in SetsOf(T, D, v)
  PROVE  x[1] = y[1]
<1>1. /\ x \in Deltas /\ y \in Deltas /\ Pend(T, D, x) /\ Pend(T, D, y)
      /\ D[x].obj = D[y].obj /\ D[x].act = "SET" /\ D[y].act = "SET"
  BY DEF SetsOf
<1>2. PICK S \in SUBSET Deltas : Thread(T, D, X, S, x)
  BY <1>1 DEF Woven, Threaded
<1>3. PICK R \in SUBSET Deltas : Thread(T, D, X, R, y)
  BY <1>1 DEF Woven, Threaded
<1>4. x \in R \/ y \in S
  BY <1>1, <1>2, <1>3, OneChain DEF Woven
<1> QED BY <1>1, <1>2, <1>3, <1>4 DEF Thread

(* CreateAndLinkDelta records what it replaces.                            *)
LEMMA LinkStored ==
  ASSUME NEW T, NEW D, NEW X, NEW B, NEW T2, NEW D2, NEW X2, Typed(T, D, X), Shape(T, D, X),
         Woven(T, D, X), Stored(T, D, X, B), NEW t \in Txns, Alive(T, t), ~Done(T, t), NEW v \in Vertices,
         NEW act \in {"SET", "EDGE"}, NEW arg, NEW state, Links(T, D, X, T2, D2, X2, t, v, act, state),
         LinkMore(D, X, D2, X2, <<t, T[t].n + 1>>, v, act, arg, state),
         Fits(T, D, X, t, v, act, state), act = "SET" => arg = X[v].val
  PROVE  Stored(T2, D2, X2, B)
<1> DEFINE d == <<t, T[t].n + 1>>
<1>1. Linked(T, D, X, T2, D2, d, v)
  BY LinkDeltas DEF Woven
<1>2. /\ d \in Deltas /\ ~Created(T, d)
      /\ \A u \in Txns : Done(T2, u) <=> Done(T, u)
      /\ \A e \in Deltas : Created(T2, e) <=> Created(T, e) \/ e = d
      /\ \A x \in Deltas : Pend(T2, D2, x) <=> Pend(T, D, x) \/ x = d
      /\ \A x \in Deltas : Present(T2, D2, x) <=> Present(T, D, x) \/ x = d
  BY <1>1 DEF Linked
<1>3. /\ D2[d].obj = v /\ D2[d].act = act
      /\ \A e \in Deltas : e # d => D2[e].obj = D[e].obj /\ D2[e].act = D[e].act
  BY DEF Links
<1>4. /\ D2[d].arg = arg /\ \A e \in Deltas : e # d => D2[e].arg = D[e].arg
      /\ \A w \in Vertices :
           /\ X2[w].val = IF w = v /\ act = "SET" THEN d ELSE X[w].val
           /\ X2[w].edges = IF w = v /\ act = "EDGE" THEN X[w].edges \cup {d} ELSE X[w].edges
  BY DEF LinkMore
<1>5. d[1] = t /\ d[2] = T[t].n + 1 /\ T[t].n \in Nat
  BY PointerFacts
<1>6. \A e \in Deltas : e[1] \in Txns /\ e[2] \in Nat
  BY PointerFacts
<1>7. ~Pend(T, D, d) /\ ~Present(T, D, d)
  BY <1>2 DEF Pend, Present
<1> HIDE DEF d
<1>8. EdgesStored(T2, D2, X2, B)
  <2>1. SUFFICES ASSUME NEW w \in Vertices, NEW e \in Deltas
                 PROVE  /\ e \in X2[w].edges <=> Present(T2, D2, e) /\ D2[e].obj = w /\ D2[e].act = "EDGE"
                        /\ e \in B[w].edges <=> Created(T2, e) /\ Done(T2, e[1]) /\ D2[e].obj = w /\ D2[e].act = "EDGE"
    BY DEF EdgesStored
  <2>2. /\ e \in X[w].edges <=> Present(T, D, e) /\ D[e].obj = w /\ D[e].act = "EDGE"
        /\ e \in B[w].edges <=> Created(T, e) /\ Done(T, e[1]) /\ D[e].obj = w /\ D[e].act = "EDGE"
    BY DEF Stored, EdgesStored
  <2>3. CASE e = d
    BY <1>2, <1>3, <1>4, <1>5, <1>7, <2>2, <2>3
  <2>4. CASE e # d
    <3>1. Done(T2, e[1]) <=> Done(T, e[1])
      BY <1>2, <1>6
    <3> QED BY <1>2, <1>3, <1>4, <2>2, <2>4, <3>1
  <2> QED BY <2>3, <2>4
<1>9. ASSUME NEW w \in Vertices
      PROVE  /\ SetsOf(T2, D2, w) = IF w = v /\ act = "SET" THEN SetsOf(T, D, w) \cup {d} ELSE SetsOf(T, D, w)
             /\ SetsOf(T, D, w) \subseteq Deltas /\ d \notin SetsOf(T, D, w)
  BY <1>2, <1>3, <1>7 DEF SetsOf
<1>10. ASSUME NEW w \in Vertices, ~(w = v /\ act = "SET")
       PROVE  /\ Latest(SetsOf(T2, D2, w), B[w].val, X2[w].val)
              /\ \A y \in SetsOf(T2, D2, w) :
                   Latest({e \in SetsOf(T2, D2, w) : e[2] < y[2]}, B[w].val, D2[y].arg)
  <2>1. SetsOf(T2, D2, w) = SetsOf(T, D, w) /\ X2[w].val = X[w].val
    BY <1>4, <1>9, <1>10
  <2>2. \A y \in SetsOf(T, D, w) : D2[y].arg = D[y].arg
    BY <1>4, <1>9
  <2> QED BY <2>1, <2>2 DEF Stored, ValuesStored
<1>11. ASSUME act = "SET"
       PROVE  /\ Latest(SetsOf(T2, D2, v), B[v].val, X2[v].val)
              /\ \A y \in SetsOf(T2, D2, v) :
                   Latest({e \in SetsOf(T2, D2, v) : e[2] < y[2]}, B[v].val, D2[y].arg)
  <2> DEFINE S == SetsOf(T, D, v)
  <2>1. SetsOf(T2, D2, v) = S \cup {d} /\ X2[v].val = d /\ d \notin S /\ D2[d].arg = X[v].val
    BY <1>4, <1>9, <1>11
  <2>2. \A y \in S : y \in Deltas /\ y[2] < d[2] /\ y[2] \in Nat /\ D2[y].arg = D[y].arg
    <3>1. ASSUME NEW y \in S PROVE y \in Deltas /\ y[2] < d[2] /\ y[2] \in Nat /\ D2[y].arg = D[y].arg
      <4>1. y \in Deltas /\ Pend(T, D, y) /\ D[y].obj = v /\ D[y].act = "SET"
        BY DEF SetsOf
      <4>2. y[1] = t
        BY <4>1 DEF Fits
      <4>3. y[2] <= T[t].n /\ y # d
        BY <2>1, <4>1, <4>2 DEF Pend, Created
      <4> QED BY <1>4, <1>5, <1>6, <4>1, <4>3
    <3> QED BY <3>1
  <2>3. Latest(S, B[v].val, X[v].val) /\ \A y \in S : Latest({e \in S : e[2] < y[2]}, B[v].val, D[y].arg)
    BY DEF Stored, ValuesStored
  <2>4. d[2] \in Nat
    BY <1>5
  <2> HIDE DEF S
  <2>5. Latest(S \cup {d}, B[v].val, d)
    BY <2>2, <2>4 DEF Latest
  <2>6. ASSUME NEW y \in S PROVE {e \in S \cup {d} : e[2] < y[2]} = {e \in S : e[2] < y[2]}
    BY <2>2, <2>4
  <2>7. {e \in S \cup {d} : e[2] < d[2]} = S
    BY <2>2, <2>4
  <2>8. ASSUME NEW y \in S \cup {d} PROVE Latest({e \in S \cup {d} : e[2] < y[2]}, B[v].val, D2[y].arg)
    <3>1. CASE y \in S
      BY <2>2, <2>3, <2>6, <3>1
    <3>2. CASE y = d
      BY <2>1, <2>3, <2>7, <3>2
    <3> QED BY <3>1, <3>2
  <2> QED BY <2>1, <2>5, <2>8
<1>12. ValuesStored(T2, D2, X2, B)
  BY <1>10, <1>11 DEF ValuesStored
<1> QED BY <1>8, <1>12 DEF Stored

(* A transaction with an uncommitted delta has not taken a timestamp.      *)
LEMMA PendFacts ==
  ASSUME IInv, NEW y \in Deltas, Pend(tx, dl, y)
  PROVE  /\ y[1] \in Txns /\ tx[y[1]].ts \in Nat /\ tx[y[1]].ts > kTransactionInitialId
         /\ ~Done(tx, y[1]) /\ dl[y].obj \in Vertices
<1>1. y[1] \in Txns
  BY DeltaFacts
<1>2. Sound(y[1], tx[y[1]], timestamp, open, gc)
  BY <1>1, IdFacts
<1>3. tx[y[1]].ts = TransactionId(y[1])
  BY <1>2 DEF Sound, Pend, Alive
<1>4. y[1] \in Nat /\ y[1] >= 1
  BY <1>1 DEF Txns
<1>5. dl[y].obj \in Vertices
  BY DEF Pend, IInv, Coherent, Shape
<1> QED BY <1>1, <1>3, <1>4, <1>5, DeltaChainConstants DEF TransactionId, kTransactionInitialId, Done

(* What a transaction at work can tell from the head.                      *)
LEMMA HeadTells ==
  ASSUME IInv, Woven(tx, dl, vx), NEW t \in Txns, Alive(tx, t), NEW v \in Vertices,
         NEW y \in Deltas, Pend(tx, dl, y), dl[y].obj = v
  PROVE  /\ vx[v].head # Null
         /\ Alive(tx, y[1]) /\ NonSeq(dl, y) => NonSeq(dl, vx[v].head)
         /\ dl[y].act = "SET" =>
              /\ vx[v].head[1] = y[1] /\ TsOf(vx[v].head) > tx[t].start
              /\ dl[vx[v].head].act = "SET" \/ dl[vx[v].head].state = "FORCED_SEQUENTIAL"
         /\ y[1] = t => y = vx[v].head \/ vx[v].head[1] # t \/ y[2] < vx[v].head[2]
         /\ y[1] = t /\ vx[v].head[1] # t => TsOf(vx[v].head) > tx[t].start
<1> DEFINE h == vx[v].head
<1>1. PICK S \in SUBSET Deltas : Thread(tx, dl, vx, S, y)
  BY DEF Woven, Threaded
<1>2. h \in S /\ h \in Deltas /\ Joined(tx, dl, vx, S, y, h)
  BY <1>1 DEF Thread
<1>3. h # Null
  BY <1>2, PointerConstants
<1>4. tx[t].start < kTransactionInitialId /\ tx[t].start \in Nat /\ kTransactionInitialId \in Nat
  BY IdFacts
<1>5. h[1] \in Txns /\ TsOf(h) = tx[h[1]].ts /\ TsOf(h) \in Nat
  BY <1>3, HeadFacts
<1>6. Pend(tx, dl, h) => TsOf(h) > tx[t].start
  BY <1>2, <1>4, <1>5, PendFacts
<1>7. y[1] = t => TsOf(h) > tx[t].start
  <2>1. CASE Done(tx, h[1])
    BY <1>2, <1>4, <1>5, <2>1 DEF Joined
  <2>2. CASE ~Done(tx, h[1])
    BY <1>2, <1>6, <2>2 DEF Joined, Present
  <2> QED BY <2>1, <2>2
<1>8. dl[y].act = "SET" => /\ h[1] = y[1] /\ TsOf(h) > tx[t].start
                           /\ dl[h].act = "SET" \/ dl[h].state = "FORCED_SEQUENTIAL"
  <2>1. SUFFICES ASSUME dl[y].act = "SET"
                 PROVE  /\ h[1] = y[1] /\ TsOf(h) > tx[t].start
                        /\ dl[h].act = "SET" \/ dl[h].state = "FORCED_SEQUENTIAL"
    OBVIOUS
  <2>2. /\ h[1] = y[1]
        /\ dl[h].act = "SET" \/ dl[h].state = "FORCED_SEQUENTIAL"
    BY <1>1, <1>2, <2>1 DEF Thread
  <2>3. tx[y[1]].ts > kTransactionInitialId /\ tx[y[1]].ts \in Nat
    BY PendFacts
  <2> QED BY <1>4, <1>5, <2>2, <2>3
<1>9. Alive(tx, y[1]) /\ NonSeq(dl, y) => NonSeq(dl, h)
  BY <1>1, <1>2 DEF Thread
<1>10. y[1] = t => y = h \/ h[1] # t \/ y[2] < h[2]
  <2>1. SUFFICES ASSUME y[1] = t, y # h, h[1] = t PROVE y[2] < h[2]
    OBVIOUS
  <2>2. Typed(tx, dl, vx) /\ Aged(tx, dl)
    BY DEF IInv, Types, Typed, Woven
  <2> QED BY <1>1, <1>2, <2>1, <2>2, AboveIsNewer
<1> HIDE DEF h
<1>11. /\ h # Null
       /\ Alive(tx, y[1]) /\ NonSeq(dl, y) => NonSeq(dl, h)
       /\ dl[y].act = "SET" =>
            /\ h[1] = y[1] /\ TsOf(h) > tx[t].start
            /\ dl[h].act = "SET" \/ dl[h].state = "FORCED_SEQUENTIAL"
       /\ y[1] = t => y = h \/ h[1] # t \/ y[2] < h[2]
       /\ y[1] = t /\ h[1] # t => TsOf(h) > tx[t].start
  BY <1>3, <1>7, <1>8, <1>9, <1>10
<1> QED BY <1>11 DEF h

(* Below an own head that is closed to others everything own is together.  *)
LEMMA OwnBelow ==
  ASSUME IInv, Woven(tx, dl, vx), NEW t \in Txns, Alive(tx, t), NEW v \in Vertices,
         vx[v].head # Null,
         IF Own(t, vx[v].head) THEN ~NonSeq(dl, vx[v].head) ELSE TsOf(vx[v].head) < tx[t].start,
         NEW z \in Deltas, z[1] = t, Created(tx, z), dl[z].obj = v
  PROVE  z = vx[v].head \/ OwnPrev(dl, z)
<1> DEFINE h == vx[v].head
<1>1. Pend(tx, dl, z)
  BY DEF Pend
<1>2. /\ z = h \/ h[1] # t \/ z[2] < h[2]
      /\ h[1] # t => TsOf(h) > tx[t].start
  BY <1>1, HeadTells
<1>3. h \in Deltas /\ (Own(t, h) <=> h[1] = t) /\ TsOf(h) \in Nat
  BY HeadFacts
<1>4. tx[t].start \in Nat
  BY IdFacts
<1>5. h[1] = t /\ ~NonSeq(dl, h)
  BY <1>2, <1>3, <1>4
<1>6. Pend(tx, dl, h) /\ dl[h].obj = v
  <2>1. Created(tx, h) /\ dl[h].obj = v
    BY <1>3 DEF IInv, Coherent, Shape
  <2> QED BY <1>5, <2>1 DEF Pend
<1> HIDE DEF h
<1>7. z # h => OwnPrev(dl, z)
  BY <1>2, <1>3, <1>5, <1>6 DEF Woven, Solo
<1> QED BY <1>7 DEF h

(* What PrepareForWrite lets through fits.                                 *)
LEMMA WriteFits ==
  ASSUME IInv, Woven(tx, dl, vx), Flagged(tx, dl, vx), NEW t \in Txns, Alive(tx, t),
         NEW v \in Vertices, PrepareForWrite(t, v)
  PROVE  Fits(tx, dl, vx, t, v, "SET", "SEQUENTIAL")
<1> DEFINE h == vx[v].head
<1>1. \/ h = Null
      \/ h # Null /\ Own(t, h) /\ ~NonSeq(dl, h)
      \/ h # Null /\ ~Own(t, h) /\ TsOf(h) < tx[t].start /\ ~vx[v].flag
  BY DEF PrepareForWrite, NonSeq, IsDeltaNonSequential, CanBeNonSequential
<1>2. ASSUME NEW y \in Deltas, Pend(tx, dl, y), dl[y].obj = v
      PROVE  /\ ~(Alive(tx, y[1]) /\ NonSeq(dl, y))
             /\ dl[y].act = "SET" => y[1] = t
  <2>1. /\ h # Null
        /\ Alive(tx, y[1]) /\ NonSeq(dl, y) => NonSeq(dl, h)
        /\ dl[y].act = "SET" => h[1] = y[1] /\ TsOf(h) > tx[t].start
    BY <1>2, HeadTells
  <2>2. Alive(tx, y[1]) /\ NonSeq(dl, y) => vx[v].flag
    BY <1>2 DEF Flagged
  <2>3. (Own(t, h) <=> h[1] = t) /\ TsOf(h) \in Nat /\ tx[t].start \in Nat
    BY <2>1, HeadFacts, IdFacts
  <2> HIDE DEF h
  <2> QED BY <1>1, <2>1, <2>2, <2>3
<1>3. ASSUME NEW z \in Deltas, z[1] = t, Created(tx, z), dl[z].obj = v
      PROVE  z = h \/ OwnPrev(dl, z)
  <2>1. Pend(tx, dl, z)
    BY <1>3 DEF Pend
  <2>2. h # Null
    BY <1>3, <2>1, HeadTells
  <2> QED BY <1>1, <1>3, <2>2, OwnBelow
<1> QED BY <1>2, <1>3 DEF Fits

(* So does what PrepareForNonSequentialWrite lets through, once it has set *)
(* the flag.                                                               *)
LEMMA EdgeFits ==
  ASSUME IInv, Woven(tx, dl, vx), Flagged(tx, dl, vx), NEW t \in Txns, Alive(tx, t),
         NEW v \in Vertices, PrepareForNonSequentialWrite(t, v) # "SERIALIZATION_ERROR",
         NEW X2, X2[v].head = vx[v].head,
         PrepareForNonSequentialWrite(t, v) = "NON_SEQUENTIAL" => X2[v].flag
  PROVE  Fits(tx, dl, X2, t, v, "EDGE", ComputeDeltaChainState(t, v, PrepareForNonSequentialWrite(t, v)))
<1> DEFINE h == vx[v].head
           result == PrepareForNonSequentialWrite(t, v)
           state == ComputeDeltaChainState(t, v, result)
           own == h # Null /\ Own(t, h)
           old == h # Null /\ ~Own(t, h) /\ TsOf(h) < tx[t].start
           new == h # Null /\ ~Own(t, h) /\ TsOf(h) >= tx[t].start
           blocked == h # Null /\ (dl[h].act = "SET" \/ dl[h].state = "FORCED_SEQUENTIAL")
<1>1. h # Null => /\ h \in Deltas /\ (Own(t, h) <=> h[1] = t) /\ TsOf(h) \in Nat
                  /\ dl[h].act \in {"SET", "EDGE"}
  <2>1. \A e \in Deltas : dl[e].act \in {"SET", "EDGE"}
    BY DEF IInv, Types, DeltaRecords
  <2> QED BY <2>1, HeadFacts
<1>2. tx[t].start \in Nat
  BY IdFacts
<1>3. /\ own /\ blocked => state = "FORCED_SEQUENTIAL"
      /\ own /\ ~blocked => state = IF NonSeq(dl, h) THEN "NON_SEQUENTIAL" ELSE "SEQUENTIAL"
      /\ old => state = IF vx[v].flag THEN "NON_SEQUENTIAL" ELSE "SEQUENTIAL"
      /\ new => state = "NON_SEQUENTIAL" /\ ~blocked
      /\ h = Null => state = "SEQUENTIAL"
      /\ state = "NON_SEQUENTIAL" => result = "NON_SEQUENTIAL"
  <2> DEFINE fails == /\ ~NonSeq(dl, h)
                      /\ \/ dl[h].act = "EDGE" /\ dl[h].state = "FORCED_SEQUENTIAL"
                         \/ ActiveBlocker(t, v)
  <2>1. /\ own => result = IF NonSeq(dl, h) THEN "NON_SEQUENTIAL" ELSE "SUCCESS"
        /\ old => result = IF vx[v].flag THEN "NON_SEQUENTIAL" ELSE "SUCCESS"
        /\ new => result = "NON_SEQUENTIAL" /\ ~fails
        /\ h = Null => result = "SUCCESS"
    <3>1. new => ~fails
      BY DEF PrepareForNonSequentialWrite, NonSeq, IsDeltaNonSequential, CanBeNonSequential
    <3>2. new => result = "NON_SEQUENTIAL"
      BY <1>1, <1>2 DEF PrepareForNonSequentialWrite
    <3>3. h = Null => result = "SUCCESS"
      BY DEF PrepareForNonSequentialWrite
    <3>4. own => result = IF NonSeq(dl, h) THEN "NON_SEQUENTIAL" ELSE "SUCCESS"
      BY DEF PrepareForNonSequentialWrite, NonSeq, IsDeltaNonSequential, CanBeNonSequential
    <3>5. old => result = IF vx[v].flag THEN "NON_SEQUENTIAL" ELSE "SUCCESS"
      BY <1>1, <1>2 DEF PrepareForNonSequentialWrite
    <3> QED BY <3>1, <3>2, <3>3, <3>4, <3>5
  <2>2. new => ~blocked
    <3>1. SUFFICES ASSUME new, blocked PROVE FALSE
      OBVIOUS
    <3>2. ~NonSeq(dl, h)
      BY <3>1 DEF NonSeq
    <3>3. ~ActiveBlocker(t, v) /\ ~(dl[h].act = "EDGE" /\ dl[h].state = "FORCED_SEQUENTIAL")
      BY <2>1, <3>1, <3>2
    <3>4. dl[h].act = "SET"
      BY <1>1, <3>1, <3>3
    <3>5. ~IsDeltaNonSequential(h)
      BY <3>2 DEF NonSeq, IsDeltaNonSequential, CanBeNonSequential
    <3>6. CanBeNonSequential(h)
      BY <3>1, <3>3, <3>5, BlockerAtHead
    <3> QED BY <3>4, <3>6 DEF CanBeNonSequential
  <2>3. BlockerUpstream(t, v) <=> own /\ blocked
    BY <1>1 DEF BlockerUpstream, CanBeNonSequential
  <2>4. state = IF BlockerUpstream(t, v) THEN "FORCED_SEQUENTIAL"
                ELSE IF result = "NON_SEQUENTIAL" THEN "NON_SEQUENTIAL" ELSE "SEQUENTIAL"
    BY DEF ComputeDeltaChainState
  <2>5. ~(own /\ old) /\ ~(own /\ new) /\ ~(old /\ new)
    BY <1>1, <1>2
  <2> HIDE DEF h, result, state, blocked, own, old, new, fails
  <2> QED BY <2>1, <2>2, <2>3, <2>4, <2>5 DEF own, new, old
<1>4. h = Null \/ own \/ old \/ new
  BY <1>1, <1>2
<1>5. state = "NON_SEQUENTIAL" => X2[v].flag
  BY <1>3
<1> HIDE DEF result, state
<1>6. ASSUME NEW y \in Deltas, Pend(tx, dl, y), dl[y].obj = v
      PROVE  /\ Alive(tx, y[1]) /\ NonSeq(dl, y) => state = "NON_SEQUENTIAL"
             /\ dl[y].act = "SET" => y[1] = t /\ state = "FORCED_SEQUENTIAL"
  <2>1. /\ h # Null
        /\ Alive(tx, y[1]) /\ NonSeq(dl, y) => NonSeq(dl, h)
        /\ dl[y].act = "SET" => h[1] = y[1] /\ TsOf(h) > tx[t].start /\ blocked
    BY <1>6, HeadTells
  <2>2. Alive(tx, y[1]) /\ NonSeq(dl, y) => vx[v].flag /\ ~blocked
    BY <1>6, <2>1 DEF Flagged, NonSeq
  <2>3. dl[y].act = "SET" => ~old
    BY <1>1, <1>2, <2>1
  <2>4. dl[y].act = "SET" /\ own => y[1] = t
    BY <1>1, <2>1
  <2> HIDE DEF h, own, old, new, blocked
  <2> QED BY <1>3, <1>4, <2>1, <2>2, <2>3, <2>4
<1>7. ASSUME state # "NON_SEQUENTIAL", NEW z \in Deltas, z[1] = t, Created(tx, z), dl[z].obj = v
      PROVE  z = h \/ OwnPrev(dl, z)
  <2>1. Pend(tx, dl, z)
    BY <1>7 DEF Pend
  <2>2. h # Null
    BY <1>7, <2>1, HeadTells
  <2>3. CASE own
    <3>1. ~NonSeq(dl, h)
      BY <1>3, <1>7, <2>3 DEF NonSeq
    <3> QED BY <1>7, <2>2, <2>3, <3>1, OwnBelow
  <2>4. CASE old
    BY <1>7, <2>2, <2>4, OwnBelow
  <2> QED BY <1>3, <1>4, <1>7, <2>2, <2>3, <2>4
<1>8. Fits(tx, dl, X2, t, v, "EDGE", state)
  BY <1>5, <1>6, <1>7 DEF Fits
<1> QED BY <1>8 DEF state, result

(* Marks do not change what fits.                                          *)
LEMMA FitsFrame ==
  ASSUME NEW T, NEW D, NEW X, NEW T2, NEW X2, Same(T, T2), NEW t, NEW v, NEW act, NEW state,
         Fits(T, D, X, t, v, act, state), X2[v].head = X[v].head, X[v].flag => X2[v].flag
  PROVE  Fits(T2, D, X2, t, v, act, state)
<1>1. \A x \in Deltas : /\ Created(T2, x) <=> Created(T, x)
                        /\ Pend(T2, D, x) <=> Pend(T, D, x)
  BY SameDeltas
<1>2. \A x \in Deltas : Alive(T2, x[1]) <=> Alive(T, x[1])
  BY DEF Same, Deltas
<1> QED BY <1>1, <1>2 DEF Fits

(* What fits at the other end of an edge still does when the delta at the  *)
(* first end is linked.                                                    *)
LEMMA NextFits ==
  ASSUME NEW T, NEW D, NEW X, NEW T2, NEW D2, NEW X2, Typed(T, D, X), Shape(T, D, X),
         Woven(T, D, X), NEW t \in Txns, Alive(T, t), NEW v \in Vertices, NEW arg, NEW state,
         Links(T, D, X, T2, D2, X2, t, v, "EDGE", state),
         LinkMore(D, X, D2, X2, <<t, T[t].n + 1>>, v, "EDGE", arg, state),
         Fits(T, D, X, t, v, "EDGE", state), NEW w \in Vertices, NEW other,
         (w = v /\ other = state) \/ (w # v /\ Fits(T, D, X, t, w, "EDGE", other))
  PROVE  Fits(T2, D2, X2, t, w, "EDGE", other)
<1> DEFINE d == <<t, T[t].n + 1>>
           h == X[v].head
<1>1. HeadBacked(T, D, X)
  BY DEF Woven
<1>2. Linked(T, D, X, T2, D2, d, v)
  BY <1>1, LinkDeltas
<1>3. /\ d \in Deltas /\ ~Created(T, d) /\ h # d
      /\ \A u \in Txns : Alive(T2, u) <=> Alive(T, u)
      /\ \A e \in Deltas : Created(T2, e) <=> Created(T, e) \/ e = d
      /\ \A e \in Deltas : e # d /\ e # h => (OwnPrev(D2, e) <=> OwnPrev(D, e))
      /\ h # Null => h \in Deltas /\ ~OwnPrev(D, h) /\ D[h].obj = v
      /\ \A x \in Deltas : Pend(T2, D2, x) <=> Pend(T, D, x) \/ x = d
  BY <1>2 DEF Linked
<1>4. /\ D2[d].obj = v /\ D2[d].act = "EDGE" /\ D2[d].state = state
      /\ \A e \in Deltas : e # d => /\ D2[e].obj = D[e].obj /\ D2[e].act = D[e].act
                                    /\ e = h => D2[e].prev = d
      /\ X2[v].head = d
      /\ \A u \in Vertices : u # v => X2[u].head = X[u].head
  BY DEF Links
<1>5. \A e \in Deltas : e[1] \in Txns /\ e # Null
  BY PointerFacts
<1>6. \A x \in Deltas : x # d => (NonSeq(D2, x) => NonSeq(D, x) \/ (x = h /\ state = "NON_SEQUENTIAL"))
  <2>1. SUFFICES ASSUME NEW x \in Deltas, x # d
                 PROVE  NonSeq(D2, x) => NonSeq(D, x) \/ (x = h /\ state = "NON_SEQUENTIAL")
    OBVIOUS
  <2> QED BY <2>1, LinkNonSeq
<1>7. d[1] = t /\ (NonSeq(D2, d) => state = "NON_SEQUENTIAL")
  BY <1>4 DEF NonSeq
<1>8. \A u \in Vertices : X2[u].flag = X[u].flag
  BY DEF LinkMore
<1> HIDE DEF d, h
<1>9. ASSUME NEW y \in Deltas, Pend(T2, D2, y), D2[y].obj = w
      PROVE  /\ Alive(T2, y[1]) /\ NonSeq(D2, y) => other = "NON_SEQUENTIAL"
             /\ D2[y].act = "SET" => y[1] = t /\ other = "FORCED_SEQUENTIAL"
  <2>1. CASE y = d
    BY <1>4, <1>7, <1>9, <2>1
  <2>2. CASE y # d
    <3>1. /\ Pend(T, D, y) /\ D[y].obj = w /\ D2[y].act = D[y].act
          /\ Alive(T2, y[1]) <=> Alive(T, y[1])
          /\ y = h => w = v
      BY <1>3, <1>4, <1>5, <1>9, <2>2
    <3>2. Fits(T, D, X, t, w, "EDGE", other)
      OBVIOUS
    <3>3. /\ Alive(T, y[1]) /\ NonSeq(D, y) => other = "NON_SEQUENTIAL"
          /\ D[y].act = "SET" => y[1] = t /\ other = "FORCED_SEQUENTIAL"
      BY <3>1, <3>2 DEF Fits
    <3> QED BY <1>6, <2>2, <3>1, <3>3
  <2> QED BY <2>1, <2>2
<1>10. ASSUME other # "NON_SEQUENTIAL", NEW z \in Deltas, z[1] = t, Created(T2, z), D2[z].obj = w
       PROVE  z = X2[w].head \/ OwnPrev(D2, z)
  <2>1. CASE z = d
    BY <1>4, <1>10, <2>1
  <2>2. CASE z # d
    <3>1. Created(T, z) /\ D[z].obj = w
      BY <1>3, <1>4, <1>10, <2>2
    <3>2. z = X[w].head \/ OwnPrev(D, z)
      BY <1>10, <3>1 DEF Fits
    <3>3. CASE z = h
      BY <1>3, <1>4, <1>7, <1>10, <2>2, <3>3 DEF OwnPrev
    <3>4. CASE z # h
      <4>1. OwnPrev(D, z) => OwnPrev(D2, z)
        BY <1>3, <2>2, <3>4
      <4>2. z = X[w].head => w # v
        BY <3>4 DEF h
      <4> QED BY <1>4, <3>2, <4>1, <4>2
    <3> QED BY <3>3, <3>4
  <2> QED BY <2>1, <2>2
<1>11. other = "NON_SEQUENTIAL" => X2[w].flag
  BY <1>8 DEF Fits
<1> QED BY <1>9, <1>10, <1>11 DEF Fits

(* The marks leave the transactions where they were.                       *)
LEMMA MarksSame ==
  ASSUME NEW T, NEW X, NEW T2, NEW X2, NEW t \in Txns, T \in [Txns -> TxRecords], Marks(T, X, T2, X2, t)
  PROVE  Same(T, T2)
<1>1. \A u \in Txns : u # t => T2[u] = T[u]
  BY DEF Marks
<1>2. T2[t].n = T[t].n /\ T2[t].ts = T[t].ts /\ T2[t].start = T[t].start /\ T2[t].pc = T[t].pc /\ T2[t].i = T[t].i
  BY DEF Marks
<1> QED BY <1>1, <1>2 DEF Same, Done, Alive

(* A transaction at work is not committed.                                 *)
LEMMA AliveFacts ==
  ASSUME IInv, NEW t \in Txns, Alive(tx, t)
  PROVE  ~Done(tx, t)
<1>1. tx[t].ts > kTransactionInitialId /\ tx[t].ts \in Nat /\ kTransactionInitialId \in Nat
  BY IdFacts
<1> QED BY <1>1 DEF Done

(* VertexAccessor::SetProperty.                                            *)
LEMMA SetPropertyWoven ==
  ASSUME IInv, Woven(tx, dl, vx), Flagged(tx, dl, vx), Stored(tx, dl, vx, db), NEW t \in Txns, NEW v \in Vertices,
         SetProperty(t, v)
  PROVE  Woven(tx', dl', vx') /\ Flagged(tx', dl', vx') /\ Stored(tx', dl', vx', db)
<1>1. /\ Typed(tx, dl, vx) /\ Shape(tx, dl, vx) /\ Clock(tx, timestamp, open, gc) /\ Coherent(tx, dl, vx, gc)
      /\ gc.txn \in Txns \cup {Null} /\ tx[t].pc = "running" /\ tx[t].n < MaxDeltas
      /\ vx[v].val \in Pointers /\ Alive(tx, t)
  BY DEF IInv, Types, Typed, GcRecords, SetProperty, Running, VertexRecords, Alive, Coherent
<1>2. CASE PrepareForWrite(t, v)
  <2> DEFINE s == State
             s2 == CreateAndLinkDelta(s, t, v, "SET", vx[v].val, "SEQUENTIAL")
  <2>1. tx' = s2.tx /\ dl' = s2.dl /\ vx' = s2.vx
    BY <1>2 DEF SetProperty, Become
  <2>2. s.tx = tx /\ s.dl = dl /\ s.vx = vx
    BY DEF State
  <2>3. Admitted(s.tx, s.dl, s.vx, t, v, "SET", "SEQUENTIAL")
    BY <1>1, <1>2, <2>2, WriteAdmitted
  <2> HIDE DEF s
  <2>4. /\ Links(s.tx, s.dl, s.vx, s2.tx, s2.dl, s2.vx, t, v, "SET", "SEQUENTIAL")
        /\ LinkMore(s.dl, s.vx, s2.dl, s2.vx, <<t, s.tx[t].n + 1>>, v, "SET", vx[v].val, "SEQUENTIAL")
    BY <1>1, <2>2, <2>3, LinkStep
  <2> HIDE DEF s2
  <2>5. /\ Links(tx, dl, vx, tx', dl', vx', t, v, "SET", "SEQUENTIAL")
        /\ LinkMore(dl, vx, dl', vx', <<t, tx[t].n + 1>>, v, "SET", vx[v].val, "SEQUENTIAL")
    BY <2>1, <2>2, <2>4
  <2>6. Fits(tx, dl, vx, t, v, "SET", "SEQUENTIAL")
    BY <1>1, <1>2, WriteFits
  <2>7. ~Done(tx, t)
    BY <1>1, AliveFacts
  <2>8. Woven(tx', dl', vx') /\ Flagged(tx', dl', vx')
    BY <1>1, <2>5, <2>6, <2>7, LinkWoven
  <2>9. Stored(tx', dl', vx', db)
    BY <1>1, <2>5, <2>6, <2>7, LinkStored
  <2> QED BY <2>8, <2>9
<1>3. CASE ~PrepareForWrite(t, v)
  <2> DEFINE q == tx[t]
             r == [q EXCEPT !.err = TRUE]
  <2>1. tx' = [tx EXCEPT ![t] = r] /\ dl' = dl /\ vx' = vx
    BY <1>1, <1>3 DEF SetProperty, Typed
  <2>2. q \in TxRecords /\ q = tx[t]
    BY <1>1 DEF Typed
  <2> HIDE DEF q
  <2>3. r.n = q.n /\ r.ts = q.ts /\ r.start = q.start /\ r.pc = q.pc /\ r.i = q.i
    BY <2>2 DEF TxRecords
  <2> HIDE DEF r
  <2>4. Same(tx, tx')
    <3>1. tx'[t] = r /\ \A u \in Txns : u # t => tx'[u] = tx[u]
      BY <1>1, <2>1 DEF Typed
    <3> QED BY <2>2, <2>3, <3>1 DEF Same, Done, Alive
  <2>5. Woven(tx', dl, vx) /\ Flagged(tx', dl, vx)
    BY <1>1, <2>4, SameWoven
  <2>6. Steady(tx, dl, vx, tx', dl, vx)
    BY <2>4, SameSteady
  <2>7. Stored(tx', dl, vx, db)
    BY <2>6, SteadyStored
  <2> QED BY <2>1, <2>5, <2>7
<1> QED BY <1>2, <1>3

(* InMemoryAccessor::CreateEdge.                                           *)
LEMMA CreateEdgeWoven ==
  ASSUME IInv, Woven(tx, dl, vx), Flagged(tx, dl, vx), Stored(tx, dl, vx, db), NEW t \in Txns,
         NEW from \in Vertices, NEW to \in Vertices, CreateEdge(t, from, to)
  PROVE  Woven(tx', dl', vx') /\ Flagged(tx', dl', vx') /\ Stored(tx', dl', vx', db)
<1>1. Typed(tx, dl, vx) /\ Shape(tx, dl, vx) /\ Alive(tx, t) /\ ~Done(tx, t) /\ tx \in [Txns -> TxRecords]
  <2>1. Alive(tx, t)
    BY DEF CreateEdge, Running, Alive
  <2> QED BY <2>1, AliveFacts DEF IInv, Types, Typed, Coherent
<1>2. EdgeSteps(t, from, to)
  BY CreateEdgeSteps
<1>3. CASE dl' = dl /\ Marks(tx, vx, tx', vx', t)
  <2>1. Same(tx, tx')
    BY <1>1, <1>3, MarksSame
  <2>2. \A w \in Vertices : vx'[w].head = vx[w].head /\ (vx[w].flag => vx'[w].flag)
    BY <1>3 DEF Marks
  <2>3. Woven(tx', dl, vx') /\ Flagged(tx', dl, vx')
    BY <1>1, <2>1, <2>2, SameWoven
  <2>4. Steady(tx, dl, vx, tx', dl, vx')
    <3>1. \A w \in Vertices : vx'[w].val = vx[w].val /\ vx'[w].edges = vx[w].edges
      BY <1>3 DEF Marks
    <3> QED BY <2>1, <3>1, SameSteady
  <2>5. Stored(tx', dl, vx', db)
    BY <2>4, SteadyStored
  <2> QED BY <1>3, <2>3, <2>5
<1>4. CASE \E T1, X1, T2, D2, X2, fromState, toState :
             BothLinked(T1, X1, T2, D2, X2, t, from, to, fromState, toState)
  <2>1. PICK T1, X1, T2, D2, X2, fromState, toState :
          BothLinked(T1, X1, T2, D2, X2, t, from, to, fromState, toState)
    BY <1>4
  <2>2. Marks(tx, vx, T1, X1, t)
    BY <2>1 DEF BothLinked
  <2>3. Same(tx, T1) /\ \A w \in Vertices : X1[w].head = vx[w].head /\ (vx[w].flag => X1[w].flag)
    BY <1>1, <2>2, MarksSame DEF Marks
  <2>4. Woven(T1, dl, X1) /\ Flagged(T1, dl, X1)
    BY <1>1, <2>3, SameWoven
  <2>5. Fits(tx, dl, X1, t, from, "EDGE", fromState) /\ Fits(tx, dl, X1, t, to, "EDGE", toState)
    BY <1>1, <2>1, <2>3, EdgeFits DEF BothLinked
  <2>6. Fits(T1, dl, X1, t, from, "EDGE", fromState) /\ Fits(T1, dl, X1, t, to, "EDGE", toState)
    BY <2>3, <2>5, FitsFrame
  <2>7. /\ Typed(T1, dl, X1) /\ Shape(T1, dl, X1)
        /\ Links(T1, dl, X1, T2, D2, X2, t, from, "EDGE", fromState)
        /\ LinkMore(dl, X1, D2, X2, <<t, T1[t].n + 1>>, from, "EDGE", Null, fromState)
        /\ Typed(T2, D2, X2) /\ Shape(T2, D2, X2)
        /\ Links(T2, D2, X2, tx', dl', vx', t, to, "EDGE", toState)
        /\ LinkMore(D2, X2, dl', vx', <<t, T2[t].n + 1>>, to, "EDGE", Null, toState)
    BY <2>1 DEF BothLinked, EdgeLinked, Coherent
  <2>8. Alive(T1, t) /\ ~Done(T1, t)
    BY <1>1, <2>3 DEF Same
  <2>9. Woven(T2, D2, X2) /\ Flagged(T2, D2, X2)
    BY <2>4, <2>6, <2>7, <2>8, LinkWoven
  <2>10. Alive(T2, t) /\ ~Done(T2, t)
    BY <2>7, <2>8 DEF Links, Alive, Done
  <2>11. (to = from /\ toState = fromState) \/ to # from
    BY <2>1 DEF BothLinked
  <2>12. Fits(T2, D2, X2, t, to, "EDGE", toState)
    BY <2>4, <2>6, <2>7, <2>8, <2>11, NextFits
  <2>13. Stored(T1, dl, X1, db)
    <3>1. \A w \in Vertices : X1[w].val = vx[w].val /\ X1[w].edges = vx[w].edges
      BY <2>2 DEF Marks
    <3>2. Steady(tx, dl, vx, T1, dl, X1)
      BY <2>3, <3>1, SameSteady
    <3> QED BY <3>2, SteadyStored
  <2>14. Stored(T2, D2, X2, db)
    BY <2>4, <2>6, <2>7, <2>8, <2>13, LinkStored
  <2>15. Stored(tx', dl', vx', db)
    BY <2>7, <2>9, <2>10, <2>12, <2>14, LinkStored
  <2>16. Woven(tx', dl', vx') /\ Flagged(tx', dl', vx')
    BY <2>7, <2>9, <2>10, <2>12, LinkWoven
  <2> QED BY <2>15, <2>16
<1> QED BY <1>2, <1>3, <1>4 DEF EdgeSteps

(* Ranks fall along a chain, so that it ends.                              *)
LEMMA ChainEnds ==
  ASSUME \A e \in Deltas : dl[e].next \in Pointers, Aged(tx, dl), NEW d \in Deltas
  PROVE  dl[Chain(d)[Len(Chain(d))]].next = Null
<1> DEFINE c == Chain(d)
           l == Len(c)
<1>1. PICK r : Aging(tx, dl, r)
  BY DEF Aged
<1>2. r \in [Deltas -> Nat] /\ \A e \in Deltas : dl[e].next \in Deltas => r[dl[e].next] < r[e]
  BY <1>1 DEF Aging
<1>3. /\ c \in Seq(Deltas) /\ l >= 1 /\ \A i \in 1..(l - 1) : c[i+1] = dl[c[i]].next
      /\ l <= N * MaxDeltas => dl[c[l]].next = Null
  BY ChainFacts
<1> HIDE DEF c
<1>4. l \in Nat /\ \A i \in 1..l : c[i] \in Deltas /\ r[c[i]] \in Nat
  BY <1>2, <1>3
<1> HIDE DEF l
<1>5. ASSUME NEW i \in 1..l, NEW j \in 1..l, i < j PROVE r[c[j]] < r[c[i]]
  <2> DEFINE A == {k \in 1..l : i < k /\ ~(r[c[k]] < r[c[i]])}
  <2>1. SUFFICES ASSUME A # {} PROVE FALSE
    BY <1>5
  <2>2. A \in SUBSET Nat
    BY <1>4
  <2>3. PICK m \in A : \A k \in A : m <= k
    BY <2>1, <2>2, LeastExists
  <2>4. m \in 1..l /\ i < m /\ ~(r[c[m]] < r[c[i]]) /\ i \in Nat /\ m \in Nat
    BY <1>4
  <2>5. m - 1 \in 1..(l - 1) /\ m - 1 \in 1..l /\ (m - 1) + 1 = m
    BY <1>4, <2>4
  <2>6. c[m] = dl[c[m - 1]].next
    BY <1>3, <2>5
  <2>7. r[c[m]] < r[c[m - 1]]
    BY <1>2, <1>4, <2>4, <2>5, <2>6
  <2>8. m - 1 \notin A
    BY <2>3, <2>4
  <2>9. m - 1 = i \/ r[c[m - 1]] < r[c[i]]
    BY <2>4, <2>5, <2>8
  <2>10. r[c[m]] \in Nat /\ r[c[m - 1]] \in Nat /\ r[c[i]] \in Nat
    BY <1>4, <2>4, <2>5
  <2> QED BY <2>4, <2>7, <2>9, <2>10
<1>6. \A i, j \in 1..l : i # j => c[i] # c[j]
  <2>1. SUFFICES ASSUME NEW i \in 1..l, NEW j \in 1..l, i < j PROVE c[i] # c[j]
    BY <1>4
  <2>2. r[c[j]] < r[c[i]]
    BY <1>5, <2>1
  <2> QED BY <1>4, <2>2
<1>7. IsFiniteSet(Deltas) /\ Cardinality(Deltas) = N * MaxDeltas
  <2>1. /\ IsFiniteSet(1..N) /\ Cardinality(1..N) = N
        /\ IsFiniteSet(1..MaxDeltas) /\ Cardinality(1..MaxDeltas) = MaxDeltas
    <3>1. /\ IsFiniteSet(1..N) /\ Cardinality(1..N) = IF 1 > N THEN 0 ELSE N - 1 + 1
      BY FS_Interval, DeltaChainConstants
    <3>2. /\ IsFiniteSet(1..MaxDeltas) /\ Cardinality(1..MaxDeltas) = IF 1 > MaxDeltas THEN 0 ELSE MaxDeltas - 1 + 1
      BY FS_Interval, DeltaChainConstants
    <3> QED BY <3>1, <3>2, DeltaChainConstants
  <2>2. /\ IsFiniteSet((1..N) \X (1..MaxDeltas))
        /\ Cardinality((1..N) \X (1..MaxDeltas)) = Cardinality(1..N) * Cardinality(1..MaxDeltas)
    BY <2>1, FS_Product
  <2> QED BY <2>1, <2>2 DEF Deltas, Txns
<1>8. l <= N * MaxDeltas
  <2>1. SUFFICES ASSUME N * MaxDeltas < l PROVE FALSE
    BY <1>4, DeltaChainConstants
  <2>2. IsFiniteSet(1..l) /\ Cardinality(1..l) = l
    <3>1. IsFiniteSet(1..l) /\ Cardinality(1..l) = IF 1 > l THEN 0 ELSE l - 1 + 1
      BY <1>4, FS_Interval
    <3> QED BY <1>4, <3>1
  <2>3. c \in [1..l -> Deltas]
    BY <1>3 DEF l
  <2>4. Cardinality(Deltas) < Cardinality(1..l)
    BY <1>7, <2>1, <2>2
  <2>5. \E x, y \in 1..l : x # y /\ c[x] = c[y]
    BY <1>7, <2>2, <2>3, <2>4, FS_PigeonHole
  <2> QED BY <1>6, <2>5
<1> QED BY <1>3, <1>8 DEF l, c

(* The walk of HasUncommittedNonSequentialDeltas comes to a delta that is  *)
(* open to others if there is one of another transaction at work.          *)
LEMMA FlagKept ==
  ASSUME IInv, Woven(tx, dl, vx), NEW t \in Txns, NEW y \in Deltas,
         Pend(tx, dl, y), Alive(tx, y[1]), NonSeq(dl, y), y[1] # t
  PROVE  HasUncommittedNonSequentialDeltas(Chain(vx[dl[y].obj].head), t)
<1> DEFINE h == vx[dl[y].obj].head
           c == Chain(h)
           Passed(d) == Own(t, d) \/ (IsDeltaNonSequential(d) /\ Committed(d))
           Q == {d \in Deltas : Passed(d)}
           p == SubSeq(c, 1, Cardinality({i \in DOMAIN c : \A j \in 1..i : c[j] \in Q}))
           walked == SubSeq(c, 1, Cardinality({i \in DOMAIN c : \A j \in 1..i : Passed(c[j])}))
<1>1. PICK S \in SUBSET Deltas : Thread(tx, dl, vx, S, y)
  BY DEF Woven, Threaded
<1>2. h \in S /\ (\A x \in S : NonSeq(dl, x)) /\ \A x \in S : x # y => dl[x].next \in S
  BY <1>1 DEF Thread, Joined
<1>3. \A e \in Deltas : dl[e].next \in Pointers
  BY DeltaFacts
<1>4. h \in Deltas /\ Aged(tx, dl)
  BY <1>2 DEF Woven
<1>5. c \in Seq(Deltas) /\ Len(c) >= 1 /\ c[1] = h /\ \A i \in 1..(Len(c) - 1) : c[i+1] = dl[c[i]].next
  BY <1>3, <1>4, ChainFacts
<1>6. dl[c[Len(c)]].next = Null
  BY <1>3, <1>4, ChainEnds
<1> HIDE DEF h, c
<1>7. y \notin Q
  <2>1. ~Own(t, y)
    BY OwnFacts
  <2>2. ~Committed(y)
    BY PendFacts, IdFacts DEF Committed, TsOf
  <2> QED BY <2>1, <2>2
<1>8. {i \in DOMAIN c : \A j \in 1..i : c[j] \in Q} = {i \in DOMAIN c : \A j \in 1..i : Passed(c[j])}
  <2>1. \A i \in DOMAIN c : \A j \in 1..i : c[j] \in Deltas
    BY <1>5
  <2> HIDE DEF Passed
  <2> QED BY <2>1
<1>9. walked = p
  BY <1>8
<1>10. /\ p \in Seq(Deltas) /\ Len(p) <= Len(c) /\ \A i \in 1..Len(p) : p[i] = c[i] /\ c[i] \in Q
  <2> HIDE DEF Q
  <2> QED BY <1>5, PrefixFacts
<1> DEFINE k == Len(walked) + 1
<1>11. HasUncommittedNonSequentialDeltas(c, t) <=> k <= Len(c) /\ IsDeltaNonSequential(c[k])
  BY DEF HasUncommittedNonSequentialDeltas, PrefixWhile
<1>12. k - 1 \in Nat /\ k \in Nat /\ k - 1 <= Len(c) /\ (\A i \in 1..(k - 1) : c[i] \in Q)
  <2> HIDE DEF walked, p, Q
  <2> QED BY <1>9, <1>10
<1> HIDE DEF k, walked, p
<1>13. ASSUME NEW j \in 1..Len(c), j <= k PROVE c[j] \in S
  <2> DEFINE A == {i \in 1..Len(c) : i <= k /\ c[i] \notin S}
  <2>1. SUFFICES ASSUME A # {} PROVE FALSE
    BY <1>13
  <2>2. A \in SUBSET Nat
    BY <1>5
  <2>3. PICK m \in A : \A i \in A : m <= i
    BY <2>1, <2>2, LeastExists
  <2>4. m \in 1..Len(c) /\ m <= k /\ c[m] \notin S /\ Len(c) \in Nat
    BY <1>5
  <2>5. m # 1
    BY <1>2, <1>5, <2>4
  <2>6. m - 1 \in 1..(Len(c) - 1) /\ m - 1 \in 1..Len(c) /\ m - 1 \in 1..(k - 1) /\ m - 1 <= k /\ (m - 1) + 1 = m
    BY <1>12, <2>4, <2>5
  <2>7. c[m - 1] \in S
    BY <2>3, <2>6
  <2>8. c[m - 1] # y /\ c[m] = dl[c[m - 1]].next
    BY <1>5, <1>7, <1>12, <2>6
  <2> QED BY <1>2, <2>4, <2>7, <2>8
<1>14. k <= Len(c)
  <2>1. SUFFICES ASSUME k - 1 = Len(c) PROVE FALSE
    BY <1>5, <1>12
  <2>2. Len(c) \in 1..Len(c) /\ Len(c) \in 1..(k - 1) /\ Len(c) <= k
    BY <1>5, <1>12, <2>1
  <2>3. c[Len(c)] \in S /\ c[Len(c)] # y
    BY <1>7, <1>12, <1>13, <2>2
  <2> QED BY <1>2, <1>6, <2>3, PointerConstants
<1>15. IsDeltaNonSequential(c[k])
  <2>1. k \in 1..Len(c)
    BY <1>5, <1>12, <1>14
  <2>2. c[k] \in S
    BY <1>12, <1>13, <2>1
  <2> QED BY <1>2, <2>2 DEF NonSeq, IsDeltaNonSequential, CanBeNonSequential
<1>16. HasUncommittedNonSequentialDeltas(c, t)
  BY <1>11, <1>14, <1>15
<1> QED BY <1>16 DEF c, h

-----------------------------------------------------------------------------
(* process_vertex_deltas, once more: P is the run it takes out.            *)
RunOf(D, d, last, P) ==
  /\ P \in SUBSET Deltas /\ d \in P /\ last \in P
  /\ \A e \in P : e[1] = d[1] /\ (e = last \/ D[e].next \in P)
  /\ \A K \in SUBSET Deltas :
       d \in K /\ (\A e \in K \cap P : e # last => D[e].next \in K) => P \subseteq K
  /\ D[last].next \in Deltas => D[last].next[1] # d[1]

(* How the run hangs in the chain.                                         *)
Hangs(T, D, X, d, last, P, r) ==
  /\ D[d].obj \in Vertices
  /\ \A e \in P : /\ e \in Deltas /\ e[1] = d[1] /\ Pend(T, D, e) /\ D[e].obj = D[d].obj
                  /\ e[2] <= d[2] /\ r[e] <= r[d] /\ (e = d \/ D[e].prev \in P)
                  /\ e = last \/ D[e].next \in P
  /\ D[last].next \in Deltas =>
       /\ D[D[last].next].prev = last /\ Present(T, D, D[last].next) /\ D[last].next \notin P
       /\ D[D[last].next].obj = D[d].obj /\ r[D[last].next] < r[d] /\ D[last].next[1] # d[1]
  /\ D[d].prev \in Deltas \/ D[d].prev = D[d].obj
  /\ D[d].prev \in Deltas =>
       /\ D[D[d].prev].next = d /\ D[d].prev \notin P /\ r[d] < r[D[d].prev]
       /\ D[D[d].prev].obj = D[d].obj
  /\ X[D[d].obj].head = d => D[d].prev = D[d].obj

(* The delta the abort is at was not undone.                               *)
AtRun(T, D, d) ==
  /\ T[d[1]].pc = "aborting" /\ T[d[1]].i = d[2] /\ Created(T, d) /\ ~OwnPrev(D, d)
  /\ \A u \in Txns : T[u].pc = "aborting" => ~Done(T, u)

(* It does as this says.                                                   *)
LEMMA RunHangs ==
  ASSUME NEW T, NEW D, NEW X, Typed(T, D, X), Shape(T, D, X), Woven(T, D, X),
         NEW d \in Deltas, AtRun(T, D, d), NEW last, NEW P, RunOf(D, d, last, P),
         NEW r, Aging(T, D, r)
  PROVE  Hangs(T, D, X, d, last, P, r)
<1>1. \A e \in Deltas : e[1] \in Txns /\ e[2] \in Nat /\ e = <<e[1], e[2]>> /\ e \notin Vertices
  BY PointerFacts
<1>2. d[1] \in Txns /\ ~Done(T, d[1]) /\ ~Alive(T, d[1]) /\ T[d[1]].i = d[2] /\ T[d[1]].pc = "aborting"
      /\ Created(T, d) /\ ~OwnPrev(D, d)
  BY <1>1 DEF AtRun, Alive
<1>3. /\ P \in SUBSET Deltas /\ d \in P /\ last \in P
      /\ \A e \in P : e[1] = d[1] /\ (e = last \/ D[e].next \in P)
      /\ D[last].next \in Deltas => D[last].next[1] # d[1]
  BY DEF RunOf
<1>4. Pend(T, D, d)
  <2>1. ~Gone(T, D, d)
    BY <1>1, <1>2 DEF Gone
  <2> QED BY <1>2, <2>1 DEF Pend
<1>5. /\ r \in [Deltas -> Nat] /\ \A e \in Deltas : D[e].next \in Deltas => r[D[e].next] < r[e]
      /\ \A e, f \in Deltas : Created(T, e) /\ Created(T, f) /\ e[1] = f[1] /\ e[2] < f[2] => r[e] < r[f]
  BY DEF Aging
<1>6. D[d].obj \in Vertices /\ (D[d].prev \in Deltas \/ D[d].prev = D[d].obj)
  BY <1>2 DEF Shape
<1>7. \A e \in Deltas : Pend(T, D, e) /\ D[e].next \in Deltas =>
        D[D[e].next].prev = e /\ Present(T, D, D[e].next)
  BY DEF Woven, Forward
<1>8. \A e \in Deltas : /\ D[e].next \in Deltas => D[D[e].next].obj = D[e].obj
                        /\ D[e].prev \in Deltas => D[D[e].prev].obj = D[e].obj
  BY ObjectFacts
<1> DEFINE K == {e \in P : Pend(T, D, e) /\ D[e].obj = D[d].obj /\ r[e] <= r[d] /\ (e = d \/ D[e].prev \in P)}
<1>9. ASSUME NEW e \in K, e # last PROVE D[e].next \in K
  <2>1. e \in Deltas /\ D[e].next \in P /\ D[e].next \in Deltas
    BY <1>3, <1>9
  <2>2. D[D[e].next].prev = e /\ Present(T, D, D[e].next) /\ D[e].next[1] = d[1]
    BY <1>3, <1>7, <2>1
  <2>3. Pend(T, D, D[e].next)
    BY <1>2, <2>2 DEF Present
  <2>4. r[D[e].next] <= r[d]
    <3>1. r[D[e].next] \in Nat /\ r[e] \in Nat /\ r[d] \in Nat /\ r[D[e].next] < r[e] /\ r[e] <= r[d]
      BY <1>5, <2>1
    <3> QED BY <3>1
  <2> QED BY <1>8, <2>1, <2>2, <2>3, <2>4
<1>10. d \in K
  BY <1>3, <1>4, <1>5
<1>11. P \subseteq K
  <2>1. K \in SUBSET Deltas
    BY <1>3
  <2> HIDE DEF K
  <2> QED BY <1>9, <1>10, <2>1 DEF RunOf
<1>12. ASSUME NEW e \in P PROVE e[2] <= d[2]
  <2>1. e \in Deltas /\ Created(T, e) /\ e[1] = d[1] /\ r[e] <= r[d]
    BY <1>3, <1>11 DEF Pend
  <2>2. ~(d[2] < e[2])
    BY <1>2, <1>5, <2>1
  <2> QED BY <1>1, <2>1, <2>2
<1>13. ASSUME D[last].next \in Deltas
       PROVE  /\ D[D[last].next].prev = last /\ Present(T, D, D[last].next) /\ D[last].next \notin P
              /\ D[D[last].next].obj = D[d].obj /\ r[D[last].next] < r[d] /\ D[last].next[1] # d[1]
  <2>1. last \in K /\ last \in Deltas
    BY <1>3, <1>11
  <2>2. r[D[last].next] < r[d]
    <3>1. r[D[last].next] \in Nat /\ r[last] \in Nat /\ r[d] \in Nat /\ r[D[last].next] < r[last] /\ r[last] <= r[d]
      BY <1>5, <1>13, <2>1
    <3> QED BY <3>1
  <2> QED BY <1>3, <1>7, <1>8, <1>13, <2>1, <2>2
<1>14. PICK R \in SUBSET Deltas : Thread(T, D, X, R, d)
  BY <1>4 DEF Woven, Threaded
<1>15. Joined(T, D, X, R, d, d)
  BY <1>14 DEF Thread
<1>16. ASSUME D[d].prev \in Deltas
       PROVE  /\ D[D[d].prev].next = d /\ D[d].prev \notin P /\ r[d] < r[D[d].prev]
              /\ D[D[d].prev].obj = D[d].obj
  <2>1. D[D[d].prev].next = d
    BY <1>1, <1>6, <1>15, <1>16 DEF Joined
  <2>2. D[d].prev \notin P
    BY <1>2, <1>3, <1>16 DEF OwnPrev
  <2> QED BY <1>5, <1>8, <1>16, <2>1, <2>2
<1>17. X[D[d].obj].head = d => D[d].prev = D[d].obj
  <2>1. d # Null
    BY PointerFacts
  <2> QED BY <1>6, <2>1 DEF Woven, HeadBacked
<1>18. \A e \in P : /\ e \in Deltas /\ e[1] = d[1] /\ Pend(T, D, e) /\ D[e].obj = D[d].obj
                    /\ e[2] <= d[2] /\ r[e] <= r[d] /\ (e = d \/ D[e].prev \in P)
                    /\ e = last \/ D[e].next \in P
  BY <1>3, <1>11, <1>12
<1> HIDE DEF K
<1> QED BY <1>6, <1>13, <1>16, <1>17, <1>18 DEF Hangs

(* A set that holds d and, with a delta of the run, the next one, holds    *)
(* the run and what is below it.                                           *)
LEMMA RunInside ==
  ASSUME NEW T, NEW D, NEW X, NEW d \in Deltas, NEW last, NEW P, RunOf(D, d, last, P),
         NEW y \in Deltas, y \notin P, NEW S \in SUBSET Deltas, Thread(T, D, X, S, y), d \in S
  PROVE  P \subseteq S /\ D[last].next \in S
<1>1. \A e \in S : e = y \/ D[e].next \in S
  BY DEF Thread, Joined
<1>2. P \subseteq S
  BY <1>1 DEF RunOf
<1> QED BY <1>1, <1>2 DEF RunOf

(* And one that does not hold d holds none of it.                          *)
LEMMA RunOutside ==
  ASSUME NEW T, NEW D, NEW X, Typed(T, D, X), NEW d \in Deltas, NEW last, NEW P, RunOf(D, d, last, P),
         NEW r, Hangs(T, D, X, d, last, P, r),
         NEW y \in Deltas, NEW S \in SUBSET Deltas, Thread(T, D, X, S, y), d \notin S,
         D[y].obj = D[d].obj, Forward(T, D)
  PROVE  P \cap S = {} /\ D[last].next \notin S
<1>1. \A e \in S : D[e].prev \in S \/ D[e].prev = D[y].obj
  BY DEF Thread, Joined
<1>2. D[y].obj \notin Deltas
  BY PointerFacts DEF Hangs
<1>3. \A e \in S : D[e].prev \in Deltas => D[e].prev \in S
  BY <1>1, <1>2
<1> DEFINE K == {e \in P : e \notin S}
<1>4. ASSUME NEW e \in K, e # last PROVE D[e].next \in K
  <2>1. D[e].next \in P /\ e \in Deltas /\ Pend(T, D, e) /\ D[e].next \in Deltas
    BY <1>4 DEF Hangs
  <2>2. D[D[e].next].prev = e
    BY <2>1 DEF Forward
  <2> QED BY <1>3, <1>4, <2>1, <2>2
<1>5. P \subseteq K
  <2>1. K \in SUBSET Deltas /\ d \in K
    BY DEF RunOf
  <2> HIDE DEF K
  <2> QED BY <1>4, <2>1 DEF RunOf
<1>6. last \in P /\ last \in Deltas
  BY DEF RunOf
<1>7. D[last].next \notin S
  BY <1>3, <1>5, <1>6 DEF Hangs
<1> QED BY <1>5, <1>7

(* The run is all that the transaction had there up to d.                  *)
LEMMA RunComplete ==
  ASSUME NEW T, NEW D, NEW X, Typed(T, D, X), Shape(T, D, X), Woven(T, D, X),
         NEW d \in Deltas, AtRun(T, D, d), NEW last, NEW P, RunOf(D, d, last, P),
         NEW x \in Deltas, x[1] = d[1], D[x].obj = D[d].obj, Pend(T, D, x), x[2] <= d[2]
  PROVE  x \in P
<1>0. SUFFICES ASSUME x \notin P PROVE FALSE
  OBVIOUS
<1>1. PICK r : Aging(T, D, r)
  BY DEF Woven, Aged
<1>2. Hangs(T, D, X, d, last, P, r)
  BY <1>1, RunHangs
<1>3. \A e \in Deltas : e[1] \in Txns /\ e[2] \in Nat /\ e = <<e[1], e[2]>> /\ e \notin Vertices
  BY PointerFacts
<1>4. d \in P /\ last \in P /\ Pend(T, D, d) /\ x # d
  BY <1>0, <1>2 DEF RunOf, Hangs
<1>5. PICK S \in SUBSET Deltas : Thread(T, D, X, S, x)
  BY DEF Woven, Threaded
<1>6. PICK R \in SUBSET Deltas : Thread(T, D, X, R, d)
  BY <1>4 DEF Woven, Threaded
<1>7. Aged(T, D)
  BY DEF Woven
<1>8. d \in S
  <2>1. x \in R => d[2] < x[2]
    BY <1>4, <1>6, <1>7, AboveIsNewer
  <2>2. x \notin R
    BY <1>3, <2>1
  <2> QED BY <1>5, <1>6, <1>7, <2>2, OneChain
<1>9. D[last].next \in S
  BY <1>0, <1>5, <1>8, RunInside
<1>10. /\ r \in [Deltas -> Nat] /\ \A e \in Deltas : D[e].next \in Deltas => r[D[e].next] < r[e]
       /\ \A e, f \in Deltas : Created(T, e) /\ Created(T, f) /\ e[1] = f[1] /\ e[2] < f[2] => r[e] < r[f]
  BY <1>1 DEF Aging
<1> DEFINE A == {r[f] : f \in {e \in S : e[1] # d[1]}}
           b == D[last].next
<1>11. b \in S /\ b \in Deltas /\ b[1] # d[1] /\ r[b] < r[d]
  BY <1>2, <1>9 DEF Hangs
<1>12. A \in SUBSET Nat /\ r[b] \in A
  BY <1>10, <1>11
<1>13. PICK m \in A : \A k \in A : m <= k
  BY <1>12, LeastExists
<1>14. PICK f \in S : f[1] # d[1] /\ r[f] = m
  OBVIOUS
<1> DEFINE z == D[f].next
<1>15. f # x /\ z \in S /\ D[z].prev = f /\ Joined(T, D, X, S, x, z)
  BY <1>5, <1>14 DEF Thread, Joined
<1>16. z \in Deltas /\ r[z] < r[f] /\ r[z] \in Nat /\ r[f] \in Nat /\ r[b] \in Nat /\ r[d] \in Nat /\ r[f] <= r[b]
  BY <1>10, <1>11, <1>12, <1>13, <1>14, <1>15
<1>17. z[1] = d[1]
  <2>1. z[1] # d[1] => r[z] \in A
    BY <1>15
  <2>2. \A k \in A : m <= k
    BY <1>13
  <2> HIDE DEF A, z, b
  <2>3. z[1] # d[1] => r[f] <= r[z]
    BY <1>14, <2>1, <2>2
  <2> QED BY <1>16, <2>3
<1>18. ~OwnPrev(D, z)
  BY <1>14, <1>15, <1>17 DEF OwnPrev
<1>19. x[2] <= z[2]
  <2>1. z # x => x[2] < z[2]
    BY <1>5, <1>7, <1>15, <1>17, AboveIsNewer
  <2> QED BY <1>3, <1>15, <2>1
<1>20. Created(T, z) /\ D[z].obj = D[x].obj
  BY <1>15 DEF Joined, Present, Pend
<1>21. z[2] < d[2]
  <2>1. r[z] < r[d] /\ z # d
    BY <1>11, <1>16
  <2>2. ~(d[2] < z[2])
    BY <1>10, <1>16, <1>17, <1>20, <2>1 DEF AtRun
  <2>3. z[2] # d[2]
    BY <1>3, <1>16, <1>17, <2>1
  <2> QED BY <1>3, <1>16, <2>2, <2>3
<1>22. Gone(T, D, x)
  BY <1>16, <1>17, <1>18, <1>19, <1>20, <1>21 DEF Gone, AtRun
<1> QED BY <1>22 DEF Pend, AtRun, Alive

(* The deltas there are once the run P is out.                             *)
Remain(T, D, T2, D2, P) ==
  /\ \A u \in Txns : /\ Alive(T2, u) <=> Alive(T, u)
                     /\ Done(T2, u) <=> Done(T, u)
                     /\ T2[u].ts = T[u].ts /\ T2[u].start = T[u].start
  /\ \A x \in Deltas : /\ Created(T2, x) <=> Created(T, x)
                       /\ Pend(T2, D2, x) <=> Pend(T, D, x) /\ x \notin P
                       /\ Present(T2, D2, x) <=> Present(T, D, x) /\ x \notin P

(* They are as this says.                                                  *)
LEMMA UnlinkDeltas ==
  ASSUME NEW T, NEW D, NEW X, NEW T2, NEW D2, NEW X2, Typed(T, D, X), Shape(T, D, X), Woven(T, D, X),
         NEW d \in Deltas, AtRun(T, D, d), NEW last, NEW P, RunOf(D, d, last, P),
         Unlinks(T, D, X, T2, D2, X2, d, last)
  PROVE  Remain(T, D, T2, D2, P)
<1>1. PICK r : Aging(T, D, r)
  BY DEF Woven, Aged
<1>2. Hangs(T, D, X, d, last, P, r)
  BY <1>1, RunHangs
<1>3. \A e \in Deltas : e[1] \in Txns /\ e[2] \in Nat /\ e = <<e[1], e[2]>> /\ e \notin Vertices
  BY PointerFacts
<1>4. \A u \in Txns : /\ T2[u].pc = T[u].pc /\ T2[u].start = T[u].start /\ T2[u].ts = T[u].ts
                      /\ T2[u].n = T[u].n /\ T2[u].i = IF u = d[1] THEN d[2] + 1 ELSE T[u].i
  BY DEF Unlinks
<1>5. \A e \in Deltas : D2[e].obj = D[e].obj /\ (e # D[last].next => D2[e].prev = D[e].prev)
  BY DEF Unlinks
<1>6. \A u \in Txns : (Alive(T2, u) <=> Alive(T, u)) /\ (Done(T2, u) <=> Done(T, u))
  BY <1>4 DEF Alive, Done
<1>7. \A x \in Deltas : Created(T2, x) <=> Created(T, x)
  BY <1>3, <1>4 DEF Created
<1>8. d[1] \in Txns /\ ~Done(T, d[1]) /\ ~Alive(T, d[1]) /\ T[d[1]].i = d[2] /\ T[d[1]].pc = "aborting"
      /\ Created(T, d) /\ ~OwnPrev(D, d)
  BY <1>3 DEF AtRun, Alive
<1>9. \A e \in Deltas : e # D[last].next => (OwnPrev(D2, e) <=> OwnPrev(D, e))
  BY <1>5 DEF OwnPrev
<1>10. ASSUME NEW x \in Deltas, x[1] # d[1], T[x[1]].pc = "aborting"
       PROVE  Gone(T2, D2, x) <=> Gone(T, D, x)
  <2>1. T2[x[1]].i = T[x[1]].i
    BY <1>3, <1>4, <1>10
  <2>2. ASSUME D[last].next \in Deltas, D[last].next[1] = x[1], D[last].next[2] < T[x[1]].i
        PROVE  FALSE
    <3> DEFINE b == D[last].next
    <3>1. Present(T, D, b) /\ D[b].prev = last /\ last[1] # b[1]
      BY <1>2, <2>2 DEF Hangs, RunOf
    <3>2. ~Done(T, b[1]) /\ ~Alive(T, b[1])
      BY <1>3, <1>10, <2>2 DEF AtRun, Alive
    <3>3. Created(T, b) /\ ~Gone(T, D, b)
      BY <3>1, <3>2 DEF Present, Pend
    <3>4. ~OwnPrev(D, b)
      BY <3>1 DEF OwnPrev
    <3>5. b[2] <= b[2]
      BY <1>3, <2>2
    <3> HIDE DEF b
    <3>6. b \in Deltas /\ b[2] < T[b[1]].i
      BY <2>2 DEF b
    <3> QED BY <3>3, <3>4, <3>5, <3>6 DEF Gone
  <2>3. \A z \in Deltas : z[1] = x[1] /\ z[2] < T[x[1]].i => (OwnPrev(D2, z) <=> OwnPrev(D, z))
    BY <1>9, <2>2
  <2> QED BY <1>5, <1>7, <2>1, <2>3 DEF Gone
<1>11. ASSUME NEW x \in Deltas, x[1] = d[1]
       PROVE  Gone(T2, D2, x) <=> Gone(T, D, x) \/ (D[x].obj = D[d].obj /\ x[2] <= d[2])
  <2>1. T2[x[1]].i = d[2] + 1 /\ T[x[1]].i = d[2]
    BY <1>3, <1>4, <1>8, <1>11
  <2>2. \A z \in Deltas : z[1] = x[1] => (OwnPrev(D2, z) <=> OwnPrev(D, z))
    BY <1>2, <1>9, <1>11 DEF Hangs
  <2>3. \A z \in Deltas : z[1] = x[1] => (z[2] < d[2] + 1 <=> z[2] < d[2] \/ z = d)
    BY <1>3, <1>11
  <2>4. ~OwnPrev(D2, d) /\ Created(T2, d) /\ D2[d].obj = D[d].obj
    BY <1>5, <1>7, <1>8, <1>11, <2>2
  <2>5. ASSUME Gone(T2, D2, x) PROVE Gone(T, D, x) \/ (D[x].obj = D[d].obj /\ x[2] <= d[2])
    <3>1. PICK z \in Deltas : /\ z[1] = x[1] /\ Created(T2, z) /\ D2[z].obj = D2[x].obj
                              /\ x[2] <= z[2] /\ z[2] < d[2] + 1 /\ ~OwnPrev(D2, z)
      BY <2>1, <2>5 DEF Gone
    <3>2. Created(T, z) /\ D[z].obj = D[x].obj /\ ~OwnPrev(D, z) /\ (z[2] < d[2] \/ z = d)
      BY <1>5, <1>7, <2>2, <2>3, <3>1
    <3> QED BY <2>1, <3>1, <3>2 DEF Gone
  <2>6. ASSUME Gone(T, D, x) PROVE Gone(T2, D2, x)
    <3>1. PICK z \in Deltas : /\ z[1] = x[1] /\ Created(T, z) /\ D[z].obj = D[x].obj
                              /\ x[2] <= z[2] /\ z[2] < d[2] /\ ~OwnPrev(D, z)
      BY <2>1, <2>6 DEF Gone
    <3>2. Created(T2, z) /\ D2[z].obj = D2[x].obj /\ ~OwnPrev(D2, z) /\ z[2] < d[2] + 1
      BY <1>5, <1>7, <2>2, <2>3, <3>1
    <3> QED BY <2>1, <3>1, <3>2 DEF Gone
  <2>7. ASSUME D[x].obj = D[d].obj, x[2] <= d[2] PROVE Gone(T2, D2, x)
    <3>1. d[2] < d[2] + 1 /\ D2[d].obj = D2[x].obj
      BY <1>3, <1>5, <2>7
    <3> QED BY <1>11, <2>1, <2>4, <2>7, <3>1 DEF Gone
  <2> QED BY <2>5, <2>6, <2>7
<1>12. ASSUME NEW x \in Deltas PROVE Pend(T2, D2, x) <=> Pend(T, D, x) /\ x \notin P
  <2>1. CASE x[1] # d[1]
    <3>1. x \notin P /\ (Alive(T2, x[1]) <=> Alive(T, x[1])) /\ T2[x[1]].pc = T[x[1]].pc
      BY <1>3, <1>4, <1>6, <2>1 DEF RunOf
    <3> QED BY <1>7, <1>10, <2>1, <3>1 DEF Pend
  <2>2. CASE x[1] = d[1]
    <3>1. ~Alive(T2, x[1]) /\ ~Alive(T, x[1]) /\ T2[x[1]].pc = "aborting" /\ T[x[1]].pc = "aborting"
      BY <1>4, <1>6, <1>8, <2>2
    <3>2. x \in P => D[x].obj = D[d].obj /\ x[2] <= d[2]
      BY <1>2 DEF Hangs
    <3>3. Pend(T, D, x) /\ D[x].obj = D[d].obj /\ x[2] <= d[2] => x \in P
      BY <2>2, RunComplete
    <3> QED BY <1>7, <1>11, <2>2, <3>1, <3>2, <3>3 DEF Pend
  <2> QED BY <2>1, <2>2
<1>13. ASSUME NEW x \in Deltas PROVE Present(T2, D2, x) <=> Present(T, D, x) /\ x \notin P
  <2>1. x \in P => ~Done(T, x[1])
    BY <1>8 DEF RunOf
  <2> QED BY <1>3, <1>6, <1>7, <1>12, <2>1 DEF Present
<1> QED BY <1>4, <1>6, <1>7, <1>12, <1>13 DEF Remain

(* Every uncommitted delta that is left is reached from the head.          *)
LEMMA UnlinkThreaded ==
  ASSUME NEW T, NEW D, NEW X, NEW T2, NEW D2, NEW X2, Typed(T, D, X), Shape(T, D, X), Woven(T, D, X),
         NEW d \in Deltas, AtRun(T, D, d), NEW last, NEW P, RunOf(D, d, last, P),
         Unlinks(T, D, X, T2, D2, X2, d, last), NEW r, Aging(T, D, r), Hangs(T, D, X, d, last, P, r),
         Remain(T, D, T2, D2, P), NEW y \in Deltas, Pend(T2, D2, y)
  PROVE  \E S \in SUBSET Deltas : Thread(T2, D2, X2, S, y)
<1> DEFINE v     == D[d].obj
           below == D[last].next
           above == D[d].prev
           first == X[v].head = d
<1>1. Pend(T, D, y) /\ y \notin P
  BY DEF Remain
<1>2. PICK S \in SUBSET Deltas : Thread(T, D, X, S, y)
  BY <1>1 DEF Woven, Threaded
<1>3. \A e \in Deltas : e[1] \in Txns /\ e \notin Vertices /\ e # Null
  BY PointerFacts
<1>4. /\ v \in Vertices
      /\ \A e \in P : /\ e \in Deltas /\ D[e].obj = v /\ (e = d \/ D[e].prev \in P)
                      /\ e = last \/ D[e].next \in P
      /\ below \in Deltas => /\ D[below].prev = last /\ below \notin P
                             /\ D[below].obj = v /\ r[below] < r[d]
      /\ above \in Deltas \/ above = v
      /\ above \in Deltas => D[above].next = d /\ above \notin P /\ r[d] < r[above] /\ D[above].obj = v
      /\ first => above = v
  BY DEF Hangs
<1>5. d \in P /\ last \in P /\ last \in Deltas
  BY DEF RunOf
<1>6. above \in Deltas => above # below
  <2>1. \A e \in Deltas : r[e] \in Nat
    BY DEF Aging
  <2>2. \A a, b \in Nat : b < a => ~(a < b)
    OBVIOUS
  <2> QED BY <1>4, <2>1, <2>2
<1>7. \A e \in Deltas :
        /\ D2[e].obj = D[e].obj /\ D2[e].act = D[e].act /\ D2[e].state = D[e].state
        /\ D2[e].prev = IF e = below THEN IF first THEN v ELSE above ELSE D[e].prev
        /\ D2[e].next = IF e # below /\ ~first /\ e = above THEN below ELSE D[e].next
  BY DEF Unlinks
<1>8. \A w \in Vertices : X2[w].head = IF w = v /\ first THEN below ELSE X[w].head
  BY DEF Unlinks
<1>9. \A x \in S : Joined(T, D, X, S, y, x) /\ x \in Deltas
  BY <1>2 DEF Thread
<1>10. D[y].obj \in Vertices
  BY <1>1, ObjectFacts DEF Pend
<1>11. ASSUME D[y].obj = v, d \in S PROVE P \subseteq S /\ below \in S
  BY <1>1, <1>2, <1>11, RunInside
<1>12. ASSUME D[y].obj = v, d \notin S PROVE P \cap S = {} /\ below \notin S
  BY <1>2, <1>12, RunOutside DEF Woven
<1>13. ASSUME D[y].obj # v PROVE P \cap S = {} /\ below \notin S /\ above \notin S
  BY <1>3, <1>4, <1>9, <1>13 DEF Joined
<1> HIDE DEF v, below, above, first
<1> DEFINE S2 == S \ P
<1>14. \A x \in S2 : x \in Deltas /\ x \notin P /\ Present(T2, D2, x) /\ D2[x].obj = D2[y].obj
                     /\ (Done(T2, x[1]) => T2[y[1]].start < T2[x[1]].ts)
  BY <1>3, <1>7, <1>9 DEF Joined, Remain
<1>15. ASSUME NEW x \in S2, x # y
       PROVE  D2[x].next \in S2 /\ D2[D2[x].next].prev = x
  <2> DEFINE nx == D[x].next
  <2>1. x \in S /\ x \in Deltas /\ x \notin P /\ nx \in S /\ nx \in Deltas /\ D[nx].prev = x
    BY <1>9, <1>15 DEF Joined
  <2>2. CASE nx \in P
    <3>1. nx = d
      BY <1>4, <2>1, <2>2
    <3>2. d \in S /\ D[y].obj = v /\ above = x
      BY <1>5, <1>13, <2>1, <3>1 DEF above
    <3>3. ~first /\ x # below
      BY <1>3, <1>4, <1>6, <2>1, <3>2
    <3>4. D2[x].next = below /\ below \in S /\ below \notin P /\ below \in Deltas
      BY <1>4, <1>7, <1>9, <1>11, <2>1, <3>2, <3>3
    <3> QED BY <1>7, <3>2, <3>3, <3>4
  <2>3. CASE nx \notin P
    <3>1. x # above
      BY <1>4, <1>5, <2>1, <2>3
    <3>2. nx # below
      BY <1>4, <1>5, <2>1
    <3>3. D2[x].next = nx /\ D2[nx].prev = D[nx].prev
      BY <1>7, <2>1, <3>1, <3>2
    <3> QED BY <2>1, <2>3, <3>3
  <2> QED BY <2>2, <2>3
<1>16. ASSUME NEW x \in S2
       PROVE  \/ D2[x].prev \in S2 /\ D2[D2[x].prev].next = x
              \/ D2[x].prev = D2[y].obj /\ X2[D2[y].obj].head = x
  <2>1. x \in S /\ x \in Deltas /\ x \notin P /\ D2[y].obj = D[y].obj
    BY <1>7, <1>9
  <2>2. CASE x = below
    <3>1. d \in S /\ D[y].obj = v
      BY <1>12, <1>13, <2>1, <2>2
    <3>2. CASE first
      BY <1>4, <1>7, <1>8, <2>1, <2>2, <3>1, <3>2
    <3>3. CASE ~first
      <4>1. above \in S
        BY <1>9, <3>1, <3>3 DEF Joined, above, first
      <4>2. above \in Deltas /\ above \notin P /\ above # below
        BY <1>4, <1>6, <1>9, <4>1
      <4> QED BY <1>7, <2>1, <2>2, <3>3, <4>1, <4>2
    <3> QED BY <3>2, <3>3
  <2>3. CASE x # below
    <3> DEFINE px == D[x].prev
    <3>1. D2[x].prev = px
      BY <1>7, <2>1, <2>3
    <3>2. CASE px \in S /\ D[px].next = x
      <4>1. px \notin P
        BY <1>4, <2>1, <2>3, <3>2 DEF below
      <4>2. px # above
        BY <1>4, <1>5, <1>9, <2>1, <3>2
      <4>3. D2[px].next = x
        BY <1>7, <1>9, <3>2, <4>2
      <4> QED BY <3>1, <3>2, <4>1, <4>3
    <3>3. CASE px = D[y].obj /\ X[D[y].obj].head = x
      <4>1. ~(D[y].obj = v /\ first)
        BY <1>5, <2>1, <3>3 DEF first
      <4> QED BY <1>8, <1>10, <2>1, <3>1, <3>3, <4>1
    <3> QED BY <1>9, <2>1, <3>2, <3>3 DEF Joined
  <2> QED BY <2>2, <2>3
<1>17. X2[D2[y].obj].head \in S2
  <2>1. D2[y].obj = D[y].obj
    BY <1>7
  <2>2. X[D[y].obj].head \in S
    BY <1>2 DEF Thread
  <2>3. CASE D[y].obj = v /\ first
    <3>1. d \in S
      BY <2>2, <2>3 DEF first
    <3>2. below \in S /\ below \notin P
      BY <1>4, <1>9, <1>11, <2>3, <3>1
    <3> QED BY <1>4, <1>8, <2>1, <2>3, <3>2
  <2>4. CASE D[y].obj = v /\ ~first
    <3>1. X[v].head # d /\ X[v].head \in S /\ X[v].head \in Deltas
      BY <1>9, <2>2, <2>4 DEF first
    <3>2. D[X[v].head].prev = v
      BY <1>3, <1>4, <3>1 DEF Woven, HeadBacked
    <3>3. X[v].head \notin P
      BY <1>3, <1>4, <3>1, <3>2
    <3> QED BY <1>4, <1>8, <2>1, <2>4, <3>1, <3>3
  <2>5. CASE D[y].obj # v
    BY <1>8, <1>10, <1>13, <2>1, <2>2, <2>5
  <2> QED BY <2>3, <2>4, <2>5
<1>18. y \in S2
  BY <1>1, <1>2 DEF Thread
<1>19. \A x \in S2 : Joined(T2, D2, X2, S2, y, x)
  <2> SUFFICES ASSUME NEW x \in S2 PROVE Joined(T2, D2, X2, S2, y, x)
    OBVIOUS
  <2>1. x = y \/ (D2[x].next \in S2 /\ D2[D2[x].next].prev = x)
    BY <1>15
  <2>2. \/ D2[x].prev \in S2 /\ D2[D2[x].prev].next = x
        \/ D2[x].prev = D2[y].obj /\ X2[D2[y].obj].head = x
    BY <1>16
  <2>3. /\ Present(T2, D2, x) /\ D2[x].obj = D2[y].obj
        /\ Done(T2, x[1]) => T2[y[1]].start < T2[x[1]].ts
    BY <1>14
  <2> HIDE DEF S2
  <2> QED BY <2>1, <2>2, <2>3 DEF Joined
<1>20. /\ Alive(T2, y[1]) /\ NonSeq(D2, y) => \A x \in S2 : NonSeq(D2, x)
       /\ D2[y].act = "SET" => \A x \in S2 : /\ x[1] = y[1]
                                             /\ D2[x].act = "SET" \/ D2[x].state = "FORCED_SEQUENTIAL"
  <2>1. Alive(T2, y[1]) <=> Alive(T, y[1])
    BY <1>3 DEF Remain
  <2>2. \A x \in Deltas : D2[x].act = D[x].act /\ D2[x].state = D[x].state /\ (NonSeq(D2, x) <=> NonSeq(D, x))
    BY <1>7 DEF NonSeq
  <2> QED BY <1>2, <2>1, <2>2 DEF Thread
<1> HIDE DEF S2
<1>21. Thread(T2, D2, X2, S2, y)
  BY <1>17, <1>18, <1>19, <1>20 DEF Thread
<1>22. S2 \in SUBSET Deltas
  BY DEF S2
<1> QED BY <1>21, <1>22

(* The chains stay woven.                                                  *)
LEMMA UnlinkWoven ==
  ASSUME NEW T, NEW D, NEW X, NEW T2, NEW D2, NEW X2, Typed(T, D, X), Shape(T, D, X), Woven(T, D, X),
         NEW d \in Deltas, AtRun(T, D, d), NEW last, NEW P, RunOf(D, d, last, P),
         Unlinks(T, D, X, T2, D2, X2, d, last)
  PROVE  Woven(T2, D2, X2)
<1> DEFINE v     == D[d].obj
           below == D[last].next
           above == D[d].prev
           first == X[v].head = d
<1>1. PICK r : Aging(T, D, r)
  BY DEF Woven, Aged
<1>2. Hangs(T, D, X, d, last, P, r)
  BY <1>1, RunHangs
<1>3. \A e \in Deltas : e[1] \in Txns /\ e \notin Vertices /\ e # Null
  BY PointerFacts
<1>4. /\ v \in Vertices
      /\ \A e \in P : /\ e \in Deltas /\ D[e].obj = v /\ (e = d \/ D[e].prev \in P)
                      /\ e = last \/ D[e].next \in P
      /\ below \in Deltas => /\ D[below].prev = last /\ below \notin P /\ Present(T, D, below)
                             /\ D[below].obj = v /\ r[below] < r[d] /\ below[1] # d[1]
      /\ above \in Deltas \/ above = v
      /\ above \in Deltas => D[above].next = d /\ above \notin P /\ r[d] < r[above] /\ D[above].obj = v
      /\ first => above = v
  BY <1>2 DEF Hangs
<1>5. d \in P /\ last \in P /\ last \in Deltas /\ last[1] = d[1]
  BY DEF RunOf
<1>6. above \in Deltas /\ below \in Deltas => above # below /\ r[below] < r[above]
  <2>1. \A e \in Deltas : r[e] \in Nat
    BY <1>1 DEF Aging
  <2>2. \A a, b, c \in Nat : b < c /\ c < a => ~(a = b) /\ b < a
    OBVIOUS
  <2> QED BY <1>4, <2>1, <2>2
<1>7. \A e \in Deltas :
        /\ D2[e].obj = D[e].obj /\ D2[e].act = D[e].act /\ D2[e].state = D[e].state
        /\ D2[e].prev = IF e = below THEN IF first THEN v ELSE above ELSE D[e].prev
        /\ D2[e].next = IF e # below /\ ~first /\ e = above THEN below ELSE D[e].next
  BY DEF Unlinks
<1>8. \A w \in Vertices : X2[w].head = IF w = v /\ first THEN below ELSE X[w].head
  BY DEF Unlinks
<1>9. Remain(T, D, T2, D2, P)
  BY UnlinkDeltas
<1>10. \A x \in Deltas : /\ Created(T2, x) <=> Created(T, x)
                         /\ Pend(T2, D2, x) <=> Pend(T, D, x) /\ x \notin P
                         /\ Present(T2, D2, x) <=> Present(T, D, x) /\ x \notin P
  BY <1>9 DEF Remain
<1>11. Threaded(T2, D2, X2)
  BY <1>1, <1>2, <1>9, UnlinkThreaded DEF Threaded
<1>12. below \in Deltas \cup {Null} /\ \A w \in Vertices : X[w].head \in Deltas \cup {Null}
  BY <1>5, PointerFacts
<1> HIDE DEF v, below, above, first
<1>13. ASSUME NEW x \in Deltas, Pend(T2, D2, x), D2[x].next \in Deltas
       PROVE  D2[D2[x].next].prev = x /\ Present(T2, D2, D2[x].next)
  <2>1. Pend(T, D, x) /\ x \notin P
    BY <1>10, <1>13
  <2>2. CASE x # below /\ ~first /\ x = above
    <3>1. D2[x].next = below
      BY <1>7, <2>2
    <3> QED BY <1>4, <1>7, <1>10, <1>13, <2>2, <3>1
  <2>3. CASE ~(x # below /\ ~first /\ x = above)
    <3> DEFINE nx == D[x].next
    <3>1. D2[x].next = nx /\ nx \in Deltas
      BY <1>7, <1>13, <2>3
    <3>2. D[nx].prev = x /\ Present(T, D, nx)
      BY <2>1, <3>1 DEF Woven, Forward
    <3>3. nx \notin P
      <4>1. SUFFICES ASSUME nx \in P PROVE FALSE
        OBVIOUS
      <4>2. nx = d
        BY <1>4, <2>1, <3>2, <4>1
      <4>3. x = above
        BY <3>2, <4>2 DEF above
      <4>4. ~first
        BY <1>3, <1>4, <4>3
      <4>5. x = below
        BY <2>3, <4>3, <4>4
      <4> QED BY <1>6, <4>3, <4>5
    <3>4. nx # below
      BY <1>4, <1>5, <2>1, <3>1, <3>2
    <3> QED BY <1>7, <1>10, <3>1, <3>2, <3>3, <3>4
  <2> QED BY <2>2, <2>3
<1>14. Forward(T2, D2)
  BY <1>13 DEF Forward
<1>15. ASSUME NEW w \in Vertices, X2[w].head # Null
       PROVE  D2[X2[w].head].prev = w /\ Present(T2, D2, X2[w].head)
  <2>1. CASE w = v /\ first
    <3>1. X2[w].head = below /\ below \in Deltas
      BY <1>8, <1>12, <1>15, <2>1
    <3> QED BY <1>4, <1>7, <1>10, <2>1, <3>1
  <2>2. CASE ~(w = v /\ first)
    <3> DEFINE h == X[w].head
    <3>1. X2[w].head = h /\ h \in Deltas /\ h # Null
      BY <1>8, <1>12, <1>15, <2>2
    <3>2. D[h].prev = w /\ Present(T, D, h) /\ D[h].obj = w
      BY <3>1 DEF Woven, HeadBacked, Shape
    <3>3. h # below
      BY <1>3, <1>4, <1>5, <3>1, <3>2
    <3>4. h \notin P
      <4>1. SUFFICES ASSUME h \in P PROVE FALSE
        OBVIOUS
      <4>2. h = d /\ w = v
        BY <1>3, <1>4, <3>2, <4>1
      <4> QED BY <2>2, <4>2 DEF first
    <3> QED BY <1>7, <1>10, <3>1, <3>2, <3>3, <3>4
  <2> QED BY <2>1, <2>2
<1>16. HeadBacked(T2, D2, X2)
  BY <1>15 DEF HeadBacked
<1>17. Solo(T2, D2)
  <2>1. SUFFICES ASSUME NEW y \in Deltas, NEW z \in Deltas, Pend(T2, D2, y), z[1] = y[1],
                        D2[z].obj = D2[y].obj, z[2] < y[2], ~NonSeq(D2, y)
                 PROVE  OwnPrev(D2, z)
    BY DEF Solo
  <2>2. Pend(T, D, y) /\ D[z].obj = D[y].obj /\ ~NonSeq(D, y)
    BY <1>7, <1>10, <2>1 DEF NonSeq
  <2>3. OwnPrev(D, z)
    BY <2>1, <2>2 DEF Woven, Solo
  <2>4. z # below
    BY <1>4, <1>5, <2>3 DEF OwnPrev
  <2> QED BY <1>7, <2>3, <2>4 DEF OwnPrev
<1>18. Aging(T2, D2, r)
  <2>1. /\ r \in [Deltas -> Nat] /\ \A e \in Deltas : D[e].next \in Deltas => r[D[e].next] < r[e]
        /\ \A e, f \in Deltas : Created(T, e) /\ Created(T, f) /\ e[1] = f[1] /\ e[2] < f[2] => r[e] < r[f]
    BY <1>1 DEF Aging
  <2>2. \A e \in Deltas : D2[e].next \in Deltas => r[D2[e].next] < r[e]
    BY <1>6, <1>7, <2>1
  <2> QED BY <1>10, <2>1, <2>2 DEF Aging
<1>19. Aged(T2, D2)
  BY <1>18 DEF Aged
<1> QED BY <1>11, <1>14, <1>16, <1>17, <1>19 DEF Woven

(* A run stays in a set that next does not leave, all of it.               *)
LEMMA RunAll ==
  ASSUME NEW p \in Seq(Deltas), Len(p) >= 1, \A i \in 1..(Len(p) - 1) : p[i+1] = dl[p[i]].next,
         NEW K, p[1] \in K, \A i \in 1..(Len(p) - 1) : p[i] \in K => dl[p[i]].next \in K
  PROVE  \A i \in 1..Len(p) : p[i] \in K
<1> DEFINE B == {i \in 1..Len(p) : p[i] \notin K}
<1>1. SUFFICES ASSUME B # {} PROVE FALSE
  OBVIOUS
<1>2. PICK m \in B : \A y \in B : m <= y
  <2>1. B \in SUBSET Nat
    OBVIOUS
  <2> QED BY <1>1, <2>1, LeastExists
<1>3. m # 1
  OBVIOUS
<1>4. m \in 1..Len(p) /\ m - 1 \in 1..(Len(p) - 1) /\ m - 1 \in 1..Len(p) /\ m - 1 \notin B /\ (m - 1) + 1 = m
  BY <1>2, <1>3
<1>5. p[m-1] \in K
  BY <1>4
<1>6. p[m] = dl[p[m-1]].next
  BY <1>4
<1>7. p[m] \in K
  BY <1>4, <1>5, <1>6
<1> QED BY <1>2, <1>7

(* What is left of a transaction once its record is changed.               *)
LEMMA MovedFacts ==
  ASSUME IInv, NEW t \in Txns, NEW r, tx' = [tx EXCEPT ![t] = r]
  PROVE  tx'[t] = r /\ \A u \in Txns : u # t => tx'[u] = tx[u]
BY DEF IInv, Types

(* Whose delta it is, both ways.                                           *)
LEMMA AbortOwn ==
  ASSUME IInv, NEW t \in Txns, tx[t].pc = "aborting"
  PROVE  /\ \A e \in Deltas : Own(t, e) <=> e[1] = t
         /\ ~Done(tx, t) /\ ~Alive(tx, t) /\ tx[t].i \in Nat /\ tx[t].i >= 1
<1>1. /\ Sound(t, tx[t], timestamp, open, gc) /\ tx[t].i \in Nat /\ kTransactionInitialId \in Nat
  BY IdFacts
<1>2. tx[t].i >= 1 /\ tx[t].ts = TransactionId(t)
  BY <1>1 DEF Sound
<1>3. ~Done(tx, t)
  <2>1. ~(TransactionId(t) < kTransactionInitialId)
    BY <1>1 DEF TransactionId, Txns
  <2> QED BY <1>2, <2>1 DEF Done
<1>4. \A e \in Deltas : e[1] = t => Own(t, e)
  BY <1>2 DEF Own, TsOf
<1> QED BY <1>1, <1>2, <1>3, <1>4, OwnFacts DEF Alive

(* Where a run starts.                                                     *)
LEMMA HeadsOwn ==
  ASSUME IInv, NEW t \in Txns, tx[t].pc = "aborting", tx[t].i <= tx[t].n
  PROVE  HeadsRun(t, <<t, tx[t].i>>) <=> ~OwnPrev(dl, <<t, tx[t].i>>)
<1> DEFINE d == <<t, tx[t].i>>
<1>1. d \in Deltas /\ Attached(tx, d) /\ dl[d].obj \in Vertices /\ d[1] = t
  BY AbortFacts
<1>2. dl[d].prev \in Deltas \/ dl[d].prev = dl[d].obj
  BY <1>1 DEF Attached, IInv, Coherent, Shape
<1>3. \A e \in Deltas : (Own(t, e) <=> e[1] = t) /\ e \notin Vertices
  BY AbortOwn, PointerConstants
<1> HIDE DEF d
<1>4. HeadsRun(t, d) <=> ~OwnPrev(dl, d)
  BY <1>1, <1>2, <1>3 DEF HeadsRun, OwnPrev
<1> QED BY <1>4 DEF d

(* A delta inside a run was undone with the run.                           *)
LEMMA AbortSkipWoven ==
  ASSUME IInv, Woven(tx, dl, vx), Flagged(tx, dl, vx), NEW t \in Txns, AbortStep(t),
         ~HeadsRun(t, <<t, tx[t].i>>)
  PROVE  Kept
<1> DEFINE d == <<t, tx[t].i>>
<1>1. /\ tx[t].pc = "aborting" /\ tx[t].i <= tx[t].n /\ tx' = [tx EXCEPT ![t].i = @ + 1]
      /\ dl' = dl /\ vx' = vx
  BY DEF AbortStep
<1>2. /\ tx'[t].pc = "aborting" /\ tx'[t].n = tx[t].n /\ tx'[t].ts = tx[t].ts /\ tx'[t].start = tx[t].start
      /\ tx'[t].i = tx[t].i + 1 /\ \A u \in Txns : u # t => tx'[u] = tx[u]
  BY <1>1, AbortRecord
<1>3. d \in Deltas /\ OwnPrev(dl, d) /\ d[1] = t /\ d[2] = tx[t].i
  BY <1>1, AbortFacts, HeadsOwn
<1>4. Typed(tx, dl, vx) /\ Shape(tx, dl, vx)
  BY DEF IInv, Types, Typed, Coherent
<1>5. \A e \in Deltas : e[1] \in Txns /\ e[2] \in Nat /\ e = <<e[1], e[2]>>
  BY <1>4, PointerFacts
<1> HIDE DEF d
<1>6. \A u \in Txns : /\ Done(tx', u) <=> Done(tx, u)
                      /\ Alive(tx', u) <=> Alive(tx, u)
                      /\ tx'[u].pc = tx[u].pc /\ tx'[u].ts = tx[u].ts /\ tx'[u].start = tx[u].start
                      /\ tx'[u].n = tx[u].n
  BY <1>1, <1>2 DEF Done, Alive
<1>7. \A x \in Deltas : Created(tx', x) <=> Created(tx, x)
  BY <1>5, <1>6 DEF Created
<1>8. ASSUME NEW x \in Deltas PROVE Gone(tx', dl, x) <=> Gone(tx, dl, x)
  <2>1. CASE x[1] # t
    BY <1>2, <1>5, <1>7, <2>1 DEF Gone
  <2>2. CASE x[1] = t
    <3>1. \A z \in Deltas : z[1] = t => (z[2] < tx[t].i + 1 <=> z[2] < tx[t].i \/ z = d)
      BY <1>3, <1>5
    <3> QED BY <1>2, <1>3, <1>7, <2>2, <3>1 DEF Gone
  <2> QED BY <2>1, <2>2
<1>9. \A x \in Deltas : Pend(tx', dl, x) <=> Pend(tx, dl, x)
  BY <1>5, <1>6, <1>7, <1>8 DEF Pend
<1>10. \A x \in Deltas : Present(tx', dl, x) <=> Present(tx, dl, x)
  BY <1>5, <1>6, <1>7, <1>9 DEF Present
<1>11. \A x \in Deltas : /\ Done(tx', x[1]) <=> Done(tx, x[1])
                         /\ Alive(tx', x[1]) <=> Alive(tx, x[1])
                         /\ tx'[x[1]].ts = tx[x[1]].ts /\ tx'[x[1]].start = tx[x[1]].start
  BY <1>5, <1>6
<1>12. Woven(tx', dl, vx)
  BY <1>4, <1>7, <1>9, <1>10, <1>11, WovenFrame
<1>13. Flagged(tx', dl, vx)
  BY <1>9, <1>11 DEF Flagged
<1>14. Steady(tx, dl, vx, tx', dl, vx)
  BY <1>7, <1>9, <1>11 DEF Steady
<1> QED BY <1>1, <1>12, <1>13, <1>14 DEF Kept

(* process_vertex_deltas takes out a whole run.                            *)
LEMMA AbortRunWhole ==
  ASSUME IInv, Woven(tx, dl, vx), Flagged(tx, dl, vx), NEW t \in Txns, AbortStep(t),
         HeadsRun(t, <<t, tx[t].i>>)
  PROVE  LET d == <<t, tx[t].i>>
             v == dl[d].obj
         IN /\ d \in Deltas /\ d[1] = t /\ v \in Vertices /\ AtRun(tx, dl, d)
            /\ \E p : RunTaken(t, d, v, p) /\ RunOf(dl, d, p[Len(p)], {p[i] : i \in 1..Len(p)})
<1> DEFINE d == <<t, tx[t].i>>
           v == dl[d].obj
<1>1. tx[t].pc = "aborting" /\ tx[t].i <= tx[t].n
  BY DEF AbortStep
<1>2. d \in Deltas /\ Attached(tx, d) /\ v \in Vertices /\ ~OwnPrev(dl, d) /\ d[1] = t /\ d[2] = tx[t].i
  BY <1>1, AbortFacts, HeadsOwn
<1>3. Typed(tx, dl, vx) /\ Shape(tx, dl, vx) /\ Aged(tx, dl) /\ \A e \in Deltas : dl[e].next \in Pointers
  BY DeltaFacts DEF IInv, Types, Typed, Coherent, Woven
<1>4. AtRun(tx, dl, d)
  <2>1. \A u \in Txns : tx[u].pc = "aborting" => ~Done(tx, u)
    BY AbortOwn
  <2> HIDE DEF d
  <2> QED BY <1>1, <1>2, <2>1 DEF AtRun, Attached
<1>5. PICK p : RunTaken(t, d, v, p)
  BY AbortRunSteps
<1> DEFINE last == p[Len(p)]
           P == {p[i] : i \in 1..Len(p)}
<1>6. dl[Chain(d)[Len(Chain(d))]].next = Null
  BY <1>2, <1>3, ChainEnds
<1>7. /\ p \in Seq(Deltas) /\ Len(p) >= 1 /\ p[1] = d
      /\ \A i \in 1..Len(p) : p[i][1] = t
      /\ \A i \in 1..(Len(p) - 1) : p[i+1] = dl[p[i]].next
      /\ dl[last].next \in Deltas => dl[last].next[1] # t \/ last = Chain(d)[Len(Chain(d))]
      /\ Unlinks(tx, dl, vx, tx', dl', vx', d, last)
      /\ vx'[v].flag = (vx[v].flag /\ HasUncommittedNonSequentialDeltas(Chain(vx[v].head), t))
      /\ \A w \in Vertices : w # v => vx'[w] = vx[w]
  BY <1>5 DEF RunTaken
<1> HIDE DEF d, v
<1>8. RunOf(dl, d, last, P)
  <2>1. P \in SUBSET Deltas /\ d \in P /\ last \in P
    <3>1. 1 \in 1..Len(p) /\ Len(p) \in 1..Len(p)
      BY <1>7
    <3> QED BY <1>7, <3>1
  <2>2. ASSUME NEW e \in P PROVE e[1] = d[1] /\ (e = last \/ dl[e].next \in P)
    <3>1. PICK i \in 1..Len(p) : e = p[i]
      OBVIOUS
    <3>2. i = Len(p) \/ (i \in 1..(Len(p) - 1) /\ i + 1 \in 1..Len(p))
      BY <1>7
    <3> QED BY <1>2, <1>7, <3>1, <3>2
  <2>3. ASSUME NEW K \in SUBSET Deltas, d \in K, \A e \in K \cap P : e # last => dl[e].next \in K
        PROVE  P \subseteq K
    <3>1. dl[last].next \notin P
      <4>1. \A e \in P : e[1] = t /\ e # Null
        BY <1>7, PointerConstants
      <4>2. dl[last].next \in P => dl[last].next \in Deltas
        BY <2>1
      <4> QED BY <1>6, <1>7, <4>1, <4>2
    <3>2. ASSUME NEW i \in 1..(Len(p) - 1), p[i] \in K PROVE dl[p[i]].next \in K
      <4>1. i \in 1..Len(p) /\ i + 1 \in 1..Len(p) /\ p[i+1] = dl[p[i]].next
        BY <1>7
      <4>2. p[i] \in P /\ dl[p[i]].next \in P
        BY <4>1
      <4>3. p[i] # last
        BY <3>1, <4>2
      <4> HIDE DEF P, last
      <4> QED BY <2>3, <3>2, <4>2, <4>3
    <3>3. \A i \in 1..Len(p) : p[i] \in K
      BY <1>7, <2>3, <3>2, RunAll
    <3> QED BY <3>3
  <2>4. dl[last].next \in Deltas => dl[last].next[1] # d[1]
    BY <1>2, <1>6, <1>7, PointerConstants
  <2> HIDE DEF P, last
  <2> QED BY <2>1, <2>2, <2>3, <2>4 DEF RunOf
<1> QED BY <1>2, <1>4, <1>5, <1>8 DEF d, v

(* process_vertex_deltas.                                                  *)
LEMMA AbortRunWoven ==
  ASSUME IInv, Woven(tx, dl, vx), Flagged(tx, dl, vx), NEW t \in Txns, AbortStep(t),
         HeadsRun(t, <<t, tx[t].i>>)
  PROVE  Woven(tx', dl', vx') /\ Flagged(tx', dl', vx')
<1> DEFINE d == <<t, tx[t].i>>
           v == dl[d].obj
<1>1. tx[t].pc = "aborting"
  BY DEF AbortStep
<1>2. d \in Deltas /\ d[1] = t /\ v \in Vertices /\ AtRun(tx, dl, d)
  BY AbortRunWhole
<1>3. Typed(tx, dl, vx) /\ Shape(tx, dl, vx)
  BY DEF IInv, Types, Typed, Coherent
<1>4. PICK p : RunTaken(t, d, v, p) /\ RunOf(dl, d, p[Len(p)], {p[i] : i \in 1..Len(p)})
  BY AbortRunWhole
<1> DEFINE last == p[Len(p)]
           P == {p[i] : i \in 1..Len(p)}
<1>5. /\ Unlinks(tx, dl, vx, tx', dl', vx', d, last)
      /\ vx'[v].flag = (vx[v].flag /\ HasUncommittedNonSequentialDeltas(Chain(vx[v].head), t))
      /\ \A w \in Vertices : w # v => vx'[w] = vx[w]
  BY <1>4 DEF RunTaken
<1>6. RunOf(dl, d, last, P)
  BY <1>4
<1> HIDE DEF d, v
<1> HIDE DEF P, last
<1>7. Woven(tx', dl', vx')
  BY <1>2, <1>3, <1>5, <1>6, UnlinkWoven
<1>8. Remain(tx, dl, tx', dl', P)
  BY <1>2, <1>3, <1>5, <1>6, UnlinkDeltas
<1>9. Flagged(tx', dl', vx')
  <2>1. SUFFICES ASSUME NEW y \in Deltas, Pend(tx', dl', y), Alive(tx', y[1]), NonSeq(dl', y)
                 PROVE  vx'[dl'[y].obj].flag
    BY DEF Flagged
  <2>2. y[1] \in Txns
    BY DeltaFacts
  <2>3. Pend(tx, dl, y) /\ Alive(tx, y[1])
    BY <1>8, <2>1, <2>2 DEF Remain
  <2>4. dl'[y].obj = dl[y].obj /\ NonSeq(dl, y)
    BY <1>5, <2>1 DEF Unlinks, NonSeq
  <2>5. y[1] # t /\ dl[y].obj \in Vertices
    BY <1>1, <2>3, PendFacts DEF Alive
  <2>6. HasUncommittedNonSequentialDeltas(Chain(vx[dl[y].obj].head), t)
    BY <2>3, <2>4, <2>5, FlagKept
  <2>7. vx[dl[y].obj].flag
    BY <2>3, <2>4 DEF Flagged
  <2> QED BY <1>5, <2>4, <2>5, <2>6, <2>7
<1> QED BY <1>7, <1>9

-----------------------------------------------------------------------------
(* The other steps.                                                        *)

(* One that leaves a transaction as far as it was.                         *)
LEMMA KeepWoven ==
  ASSUME IInv, Woven(tx, dl, vx), NEW t \in Txns, dl' = dl,
         \A u \in Txns : u # t => tx'[u] = tx[u],
         tx'[t].n = tx[t].n, tx'[t].ts = tx[t].ts, tx'[t].start = tx[t].start, tx'[t].i = tx[t].i,
         tx[t].pc # "new", tx'[t].pc # "new",
         tx'[t].pc \in {"running", "aborting"} \/ tx[t].pc \in {"running", "aborting"} => tx'[t].pc = tx[t].pc,
         \A v \in Vertices : vx'[v].head = vx[v].head
  PROVE  /\ Woven(tx', dl', vx') /\ Same(tx, tx')
         /\ Flagged(tx, dl, vx) /\ (\A v \in Vertices : vx[v].flag => vx'[v].flag) => Flagged(tx', dl', vx')
         /\ (\A v \in Vertices : vx'[v].val = vx[v].val /\ vx'[v].edges = vx[v].edges) =>
              Steady(tx, dl, vx, tx', dl', vx')
<1>1. Same(tx, tx')
  BY DEF Same, Done, Alive
<1>2. ASSUME \A v \in Vertices : vx'[v].val = vx[v].val /\ vx'[v].edges = vx[v].edges
      PROVE  Steady(tx, dl, vx, tx', dl', vx')
  BY <1>2, <1>1, SameSteady
<1>3. Typed(tx, dl, vx) /\ Shape(tx, dl, vx)
  BY DEF IInv, Types, Typed, Coherent
<1>4. /\ Woven(tx', dl, vx')
      /\ Flagged(tx, dl, vx) /\ (\A v \in Vertices : vx[v].flag => vx'[v].flag) => Flagged(tx', dl, vx')
  BY <1>1, <1>3, SameWoven
<1> QED BY <1>2, <1>1, <1>4

(* One of a transaction without deltas.                                    *)
LEMMA IdleWoven ==
  ASSUME IInv, Woven(tx, dl, vx), Flagged(tx, dl, vx), NEW t \in Txns, dl' = dl, vx' = vx,
         \A u \in Txns : u # t => tx'[u] = tx[u], tx'[t].n = 0, tx[t].n = 0
  PROVE  Kept
<1>1. Typed(tx, dl, vx) /\ Shape(tx, dl, vx)
  BY DEF IInv, Types, Typed, Coherent
<1>2. \A x \in Deltas : x[1] \in Txns /\ x[2] \in Nat /\ x[2] >= 1
  BY <1>1, PointerFacts
<1>3. \A x \in Deltas : /\ Created(tx', x) <=> Created(tx, x)
                        /\ Created(tx, x) => x[1] # t /\ tx'[x[1]] = tx[x[1]]
  BY <1>2 DEF Created
<1>4. \A x \in Deltas : Created(tx, x) =>
        /\ tx'[x[1]] = tx[x[1]] /\ (Done(tx', x[1]) <=> Done(tx, x[1])) /\ (Alive(tx', x[1]) <=> Alive(tx, x[1]))
  BY <1>3 DEF Done, Alive
<1>5. \A x \in Deltas : Created(tx, x) => (Gone(tx', dl, x) <=> Gone(tx, dl, x))
  BY <1>3, <1>4 DEF Gone
<1>6. \A x \in Deltas : Pend(tx', dl, x) <=> Pend(tx, dl, x)
  BY <1>3, <1>4, <1>5 DEF Pend
<1>7. \A x \in Deltas : Present(tx', dl, x) <=> Present(tx, dl, x)
  BY <1>3, <1>4, <1>6 DEF Present
<1>8. \A x \in Deltas : Pend(tx, dl, x) \/ Present(tx, dl, x) => Created(tx, x)
  BY DEF Pend, Present
<1>9. Woven(tx', dl, vx)
  BY <1>1, <1>3, <1>4, <1>6, <1>7, <1>8, WovenFrame
<1>10. Flagged(tx', dl, vx)
  BY <1>4, <1>6, <1>8 DEF Flagged
<1>11. Steady(tx, dl, vx, tx', dl, vx)
  BY <1>3, <1>4, <1>6 DEF Steady
<1> QED BY <1>9, <1>10, <1>11 DEF Kept

(* CreateTransaction.                                                      *)
LEMMA BeginWoven ==
  ASSUME IInv, Woven(tx, dl, vx), Flagged(tx, dl, vx), NEW t \in Txns, Begin(t)
  PROVE  Kept
<1> DEFINE q == tx[t]
           r == [q EXCEPT !.pc = "running", !.start = timestamp, !.ts = TransactionId(t)]
<1>1. q \in TxRecords /\ q = tx[t] /\ Sound(t, q, timestamp, open, gc) /\ q.pc = "new"
  BY IdFacts DEF Begin
<1>2. tx' = [tx EXCEPT ![t] = r] /\ dl' = dl /\ vx' = vx
  BY DEF Begin, IInv, Types
<1> HIDE DEF q
<1>3. r.n = q.n /\ q.n = 0
  BY <1>1 DEF TxRecords, Sound
<1> HIDE DEF r
<1>4. tx'[t] = r /\ \A u \in Txns : u # t => tx'[u] = tx[u]
  BY <1>2, MovedFacts
<1> QED BY <1>1, <1>2, <1>3, <1>4, IdleWoven

(* A commit without deltas.                                                *)
LEMMA CommitNothingWoven ==
  ASSUME IInv, Woven(tx, dl, vx), Flagged(tx, dl, vx), NEW t \in Txns, CommitNothing(t)
  PROVE  Kept
<1> DEFINE q == tx[t]
           r == [q EXCEPT !.pc = "end"]
<1>1. q \in TxRecords /\ q = tx[t] /\ q.n = 0
  BY IdFacts DEF CommitNothing
<1>2. tx' = [tx EXCEPT ![t] = r] /\ dl' = dl /\ vx' = vx
  BY DEF CommitNothing, IInv, Types
<1> HIDE DEF q
<1>3. r.n = q.n
  BY <1>1 DEF TxRecords
<1> HIDE DEF r
<1>4. tx'[t] = r /\ \A u \in Txns : u # t => tx'[u] = tx[u]
  BY <1>2, MovedFacts
<1> QED BY <1>1, <1>2, <1>3, <1>4, IdleWoven

(* What is left to commit or undo once t is committed.                     *)
Settles(T, D, T2, t) ==
  \A x \in Deltas : /\ Pend(T2, D, x) <=> Pend(T, D, x) /\ x[1] # t
                    /\ Created(T2, x) /\ Done(T2, x[1]) <=> Created(T, x) /\ (Done(T, x[1]) \/ x[1] = t)

(* The commit timestamp is stored: whoever is at work began before.        *)
LEMMA StoreCommitTimestampWoven ==
  ASSUME IInv, IInv', Woven(tx, dl, vx), Flagged(tx, dl, vx), NEW t \in Txns, StoreCommitTimestamp(t)
  PROVE  Woven(tx', dl', vx') /\ Flagged(tx', dl', vx') /\ Settles(tx, dl, tx', t)
<1> DEFINE q == tx[t]
           r == [q EXCEPT !.pc = "stored", !.ts = timestamp]
<1>1. q \in TxRecords /\ q = tx[t] /\ Alive(tx, t)
  BY IdFacts DEF StoreCommitTimestamp, Running, Alive
<1>2. tx' = [tx EXCEPT ![t] = r] /\ dl' = dl /\ vx' = vx
  BY DEF StoreCommitTimestamp, IInv, Types
<1> HIDE DEF q
<1>3. r.n = q.n /\ r.ts = timestamp /\ r.start = q.start /\ r.pc = "stored"
  BY <1>1 DEF TxRecords
<1> HIDE DEF r
<1>4. tx'[t] = r /\ \A u \in Txns : u # t => tx'[u] = tx[u]
  BY <1>2, MovedFacts
<1>5. Typed(tx, dl, vx) /\ Shape(tx, dl, vx)
  BY DEF IInv, Types, Typed, Coherent
<1>6. \A x \in Deltas : x[1] \in Txns /\ x[2] \in Nat /\ x[2] >= 1
  BY <1>5, PointerFacts
<1>7. Done(tx', t) /\ ~Alive(tx', t)
  <2>1. Sound(t, tx'[t], timestamp', open', gc')
    BY DEF IInv, Clock
  <2> QED BY <1>3, <1>4, <2>1 DEF Sound, Done, Alive
<1>8. \A x \in Deltas : /\ Created(tx', x) <=> Created(tx, x)
                        /\ x[1] # t => /\ tx'[x[1]] = tx[x[1]] /\ (Done(tx', x[1]) <=> Done(tx, x[1]))
                                       /\ (Alive(tx', x[1]) <=> Alive(tx, x[1]))
  BY <1>1, <1>3, <1>4, <1>6 DEF Created, Done, Alive
<1>9. \A x \in Deltas : x[1] # t => (Gone(tx', dl, x) <=> Gone(tx, dl, x))
  BY <1>8 DEF Gone
<1>10. \A x \in Deltas : Pend(tx', dl, x) => Pend(tx, dl, x) /\ x[1] # t
  <2>1. tx'[t].pc # "aborting"
    BY <1>3, <1>4
  <2> QED BY <1>7, <1>8, <1>9, <2>1 DEF Pend
<1>11. \A x \in Deltas : Present(tx, dl, x) => Present(tx', dl, x)
  <2>1. ASSUME NEW x \in Deltas, Present(tx, dl, x) PROVE Present(tx', dl, x)
    <3>1. CASE x[1] = t
      BY <1>7, <1>8, <2>1, <3>1 DEF Present, Pend
    <3>2. CASE x[1] # t
      BY <1>8, <1>9, <2>1, <3>2 DEF Present, Pend
    <3> QED BY <3>1, <3>2
  <2> QED BY <2>1
<1>12. ASSUME NEW x \in Deltas, NEW y \in Deltas, Pend(tx', dl, y), Present(tx, dl, x), Done(tx', x[1]),
              Done(tx, x[1]) => tx[y[1]].start < tx[x[1]].ts
       PROVE  tx'[y[1]].start < tx'[x[1]].ts
  <2>1. y[1] # t /\ tx'[y[1]] = tx[y[1]] /\ Pend(tx, dl, y)
    BY <1>8, <1>10, <1>12
  <2>2. CASE x[1] = t
    <3>1. Sound(y[1], tx[y[1]], timestamp, open, gc) /\ tx[y[1]].pc # "new"
      BY <1>6, <2>1, IdFacts, DeltaFacts DEF Pend
    <3>2. tx[y[1]].start < timestamp
      BY <3>1 DEF Sound
    <3> QED BY <1>3, <1>4, <2>1, <2>2, <3>2
  <2>3. CASE x[1] # t
    BY <1>8, <1>12, <2>1, <2>3
  <2> QED BY <2>2, <2>3
<1>13. Woven(tx', dl, vx)
  BY <1>5, <1>8, <1>10, <1>11, <1>12, WovenFrame
<1>14. Flagged(tx', dl, vx)
  BY <1>8, <1>10 DEF Flagged
<1>15. Settles(tx, dl, tx', t)
  <2>1. ASSUME NEW x \in Deltas
        PROVE  /\ Pend(tx', dl, x) <=> Pend(tx, dl, x) /\ x[1] # t
               /\ Created(tx', x) /\ Done(tx', x[1]) <=> Created(tx, x) /\ (Done(tx, x[1]) \/ x[1] = t)
    <3>1. CASE x[1] = t
      BY <1>7, <1>8, <1>10, <3>1
    <3>2. CASE x[1] # t
      BY <1>8, <1>9, <3>2 DEF Pend
    <3> QED BY <3>1, <3>2
  <2> QED BY <2>1 DEF Settles
<1> QED BY <1>2, <1>13, <1>14, <1>15

(* Abort, up to the first vertex: nothing is undone yet.                   *)
LEMMA AbortBeginWoven ==
  ASSUME IInv, Woven(tx, dl, vx), Flagged(tx, dl, vx), NEW t \in Txns, AbortBegin(t)
  PROVE  Kept
<1> DEFINE q == tx[t]
           pc == IF tx[t].n = 0 THEN "report" ELSE "aborting"
           r == [q EXCEPT !.pc = pc, !.i = 1, !.propagation = "HANDLED"]
<1>1. q \in TxRecords /\ q = tx[t] /\ Alive(tx, t) /\ tx[t].pc = "running"
  BY IdFacts DEF AbortBegin, Running, Alive
<1>2. tx' = [tx EXCEPT ![t] = r] /\ dl' = dl /\ vx' = vx
  BY DEF AbortBegin, IInv, Types
<1>3. (tx[t].n = 0 => pc = "report") /\ (tx[t].n # 0 => pc = "aborting")
  OBVIOUS
<1> HIDE DEF q, pc
<1>4. r.n = q.n /\ r.ts = q.ts /\ r.start = q.start /\ r.pc = pc /\ r.i = 1
  BY <1>1 DEF TxRecords
<1> HIDE DEF r
<1>5. tx'[t] = r /\ \A u \in Txns : u # t => tx'[u] = tx[u]
  BY <1>2, MovedFacts
<1>6. CASE tx[t].n = 0
  BY <1>1, <1>2, <1>4, <1>5, <1>6, IdleWoven
<1>7. CASE tx[t].n # 0
  <2>1. Typed(tx, dl, vx) /\ Shape(tx, dl, vx)
    BY DEF IInv, Types, Typed, Coherent
  <2>2. \A x \in Deltas : x[1] \in Txns /\ x[2] \in Nat /\ x[2] >= 1
    BY <2>1, PointerFacts
  <2>3. tx'[t].pc = "aborting" /\ tx'[t].i = 1 /\ ~Alive(tx', t) /\ (Done(tx', t) <=> Done(tx, t))
    BY <1>1, <1>3, <1>4, <1>5, <1>7 DEF Alive, Done
  <2>4. \A x \in Deltas : /\ Created(tx', x) <=> Created(tx, x)
                          /\ Done(tx', x[1]) <=> Done(tx, x[1])
                          /\ tx'[x[1]].start = tx[x[1]].start /\ tx'[x[1]].ts = tx[x[1]].ts
                          /\ x[1] # t => /\ tx'[x[1]] = tx[x[1]] /\ (Alive(tx', x[1]) <=> Alive(tx, x[1]))
    BY <1>1, <1>4, <1>5, <2>2, <2>3 DEF Created, Done, Alive
  <2>5. \A x \in Deltas : x[1] # t => (Gone(tx', dl, x) <=> Gone(tx, dl, x))
    BY <2>4 DEF Gone
  <2>6. \A x \in Deltas : x[1] = t => ~Gone(tx', dl, x)
    BY <2>2, <2>3 DEF Gone
  <2>7. \A x \in Deltas : Pend(tx', dl, x) <=> Pend(tx, dl, x)
    BY <1>1, <2>3, <2>4, <2>5, <2>6 DEF Pend
  <2>8. \A x \in Deltas : Present(tx', dl, x) <=> Present(tx, dl, x)
    BY <2>4, <2>7 DEF Present
  <2>9. \A x \in Deltas : Alive(tx', x[1]) => Alive(tx, x[1])
    BY <2>3, <2>4
  <2>10. Woven(tx', dl, vx)
    BY <2>1, <2>4, <2>7, <2>8, <2>9, WovenFrame
  <2>11. Flagged(tx', dl, vx)
    BY <2>7, <2>9 DEF Flagged
  <2>12. Steady(tx, dl, vx, tx', dl, vx)
    BY <2>4, <2>7 DEF Steady
  <2> QED BY <1>2, <2>10, <2>11, <2>12 DEF Kept
<1> QED BY <1>6, <1>7

(* When an abort is through, everything it had written is undone.          *)
LEMMA AllGone ==
  ASSUME IInv, Woven(tx, dl, vx), NEW t \in Txns, tx[t].pc = "aborting", tx[t].i > tx[t].n,
         NEW y \in Deltas, y[1] = t
  PROVE  ~Pend(tx, dl, y)
<1>1. SUFFICES ASSUME Pend(tx, dl, y) PROVE FALSE
  OBVIOUS
<1>2. Typed(tx, dl, vx) /\ Shape(tx, dl, vx) /\ Aged(tx, dl)
  BY DEF IInv, Types, Typed, Coherent, Woven
<1>3. \A x \in Deltas : x[1] \in Txns /\ x[2] \in Nat /\ x = <<x[1], x[2]>> /\ x \notin Vertices
  BY <1>2, PointerFacts
<1>4. ~Alive(tx, t) /\ ~Done(tx, t) /\ tx[t].i \in Nat /\ tx[t].n \in Nat
  BY AbortOwn, IdFacts
<1>5. Created(tx, y) /\ ~Gone(tx, dl, y) /\ dl[y].obj \in Vertices
  BY <1>1, <1>4, PendFacts DEF Pend
<1> DEFINE Z == {z \in Deltas : z[1] = t /\ Created(tx, z) /\ dl[z].obj = dl[y].obj}
           A == {z[2] : z \in Z}
<1>6. A \in SUBSET (0..tx[t].n) /\ y[2] \in A
  <2>1. \A z \in Z : z[2] \in 0..tx[t].n
    BY <1>3, <1>4 DEF Created
  <2> QED BY <1>5, <2>1
<1>7. PICK m \in A : \A k \in A : m >= k
  BY <1>4, <1>6, GreatestExists
<1>8. PICK z \in Z : z[2] = m
  OBVIOUS
<1>9. \A e \in Z : e[2] <= z[2]
  BY <1>3, <1>7, <1>8
<1>10. z \in Deltas /\ z[1] = t /\ Created(tx, z) /\ dl[z].obj = dl[y].obj /\ y[2] <= z[2] /\ z[2] < tx[t].i
  <2>1. y \in Z /\ z \in Z
    BY <1>5
  <2>2. z[2] <= tx[t].n /\ z[2] \in Nat
    BY <1>3, <2>1 DEF Created
  <2> QED BY <1>4, <1>9, <2>1, <2>2
<1>11. OwnPrev(dl, z)
  BY <1>5, <1>10 DEF Gone
<1>12. Pend(tx, dl, z)
  <2>1. ~Gone(tx, dl, z)
    <3>1. SUFFICES ASSUME Gone(tx, dl, z) PROVE FALSE
      OBVIOUS
    <3>2. PICK w \in Deltas : /\ w[1] = z[1] /\ Created(tx, w) /\ dl[w].obj = dl[z].obj
                              /\ z[2] <= w[2] /\ w[2] < tx[z[1]].i /\ ~OwnPrev(dl, w)
      BY <3>1 DEF Gone
    <3>3. y[2] <= w[2]
      BY <1>3, <1>10, <3>2
    <3> QED BY <1>5, <1>10, <3>2, <3>3 DEF Gone
  <2> QED BY <1>10, <2>1 DEF Pend
<1>13. PICK S \in SUBSET Deltas : Thread(tx, dl, vx, S, z)
  BY <1>10, <1>12 DEF Woven, Threaded
<1> DEFINE w == dl[z].prev
<1>14. w \in Deltas /\ w[1] = t /\ Created(tx, w) /\ dl[w].obj = dl[y].obj
  BY <1>2, <1>10, <1>11, ObjectFacts DEF OwnPrev
<1>15. w \in S /\ dl[w].next = z
  BY <1>3, <1>5, <1>10, <1>13, <1>14 DEF Thread, Joined
<1>16. w # z
  <2>1. PICK r : Aging(tx, dl, r)
    BY <1>2 DEF Aged
  <2>2. r[z] < r[w] /\ r[z] \in Nat
    BY <1>10, <1>14, <1>15, <2>1 DEF Aging
  <2> QED BY <2>2
<1>17. z[2] < w[2]
  BY <1>2, <1>10, <1>13, <1>14, <1>15, <1>16, AboveIsNewer
<1>18. w[2] <= z[2]
  BY <1>9, <1>14
<1> QED BY <1>3, <1>10, <1>14, <1>17, <1>18

(* The deltas of an abort become garbage.                                  *)
LEMMA AbortHandOverWoven ==
  ASSUME IInv, Woven(tx, dl, vx), Flagged(tx, dl, vx), NEW t \in Txns, AbortHandOver(t)
  PROVE  Kept
<1> DEFINE q == tx[t]
           r == [q EXCEPT !.pc = "report", !.where = "garbage", !.mark = timestamp]
<1>1. q \in TxRecords /\ q = tx[t] /\ tx[t].pc = "aborting" /\ tx[t].i > tx[t].n
  BY IdFacts DEF AbortHandOver
<1>2. tx' = [tx EXCEPT ![t] = r] /\ dl' = dl /\ vx' = vx
  BY DEF AbortHandOver, IInv, Types
<1> HIDE DEF q
<1>3. r.n = q.n /\ r.ts = q.ts /\ r.start = q.start /\ r.pc = "report"
  BY <1>1 DEF TxRecords
<1> HIDE DEF r
<1>4. tx'[t] = r /\ \A u \in Txns : u # t => tx'[u] = tx[u]
  BY <1>2, MovedFacts
<1>5. Typed(tx, dl, vx) /\ Shape(tx, dl, vx)
  BY DEF IInv, Types, Typed, Coherent
<1>6. \A x \in Deltas : x[1] \in Txns /\ (x[1] = t => ~Pend(tx, dl, x))
  BY <1>1, <1>5, PointerFacts, AllGone
<1>7. tx'[t].pc = "report" /\ ~Alive(tx', t) /\ (Done(tx', t) <=> Done(tx, t))
  BY <1>1, <1>3, <1>4 DEF Alive, Done
<1>8. \A x \in Deltas : /\ Created(tx', x) <=> Created(tx, x)
                        /\ Done(tx', x[1]) <=> Done(tx, x[1])
                        /\ tx'[x[1]].start = tx[x[1]].start /\ tx'[x[1]].ts = tx[x[1]].ts
                        /\ x[1] # t => /\ tx'[x[1]] = tx[x[1]] /\ (Alive(tx', x[1]) <=> Alive(tx, x[1]))
  BY <1>1, <1>3, <1>4, <1>6, <1>7 DEF Created, Done, Alive
<1>9. \A x \in Deltas : x[1] # t => (Gone(tx', dl, x) <=> Gone(tx, dl, x))
  BY <1>8 DEF Gone
<1>10. \A x \in Deltas : Pend(tx', dl, x) <=> Pend(tx, dl, x)
  BY <1>6, <1>7, <1>8, <1>9 DEF Pend
<1>11. \A x \in Deltas : Present(tx', dl, x) <=> Present(tx, dl, x)
  BY <1>8, <1>10 DEF Present
<1>12. \A x \in Deltas : Alive(tx', x[1]) => Alive(tx, x[1])
  BY <1>7, <1>8
<1>13. Woven(tx', dl, vx)
  BY <1>5, <1>8, <1>10, <1>11, <1>12, WovenFrame
<1>14. Flagged(tx', dl, vx)
  BY <1>10, <1>12 DEF Flagged
<1>15. Steady(tx, dl, vx, tx', dl, vx)
  BY <1>8, <1>10 DEF Steady
<1> QED BY <1>2, <1>13, <1>14, <1>15 DEF Kept

(* Another command.                                                        *)
LEMMA AdvanceCommandWoven ==
  ASSUME IInv, Woven(tx, dl, vx), Flagged(tx, dl, vx), NEW t \in Txns, AdvanceCommand(t)
  PROVE  Kept
<1> DEFINE q == tx[t]
           r == [q EXCEPT !.cid = q.cid + 1]
<1>1. q \in TxRecords /\ q = tx[t] /\ tx[t].pc = "running"
  BY IdFacts DEF AdvanceCommand, Running
<1>2. tx' = [tx EXCEPT ![t] = r] /\ dl' = dl /\ vx' = vx
  BY DEF AdvanceCommand, IInv, Types
<1> HIDE DEF q
<1>3. r.n = q.n /\ r.ts = q.ts /\ r.start = q.start /\ r.i = q.i /\ r.pc = "running"
  BY <1>1 DEF TxRecords
<1> HIDE DEF r
<1>4. tx'[t] = r /\ \A u \in Txns : u # t => tx'[u] = tx[u]
  BY <1>2, MovedFacts
<1> QED BY <1>1, <1>2, <1>3, <1>4, KeepWoven DEF Kept

(* The marks are read.                                                     *)
LEMMA HandlePropagationWoven ==
  ASSUME IInv, Woven(tx, dl, vx), Flagged(tx, dl, vx), NEW t \in Txns, HandlePropagation(t)
  PROVE  Kept
<1> DEFINE q == tx[t]
           todo == IF tx[t].nonseq \/ tx[t].propagation = "PENDING" THEN VerticesToCheck(t) ELSE {}
           r == [q EXCEPT !.pc = "flags", !.propagation = "HANDLED", !.todo = todo]
<1>1. q \in TxRecords /\ q = tx[t] /\ tx[t].pc = "stored"
  BY IdFacts DEF HandlePropagation
<1>2. tx' = [tx EXCEPT ![t] = r] /\ dl' = dl /\ vx' = vx
  BY DEF HandlePropagation, IInv, Types
<1> HIDE DEF q, todo
<1>3. r.n = q.n /\ r.ts = q.ts /\ r.start = q.start /\ r.i = q.i /\ r.pc = "flags"
  BY <1>1 DEF TxRecords
<1> HIDE DEF r
<1>4. tx'[t] = r /\ \A u \in Txns : u # t => tx'[u] = tx[u]
  BY <1>2, MovedFacts
<1> QED BY <1>1, <1>2, <1>3, <1>4, KeepWoven DEF Kept

(* FinalizeTransaction, first half.                                        *)
LEMMA ReportCommitTimestampWoven ==
  ASSUME IInv, Woven(tx, dl, vx), Flagged(tx, dl, vx), NEW t \in Txns, ReportCommitTimestamp(t)
  PROVE  Kept
<1> DEFINE q == tx[t]
           pc == IF tx[t].where = "freed" THEN "end" ELSE "handover"
           r == [q EXCEPT !.pc = pc]
<1>1. q \in TxRecords /\ q = tx[t] /\ tx[t].pc = "finalize"
  BY IdFacts DEF ReportCommitTimestamp
<1>2. tx' = [tx EXCEPT ![t] = r] /\ dl' = dl /\ vx' = vx
  BY DEF ReportCommitTimestamp, IInv, Types
<1>0. pc \in {"end", "handover"}
  OBVIOUS
<1> HIDE DEF q, pc
<1>3. r.n = q.n /\ r.ts = q.ts /\ r.start = q.start /\ r.i = q.i /\ r.pc = pc
  BY <1>1 DEF TxRecords
<1> HIDE DEF r
<1>4. tx'[t] = r /\ \A u \in Txns : u # t => tx'[u] = tx[u]
  BY <1>2, MovedFacts
<1> QED BY <1>0, <1>1, <1>2, <1>3, <1>4, KeepWoven DEF Kept

(* And second.                                                             *)
LEMMA HandOverWoven ==
  ASSUME IInv, Woven(tx, dl, vx), Flagged(tx, dl, vx), NEW t \in Txns, HandOver(t)
  PROVE  Kept
<1> DEFINE q == tx[t]
           where == IF tx[t].nonseq THEN "waiting" ELSE "committed"
           r == [q EXCEPT !.pc = "end", !.unlinkable = q.ts, !.where = where]
<1>1. q \in TxRecords /\ q = tx[t] /\ tx[t].pc = "handover"
  BY IdFacts DEF HandOver
<1>2. tx' = [tx EXCEPT ![t] = r] /\ dl' = dl /\ vx' = vx
  BY DEF HandOver, IInv, Types
<1> HIDE DEF q, where
<1>3. r.n = q.n /\ r.ts = q.ts /\ r.start = q.start /\ r.i = q.i /\ r.pc = "end"
  BY <1>1 DEF TxRecords
<1> HIDE DEF r
<1>4. tx'[t] = r /\ \A u \in Txns : u # t => tx'[u] = tx[u]
  BY <1>2, MovedFacts
<1> QED BY <1>1, <1>2, <1>3, <1>4, KeepWoven DEF Kept

(* The end of an abort.                                                    *)
LEMMA AbortReportWoven ==
  ASSUME IInv, Woven(tx, dl, vx), Flagged(tx, dl, vx), NEW t \in Txns, AbortReport(t)
  PROVE  Kept
<1> DEFINE q == tx[t]
           r == [q EXCEPT !.pc = "end"]
<1>1. q \in TxRecords /\ q = tx[t] /\ tx[t].pc = "report"
  BY IdFacts DEF AbortReport
<1>2. tx' = [tx EXCEPT ![t] = r] /\ dl' = dl /\ vx' = vx
  BY DEF AbortReport, IInv, Types
<1> HIDE DEF q
<1>3. r.n = q.n /\ r.ts = q.ts /\ r.start = q.start /\ r.i = q.i /\ r.pc = "end"
  BY <1>1 DEF TxRecords
<1> HIDE DEF r
<1>4. tx'[t] = r /\ \A u \in Txns : u # t => tx'[u] = tx[u]
  BY <1>2, MovedFacts
<1> QED BY <1>1, <1>2, <1>3, <1>4, KeepWoven DEF Kept

(* FinalizeCommitPhase keeps the deltas.                                   *)
LEMMA FinishCommitKeepsWoven ==
  ASSUME IInv, Woven(tx, dl, vx), Flagged(tx, dl, vx), NEW t \in Txns, FinishCommit(t), ~MayDiscard(t, open')
  PROVE  Kept
<1> DEFINE q == tx[t]
           r == [q EXCEPT !.pc = "finalize"]
<1>1. q \in TxRecords /\ q = tx[t] /\ tx[t].pc = "flags"
  BY IdFacts DEF FinishCommit
<1>2. tx' = [tx EXCEPT ![t] = r] /\ dl' = dl /\ vx' = vx
  BY DEF FinishCommit, IInv, Types
<1> HIDE DEF q
<1>3. r.n = q.n /\ r.ts = q.ts /\ r.start = q.start /\ r.i = q.i /\ r.pc = "finalize"
  BY <1>1 DEF TxRecords
<1> HIDE DEF r
<1>4. tx'[t] = r /\ \A u \in Txns : u # t => tx'[u] = tx[u]
  BY <1>2, MovedFacts
<1> QED BY <1>1, <1>2, <1>3, <1>4, KeepWoven DEF Kept

(* The flag goes only if no delta of a transaction at work needs it.       *)
LEMMA RefreshFlagWoven ==
  ASSUME IInv, Woven(tx, dl, vx), Flagged(tx, dl, vx), NEW t \in Txns, NEW v \in Vertices, RefreshFlag(t, v)
  PROVE  Kept
<1> DEFINE q == tx[t]
           x == vx[v]
           flag == vx[v].flag /\ HasUncommittedNonSequentialDeltas(Chain(vx[v].head), t)
           r == [q EXCEPT !.todo = q.todo \ {v}]
           y == [x EXCEPT !.flag = flag]
<1>1. /\ q \in TxRecords /\ q = tx[t] /\ tx[t].pc = "flags" /\ x = vx[v] /\ x \in VertexRecords
      /\ vx \in [Vertices -> VertexRecords]
  BY IdFacts DEF RefreshFlag, IInv, Types
<1>2. tx' = [tx EXCEPT ![t] = r] /\ dl' = dl /\ vx' = [vx EXCEPT ![v] = y]
  BY DEF RefreshFlag, IInv, Types
<1> HIDE DEF q, x, flag
<1>3. /\ r.n = q.n /\ r.ts = q.ts /\ r.start = q.start /\ r.i = q.i /\ r.pc = q.pc
      /\ y.head = x.head /\ y.flag = flag /\ y.val = x.val /\ y.edges = x.edges
  BY <1>1 DEF TxRecords, VertexRecords
<1> HIDE DEF r, y
<1>4. tx'[t] = r /\ \A u \in Txns : u # t => tx'[u] = tx[u]
  BY <1>2, MovedFacts
<1>5. vx'[v] = y /\ \A w \in Vertices : w # v => vx'[w] = vx[w]
  BY <1>1, <1>2
<1>6. \A w \in Vertices : vx'[w].head = vx[w].head
  BY <1>1, <1>3, <1>5
<1>7. \A w \in Vertices : vx'[w].val = vx[w].val /\ vx'[w].edges = vx[w].edges
  BY <1>1, <1>3, <1>5
<1>8. Woven(tx', dl', vx') /\ Same(tx, tx')
  BY <1>1, <1>2, <1>3, <1>4, <1>6, KeepWoven
<1>9. Steady(tx, dl, vx, tx', dl', vx')
  BY <1>2, <1>8, <1>7, SameSteady
<1>10. ASSUME NEW z \in Deltas, Pend(tx', dl', z), Alive(tx', z[1]), NonSeq(dl', z)
      PROVE  vx'[dl'[z].obj].flag
  <2>1. z[1] \in Txns
    BY DeltaFacts
  <2>2. Pend(tx, dl, z) /\ Alive(tx, z[1]) /\ NonSeq(dl, z)
    BY <1>2, <1>8, <1>10, <2>1, SameDeltas DEF Same
  <2>3. vx[dl[z].obj].flag /\ dl[z].obj \in Vertices
    BY <2>2, PendFacts DEF Flagged
  <2>4. z[1] # t
    BY <1>1, <2>2 DEF Alive
  <2>5. HasUncommittedNonSequentialDeltas(Chain(vx[dl[z].obj].head), t)
    BY <2>2, <2>4, FlagKept
  <2>6. dl[z].obj = v => flag
    BY <2>3, <2>5 DEF flag
  <2> QED BY <1>2, <1>3, <1>5, <2>3, <2>6
<1> QED BY <1>8, <1>10, <1>9 DEF Flagged, Kept

(* A step between lists, or of a reader.                                   *)
LEMMA StillWoven ==
  ASSUME IInv, Woven(tx, dl, vx), Flagged(tx, dl, vx), dl' = dl,
         \A u \in Txns : /\ tx'[u].n = tx[u].n /\ tx'[u].ts = tx[u].ts /\ tx'[u].start = tx[u].start
                         /\ tx'[u].pc = tx[u].pc /\ tx'[u].i = tx[u].i,
         \A v \in Vertices : vx'[v].head = vx[v].head /\ vx'[v].flag = vx[v].flag
                             /\ vx'[v].val = vx[v].val /\ vx'[v].edges = vx[v].edges
  PROVE  Kept
<1>1. Same(tx, tx')
  BY DEF Same, Done, Alive
<1>2. Typed(tx, dl, vx) /\ Shape(tx, dl, vx)
  BY DEF IInv, Types, Typed, Coherent
<1>3. Woven(tx', dl, vx') /\ Flagged(tx', dl, vx')
  BY <1>1, <1>2, SameWoven
<1>4. Steady(tx, dl, vx, tx', dl, vx')
  BY <1>1, SameSteady
<1> QED BY <1>3, <1>4 DEF Kept

(* Readers only enter and leave.                                           *)
LEMMA ReadWoven ==
  ASSUME IInv, Woven(tx, dl, vx), Flagged(tx, dl, vx), NEW t \in Txns, Read(t)
  PROVE  Kept
<1> DEFINE Fixed == \A w \in Vertices : /\ vx'[w].head = vx[w].head /\ vx'[w].flag = vx[w].flag
                                        /\ vx'[w].val = vx[w].val /\ vx'[w].edges = vx[w].edges
<1>1. tx' = tx /\ dl' = dl
  BY DEF Read, ReadBegin, ReadDelta, ReadEnd
<1>2. ASSUME NEW v \in Vertices, NEW R, vx' = [vx EXCEPT ![v].readers = R]
      PROVE  Fixed
  <2> DEFINE x == vx[v]
             y == [x EXCEPT !.readers = R]
  <2>1. x = vx[v] /\ x \in VertexRecords /\ vx \in [Vertices -> VertexRecords] /\ vx' = [vx EXCEPT ![v] = y]
    BY <1>2 DEF IInv, Types
  <2> HIDE DEF x
  <2>2. y.head = x.head /\ y.flag = x.flag /\ y.val = x.val /\ y.edges = x.edges
    BY <2>1 DEF VertexRecords
  <2> HIDE DEF y
  <2> QED BY <2>1, <2>2
<1>3. Fixed
  <2>1. CASE ReadDelta(t)
    BY <2>1 DEF ReadDelta
  <2>2. CASE ReadEnd(t)
    <3>1. rd[t].v \in Vertices
      BY <2>2 DEF ReadEnd, IInv, Types, Reads
    <3>2. vx' = [vx EXCEPT ![rd[t].v].readers = vx[rd[t].v].readers \ {t}]
      BY <2>2 DEF ReadEnd
    <3> QED BY <1>2, <3>1, <3>2
  <2>3. ASSUME NEW v \in Vertices, NEW view \in {"OLD", "NEW"}, ReadBegin(t, v, view)
        PROVE  Fixed
    <3>1. vx' = vx \/ vx' = [vx EXCEPT ![v].readers = vx[v].readers \cup {t}]
      BY <2>3 DEF ReadBegin
    <3> QED BY <1>2, <3>1
  <2> QED BY <2>1, <2>2, <2>3 DEF Read
<1> QED BY <1>1, <1>3, StillWoven

(* The collector moves containers from list to list.                       *)
LEMMA GcListWoven ==
  ASSUME IInv, Woven(tx, dl, vx), Flagged(tx, dl, vx), GcBegin \/ GcWaitingRoom \/ GcPop \/ GcEnd
  PROVE  Kept
<1>1. dl' = dl /\ vx' = vx
  BY DEF GcBegin, GcWaitingRoom, GcPop, GcEnd
<1>2. ASSUME NEW u \in Txns
      PROVE  /\ tx'[u].n = tx[u].n /\ tx'[u].ts = tx[u].ts /\ tx'[u].start = tx[u].start
             /\ tx'[u].pc = tx[u].pc /\ tx'[u].i = tx[u].i
  <2> DEFINE q == tx[u]
  <2>1. q = tx[u] /\ q \in TxRecords
    BY IdFacts
  <2>2. ASSUME NEW w, NEW m, NEW k,
               tx'[u] \in {q, [q EXCEPT !.where = w], [q EXCEPT !.where = w, !.mark = m],
                           [q EXCEPT !.where = w, !.unlinkable = k]}
        PROVE  /\ tx'[u].n = tx[u].n /\ tx'[u].ts = tx[u].ts /\ tx'[u].start = tx[u].start
               /\ tx'[u].pc = tx[u].pc /\ tx'[u].i = tx[u].i
    <3> HIDE DEF q
    <3> QED BY <2>1, <2>2 DEF TxRecords
  <2>3. CASE GcBegin
    BY <2>3 DEF GcBegin
  <2>4. CASE GcWaitingRoom
    <3> DEFINE k == Max({tx[u].ts} \cup {TsOf(d) : d \in Contributors(u)})
    <3>1. tx'[u] \in {q, [q EXCEPT !.where = "committed", !.unlinkable = k]}
      BY <2>4 DEF GcWaitingRoom
    <3> HIDE DEF q, k
    <3> QED BY <2>1, <3>1 DEF TxRecords
  <2>5. CASE GcPop
    <3>1. tx'[u] \in {q, [q EXCEPT !.where = "freed"], [q EXCEPT !.where = "linked"]}
      BY <2>5 DEF GcPop
    <3> HIDE DEF q
    <3> QED BY <2>2, <3>1
  <2>6. CASE GcEnd
    <3>1. tx'[u] \in {q, [q EXCEPT !.where = "freed"], [q EXCEPT !.where = "garbage", !.mark = timestamp],
                      [q EXCEPT !.where = "committed"]}
      BY <2>6 DEF GcEnd
    <3> HIDE DEF q
    <3> QED BY <2>2, <3>1
  <2> QED BY <2>3, <2>4, <2>5, <2>6
<1> QED BY <1>1, <1>2, StillWoven

-----------------------------------------------------------------------------
(* The collector cuts d off.                                               *)
CutOff(T, D, X, D2, X2, d) ==
  /\ Done(T, d[1])
  /\ \A u \in Txns : T[u].pc \in {"running", "aborting"} => T[d[1]].ts < T[u].start
  /\ \A e \in Deltas :
       /\ D2[e].obj = D[e].obj /\ D2[e].act = D[e].act /\ D2[e].state = D[e].state
       /\ D2[e].prev = D[e].prev /\ D2[e].arg = D[e].arg
       /\ D2[e].next = D[e].next \/ (D[e].next \in {d, Null} /\ D2[e].next = Null)
  /\ \A w \in Vertices : X2[w].val = X[w].val /\ X2[w].edges = X[w].edges
  /\ \A w \in Vertices :
       \/ X2[w].head = X[w].head /\ (X[w].flag => X2[w].flag)
       \/ X[w].head = d /\ X2[w].head = Null

(* Above an uncommitted delta there is nothing to cut: what is committed   *)
(* there was committed after its transaction began.                        *)
LEMMA CutWoven ==
  ASSUME NEW T, NEW D, NEW X, NEW T2, NEW D2, NEW X2, Typed(T, D, X), Shape(T, D, X),
         Woven(T, D, X), Flagged(T, D, X), Same(T, T2), NEW d \in Deltas, CutOff(T, D, X, D2, X2, d)
  PROVE  Woven(T2, D2, X2) /\ Flagged(T2, D2, X2) /\ Steady(T, D, X, T2, D2, X2)
<1>1. /\ \A e \in Deltas : /\ D2[e].obj = D[e].obj /\ D2[e].act = D[e].act /\ D2[e].state = D[e].state
                           /\ D2[e].prev = D[e].prev
                           /\ D2[e].next = D[e].next \/ (D[e].next \in {d, Null} /\ D2[e].next = Null)
      /\ \A w \in Vertices : \/ X2[w].head = X[w].head /\ (X[w].flag => X2[w].flag)
                             \/ X[w].head = d /\ X2[w].head = Null
  BY DEF CutOff
<1>2. \A e \in Deltas : (OwnPrev(D2, e) <=> OwnPrev(D, e)) /\ (NonSeq(D2, e) <=> NonSeq(D, e))
  BY <1>1 DEF OwnPrev, NonSeq
<1>3. \A e \in Deltas : Gone(T2, D2, e) <=> Gone(T2, D, e)
  BY <1>1, <1>2 DEF Gone
<1>4. \A e \in Deltas : /\ Created(T2, e) <=> Created(T, e)
                        /\ Pend(T2, D, e) <=> Pend(T, D, e)
                        /\ Present(T2, D, e) <=> Present(T, D, e)
  BY SameDeltas
<1>5. \A e \in Deltas : /\ Pend(T2, D2, e) <=> Pend(T, D, e)
                        /\ Present(T2, D2, e) <=> Present(T, D, e)
  BY <1>3, <1>4 DEF Pend, Present
<1>6. /\ \A e \in Deltas : e[1] \in Txns /\ e # Null
      /\ \A u \in Txns : T[u].start \in Nat /\ T[u].ts \in Nat
  BY PointerFacts
<1>7. \A e \in Deltas : /\ T2[e[1]].ts = T[e[1]].ts /\ T2[e[1]].start = T[e[1]].start
                        /\ Done(T2, e[1]) <=> Done(T, e[1])
                        /\ Alive(T2, e[1]) <=> Alive(T, e[1])
  BY <1>6 DEF Same
<1>8. ASSUME NEW y \in Deltas, Pend(T, D, y), NEW S \in SUBSET Deltas, Thread(T, D, X, S, y)
      PROVE  /\ d \notin S /\ D[y].obj \in Vertices
             /\ X2[D[y].obj].head = X[D[y].obj].head /\ (X[D[y].obj].flag => X2[D[y].obj].flag)
  <2>1. T[y[1]].pc \in {"running", "aborting"} /\ y[1] \in Txns
    BY <1>6, <1>8 DEF Pend, Alive
  <2>2. Done(T, d[1]) /\ T[d[1]].ts < T[y[1]].start
    BY <2>1 DEF CutOff
  <2>3. d \notin S
    <3>1. SUFFICES ASSUME d \in S PROVE FALSE
      OBVIOUS
    <3>2. T[y[1]].start < T[d[1]].ts
      BY <1>8, <2>2, <3>1 DEF Thread, Joined
    <3> QED BY <1>6, <2>1, <2>2, <3>2
  <2>4. D[y].obj \in Vertices
    BY <1>8, ObjectFacts DEF Pend
  <2>5. X[D[y].obj].head # d
    BY <1>8, <2>3 DEF Thread
  <2> QED BY <1>1, <2>3, <2>4, <2>5
<1>9. ASSUME NEW y \in Deltas, Pend(T, D, y) PROVE \E S \in SUBSET Deltas : Thread(T2, D2, X2, S, y)
  <2>1. PICK S \in SUBSET Deltas : Thread(T, D, X, S, y)
    BY <1>9 DEF Woven, Threaded
  <2>2. d \notin S /\ D[y].obj \in Vertices /\ X2[D[y].obj].head = X[D[y].obj].head
    BY <1>8, <1>9, <2>1
  <2>3. ASSUME NEW x \in S PROVE Joined(T2, D2, X2, S, y, x)
    <3>1. Joined(T, D, X, S, y, x) /\ x \in Deltas /\ x # d /\ x # Null
      BY <1>6, <2>1, <2>2, <2>3 DEF Thread
    <3>2. D[x].next \in S => D2[x].next = D[x].next
      BY <1>1, <1>6, <2>2, <3>1
    <3>3. D[x].prev \in S /\ D[D[x].prev].next = x => D2[D[x].prev].next = x
      BY <1>1, <3>1
    <3>4. D2[x].obj = D2[y].obj /\ D2[y].obj = D[y].obj /\ D2[x].prev = D[x].prev
      BY <1>1, <3>1 DEF Joined
    <3>5. x = y \/ (D2[x].next \in S /\ D2[D2[x].next].prev = x)
      BY <1>1, <3>1, <3>2 DEF Joined
    <3>6. \/ D2[x].prev \in S /\ D2[D2[x].prev].next = x
          \/ D2[x].prev = D2[y].obj /\ X2[D2[y].obj].head = x
      BY <2>2, <3>1, <3>3, <3>4 DEF Joined
    <3>7. Present(T2, D2, x) /\ (Done(T2, x[1]) => T2[y[1]].start < T2[x[1]].ts)
      BY <1>5, <1>7, <3>1 DEF Joined
    <3> QED BY <3>4, <3>5, <3>6, <3>7 DEF Joined
  <2>4. y \in S /\ X2[D2[y].obj].head \in S
    BY <1>1, <2>1, <2>2 DEF Thread
  <2>5. Alive(T2, y[1]) /\ NonSeq(D2, y) => \A x \in S : NonSeq(D2, x)
    BY <1>2, <1>7, <2>1 DEF Thread
  <2>6. D2[y].act = "SET" => \A x \in S : /\ x[1] = y[1]
                                          /\ D2[x].act = "SET" \/ D2[x].state = "FORCED_SEQUENTIAL"
    BY <1>1, <2>1 DEF Thread
  <2>7. Thread(T2, D2, X2, S, y)
    BY <2>3, <2>4, <2>5, <2>6 DEF Thread
  <2> QED BY <2>7
<1>10. Threaded(T2, D2, X2)
  BY <1>5, <1>9 DEF Threaded
<1>11. Forward(T2, D2)
  <2>1. SUFFICES ASSUME NEW x \in Deltas, Pend(T2, D2, x), D2[x].next \in Deltas
                 PROVE  D2[D2[x].next].prev = x /\ Present(T2, D2, D2[x].next)
    BY DEF Forward
  <2>2. D2[x].next = D[x].next
    BY <1>1, <1>6, <2>1
  <2>3. D[D[x].next].prev = x /\ Present(T, D, D[x].next)
    BY <1>5, <2>1, <2>2 DEF Woven, Forward
  <2> QED BY <1>1, <1>5, <2>1, <2>2, <2>3
<1>12. HeadBacked(T2, D2, X2)
  <2>1. SUFFICES ASSUME NEW v \in Vertices, X2[v].head # Null
                 PROVE  D2[X2[v].head].prev = v /\ Present(T2, D2, X2[v].head)
    BY DEF HeadBacked
  <2>2. X2[v].head = X[v].head /\ X[v].head \in Deltas
    BY <1>1, <2>1, PointerFacts
  <2>3. D[X[v].head].prev = v /\ Present(T, D, X[v].head)
    BY <2>1, <2>2 DEF Woven, HeadBacked
  <2> QED BY <1>1, <1>5, <2>2, <2>3
<1>13. Solo(T2, D2)
  BY <1>1, <1>2, <1>5 DEF Woven, Solo
<1>14. Aged(T2, D2)
  <2>1. PICK r : Aging(T, D, r)
    BY DEF Woven, Aged
  <2>2. Aging(T2, D2, r)
    BY <1>1, <1>4, <1>6, <2>1 DEF Aging
  <2> QED BY <2>2 DEF Aged
<1>15. Flagged(T2, D2, X2)
  <2>1. SUFFICES ASSUME NEW y \in Deltas, Pend(T2, D2, y), Alive(T2, y[1]), NonSeq(D2, y)
                 PROVE  X2[D2[y].obj].flag
    BY DEF Flagged
  <2>2. Pend(T, D, y) /\ Alive(T, y[1]) /\ NonSeq(D, y) /\ D2[y].obj = D[y].obj
    BY <1>1, <1>2, <1>5, <1>7, <2>1
  <2>3. PICK S \in SUBSET Deltas : Thread(T, D, X, S, y)
    BY <2>2 DEF Woven, Threaded
  <2>4. X[D[y].obj].flag
    BY <2>2 DEF Flagged
  <2> QED BY <1>8, <2>2, <2>3, <2>4
<1>16. Steady(T, D, X, T2, D2, X2)
  <2>1. \A e \in Deltas : Done(T2, e[1]) <=> Done(T, e[1])
    BY <1>7
  <2>2. \A e \in Deltas : D2[e].arg = D[e].arg
    BY DEF CutOff
  <2>3. \A w \in Vertices : X2[w].val = X[w].val /\ X2[w].edges = X[w].edges
    BY DEF CutOff
  <2> QED BY <1>1, <1>4, <1>5, <2>1, <2>2, <2>3 DEF Steady
<1> QED BY <1>10, <1>11, <1>12, <1>13, <1>14, <1>15, <1>16 DEF Woven

(* One delta of a container that is older than everybody.                  *)
LEMMA GcUnlinkWoven ==
  ASSUME IInv, Woven(tx, dl, vx), Flagged(tx, dl, vx), NEW t \in Txns, GcUnlink(t)
  PROVE  Kept
<1> DEFINE i == IF gc.txn = t THEN gc.i + 1 ELSE 1
           d == <<t, i>>
           n == tx[t].n
           p == dl[d].prev
           v == dl[d].obj
<1>1. /\ gc.pc = "unlink" /\ tx[t].where = "linked" /\ tx[t].unlinkable < gc.oldest
      /\ GcUnlinkDelta(d) /\ tx' = (IF i = n THEN [tx EXCEPT ![t].where = "unlinked"] ELSE tx)
  BY DEF GcUnlink, Unlinkable
<1>2. /\ Typed(tx, dl, vx) /\ Coherent(tx, dl, vx, gc) /\ GcSound(tx, timestamp, gc)
      /\ tx \in [Txns -> TxRecords] /\ dl \in [Deltas -> DeltaRecords] /\ vx \in [Vertices -> VertexRecords]
  BY DEF IInv, Types, Typed, Clock
<1>3. /\ Sound(t, tx[t], timestamp, open, gc) /\ tx[t].ts \in Nat /\ n \in Nat /\ n <= MaxDeltas
      /\ tx[t] \in TxRecords /\ MaxDeltas \in Nat
  BY IdFacts, DeltaChainConstants
<1>4. n > 0 /\ tx[t].pc = "end" /\ tx[t].ts < kTransactionInitialId /\ tx[t].ts <= tx[t].unlinkable
  BY <1>1, <1>3 DEF Sound
<1>5. gc.oldest \in Nat /\ gc.i \in Nat /\ t # Null /\ (gc.txn = t => 1 <= gc.i /\ gc.i < n)
  <2>1. GcSound(tx, timestamp, gc) /\ t # Null
    BY <1>2, PointerConstants
  <2> QED BY <2>1, GcFacts DEF GcSound
<1>6. i \in Nat /\ i >= 1 /\ i <= n /\ (gc.txn = t => i = gc.i + 1)
  BY <1>3, <1>4, <1>5
<1>7. d \in Deltas /\ d[1] = t /\ d[2] = i
  BY <1>3, <1>6 DEF Deltas
<1>8. Done(tx, t) /\ Attached(tx, d) /\ InUse(tx, gc, d)
  <2>1. Done(tx, t)
    BY <1>4 DEF Done
  <2>2. Created(tx, d)
    BY <1>6, <1>7 DEF Created
  <2>3. ~(gc.txn = t /\ i <= gc.i)
    BY <1>5, <1>6
  <2> HIDE DEF d
  <2> QED BY <1>1, <1>7, <2>1, <2>2, <2>3 DEF Attached, InUse
<1>9. ASSUME NEW u \in Txns, tx[u].pc \in {"running", "aborting"} PROVE tx[t].ts < tx[u].start
  <2>1. gc.oldest <= tx[u].start /\ tx[u].start \in Nat
    <3>1. Sound(u, tx[u], timestamp, open, gc) /\ tx[u].start \in Nat
      BY IdFacts
    <3> QED BY <1>1, <1>9, <3>1 DEF Sound
  <2>2. tx[t].unlinkable \in Nat
    <3>1. tx[t].unlinkable \in 0..2*N
      BY <1>3 DEF TxRecords, Timestamps
    <3> QED BY <3>1, DeltaChainConstants
  <2> QED BY <1>1, <1>3, <1>4, <1>5, <2>1, <2>2
<1>10. /\ v \in Vertices /\ (p \in Deltas \/ p = v)
       /\ p \in Vertices => vx[v].head = d
       /\ p \in Deltas => dl[p].next \in {d, Null}
  <2>1. Created(tx, d)
    BY <1>8 DEF Attached
  <2> HIDE DEF d
  <2> QED BY <1>2, <1>7, <1>8, <2>1 DEF Coherent, Shape, HeadLinked, BackLinked
<1>11. Same(tx, tx')
  <2> DEFINE q == tx[t]
             r == [q EXCEPT !.where = "unlinked"]
  <2>1. tx' = [tx EXCEPT ![t] = r] \/ tx' = tx
    BY <1>1, <1>2
  <2>2. q = tx[t] /\ q \in TxRecords
    BY <1>3
  <2> HIDE DEF q
  <2>3. r.n = q.n /\ r.ts = q.ts /\ r.start = q.start /\ r.pc = q.pc /\ r.i = q.i
    BY <2>2 DEF TxRecords
  <2> HIDE DEF r, i, n
  <2>4. \A u \in Txns : /\ tx'[u].n = tx[u].n /\ tx'[u].ts = tx[u].ts /\ tx'[u].start = tx[u].start
                        /\ tx'[u].pc = tx[u].pc /\ tx'[u].i = tx[u].i
    BY <1>2, <2>1, <2>2, <2>3
  <2> QED BY <2>4 DEF Same, Done, Alive
<1> HIDE DEF i, n
<1>12. \A e \in Deltas : /\ dl'[e].obj = dl[e].obj /\ dl'[e].act = dl[e].act
                         /\ dl'[e].state = dl[e].state /\ dl'[e].prev = dl[e].prev /\ dl'[e].arg = dl[e].arg
                         /\ dl'[e].next = dl[e].next \/ (dl[e].next \in {d, Null} /\ dl'[e].next = Null)
  <2>1. CASE dl' = dl
    BY <2>1
  <2>2. CASE p \in Deltas /\ dl' = [dl EXCEPT ![p].next = Null]
    <3> DEFINE x == dl[p]
               y == [x EXCEPT !.next = Null]
    <3>1. x \in DeltaRecords /\ x = dl[p] /\ x.next \in {d, Null}
      BY <1>2, <1>10, <2>2
    <3>2. dl' = [dl EXCEPT ![p] = y]
      BY <1>2, <2>2
    <3> HIDE DEF x, p
    <3>3. y.obj = x.obj /\ y.act = x.act /\ y.state = x.state /\ y.prev = x.prev /\ y.next = Null /\ y.arg = x.arg
      BY <3>1 DEF DeltaRecords
    <3> HIDE DEF y
    <3> QED BY <1>2, <2>2, <3>1, <3>2, <3>3
  <2>3. dl' = dl \/ (p \in Deltas /\ dl' = [dl EXCEPT ![p].next = Null])
    <3>1. dl' = dl \/ (p \notin Vertices /\ dl' = [dl EXCEPT ![p].next = Null])
      BY <1>1 DEF GcUnlinkDelta
    <3> QED BY <1>10, <3>1
  <2> QED BY <2>1, <2>2, <2>3
<1>13. \A w \in Vertices : /\ vx'[w].val = vx[w].val /\ vx'[w].edges = vx[w].edges
                           /\ \/ vx'[w].head = vx[w].head /\ (vx[w].flag => vx'[w].flag)
                              \/ vx[w].head = d /\ vx'[w].head = Null
  <2>1. CASE vx' = vx
    BY <2>1
  <2>2. CASE p \in Vertices /\ vx' = [vx EXCEPT ![v].head = Null, ![v].flag = FALSE]
    <3> DEFINE x == vx[v]
               y == [x EXCEPT !.head = Null, !.flag = FALSE]
    <3>1. x \in VertexRecords /\ x = vx[v] /\ x.head = d
      BY <1>2, <1>10, <2>2
    <3>2. vx' = [vx EXCEPT ![v] = y]
      BY <1>2, <1>10, <2>2
    <3> HIDE DEF x, p, v
    <3>3. y.head = Null /\ y.val = x.val /\ y.edges = x.edges
      BY <3>1 DEF VertexRecords
    <3> HIDE DEF y
    <3> QED BY <1>2, <1>10, <2>2, <3>1, <3>2, <3>3
  <2>3. vx' = vx \/ (p \in Vertices /\ vx' = [vx EXCEPT ![v].head = Null, ![v].flag = FALSE])
    BY <1>1 DEF GcUnlinkDelta, GetVertexFromDelta
  <2> QED BY <2>1, <2>2, <2>3
<1>14. CutOff(tx, dl, vx, dl', vx', d)
  <2> HIDE DEF d
  <2> QED BY <1>7, <1>8, <1>9, <1>12, <1>13 DEF CutOff
<1>15. Shape(tx, dl, vx)
  BY <1>2 DEF Coherent
<1> HIDE DEF d
<1> QED BY <1>2, <1>7, <1>11, <1>14, <1>15, CutWoven DEF Kept

(* Everything is discarded when nobody is at work.                         *)
LEMMA FinishCommitDiscardsWoven ==
  ASSUME IInv, Woven(tx, dl, vx), Flagged(tx, dl, vx), NEW t \in Txns, FinishCommit(t), MayDiscard(t, open')
  PROVE  Kept
<1>1. FastDiscard(t) /\ tx[t].pc = "flags" /\ open' = open \ {tx[t].start} /\ dl' = dl
  BY DEF FinishCommit
<1>2. \A u \in Txns : tx[u].pc \notin {"running", "aborting"}
  BY <1>1, DiscardAlone
<1>3. ASSUME NEW u \in Txns
      PROVE  /\ tx'[u].n = tx[u].n /\ tx'[u].ts = tx[u].ts
             /\ tx'[u].pc = IF u = t THEN "finalize" ELSE tx[u].pc
  <2> DEFINE q == tx[u]
  <2>1. q \in TxRecords /\ q = tx[u]
    BY IdFacts
  <2>2. CASE u = t
    <3>1. tx'[u] = [q EXCEPT !.pc = "finalize", !.where = "freed"]
      BY <1>1, <2>2 DEF FastDiscard
    <3> HIDE DEF q
    <3> QED BY <2>1, <2>2, <3>1 DEF TxRecords
  <2>3. CASE u # t /\ tx[u].where \in {"committed", "waiting", "garbage"}
    <3>1. tx'[u] = [q EXCEPT !.where = "freed"]
      BY <1>1, <2>3 DEF FastDiscard
    <3> HIDE DEF q
    <3> QED BY <2>1, <2>3, <3>1 DEF TxRecords
  <2>4. CASE u # t /\ tx[u].where \notin {"committed", "waiting", "garbage"}
    <3>1. tx'[u] = q
      BY <1>1, <2>4 DEF FastDiscard
    <3> QED BY <2>1, <2>4, <3>1
  <2> QED BY <2>2, <2>3, <2>4
<1>4. ASSUME NEW w \in Vertices 
      PROVE  /\ vx'[w].head = vx[w].head \/ vx'[w].head = Null
             /\ vx'[w].val = vx[w].val /\ vx'[w].edges = vx[w].edges
  <2> DEFINE x == vx[w]
  <2>1. x \in VertexRecords /\ x = vx[w]
    BY DEF IInv, Types
  <2>2. vx'[w] = [x EXCEPT !.head = Null, !.flag = FALSE] \/ vx'[w] = x
    BY <1>1 DEF FastDiscard
  <2> HIDE DEF x
  <2> QED BY <2>1, <2>2 DEF VertexRecords
<1>5. Typed(tx, dl, vx) /\ Shape(tx, dl, vx)
  BY DEF IInv, Types, Typed, Coherent
<1>6. \A d \in Deltas : d[1] \in Txns
  BY <1>5, PointerFacts
<1>7. \A d \in Deltas : ~Pend(tx, dl, d) /\ ~Pend(tx', dl, d)
  BY <1>2, <1>3, <1>6 DEF Pend, Alive
<1>8. \A d \in Deltas : /\ Created(tx', d) <=> Created(tx, d)
                        /\ Done(tx', d[1]) <=> Done(tx, d[1])
  BY <1>1, <1>3, <1>6 DEF Created, Done
<1>9. \A d \in Deltas : Present(tx, dl, d) => Present(tx', dl, d)
  BY <1>7, <1>8 DEF Present
<1>10. Threaded(tx', dl, vx') /\ Forward(tx', dl) /\ Solo(tx', dl) /\ Flagged(tx', dl, vx')
  BY <1>7 DEF Threaded, Forward, Solo, Flagged
<1>11. HeadBacked(tx', dl, vx')
  <2>1. \A w \in Vertices : vx[w].head \in Deltas \cup {Null}
    BY <1>5, PointerFacts
  <2> QED BY <1>4, <1>9, <2>1 DEF Woven, HeadBacked
<1>12. Aged(tx', dl)
  BY <1>8 DEF Woven, Aged, Aging
<1>13. Steady(tx, dl, vx, tx', dl, vx')
  BY <1>4, <1>7, <1>8 DEF Steady
<1> QED BY <1>1, <1>10, <1>11, <1>12, <1>13 DEF Woven, Kept

-----------------------------------------------------------------------------
(* Commits and aborts leave the committed state.                           *)

(* The commit makes the newest value the committed one.                    *)
LEMMA StoreCommitTimestampStored ==
  ASSUME IInv, IInv', Woven(tx, dl, vx), Flagged(tx, dl, vx), Stored(tx, dl, vx, db),
         NEW t \in Txns, StoreCommitTimestamp(t)
  PROVE  Stored(tx', dl', vx', db')
<1>1. /\ dl' = dl /\ vx' = vx /\ Alive(tx, t)
      /\ \A v \in Vertices : db'[v] = Overlay(db[v], Writes(t, v, "SET"), Writes(t, v, "EDGE"))
  BY DEF StoreCommitTimestamp, Running, Alive
<1>2. ASSUME NEW v \in Vertices
      PROVE  /\ Writes(t, v, "SET") = {} => db'[v].val = db[v].val
             /\ Writes(t, v, "SET") # {} => db'[v].val = Newest(Writes(t, v, "SET"))
             /\ db'[v].edges = db[v].edges \cup Writes(t, v, "EDGE")
  <2> DEFINE image == db[v]
             sets == Writes(t, v, "SET")
             edges == Writes(t, v, "EDGE")
             new == db'[v]
             val == IF sets = {} THEN image.val ELSE Newest(sets)
  <2>1. new = [val |-> val, edges |-> image.edges \cup edges]
    BY <1>1 DEF Overlay
  <2>2. (sets = {} => val = image.val) /\ (sets # {} => val = Newest(sets))
    OBVIOUS
  <2> HIDE DEF image, sets, edges, new, val
  <2>3. new.val = val /\ new.edges = image.edges \cup edges
    BY <2>1
  <2> QED BY <2>2, <2>3 DEF image, sets, edges, new
<1>3. \A x \in Deltas : /\ Pend(tx', dl, x) <=> Pend(tx, dl, x) /\ x[1] # t
                        /\ Created(tx', x) /\ Done(tx', x[1]) <=> Created(tx, x) /\ (Done(tx, x[1]) \/ x[1] = t)
  BY StoreCommitTimestampWoven DEF Settles
<1>4. \A x \in Deltas : x[1] = t => (Pend(tx, dl, x) <=> Created(tx, x))
  BY <1>1 DEF Pend
<1>5. ASSUME NEW v \in Vertices
      PROVE  /\ Writes(t, v, "SET") = {x \in SetsOf(tx, dl, v) : x[1] = t}
             /\ SetsOf(tx', dl, v) = {x \in SetsOf(tx, dl, v) : x[1] # t}
             /\ SetsOf(tx, dl, v) \subseteq Deltas
  <2>1. Writes(t, v, "SET") = {x \in SetsOf(tx, dl, v) : x[1] = t}
    BY <1>4 DEF Writes, SetsOf, Created
  <2> QED BY <1>3, <2>1 DEF SetsOf
<1>6. ASSUME NEW v \in Vertices, Writes(t, v, "SET") = {}
      PROVE  SetsOf(tx', dl, v) = SetsOf(tx, dl, v) /\ db'[v].val = db[v].val
  BY <1>2, <1>5, <1>6
<1>7. ASSUME NEW v \in Vertices, Writes(t, v, "SET") # {}
      PROVE  SetsOf(tx', dl, v) = {} /\ db'[v].val = vx[v].val
  <2> DEFINE S == SetsOf(tx, dl, v)
  <2>1. PICK w \in S : w[1] = t
    BY <1>5, <1>7
  <2>2. \A x \in S : x[1] = t
    BY <2>1, OneWriter
  <2>3. Writes(t, v, "SET") = S /\ SetsOf(tx', dl, v) = {} /\ S # {} /\ S \subseteq Deltas
    BY <1>5, <2>1, <2>2
  <2>4. vx[v].val \in S /\ \A e \in S : e[2] <= vx[v].val[2]
    BY <2>3 DEF Stored, ValuesStored, Latest
  <2>5. \A x \in S : x[2] \in Nat /\ x = <<t, x[2]>>
    <3>1. Typed(tx, dl, vx)
      BY DEF IInv, Types, Typed
    <3> QED BY <2>2, <2>3, <3>1, PointerFacts
  <2> HIDE DEF S
  <2>6. \A e \in S : vx[v].val[2] >= e[2]
    BY <2>4, <2>5
  <2>7. Newest(S) \in S /\ \A e \in S : Newest(S)[2] >= e[2]
    BY <2>4, <2>6, Zenon DEF Newest
  <2>8. Newest(S) = vx[v].val
    <3>1. Newest(S)[2] = vx[v].val[2]
      BY <2>4, <2>5, <2>6, <2>7
    <3> QED BY <2>4, <2>5, <2>7, <3>1
  <2> QED BY <1>2, <1>7, <2>3, <2>8
<1>8. ValuesStored(tx', dl, vx, db')
  <2>1. ASSUME NEW v \in Vertices
        PROVE  /\ Latest(SetsOf(tx', dl, v), db'[v].val, vx[v].val)
               /\ \A y \in SetsOf(tx', dl, v) :
                    Latest({e \in SetsOf(tx', dl, v) : e[2] < y[2]}, db'[v].val, dl[y].arg)
    <3>1. CASE Writes(t, v, "SET") = {}
      BY <1>6, <3>1 DEF Stored, ValuesStored
    <3>2. CASE Writes(t, v, "SET") # {}
      BY <1>7, <3>2 DEF Latest
    <3> QED BY <3>1, <3>2
  <2> QED BY <2>1 DEF ValuesStored
<1>9. EdgesStored(tx', dl, vx, db')
  <2>1. SUFFICES ASSUME NEW v \in Vertices, NEW e \in Deltas
                 PROVE  /\ e \in vx[v].edges <=> Present(tx', dl, e) /\ dl[e].obj = v /\ dl[e].act = "EDGE"
                        /\ e \in db'[v].edges <=>
                             Created(tx', e) /\ Done(tx', e[1]) /\ dl[e].obj = v /\ dl[e].act = "EDGE"
    BY DEF EdgesStored
  <2>2. Present(tx', dl, e) <=> Present(tx, dl, e)
    BY <1>3, <1>4 DEF Present
  <2>3. e \in Writes(t, v, "EDGE") <=> e[1] = t /\ Created(tx, e) /\ dl[e].obj = v /\ dl[e].act = "EDGE"
    BY DEF Writes, Created
  <2>4. db'[v].edges = db[v].edges \cup Writes(t, v, "EDGE")
    BY <1>2
  <2> QED BY <1>3, <2>2, <2>3, <2>4 DEF Stored, EdgesStored
<1> QED BY <1>1, <1>8, <1>9 DEF Stored

(* What a run leaves when it is undone: no edge of it, and the value that  *)
(* its oldest property write had replaced.                                 *)
LEMMA UndoneFacts ==
  ASSUME IInv, NEW p \in Seq(Deltas), NEW image \in Images
  PROVE  /\ \A e : e \in Undone(image, p).edges <=>
                     e \in image.edges /\ \A i \in 1..Len(p) : dl[p[i]].act = "SET" \/ p[i] # e
         /\ (\A i \in 1..Len(p) : dl[p[i]].act # "SET") => Undone(image, p).val = image.val
         /\ \A k \in 1..Len(p) :
              dl[p[k]].act = "SET" /\ (\A i \in 1..Len(p) : k < i => dl[p[i]].act # "SET") =>
                Undone(image, p).val = dl[p[k]].arg
<1> DEFINE K == Len(p)
<1>1. PICK f \in [0..K -> Images] : /\ f[0] = image /\ \A n \in 1..K : f[n] = Undo(f[n-1], p[n])
                                    /\ Undone(image, p) = f[K]
  BY UndoneSteps
<1>2. K \in Nat
  OBVIOUS
<1>3. ASSUME NEW n \in 1..K
      PROVE  /\ n - 1 \in 0..K
             /\ dl[p[n]].act = "SET" => f[n].val = dl[p[n]].arg /\ f[n].edges = f[n-1].edges
             /\ dl[p[n]].act # "SET" => f[n].val = f[n-1].val /\ f[n].edges = f[n-1].edges \ {p[n]}
  <2> DEFINE g == f[n-1]
  <2>1. n - 1 \in 0..K
    BY <1>2
  <2>2. g \in Images
    BY <1>1, <2>1
  <2>3. f[n] = Undo(g, p[n])
    BY <1>1
  <2> HIDE DEF g
  <2>4. /\ dl[p[n]].act = "SET" => f[n].val = dl[p[n]].arg /\ f[n].edges = g.edges
        /\ dl[p[n]].act # "SET" => f[n].val = g.val /\ f[n].edges = g.edges \ {p[n]}
    BY <2>2, <2>3 DEF Undo, Images
  <2> QED BY <2>1, <2>4 DEF g
<1> DEFINE E(n) == \A e : e \in f[n].edges <=>
                            e \in image.edges /\ \A i \in 1..n : dl[p[i]].act = "SET" \/ p[i] # e
           V(n) == (\A i \in 1..n : dl[p[i]].act # "SET") => f[n].val = image.val
           W(n) == \A k \in 1..n : dl[p[k]].act = "SET" /\ (\A i \in 1..n : k < i => dl[p[i]].act # "SET") =>
                                     f[n].val = dl[p[k]].arg
           B == {n \in 0..K : ~(E(n) /\ V(n) /\ W(n))}
<1>4. E(0) /\ V(0) /\ W(0)
  BY <1>1
<1>5. ASSUME NEW n \in 1..K, E(n-1), V(n-1), W(n-1) PROVE E(n) /\ V(n) /\ W(n)
  <2>1. \A i : i \in 1..n <=> i \in 1..(n-1) \/ i = n
    BY <1>2
  <2>2. E(n)
    BY <1>3, <1>5, <2>1
  <2>3. V(n)
    BY <1>3, <1>5, <2>1
  <2>4. ASSUME NEW k \in 1..n, dl[p[k]].act = "SET", \A i \in 1..n : k < i => dl[p[i]].act # "SET"
        PROVE  f[n].val = dl[p[k]].arg
    <3>1. CASE k = n
      BY <1>3, <2>4, <3>1
    <3>2. CASE k # n
      <4>1. k \in 1..(n-1) /\ k < n /\ n \in 1..n
        BY <1>2, <2>1, <3>2
      <4>2. dl[p[n]].act # "SET" /\ \A i \in 1..(n-1) : k < i => dl[p[i]].act # "SET"
        BY <2>1, <2>4, <4>1
      <4>3. f[n-1].val = dl[p[k]].arg
        BY <1>5, <2>4, <4>1, <4>2
      <4> QED BY <1>3, <4>2, <4>3
    <3> QED BY <3>1, <3>2
  <2> QED BY <2>2, <2>3, <2>4
<1>6. B = {}
  <2>1. SUFFICES ASSUME B # {} PROVE FALSE
    OBVIOUS
  <2>2. B \in SUBSET Nat
    BY <1>2
  <2>3. PICK m \in B : \A y \in B : m <= y
    BY <2>1, <2>2, LeastExists
  <2>4. m \in 0..K /\ ~(E(m) /\ V(m) /\ W(m))
    OBVIOUS
  <2> HIDE DEF E, V, W
  <2>5. m # 0
    BY <1>4, <2>4
  <2>6. m \in 1..K /\ m - 1 \in 0..K /\ ~(m <= m - 1)
    BY <1>2, <2>4, <2>5
  <2>7. E(m-1) /\ V(m-1) /\ W(m-1)
    BY <2>3, <2>6
  <2> QED BY <1>5, <2>4, <2>6, <2>7
<1>7. K \in 0..K
  BY <1>2
<1>8. E(K) /\ V(K) /\ W(K)
  <2> HIDE DEF E, V, W, K
  <2> QED BY <1>6, <1>7
<1> QED BY <1>1, <1>8

(* Ranks fall along a run.                                                 *)
LEMMA RunFalls ==
  ASSUME NEW p \in Seq(Deltas), \A i \in 1..(Len(p) - 1) : p[i+1] = dl[p[i]].next,
         NEW r \in [Deltas -> Nat], \A e \in Deltas : dl[e].next \in Deltas => r[dl[e].next] < r[e],
         NEW i \in 1..Len(p), NEW j \in 1..Len(p), i < j
  PROVE  r[p[j]] < r[p[i]]
<1> DEFINE B == {k \in 1..Len(p) : i < k /\ ~(r[p[k]] < r[p[i]])}
<1>1. SUFFICES ASSUME B # {} PROVE FALSE
  OBVIOUS
<1>2. PICK m \in B : \A y \in B : m <= y
  <2>1. B \in SUBSET Nat
    OBVIOUS
  <2> QED BY <1>1, <2>1, LeastExists
<1>3. /\ m \in 1..Len(p) /\ i < m /\ ~(r[p[m]] < r[p[i]])
      /\ m - 1 \in 1..(Len(p) - 1) /\ m - 1 \in 1..Len(p) /\ (m - 1) + 1 = m /\ ~(m <= m - 1)
  BY <1>2
<1>4. p[m] = dl[p[m-1]].next /\ p[m] \in Deltas /\ p[m-1] \in Deltas /\ p[i] \in Deltas
  BY <1>3
<1>5. r[p[m]] < r[p[m-1]] /\ r[p[m]] \in Nat /\ r[p[m-1]] \in Nat /\ r[p[i]] \in Nat
  BY <1>4
<1>6. CASE i = m - 1
  BY <1>3, <1>5, <1>6
<1>7. CASE i < m - 1
  <2>1. m - 1 \notin B
    BY <1>2, <1>3
  <2>2. r[p[m-1]] < r[p[i]]
    BY <1>3, <1>7, <2>1
  <2> QED BY <1>3, <1>5, <2>2
<1> QED BY <1>3, <1>6, <1>7

(* A run with a property write is at the head and holds all of them.       *)
LEMMA RunHasAll ==
  ASSUME NEW T, NEW D, NEW X, Typed(T, D, X), Shape(T, D, X), Woven(T, D, X),
         NEW d \in Deltas, AtRun(T, D, d), NEW last, NEW P, RunOf(D, d, last, P),
         NEW y \in P, D[y].act = "SET", NEW x \in SetsOf(T, D, D[d].obj)
  PROVE  x \in P
<1>1. PICK r : Aging(T, D, r)
  BY DEF Woven, Aged
<1>2. Hangs(T, D, X, d, last, P, r)
  BY <1>1, RunHangs
<1>3. y \in Deltas /\ y[1] = d[1] /\ Pend(T, D, y) /\ D[y].obj = D[d].obj
  BY <1>2 DEF Hangs
<1>4. x \in Deltas /\ Pend(T, D, x) /\ D[x].obj = D[d].obj /\ y \in SetsOf(T, D, D[d].obj)
  BY <1>3 DEF SetsOf
<1>5. x[1] = d[1]
  BY <1>3, <1>4, OneWriter
<1>6. PICK S \in SUBSET Deltas : Thread(T, D, X, S, y)
  BY <1>3 DEF Woven, Threaded
<1>7. d \in S
  <2>1. y \in S
    BY <1>6 DEF Thread
  <2>2. d \notin S => P \cap S = {}
    BY <1>2, <1>3, <1>6, RunOutside DEF Woven
  <2> QED BY <2>1, <2>2
<1>8. X[D[d].obj].head = d
  <2>1. \A z \in S : z[1] = d[1]
    BY <1>3, <1>6 DEF Thread
  <2>2. D[d].prev \notin S
    BY <2>1 DEF AtRun, OwnPrev
  <2>3. Joined(T, D, X, S, y, d)
    BY <1>6, <1>7 DEF Thread
  <2> QED BY <1>3, <2>2, <2>3 DEF Joined
<1>9. PICK R \in SUBSET Deltas : Thread(T, D, X, R, x)
  BY <1>4 DEF Woven, Threaded
<1>10. d \in R
  BY <1>4, <1>8, <1>9 DEF Thread
<1>11. d # x => x[2] < d[2]
  BY <1>4, <1>5, <1>9, <1>10, AboveIsNewer DEF Woven
<1>12. x[2] \in Nat /\ d[2] \in Nat
  BY <1>4, PointerFacts
<1> QED BY <1>4, <1>5, <1>11, <1>12, RunComplete

(* process_vertex_deltas gives the vertex back what was there before.      *)
LEMMA AbortRunStored ==
  ASSUME IInv, Woven(tx, dl, vx), Flagged(tx, dl, vx), Stored(tx, dl, vx, db), NEW t \in Txns, AbortStep(t),
         HeadsRun(t, <<t, tx[t].i>>)
  PROVE  Stored(tx', dl', vx', db)
<1> DEFINE d == <<t, tx[t].i>>
           v == dl[d].obj
<1>1. Typed(tx, dl, vx) /\ Shape(tx, dl, vx) /\ vx[v] \in VertexRecords /\ d \in Deltas /\ v \in Vertices
      /\ AtRun(tx, dl, d)
  BY AbortRunWhole DEF IInv, Types, Typed, Coherent
<1>2. PICK p : RunTaken(t, d, v, p) /\ RunOf(dl, d, p[Len(p)], {p[i] : i \in 1..Len(p)})
  BY AbortRunWhole
<1> DEFINE last == p[Len(p)]
           P == {p[i] : i \in 1..Len(p)}
           image == [val |-> vx[v].val, edges |-> vx[v].edges]
<1>3. /\ Unlinks(tx, dl, vx, tx', dl', vx', d, last) /\ p \in Seq(Deltas)
      /\ \A i \in 1..(Len(p) - 1) : p[i+1] = dl[p[i]].next
      /\ vx'[v].val = Undone(image, p).val
      /\ vx'[v].edges = Undone(image, p).edges
      /\ \A w \in Vertices : w # v => vx'[w] = vx[w]
      /\ \A e \in Deltas : dl'[e].arg = dl[e].arg
  BY <1>2 DEF RunTaken
<1>4. RunOf(dl, d, last, P) /\ \A e : e \in P <=> \E i \in 1..Len(p) : e = p[i]
  BY <1>2
<1>5. image \in Images /\ image.val = vx[v].val /\ image.edges = vx[v].edges
  BY <1>1 DEF VertexRecords, Images
<1>6. \A e \in Deltas : dl'[e].obj = dl[e].obj /\ dl'[e].act = dl[e].act
  BY <1>3 DEF Unlinks
<1>7. PICK r : Aging(tx, dl, r)
  BY DEF Woven, Aged
<1> HIDE DEF d, v, image, P, last
<1>8. Remain(tx, dl, tx', dl', P)
  BY <1>1, <1>3, <1>4, UnlinkDeltas
<1>9. \A e \in P : e \in Deltas /\ e[1] = d[1] /\ Pend(tx, dl, e) /\ dl[e].obj = v
  BY <1>1, <1>4, <1>7, RunHangs DEF Hangs, v
<1>10. /\ \A e : e \in Undone(image, p).edges <=>
                   e \in image.edges /\ \A i \in 1..Len(p) : dl[p[i]].act = "SET" \/ p[i] # e
       /\ (\A i \in 1..Len(p) : dl[p[i]].act # "SET") => Undone(image, p).val = image.val
       /\ \A k \in 1..Len(p) :
            dl[p[k]].act = "SET" /\ (\A i \in 1..Len(p) : k < i => dl[p[i]].act # "SET") =>
              Undone(image, p).val = dl[p[k]].arg
  BY <1>3, <1>5, UndoneFacts
<1>11. EdgesStored(tx', dl', vx', db)
  <2>1. SUFFICES ASSUME NEW w \in Vertices, NEW e \in Deltas
                 PROVE  /\ e \in vx'[w].edges <=> Present(tx', dl', e) /\ dl'[e].obj = w /\ dl'[e].act = "EDGE"
                        /\ e \in db[w].edges <=>
                             Created(tx', e) /\ Done(tx', e[1]) /\ dl'[e].obj = w /\ dl'[e].act = "EDGE"
    BY DEF EdgesStored
  <2>2. /\ e \in vx[w].edges <=> Present(tx, dl, e) /\ dl[e].obj = w /\ dl[e].act = "EDGE"
        /\ e \in db[w].edges <=> Created(tx, e) /\ Done(tx, e[1]) /\ dl[e].obj = w /\ dl[e].act = "EDGE"
    BY DEF Stored, EdgesStored
  <2>3. e[1] \in Txns
    BY DeltaFacts
  <2>4. /\ Created(tx', e) <=> Created(tx, e)
        /\ Done(tx', e[1]) <=> Done(tx, e[1])
        /\ Present(tx', dl', e) <=> Present(tx, dl, e) /\ e \notin P
    BY <1>8, <2>3 DEF Remain
  <2>5. CASE w # v
    BY <1>3, <1>6, <1>9, <2>2, <2>4, <2>5
  <2>6. CASE w = v
    <3>1. e \in vx'[v].edges <=> e \in vx[v].edges /\ \A i \in 1..Len(p) : dl[p[i]].act = "SET" \/ p[i] # e
      BY <1>3, <1>5, <1>10
    <3>2. dl[e].act = "EDGE" => dl[e].act # "SET"
      OBVIOUS
    <3>3. dl[e].act = "EDGE" => (e \in P <=> \E i \in 1..Len(p) : dl[p[i]].act # "SET" /\ p[i] = e)
      BY <1>4, <3>2
    <3> QED BY <1>6, <2>2, <2>4, <2>6, <3>1, <3>3
  <2> QED BY <2>5, <2>6
<1>12. ASSUME NEW w \in Vertices
       PROVE  SetsOf(tx', dl', w) = SetsOf(tx, dl, w) \ P /\ SetsOf(tx, dl, w) \subseteq Deltas
  BY <1>6, <1>8 DEF SetsOf, Remain
<1>13. ASSUME NEW w \in Vertices, w # v \/ \A e \in P : dl[e].act # "SET"
       PROVE  SetsOf(tx', dl', w) = SetsOf(tx, dl, w) /\ vx'[w].val = vx[w].val
  <2>1. SetsOf(tx, dl, w) \cap P = {}
    BY <1>9, <1>13 DEF SetsOf
  <2>2. CASE w # v
    BY <1>3, <1>12, <2>1, <2>2
  <2>3. CASE w = v /\ \A e \in P : dl[e].act # "SET"
    <3>1. \A i \in 1..Len(p) : dl[p[i]].act # "SET"
      BY <1>4, <2>3
    <3>2. vx'[v].val = vx[v].val
      BY <1>3, <1>5, <1>10, <3>1
    <3> QED BY <1>12, <2>1, <2>3, <3>2
  <2> QED BY <1>13, <2>2, <2>3
<1>14. ASSUME NEW y \in P, dl[y].act = "SET"
       PROVE  SetsOf(tx', dl', v) = {} /\ vx'[v].val = db[v].val
  <2> DEFINE S == SetsOf(tx, dl, v)
             A == {i \in 1..Len(p) : dl[p[i]].act = "SET"}
  <2>1. S \subseteq P
    <3>1. ASSUME NEW x \in S PROVE x \in P
      BY <1>1, <1>4, <1>14, RunHasAll DEF v
    <3> QED BY <3>1
  <2>2. SetsOf(tx', dl', v) = {}
    BY <1>1, <1>12, <2>1
  <2>3. Len(p) \in Nat /\ A \in SUBSET (0..Len(p)) /\ A # {}
    BY <1>3, <1>4, <1>14
  <2>4. PICK k \in A : \A i \in A : k >= i
    BY <2>3, GreatestExists
  <2>5. k \in 1..Len(p) /\ dl[p[k]].act = "SET" /\ \A i \in 1..Len(p) : k < i => dl[p[i]].act # "SET"
    BY <2>4
  <2>6. vx'[v].val = dl[p[k]].arg
    BY <1>3, <1>10, <2>5
  <2>7. p[k] \in S
    BY <1>4, <1>9, <2>5 DEF SetsOf
  <2>8. ASSUME NEW e \in S, e[2] < p[k][2] PROVE FALSE
    <3>1. PICK i \in 1..Len(p) : e = p[i]
      BY <1>4, <2>1
    <3>2. i \in A
      BY <3>1 DEF SetsOf
    <3>3. /\ e \in Deltas /\ p[k] \in Deltas /\ Created(tx, e) /\ Created(tx, p[k]) /\ e[1] = p[k][1]
          /\ e[2] \in Nat /\ p[k][2] \in Nat
      BY <1>1, <1>9, <2>1, <2>7, PointerFacts DEF Pend
    <3>4. r \in [Deltas -> Nat] /\ \A z \in Deltas : dl[z].next \in Deltas => r[dl[z].next] < r[z]
      BY <1>7 DEF Aging
    <3>5. r[e] < r[p[k]] /\ r[e] \in Nat /\ r[p[k]] \in Nat
      BY <1>7, <2>8, <3>3, <3>4 DEF Aging
    <3>6. i # k /\ i <= k
      BY <2>4, <2>8, <3>1, <3>2, <3>3
    <3>7. i < k
      BY <2>5, <3>6
    <3>8. r[p[k]] < r[p[i]]
      BY <1>3, <2>5, <3>4, <3>7, RunFalls
    <3> QED BY <3>1, <3>5, <3>8
  <2>9. {e \in S : e[2] < p[k][2]} = {}
    BY <2>8
  <2>10. Latest({e \in S : e[2] < p[k][2]}, db[v].val, dl[p[k]].arg)
    BY <1>1, <2>7 DEF Stored, ValuesStored
  <2> QED BY <2>2, <2>6, <2>9, <2>10 DEF Latest
<1>15. ValuesStored(tx', dl', vx', db)
  <2>1. ASSUME NEW w \in Vertices
        PROVE  /\ Latest(SetsOf(tx', dl', w), db[w].val, vx'[w].val)
               /\ \A y \in SetsOf(tx', dl', w) :
                    Latest({e \in SetsOf(tx', dl', w) : e[2] < y[2]}, db[w].val, dl'[y].arg)
    <3>1. CASE w # v \/ \A e \in P : dl[e].act # "SET"
      <4>1. \A y \in SetsOf(tx, dl, w) : dl'[y].arg = dl[y].arg
        BY <1>3, <1>12
      <4> QED BY <1>13, <3>1, <4>1 DEF Stored, ValuesStored
    <3>2. CASE w = v /\ \E e \in P : dl[e].act = "SET"
      BY <1>14, <3>2 DEF Latest
    <3> QED BY <3>1, <3>2
  <2> QED BY <2>1 DEF ValuesStored
<1> QED BY <1>11, <1>15 DEF Stored

-----------------------------------------------------------------------------
(* JInv in every reachable state.                                          *)

(* No chains at first.                                                     *)
LEMMA InitJInv == Init => JInv
<1> SUFFICES ASSUME Init PROVE JInv
  OBVIOUS
<1>1. IInv
  BY InitIInv
<1>2. Typed(tx, dl, vx)
  BY <1>1 DEF IInv, Types, Typed
<1>3. /\ \A u \in Txns : tx[u].n = 0
      /\ \A d \in Deltas : dl[d].next = Null
      /\ \A v \in Vertices : vx[v].head = Null
  BY DEF Init, NewTx, NoDelta
<1>4. \A d \in Deltas : ~Created(tx, d) /\ d # Null
  BY <1>2, <1>3, PointerFacts DEF Created
<1>5. Threaded(tx, dl, vx) /\ Forward(tx, dl) /\ Solo(tx, dl) /\ Flagged(tx, dl, vx)
  BY <1>4 DEF Threaded, Forward, Solo, Flagged, Pend
<1>6. HeadBacked(tx, dl, vx)
  BY <1>3 DEF HeadBacked
<1>7. Aged(tx, dl)
  <2>1. Aging(tx, dl, [d \in Deltas |-> 0])
    BY <1>3, <1>4 DEF Aging
  <2> QED BY <2>1 DEF Aged
<1>8. Stored(tx, dl, vx, db)
  <2>1. \A v \in Vertices : vx[v].val = db[v].val /\ vx[v].edges = {} /\ db[v].edges = {}
    BY DEF Init, Image0
  <2>2. \A d \in Deltas : ~Pend(tx, dl, d) /\ ~Present(tx, dl, d)
    BY <1>4 DEF Pend, Present
  <2>3. \A v \in Vertices : SetsOf(tx, dl, v) = {}
    BY <2>2 DEF SetsOf
  <2>4. ValuesStored(tx, dl, vx, db)
    BY <2>1, <2>3 DEF ValuesStored, Latest
  <2>5. EdgesStored(tx, dl, vx, db)
    BY <1>4, <2>1, <2>2 DEF EdgesStored
  <2> QED BY <2>4, <2>5 DEF Stored
<1> QED BY <1>1, <1>5, <1>6, <1>7, <1>8 DEF JInv, Woven

(* Every action keeps them.                                                *)
LEMMA NextJInv == JInv /\ [Next]_vars => JInv'
<1> SUFFICES ASSUME JInv, [Next]_vars PROVE JInv'
  OBVIOUS
<1> DEFINE W == Woven(tx', dl', vx') /\ Flagged(tx', dl', vx') /\ Stored(tx', dl', vx', db')
<1>1. IInv /\ Woven(tx, dl, vx) /\ Flagged(tx, dl, vx) /\ Stored(tx, dl, vx, db) /\ IInv'
  BY NextInv DEF JInv
<1>2. SUFFICES W
  BY <1>1 DEF JInv
<1>3. CASE UNCHANGED vars
  BY <1>1, <1>3 DEF vars
<1>4. ASSUME Kept, db' = db PROVE W
  BY <1>1, <1>4, SteadyStored DEF Kept
<1>5. CASE CollectGarbage
  <2>1. db' = db
    BY <1>5 DEF CollectGarbage, GcBegin, GcWaitingRoom, GcPop, GcUnlink, GcEnd
  <2> QED BY <1>1, <1>4, <1>5, <2>1, GcListWoven, GcUnlinkWoven DEF CollectGarbage
<1>6. ASSUME NEW t \in Txns, Transaction(t) PROVE W
  <2>1. CASE Begin(t) \/ AdvanceCommand(t)
    <3>1. db' = db
      BY <2>1 DEF Begin, AdvanceCommand
    <3> QED BY <1>1, <1>4, <2>1, <3>1, BeginWoven, AdvanceCommandWoven
  <2>2. CASE Write(t)
    <3>1. ASSUME NEW v \in Settable, SetProperty(t, v) PROVE W
      <4>1. db' = db /\ v \in Vertices
        BY <3>1, MvccConstants DEF SetProperty
      <4> QED BY <1>1, <3>1, <4>1, SetPropertyWoven
    <3>2. ASSUME NEW e \in EdgeEnds, CreateEdge(t, e[1], e[2]) PROVE W
      <4>1. e[1] \in Vertices /\ e[2] \in Vertices /\ db' = db
        BY <3>2, MvccConstants DEF CreateEdge
      <4> QED BY <1>1, <3>2, <4>1, CreateEdgeWoven
    <3> QED BY <2>2, <3>1, <3>2 DEF Write
  <2>3. CASE Read(t)
    <3>1. db' = db
      BY <2>3 DEF Read, ReadBegin, ReadDelta, ReadEnd
    <3> QED BY <1>1, <1>4, <2>3, <3>1, ReadWoven
  <2>4. CASE StoreCommitTimestamp(t)
    BY <1>1, <2>4, StoreCommitTimestampWoven, StoreCommitTimestampStored
  <2>5. CASE Commit(t) /\ ~StoreCommitTimestamp(t)
    <3>1. db' = db
      BY <2>5 DEF Commit, CommitNothing, HandlePropagation, RefreshFlag, FinishCommit, ReportCommitTimestamp,
                  HandOver
    <3>2. Kept
      BY <1>1, <2>5, CommitNothingWoven, HandlePropagationWoven, RefreshFlagWoven, FinishCommitKeepsWoven,
         FinishCommitDiscardsWoven, ReportCommitTimestampWoven, HandOverWoven DEF Commit
    <3> QED BY <1>4, <3>1, <3>2
  <2>6. CASE Abort(t)
    <3>1. db' = db
      BY <2>6 DEF Abort, AbortBegin, AbortStep, AbortHandOver, AbortReport
    <3>2. CASE AbortStep(t) /\ HeadsRun(t, <<t, tx[t].i>>)
      BY <1>1, <3>1, <3>2, AbortRunWoven, AbortRunStored
    <3>3. CASE ~(AbortStep(t) /\ HeadsRun(t, <<t, tx[t].i>>))
      BY <1>1, <1>4, <2>6, <3>1, <3>3, AbortBeginWoven, AbortSkipWoven, AbortHandOverWoven,
         AbortReportWoven DEF Abort
    <3> QED BY <3>2, <3>3
  <2> QED BY <1>6, <2>1, <2>2, <2>3, <2>4, <2>5, <2>6 DEF Transaction
<1> QED BY <1>3, <1>5, <1>6 DEF Next

(* They hold in every state.                                               *)
LEMMA AlwaysJInv == Spec => []JInv
BY InitJInv, NextJInv, PTL DEF Spec

(* A chain holds created deltas of its vertex.                             *)
LEMMA ChainOfVertex ==
  ASSUME IInv, NEW v \in Vertices, NEW d \in InChain(v)
  PROVE  d \in Deltas /\ Created(tx, d) /\ dl[d].obj = v
<1> DEFINE h == vx[v].head
           c == Chain(h)
<1>1. Typed(tx, dl, vx) /\ Shape(tx, dl, vx)
  BY DEF IInv, Types, Typed, Coherent
<1>2. h \in Deltas \cup {Null} /\ \A e \in Deltas : dl[e].next \in Pointers
  BY <1>1, PointerFacts, DeltaFacts
<1>3. PICK j \in DOMAIN c : d = c[j]
  BY DEF InChain
<1>4. CASE h = Null
  <2> DEFINE K == N * MaxDeltas
             Step(f) == [n \in 0..K |-> IF n = 0 THEN h
                                        ELSE IF f[n-1] = Null THEN Null ELSE dl[f[n-1]].next]
             after == CHOOSE f : f = Step(f)
             A == {n \in 0..K : after[n] # Null}
  <2>1. c = [i \in 1..Cardinality(A) |-> after[i - 1]]
    BY DEF Chain
  <2>2. K \in Nat
    BY DeltaChainConstants
  <2> HIDE DEF K
  <2>3. after = Step(after)
    <3> DEFINE g == [n \in 0..K |-> Null]
    <3>1. \A n \in 0..K : g[n] = Step(g)[n]
      <4>1. ASSUME NEW n \in 0..K PROVE g[n] = Step(g)[n]
        <5>1. n # 0 => n - 1 \in 0..K
          BY <2>2
        <5> QED BY <1>4, <5>1
      <4> QED BY <4>1
    <3>2. g = Step(g)
      BY <3>1
    <3> QED BY <3>2, Zenon
  <2> HIDE DEF after
  <2>4. after[0] = Null /\ \A n \in 1..K : after[n] = IF after[n-1] = Null THEN Null ELSE dl[after[n-1]].next
    BY <1>4, <2>2, <2>3
  <2>5. A = {}
    <3>1. SUFFICES ASSUME A # {} PROVE FALSE
      OBVIOUS
    <3>2. A \in SUBSET Nat
      BY <2>2
    <3>3. PICK m \in A : \A k \in A : m <= k
      BY <3>1, <3>2, LeastExists
    <3>4. m # 0 /\ m \in 0..K /\ after[m] # Null
      BY <2>4
    <3>5. m \in 1..K /\ m - 1 \in 0..K /\ ~(m <= m - 1)
      BY <2>2, <3>4
    <3>6. after[m - 1] = Null
      BY <3>3, <3>5
    <3> QED BY <2>4, <3>4, <3>5, <3>6
  <2>6. Cardinality(A) = 0
    BY <2>5, FS_EmptySet
  <2> HIDE DEF A, c
  <2>7. DOMAIN c = {}
    BY <2>1, <2>6
  <2> QED BY <1>3, <2>7
<1>5. CASE h \in Deltas
  <2>1. c \in Seq(Deltas) /\ Len(c) >= 1 /\ c[1] = h /\ \A i \in 1..(Len(c) - 1) : c[i+1] = dl[c[i]].next
    BY <1>2, <1>5, ChainFacts
  <2>2. Created(tx, h) /\ dl[h].obj = v
    BY <1>1, <1>5, PointerConstants DEF Shape
  <2> HIDE DEF h, c
  <2> DEFINE A == {i \in 1..Len(c) : ~(Created(tx, c[i]) /\ dl[c[i]].obj = v)}
  <2>3. j \in 1..Len(c) /\ d \in Deltas /\ Len(c) \in Nat
    BY <1>3, <2>1
  <2>4. ASSUME A # {} PROVE FALSE
    <3>1. A \in SUBSET Nat
      BY <2>3
    <3>2. PICK m \in A : \A k \in A : m <= k
      BY <2>4, <3>1, LeastExists
    <3>3. m # 1 /\ m \in 1..Len(c) /\ ~(Created(tx, c[m]) /\ dl[c[m]].obj = v)
      BY <2>1, <2>2
    <3>4. m - 1 \in 1..(Len(c) - 1) /\ m - 1 \in 1..Len(c) /\ (m - 1) + 1 = m /\ ~(m <= m - 1)
      BY <2>3, <3>3
    <3>5. Created(tx, c[m - 1]) /\ dl[c[m - 1]].obj = v
      BY <3>2, <3>4
    <3>6. c[m] = dl[c[m - 1]].next /\ c[m] \in Deltas /\ c[m - 1] \in Deltas
      BY <2>1, <3>3, <3>4
    <3> QED BY <1>1, <3>3, <3>5, <3>6 DEF Shape
  <2> QED BY <1>3, <2>3, <2>4
<1> QED BY <1>2, <1>4, <1>5

(* The flag of a vertex can be trusted: no commit, abort or collection     *)
(* turns it off while a transaction at work has a delta in the chain that  *)
(* is open to others.                                                      *)
THEOREM FlagIsTrustworthy == Spec => []FlagCovers
<1>1. ASSUME JInv PROVE FlagCovers
  <2>1. SUFFICES ASSUME NEW v \in Vertices, NEW d \in InChain(v), tx[d[1]].pc = "running",
                        IsDeltaNonSequential(d)
                 PROVE  vx[v].flag
    BY DEF FlagCovers
  <2>2. d \in Deltas /\ Created(tx, d) /\ dl[d].obj = v
    BY <1>1, <2>1, ChainOfVertex DEF JInv
  <2>3. Pend(tx, dl, d) /\ Alive(tx, d[1]) /\ NonSeq(dl, d)
    BY <2>1, <2>2 DEF Pend, Alive, NonSeq, IsDeltaNonSequential, CanBeNonSequential
  <2> QED BY <1>1, <2>2, <2>3 DEF JInv, Flagged
<1> QED BY <1>1, AlwaysJInv, PTL

(* Aborts restore: where no transaction has anything left to commit or to  *)
(* undo, a vertex has the committed value and the committed edges, however *)
(* its deltas were interleaved, taken out of the chain and collected.      *)
THEOREM AbortsRestore == Spec => []AbortRestores
<1>1. ASSUME JInv PROVE AbortRestores
  <2>1. SUFFICES ASSUME NEW v \in Vertices, ~Unsettled(v)
                 PROVE  vx[v].val = db[v].val /\ vx[v].edges = db[v].edges
    BY DEF AbortRestores
  <2>2. \A x \in Deltas : x[1] \in Txns /\ dl[x].act \in {"SET", "EDGE"}
    BY <1>1, DeltaFacts DEF JInv, IInv, Types, DeltaRecords
  <2>3. ASSUME NEW x \in Deltas, dl[x].obj = v PROVE ~Pend(tx, dl, x)
    <3>1. SUFFICES ASSUME Pend(tx, dl, x) PROVE FALSE
      OBVIOUS
    <3>2. tx[x[1]].pc \in {"running", "aborting"} /\ x[2] <= tx[x[1]].n
      BY <3>1 DEF Pend, Alive, Created
    <3>3. x \in Writes(x[1], v, "SET") \cup Writes(x[1], v, "EDGE")
      BY <2>2, <2>3, <3>2 DEF Writes
    <3> QED BY <2>1, <2>2, <3>2, <3>3 DEF Unsettled
  <2>4. vx[v].val = db[v].val
    <3>1. SetsOf(tx, dl, v) = {}
      BY <2>3 DEF SetsOf
    <3> QED BY <1>1, <3>1 DEF JInv, Stored, ValuesStored, Latest
  <2>5. vx[v].edges = db[v].edges
    <3>1. vx[v].edges \subseteq Deltas /\ db[v].edges \subseteq Deltas
      BY <1>1 DEF JInv, IInv, Types, VertexRecords, Images
    <3>2. \A e \in Deltas : e \in vx[v].edges <=> e \in db[v].edges
      BY <1>1, <2>3 DEF JInv, Stored, EdgesStored, Present
    <3> QED BY <3>1, <3>2
  <2> QED BY <2>4, <2>5
<1> QED BY <1>1, AlwaysJInv, PTL

====

------------------------- MODULE CommitLogOpsProofs -------------------------
(***************************************************************************)
(* What the operators of the commit log compute, for blocks and fields of    *)
(* any size: a bit of the list stands for one id and every id from the head  *)
(* of the list on has one bit; MarkFinished and MarkFinishedInRange finish   *)
(* exactly the ids they are given; UpdateOldestActive finds the least id     *)
(* that is not finished and drops only blocks that are.  The lemmas are     *)
(* used for the log by itself (CommitLogProofs) and for the log of a         *)
(* storage (TimestampProofs).                                              *)
(***************************************************************************)
EXTENDS CommitLogOps, Integers, WellFoundedInduction, TLAPS

(* Division with remainder, and there is no other one.                     *)
LEMMA Division ==
  ASSUME NEW n \in Nat, NEW m \in Nat \ {0}
  PROVE  n \div m \in Nat /\ n % m \in 0 .. m - 1 /\ n = (n \div m) * m + (n % m)
OBVIOUS

(* The quotient and the remainder are read off such a sum.                  *)
LEMMA DivisionUnique ==
  ASSUME NEW m \in Nat \ {0}, NEW q \in Nat, NEW r \in 0 .. m - 1
  PROVE  (q * m + r) \in Nat /\ (q * m + r) \div m = q /\ (q * m + r) % m = r
OBVIOUS

(* Products of naturals are natural.                                        *)
LEMMA Product ==
  ASSUME NEW m \in Nat, NEW p \in Nat
  PROVE  p * m \in Nat
OBVIOUS

(* One product in terms of another.                                         *)
LEMMA Distribute ==
  ASSUME NEW m \in Int, NEW p \in Int, NEW q \in Int
  PROVE  p * m = q * m + (p - q) * m
OBVIOUS

(* Multiples of m are at least m apart.                                     *)
LEMMA Monotone ==
  ASSUME NEW m \in Nat \ {0}, NEW p \in Nat, NEW q \in Nat, p < q
  PROVE  p * m + m <= q * m
OBVIOUS

(* A set of numbers that is not empty has a least one.                     *)
LEMMA Least ==
  ASSUME NEW S \in SUBSET Nat, S # {}
  PROVE  \E x \in S : \A y \in S : x <= y
<1> DEFINE R == OpToRel(<, Nat)
<1>1. IsWellFoundedOn(R, Nat)
  BY NatLessThanWellFounded
<1>2. \A x, y \in S : <<y, x>> \in R <=> y < x
  BY DEF OpToRel
<1> HIDE DEF R
<1>3. PICK x \in S : \A y \in S : <<y, x>> \notin R
  BY <1>1, WFMin
<1>4. \A y \in S : ~(y < x)
  BY <1>2, <1>3
<1> QED BY <1>4

-----------------------------------------------------------------------------
(* The place of an id in a list whose head starts at H, a multiple of the    *)
(* size of a block: b blocks, f fields and x bits behind H.                 *)
LEMMA BlockSizeType == kIdsInBlock \in Nat \ {0} /\ kIdsInBlock = kBlockSize * kIdsInField
BY CommitLogConstants DEF kIdsInBlock

Aligned(H) == H \in Nat /\ H % kIdsInBlock = 0

(* The fields and bits of a block count up to its size.                     *)
LEMMA InBlock ==
  ASSUME NEW f \in Fields, NEW x \in AllOnes
  PROVE  /\ f * kIdsInField + x \in 0 .. kIdsInBlock - 1
         /\ (f * kIdsInField + x) \div kIdsInField = f
         /\ (f * kIdsInField + x) % kIdsInField = x
<1>1. f \in Nat /\ f < kBlockSize /\ x \in 0 .. kIdsInField - 1 /\ kIdsInField \in Nat \ {0} /\ kBlockSize \in Nat
  BY CommitLogConstants DEF Fields, AllOnes
<1>2. f * kIdsInField + kIdsInField <= kBlockSize * kIdsInField
  BY <1>1, Monotone
<1>3. f * kIdsInField \in Nat
  BY <1>1
<1> QED BY <1>1, <1>2, <1>3, DivisionUnique, BlockSizeType

(* Bit x of field f of the block after b others, in a list that starts at   *)
(* H, has one id; the id alone tells its block, field and bit.              *)
LEMMA IdAt ==
  ASSUME NEW H, Aligned(H), NEW b \in Nat, NEW f \in Fields, NEW x \in AllOnes,
         NEW id, id = H + b * kIdsInBlock + f * kIdsInField + x
  PROVE  /\ id \in Nat /\ id >= H /\ (id - H) \div kIdsInBlock = b
         /\ FieldOf(id) = f /\ BitOf(id) = x
<1> DEFINE h == H \div kIdsInBlock
           r == f * kIdsInField + x
<1>1. h \in Nat /\ H = h * kIdsInBlock
  <2>1. H \in Nat /\ kIdsInBlock \in Nat \ {0} /\ H % kIdsInBlock = 0
    BY BlockSizeType DEF Aligned
  <2>2. h \in Nat /\ H = h * kIdsInBlock + (H % kIdsInBlock)
    BY <2>1, Division
  <2> HIDE DEF h
  <2>3. h * kIdsInBlock \in Nat
    BY <2>1, <2>2
  <2> QED BY <2>1, <2>2, <2>3
<1>2. r \in 0 .. kIdsInBlock - 1 /\ r \div kIdsInField = f /\ r % kIdsInField = x
  BY InBlock
<1>3. /\ f \in Nat /\ x \in 0 .. kIdsInField - 1
      /\ kIdsInField \in Nat \ {0} /\ kBlockSize \in Nat
  BY CommitLogConstants DEF Fields, AllOnes
<1>4. f * kIdsInField \in Nat /\ b * kIdsInBlock \in Nat
  BY <1>3, BlockSizeType
<1> HIDE DEF h
<1>5. id = (h + b) * kIdsInBlock + r
  BY <1>1, <1>3, <1>4, BlockSizeType
<1>6. id - H = b * kIdsInBlock + r
  BY <1>3, <1>4 DEF Aligned
<1>7. id = ((h + b) * kBlockSize + f) * kIdsInField + x
  BY <1>1, <1>3, <1>5, BlockSizeType
<1> HIDE DEF r
<1>8. id \in Nat /\ id % kIdsInBlock = r
  <2>1. h + b \in Nat /\ kIdsInBlock \in Nat \ {0}
    BY <1>1, BlockSizeType
  <2>2. ((h + b) * kIdsInBlock + r) \in Nat /\ ((h + b) * kIdsInBlock + r) % kIdsInBlock = r
    BY <1>2, <2>1, DivisionUnique
  <2> QED BY <1>5, <2>2
<1>9. (id - H) \div kIdsInBlock = b /\ id - H \in Nat
  BY <1>2, <1>6, DivisionUnique, BlockSizeType
<1>10. id % kIdsInField = x
  <2>1. (h + b) * kBlockSize + f \in Nat
    BY <1>1, <1>3
  <2> QED BY <1>3, <1>7, <2>1, DivisionUnique
<1> QED BY <1>2, <1>8, <1>9, <1>10 DEF FieldOf, BitOf, Aligned

(* Conversely every id from H on has a place in the list.                   *)
LEMMA PlaceOf ==
  ASSUME NEW H, Aligned(H), NEW id \in Nat, id >= H
  PROVE  /\ (id - H) \div kIdsInBlock \in Nat
         /\ FieldOf(id) \in Fields /\ BitOf(id) \in AllOnes
         /\ id = H + ((id - H) \div kIdsInBlock) * kIdsInBlock + FieldOf(id) * kIdsInField + BitOf(id)
<1> DEFINE b == (id - H) \div kIdsInBlock
           r == (id - H) % kIdsInBlock
           f == r \div kIdsInField
           x == r % kIdsInField
<1>1. b \in Nat /\ r \in 0 .. kIdsInBlock - 1 /\ id - H = b * kIdsInBlock + r
  <2>1. id - H \in Nat /\ kIdsInBlock \in Nat \ {0}
    BY BlockSizeType DEF Aligned
  <2> QED BY <2>1, Division
<1>2. kIdsInField \in Nat \ {0} /\ kBlockSize \in Nat
  BY CommitLogConstants
<1> HIDE DEF b, r
<1>3. f \in Nat /\ x \in 0 .. kIdsInField - 1 /\ r = f * kIdsInField + x
  <2>1. r \in Nat
    BY <1>1, BlockSizeType
  <2> QED BY <1>2, <2>1, Division
<1> HIDE DEF f, x
<1>4. f < kBlockSize
  <2>1. ~(kBlockSize < f) /\ f # kBlockSize
    BY <1>1, <1>2, <1>3, Monotone, BlockSizeType
  <2> QED BY <1>2, <1>3, <2>1
<1>5. f \in Fields /\ x \in AllOnes
  BY <1>2, <1>3, <1>4 DEF Fields, AllOnes
<1>6. b * kIdsInBlock \in Nat /\ f * kIdsInField \in Nat
  BY <1>1, <1>2, <1>3, BlockSizeType
<1>7. id = H + b * kIdsInBlock + f * kIdsInField + x
  BY <1>1, <1>3, <1>6 DEF Aligned
<1>8. FieldOf(id) = f /\ BitOf(id) = x
  BY <1>1, <1>5, <1>7, IdAt
<1> QED BY <1>1, <1>5, <1>7, <1>8 DEF b

-----------------------------------------------------------------------------
(* A log as the methods leave it: the blocks are contiguous from an aligned   *)
(* head to next_start_.                                                    *)
WellFormed(lg) ==
  /\ lg \in Logs /\ Aligned(lg.headStart)
  /\ lg.nextStart = lg.headStart + Len(lg.blocks) * kIdsInBlock

(* The ids a log calls finished, without the bound of the instance.         *)
Finished(lg, id) == id < lg.headStart \/ IsFinished(lg, id)

(* oldest_active_ is the least id that is not finished.                     *)
NoneBelow(lg) == \A id \in Nat : id < lg.oldestActive => Finished(lg, id)
OldestIsLeast(lg) == NoneBelow(lg) /\ ~Finished(lg, lg.oldestActive)

Block == [Fields -> SUBSET AllOnes]

(* What WellFormed says of the parts of a log.                              *)
LEMMA LogTypes ==
  ASSUME NEW lg, WellFormed(lg)
  PROVE  /\ lg.blocks \in Seq(Block) /\ Len(lg.blocks) \in Nat
         /\ lg.headStart \in Nat /\ lg.nextStart \in Nat /\ lg.oldestActive \in Nat
         /\ Aligned(lg.headStart)
         /\ lg = [blocks |-> lg.blocks, headStart |-> lg.headStart,
                  nextStart |-> lg.nextStart, oldestActive |-> lg.oldestActive]
         /\ DOMAIN lg.blocks = 1 .. Len(lg.blocks)
         /\ \A b \in 1 .. Len(lg.blocks) : lg.blocks[b] \in Block
         /\ lg.blocks = <<>> <=> Len(lg.blocks) = 0
<1>1. lg \in Logs /\ Aligned(lg.headStart)
  BY DEF WellFormed
<1>2. /\ lg.blocks \in Seq(Block) /\ lg.headStart \in Nat /\ lg.nextStart \in Nat /\ lg.oldestActive \in Nat
      /\ lg = [blocks |-> lg.blocks, headStart |-> lg.headStart,
               nextStart |-> lg.nextStart, oldestActive |-> lg.oldestActive]
  BY <1>1 DEF Logs, Block
<1> QED BY <1>1, <1>2

(* A bit of the list is the state of one id.                               *)
LEMMA BitIsId ==
  ASSUME NEW lg, WellFormed(lg), NEW b \in 1 .. Len(lg.blocks), NEW f \in Fields, NEW x \in AllOnes,
         NEW id, id = lg.headStart + (b - 1) * kIdsInBlock + f * kIdsInField + x
  PROVE  /\ id \in Nat /\ id >= lg.headStart /\ id < lg.nextStart
         /\ BlockIndex(lg, id) = b /\ FieldOf(id) = f /\ BitOf(id) = x
         /\ IsFinished(lg, id) <=> x \in lg.blocks[b][f]
<1>1. Aligned(lg.headStart) /\ b - 1 \in Nat /\ Len(lg.blocks) \in Nat /\ lg.headStart \in Nat
  BY LogTypes
<1>2. /\ id \in Nat /\ id >= lg.headStart /\ (id - lg.headStart) \div kIdsInBlock = b - 1
      /\ FieldOf(id) = f /\ BitOf(id) = x
  BY <1>1, IdAt
<1>3. BlockIndex(lg, id) = b
  BY <1>1, <1>2 DEF BlockIndex
<1>4. IsFinished(lg, id) <=> x \in lg.blocks[b][f]
  BY <1>2, <1>3, LogTypes DEF IsFinished
<1>5. id < lg.nextStart
  <2>1. f * kIdsInField + x \in 0 .. kIdsInBlock - 1
    BY InBlock
  <2>2. (b - 1) * kIdsInBlock + kIdsInBlock <= Len(lg.blocks) * kIdsInBlock
    <3>1. b - 1 \in Nat /\ b - 1 < Len(lg.blocks) /\ kIdsInBlock \in Nat \ {0}
      BY <1>1, BlockSizeType
    <3> QED BY <1>1, <3>1, Monotone
  <2>3. /\ (b - 1) * kIdsInBlock \in Nat /\ Len(lg.blocks) * kIdsInBlock \in Nat
        /\ f * kIdsInField \in Nat /\ x \in Nat /\ kIdsInBlock \in Nat
    <3>1. kIdsInBlock \in Nat /\ kIdsInField \in Nat /\ f \in Nat /\ x \in Nat
      BY BlockSizeType, CommitLogConstants DEF Fields, AllOnes
    <3> QED BY <1>1, <3>1, Product
  <2> QED BY <1>1, <2>1, <2>2, <2>3 DEF WellFormed
<1> QED BY <1>2, <1>3, <1>4, <1>5

(* And every id of the list is one of its bits.                            *)
LEMMA IdIsBit ==
  ASSUME NEW lg, WellFormed(lg), NEW id \in Nat, id >= lg.headStart
  PROVE  /\ BlockIndex(lg, id) \in Nat \ {0} /\ FieldOf(id) \in Fields /\ BitOf(id) \in AllOnes
         /\ id = lg.headStart + (BlockIndex(lg, id) - 1) * kIdsInBlock
                   + FieldOf(id) * kIdsInField + BitOf(id)
         /\ BlockIndex(lg, id) \in 1 .. Len(lg.blocks) <=> id < lg.nextStart
         /\ IsFinished(lg, id) => id < lg.nextStart
<1> DEFINE c == (id - lg.headStart) \div kIdsInBlock
<1>1. Aligned(lg.headStart) /\ lg.headStart \in Nat /\ Len(lg.blocks) \in Nat
  BY LogTypes
<1>2. /\ c \in Nat /\ FieldOf(id) \in Fields /\ BitOf(id) \in AllOnes
      /\ id = lg.headStart + c * kIdsInBlock + FieldOf(id) * kIdsInField + BitOf(id)
  BY <1>1, PlaceOf
<1>3. BlockIndex(lg, id) = 1 + c
  BY <1>1 DEF BlockIndex
<1> HIDE DEF c
<1>4. BlockIndex(lg, id) \in Nat \ {0} /\ BlockIndex(lg, id) - 1 = c
  BY <1>2, <1>3
<1>5. BlockIndex(lg, id) \in 1 .. Len(lg.blocks) => id < lg.nextStart
  BY <1>2, <1>4, BitIsId
<1>6. c >= Len(lg.blocks) => id >= lg.nextStart
  <2>1. FieldOf(id) * kIdsInField + BitOf(id) \in 0 .. kIdsInBlock - 1
    BY <1>2, InBlock
  <2>2. c > Len(lg.blocks) => Len(lg.blocks) * kIdsInBlock + kIdsInBlock <= c * kIdsInBlock
    <3>1. kIdsInBlock \in Nat \ {0}
      BY BlockSizeType
    <3> QED BY <1>1, <1>2, <3>1, Monotone
  <2>3. /\ c * kIdsInBlock \in Nat /\ Len(lg.blocks) * kIdsInBlock \in Nat
        /\ FieldOf(id) * kIdsInField \in Nat /\ BitOf(id) \in Nat /\ kIdsInBlock \in Nat
    <3>1. kIdsInBlock \in Nat /\ kIdsInField \in Nat /\ FieldOf(id) \in Nat /\ BitOf(id) \in Nat
      BY <1>2, BlockSizeType, CommitLogConstants DEF Fields, AllOnes
    <3> QED BY <1>1, <1>2, <3>1, Product
  <2>4. c >= Len(lg.blocks) => Len(lg.blocks) * kIdsInBlock <= c * kIdsInBlock
    <3> DEFINE n == Len(lg.blocks)
               p == n * kIdsInBlock
               q == c * kIdsInBlock
    <3>1. c > n => p + kIdsInBlock <= q
      BY <2>2
    <3>2. p \in Nat /\ q \in Nat /\ kIdsInBlock \in Nat /\ n \in Nat /\ c \in Nat
      BY <1>1, <1>2, <2>3
    <3>3. c = n => p = q
      OBVIOUS
    <3> HIDE DEF n, p, q
    <3>4. c >= n => p <= q
      BY <3>1, <3>2, <3>3
    <3> QED BY <3>4 DEF n, p, q
  <2> QED BY <1>1, <1>2, <2>3, <2>4 DEF WellFormed
<1>7. BlockIndex(lg, id) \in 1 .. Len(lg.blocks) <=> id < lg.nextStart
  BY <1>1, <1>2, <1>3, <1>5, <1>6, LogTypes
<1>8. IsFinished(lg, id) => BlockIndex(lg, id) \in 1 .. Len(lg.blocks)
  BY <1>1, <1>4 DEF IsFinished
<1> QED BY <1>2, <1>4, <1>7, <1>8

-----------------------------------------------------------------------------
(* FindOrCreateBlock: the block of id is there, and no id changes state.     *)
LEMMA FindOrCreateCorrect ==
  ASSUME NEW lg, WellFormed(lg), NEW id \in Nat, NEW l, l = FindOrCreateBlock(lg, id)
  PROVE  /\ WellFormed(l) /\ l.headStart = lg.headStart /\ l.oldestActive = lg.oldestActive
         /\ BlockIndex(l, id) \in 1 .. Len(l.blocks) /\ Len(l.blocks) >= Len(lg.blocks)
         /\ \A j \in Nat : Finished(l, j) <=> Finished(lg, j)
<1> DEFINE have == Len(lg.blocks)
           need == BlockIndex(lg, id)
           total == IF need > have THEN need ELSE have
           blocks == [b \in 1 .. total |-> IF b <= have THEN lg.blocks[b] ELSE EmptyBlock]
<1>1. /\ have \in Nat /\ lg.headStart \in Nat /\ lg.nextStart \in Nat /\ lg.oldestActive \in Nat
      /\ Aligned(lg.headStart) /\ kIdsInBlock \in Nat
      /\ lg.nextStart = lg.headStart + have * kIdsInBlock
  BY LogTypes, BlockSizeType DEF WellFormed
<1>2. need \in Nat \ {0}
  <2>1. CASE id < lg.headStart
    BY <2>1 DEF BlockIndex
  <2>2. CASE id >= lg.headStart
    BY <2>2, IdIsBit
  <2> QED BY <1>1, <2>1, <2>2
<1>3. total \in Nat /\ total >= have /\ need \in 1 .. total
  BY <1>1, <1>2
<1>4. [lg EXCEPT !.headStart = IF lg.blocks = <<>> THEN lg.nextStart ELSE lg.headStart] = lg
  <2>1. lg.blocks = <<>> => lg.nextStart = lg.headStart
    BY <1>1
  <2> QED BY <2>1, LogTypes
<1>5. l = [lg EXCEPT !.blocks = blocks, !.nextStart = lg.nextStart + (total - have) * kIdsInBlock]
  BY <1>4 DEF FindOrCreateBlock
<1>6. /\ l.blocks = blocks /\ l.headStart = lg.headStart /\ l.oldestActive = lg.oldestActive
      /\ l.nextStart = lg.nextStart + (total - have) * kIdsInBlock
      /\ l = [blocks |-> l.blocks, headStart |-> l.headStart,
              nextStart |-> l.nextStart, oldestActive |-> l.oldestActive]
  <2> HIDE DEF blocks, have, need, total
  <2>1. lg = [blocks |-> lg.blocks, headStart |-> lg.headStart,
              nextStart |-> lg.nextStart, oldestActive |-> lg.oldestActive]
    BY LogTypes
  <2> QED BY <1>5, <2>1
<1> HIDE DEF have, need, total
<1>7. EmptyBlock \in Block /\ \A b \in 1 .. have : lg.blocks[b] \in Block
  BY LogTypes DEF EmptyBlock, Block, have
<1>8. blocks \in Seq(Block) /\ Len(blocks) = total
  BY <1>1, <1>3, <1>7
<1>9. WellFormed(l)
  <2>1. total - have \in Nat /\ (total - have) * kIdsInBlock \in Nat
    BY <1>1, <1>3, Product
  <2>2. l \in Logs
    <3>1. l.blocks \in Seq([Fields -> SUBSET AllOnes])
      BY <1>6, <1>8 DEF Block
    <3>2. l.headStart \in Nat /\ l.nextStart \in Nat /\ l.oldestActive \in Nat
      BY <1>1, <1>6, <2>1
    <3>3. l = [blocks |-> l.blocks, headStart |-> l.headStart,
              nextStart |-> l.nextStart, oldestActive |-> l.oldestActive]
      BY <1>6
    <3> QED BY <3>1, <3>2, <3>3 DEF Logs
  <2>3. l.nextStart = l.headStart + total * kIdsInBlock
    <3> DEFINE more == (total - have) * kIdsInBlock
               old == have * kIdsInBlock
    <3>1. old + more = total * kIdsInBlock
      BY <1>1, <1>3
    <3>2. old \in Nat /\ more \in Nat
      BY <1>1, <2>1, Product
    <3>3. l.nextStart = (lg.headStart + old) + more /\ lg.headStart \in Nat
      BY <1>1, <1>6
    <3> HIDE DEF old, more
    <3>4. l.nextStart = lg.headStart + (old + more)
      BY <3>2, <3>3
    <3> QED BY <1>6, <3>1, <3>4
  <2> QED BY <1>1, <1>6, <1>8, <2>2, <2>3 DEF WellFormed
<1>10. BlockIndex(l, id) = need
  BY <1>6 DEF BlockIndex, need
<1>11. ASSUME NEW j \in Nat, j >= lg.headStart PROVE IsFinished(l, j) <=> IsFinished(lg, j)
  <2> DEFINE b == BlockIndex(lg, j)
  <2>1. b \in Nat \ {0} /\ FieldOf(j) \in Fields /\ BlockIndex(l, j) = b
    BY <1>6, <1>11, IdIsBit DEF BlockIndex
  <2> HIDE DEF b
  <2>2. IsFinished(lg, j) <=> b <= have /\ BitOf(j) \in lg.blocks[b][FieldOf(j)]
    BY <1>1, <2>1, LogTypes DEF IsFinished, b, have
  <2>3. IsFinished(l, j) <=> b <= total /\ BitOf(j) \in blocks[b][FieldOf(j)]
    <3>1. blocks # <<>> <=> total # 0
      BY <1>3, <1>8
    <3>2. l.blocks = blocks /\ Len(l.blocks) = total
      BY <1>6, <1>8
    <3> HIDE DEF blocks
    <3> QED BY <1>3, <2>1, <3>1, <3>2 DEF IsFinished
  <2>4. CASE b <= have
    BY <1>1, <1>3, <2>1, <2>2, <2>3, <2>4
  <2>5. CASE b > have
    <3>1. b <= total => blocks[b] = EmptyBlock
      BY <1>1, <1>3, <2>1, <2>5
    <3>2. EmptyBlock[FieldOf(j)] = {}
      BY <2>1 DEF EmptyBlock
    <3> QED BY <1>1, <2>1, <2>2, <2>3, <2>5, <3>1, <3>2
  <2> QED BY <1>1, <2>1, <2>4, <2>5
<1>12. \A j \in Nat : Finished(l, j) <=> Finished(lg, j)
  BY <1>1, <1>6, <1>11 DEF Finished
<1> QED BY <1>3, <1>6, <1>8, <1>9, <1>10, <1>12 DEF have

-----------------------------------------------------------------------------
(* The blocks of a list in the order of their ids.                         *)
LEMMA BlockOrder ==
  ASSUME NEW lg, WellFormed(lg), NEW id \in Nat, id >= lg.headStart, NEW b \in Nat \ {0}
  PROVE  BlockIndex(lg, id) < b <=> id < lg.headStart + (b - 1) * kIdsInBlock
<1> DEFINE c == BlockIndex(lg, id)
           p == (c - 1) * kIdsInBlock
           q == (b - 1) * kIdsInBlock
           r == FieldOf(id) * kIdsInField + BitOf(id)
<1>1. /\ c \in Nat \ {0} /\ id = lg.headStart + p + FieldOf(id) * kIdsInField + BitOf(id)
      /\ FieldOf(id) \in Fields /\ BitOf(id) \in AllOnes /\ lg.headStart \in Nat
  BY IdIsBit, LogTypes
<1>2. r \in 0 .. kIdsInBlock - 1
  BY <1>1, InBlock
<1>3. /\ FieldOf(id) * kIdsInField \in Nat /\ BitOf(id) \in Nat
      /\ kIdsInBlock \in Nat \ {0} /\ c - 1 \in Nat /\ b - 1 \in Nat
  <2>1. kIdsInField \in Nat /\ FieldOf(id) \in Nat /\ BitOf(id) \in Nat
    BY <1>1, CommitLogConstants DEF Fields, AllOnes
  <2> QED BY <1>1, <2>1, BlockSizeType, Product
<1>4. p \in Nat /\ q \in Nat
  BY <1>3, Product
<1> HIDE DEF c
<1>5. c - 1 < b - 1 => p + kIdsInBlock <= q
  BY <1>3, Monotone
<1>6. b - 1 < c - 1 => q + kIdsInBlock <= p
  BY <1>3, Monotone
<1>7. c = b => p = q
  OBVIOUS
<1> HIDE DEF p, q
<1>8. id = lg.headStart + p + r
  BY <1>1, <1>3, <1>4
<1> HIDE DEF r
<1>9. c < b <=> id < lg.headStart + q
  BY <1>1, <1>2, <1>3, <1>4, <1>5, <1>6, <1>7, <1>8
<1> QED BY <1>9 DEF c, q

(* The ids of one block in the order of their fields.                      *)
LEMMA FieldOrder ==
  ASSUME NEW f \in Fields, NEW g \in Fields, NEW x \in AllOnes, NEW y \in AllOnes,
         g * kIdsInField + y < f * kIdsInField + x
  PROVE  g < f \/ (g = f /\ y < x)
<1>1. /\ f \in Nat /\ g \in Nat /\ x \in 0 .. kIdsInField - 1 /\ y \in 0 .. kIdsInField - 1
      /\ kIdsInField \in Nat \ {0}
  BY CommitLogConstants DEF Fields, AllOnes
<1>2. f * kIdsInField \in Nat /\ g * kIdsInField \in Nat
  BY <1>1, Product
<1>3. f < g => f * kIdsInField + kIdsInField <= g * kIdsInField
  BY <1>1, Monotone
<1>4. ~(f < g)
  BY <1>1, <1>2, <1>3
<1>5. f = g => f * kIdsInField = g * kIdsInField
  OBVIOUS
<1> QED BY <1>1, <1>2, <1>4, <1>5

(* UpdateOldestActive starts at the field oldest_active_ lies in: what it     *)
(* does not read is full.                                                  *)
LEMMA SkippedFieldsFull ==
  ASSUME NEW lg, WellFormed(lg), NoneBelow(lg), NEW b \in 1 .. Len(lg.blocks), NEW f \in Fields,
         NEW start, start = lg.headStart + (b - 1) * kIdsInBlock,
         lg.oldestActive >= start, f < (lg.oldestActive - start) \div kIdsInField
  PROVE  lg.blocks[b][f] = AllOnes
<1> DEFINE n == lg.oldestActive - start
           g == n \div kIdsInField
<1>1. /\ start \in Nat /\ lg.oldestActive \in Nat /\ n \in Nat /\ lg.headStart \in Nat
      /\ kIdsInField \in Nat \ {0} /\ f \in Nat
  <2> DEFINE q == (b - 1) * kIdsInBlock
  <2>1. b - 1 \in Nat /\ kIdsInBlock \in Nat
    BY BlockSizeType
  <2>2. q \in Nat
    BY <2>1, Product
  <2>3. start = lg.headStart + q
    OBVIOUS
  <2> HIDE DEF q
  <2>4. lg.headStart \in Nat /\ lg.oldestActive \in Nat
    BY LogTypes
  <2> QED BY <2>2, <2>3, <2>4, CommitLogConstants DEF Fields
<1>2. g \in Nat /\ n % kIdsInField \in 0 .. kIdsInField - 1 /\ n = g * kIdsInField + (n % kIdsInField)
  BY <1>1, Division
<1>3. f * kIdsInField + kIdsInField <= g * kIdsInField
  BY <1>1, <1>2, Monotone
<1>4. f * kIdsInField \in Nat /\ g * kIdsInField \in Nat
  BY <1>1, <1>2, Product
<1> HIDE DEF g
<1>5. ASSUME NEW x \in AllOnes PROVE x \in lg.blocks[b][f]
  <2> DEFINE id == lg.headStart + (b - 1) * kIdsInBlock + f * kIdsInField + x
  <2>1. id \in Nat /\ id >= lg.headStart /\ (IsFinished(lg, id) <=> x \in lg.blocks[b][f])
    BY BitIsId
  <2>2. x \in Nat /\ x < kIdsInField
    BY <1>1 DEF AllOnes
  <2>3. id = start + f * kIdsInField + x
    OBVIOUS
  <2> HIDE DEF id
  <2>4. id < lg.oldestActive
    <3> DEFINE u == f * kIdsInField
               v == g * kIdsInField
               k == n % kIdsInField
    <3>1. u \in Nat /\ v \in Nat /\ u + kIdsInField <= v /\ id = start + u + x /\ n = v + k
      BY <1>2, <1>3, <1>4, <2>3
    <3>2. n \in Nat /\ k \in Nat /\ lg.oldestActive = start + n
      <4>1. k \in 0 .. kIdsInField - 1
        BY <1>2
      <4>2. lg.oldestActive = start + n
        BY <1>1
      <4> HIDE DEF k
      <4> QED BY <1>1, <4>1, <4>2
    <3> HIDE DEF u, v, k, n
    <3>3. n >= v
      BY <3>1, <3>2
    <3> QED BY <1>1, <2>2, <3>1, <3>2, <3>3
  <2>5. Finished(lg, id) /\ ~(id < lg.headStart)
    BY <1>1, <2>1, <2>4 DEF NoneBelow
  <2> QED BY <2>1, <2>5 DEF Finished
<1>6. lg.blocks[b][f] \subseteq AllOnes
  BY LogTypes DEF Block
<1> QED BY <1>5, <1>6

(* Dropping the blocks before block b from the list.                       *)
LEMMA DropBlocks ==
  ASSUME NEW lg, WellFormed(lg), NEW b \in 1 .. Len(lg.blocks), NEW r, NEW oldest \in Nat,
         r = [blocks |-> SubSeq(lg.blocks, b, Len(lg.blocks)),
              headStart |-> lg.headStart + (b - 1) * kIdsInBlock,
              nextStart |-> lg.nextStart, oldestActive |-> oldest]
  PROVE  /\ WellFormed(r) /\ r.headStart >= lg.headStart
         /\ \A id \in Nat : id >= r.headStart => (IsFinished(r, id) <=> IsFinished(lg, id))
<1> DEFINE q == (b - 1) * kIdsInBlock
           have == Len(lg.blocks)
           rest == SubSeq(lg.blocks, b, have)
<1>1. /\ lg.blocks \in Seq(Block) /\ have \in Nat /\ lg.headStart \in Nat /\ lg.nextStart \in Nat
      /\ lg.nextStart = lg.headStart + have * kIdsInBlock
      /\ kIdsInBlock \in Nat \ {0} /\ b - 1 \in Nat /\ Aligned(lg.headStart)
  BY LogTypes, BlockSizeType DEF WellFormed
<1>2. q \in Nat
  BY <1>1, Product
<1>3. /\ rest \in Seq(Block) /\ Len(rest) = have - (b - 1)
      /\ \A i \in 1 .. have - (b - 1) : rest[i] = lg.blocks[i + (b - 1)]
  BY <1>1
<1>4. r.blocks = rest /\ r.headStart = lg.headStart + q /\ r.nextStart = lg.nextStart /\ r.oldestActive = oldest
  OBVIOUS
<1> HIDE DEF rest, q
<1>5. Aligned(lg.headStart + q)
  <2> DEFINE h == lg.headStart \div kIdsInBlock
  <2>1. lg.headStart \in Nat /\ lg.headStart % kIdsInBlock = 0
    BY <1>1 DEF Aligned
  <2>2. h \in Nat /\ lg.headStart = h * kIdsInBlock + (lg.headStart % kIdsInBlock)
    BY <1>1, <2>1, Division
  <2> HIDE DEF h
  <2>3. lg.headStart = h * kIdsInBlock
    <3>1. h * kIdsInBlock \in Nat
      BY <1>1, <2>2, Product
    <3> QED BY <2>1, <2>2, <3>1
  <2>4. h + (b - 1) \in Nat /\ 0 \in 0 .. kIdsInBlock - 1
    BY <1>1, <2>2
  <2>5. /\ ((h + (b - 1)) * kIdsInBlock + 0) % kIdsInBlock = 0
        /\ (h + (b - 1)) * kIdsInBlock \in Nat
    BY <1>1, <2>4, DivisionUnique, Product
  <2>6. (h + (b - 1)) * kIdsInBlock = h * kIdsInBlock + (b - 1) * kIdsInBlock
    <3>1. (h + (b - 1)) - h = b - 1 /\ h \in Int /\ h + (b - 1) \in Int /\ kIdsInBlock \in Int
      BY <1>1, <2>2
    <3> QED BY <3>1, Distribute
  <2>7. lg.headStart + q = (h + (b - 1)) * kIdsInBlock
    BY <2>3, <2>6 DEF q
  <2>8. (h + (b - 1)) * kIdsInBlock + 0 = (h + (b - 1)) * kIdsInBlock
    BY <2>5
  <2> QED BY <2>5, <2>7, <2>8 DEF Aligned
<1>6. lg.nextStart = (lg.headStart + q) + (have - (b - 1)) * kIdsInBlock
  <2> DEFINE u == have * kIdsInBlock
             v == (have - (b - 1)) * kIdsInBlock
  <2>1. u = q + v
    <3>1. have \in Int /\ b - 1 \in Int /\ kIdsInBlock \in Int
      BY <1>1
    <3> QED BY <3>1, Distribute DEF q
  <2>2. lg.nextStart = lg.headStart + u
    BY <1>1
  <2>3. have - (b - 1) \in Nat
    BY <1>1
  <2>4. v \in Nat
    BY <1>1, <2>3, Product
  <2> HIDE DEF u, v
  <2>5. lg.nextStart = (lg.headStart + q) + v
    BY <1>1, <1>2, <2>1, <2>2, <2>4
  <2> QED BY <2>5 DEF v
<1>7. WellFormed(r)
  <2>1. r.blocks \in Seq([Fields -> SUBSET AllOnes])
    BY <1>3, <1>4 DEF Block
  <2>2. r \in Logs
    <3>1. r.headStart \in Nat /\ r.nextStart \in Nat /\ r.oldestActive \in Nat
      <4>1. lg.headStart + q \in Nat
        BY <1>1, <1>2
      <4> QED BY <1>1, <1>4, <4>1
    <3>2. r = [blocks |-> r.blocks, headStart |-> r.headStart,
               nextStart |-> r.nextStart, oldestActive |-> r.oldestActive]
      OBVIOUS
    <3> QED BY <2>1, <3>1, <3>2 DEF Logs
  <2>3. r.nextStart = r.headStart + Len(r.blocks) * kIdsInBlock
    BY <1>3, <1>4, <1>6
  <2> QED BY <1>4, <1>5, <2>2, <2>3 DEF WellFormed
<1>8. ASSUME NEW id \in Nat, id >= r.headStart PROVE IsFinished(r, id) <=> IsFinished(lg, id)
  <2> DEFINE c == BlockIndex(lg, id)
  <2>1. id >= lg.headStart /\ id >= lg.headStart + q
    <3>1. id >= lg.headStart + q
      BY <1>4, <1>8
    <3> QED BY <1>1, <1>2, <3>1
  <2>2. /\ c \in Nat \ {0} /\ FieldOf(id) \in Fields /\ BitOf(id) \in AllOnes
        /\ id = lg.headStart + (c - 1) * kIdsInBlock + FieldOf(id) * kIdsInField + BitOf(id)
    BY <2>1, IdIsBit
  <2>3. ~(c < b)
    <3>1. c < b <=> id < lg.headStart + q
      BY <2>1, BlockOrder DEF q
    <3> QED BY <1>1, <1>2, <2>1, <3>1
  <2> HIDE DEF c
  <2>4. c - b \in Nat
    BY <2>2, <2>3
  <2>5. id = r.headStart + (c - b) * kIdsInBlock + FieldOf(id) * kIdsInField + BitOf(id)
    <3> DEFINE w == FieldOf(id) * kIdsInField
               u == (c - 1) * kIdsInBlock
               v == (c - b) * kIdsInBlock
    <3>1. w \in Nat /\ BitOf(id) \in Nat
      <4>1. kIdsInField \in Nat /\ FieldOf(id) \in Nat /\ BitOf(id) \in Nat
        BY <2>2, CommitLogConstants DEF Fields, AllOnes
      <4> QED BY <4>1, Product
    <3>2. u = q + v
      <4>1. c - 1 \in Int /\ b - 1 \in Int /\ kIdsInBlock \in Int /\ (c - 1) - (b - 1) = c - b
        BY <1>1, <2>2
      <4> QED BY <4>1, Distribute DEF q
    <3>3. v \in Nat
      BY <1>1, <2>4, Product
    <3>4. id = lg.headStart + u + w + BitOf(id)
      BY <2>2
    <3> HIDE DEF u, v, w
    <3>5. id = (lg.headStart + q) + v + w + BitOf(id)
      BY <1>1, <1>2, <3>1, <3>2, <3>3, <3>4
    <3> QED BY <1>4, <3>5 DEF v, w
  <2>6. (id - r.headStart) \div kIdsInBlock = c - b
    BY <1>4, <1>5, <2>2, <2>4, <2>5, IdAt
  <2>7. BlockIndex(r, id) = 1 + (c - b)
    <3>1. ~(id < r.headStart)
      BY <1>1, <1>2, <1>4, <2>1
    <3> QED BY <2>6, <3>1 DEF BlockIndex
  <2>8. 1 + (c - b) <= have - (b - 1) <=> c <= have
    BY <1>1, <2>2
  <2>9. c <= have => rest[1 + (c - b)] = lg.blocks[c]
    <3>1. c <= have => 1 + (c - b) \in 1 .. have - (b - 1) /\ (1 + (c - b)) + (b - 1) = c
      BY <1>1, <2>2, <2>4
    <3> QED BY <1>3, <3>1
  <2>10. rest # <<>> /\ lg.blocks # <<>>
    BY <1>1, <1>3
  <2> QED BY <1>3, <1>4, <2>7, <2>8, <2>9, <2>10 DEF IsFinished, c
<1>9. r.headStart >= lg.headStart
  <2>1. lg.headStart + q >= lg.headStart
    BY <1>1, <1>2
  <2> QED BY <1>4, <2>1
<1> QED BY <1>7, <1>8, <1>9

(* UpdateOldestActive finds the least id that is not finished, and drops      *)
(* only blocks that are full.                                              *)
LEMMA UpdateCorrect ==
  ASSUME NEW lg, WellFormed(lg), NoneBelow(lg), NEW r, r = UpdateOldestActive(lg)
  PROVE  /\ WellFormed(r) /\ OldestIsLeast(r)
         /\ \A id \in Nat : Finished(r, id) <=> Finished(lg, id)
<1> DEFINE have == Len(lg.blocks)
           StartOf(b) == lg.headStart + (b - 1) * kIdsInBlock
           StartField(b) == IF lg.oldestActive >= StartOf(b)
                            THEN (lg.oldestActive - StartOf(b)) \div kIdsInField ELSE 0
           Open(b) == {f \in Fields : f >= StartField(b) /\ lg.blocks[b][f] # AllOnes}
           opened == {b \in 1 .. have : Open(b) # {}}
           First(S) == CHOOSE x \in S : \A y \in S : x <= y
<1>1. /\ have \in Nat /\ lg.headStart \in Nat /\ lg.nextStart \in Nat /\ lg.oldestActive \in Nat
      /\ Fields \subseteq Nat /\ AllOnes \subseteq Nat
      /\ lg = [blocks |-> lg.blocks, headStart |-> lg.headStart,
               nextStart |-> lg.nextStart, oldestActive |-> lg.oldestActive]
  BY LogTypes, CommitLogConstants DEF Fields, AllOnes
<1>2. ASSUME NEW S \in SUBSET Nat, S # {} PROVE First(S) \in S /\ \A y \in S : First(S) <= y
  BY <1>2, Least
<1> HIDE DEF First
<1>3. ASSUME NEW b \in 1 .. have, NEW f \in Fields, f \notin Open(b)
      PROVE  lg.blocks[b][f] = AllOnes
  <2>1. CASE f >= StartField(b)
    BY <1>3, <2>1
  <2>2. CASE ~(f >= StartField(b))
    <3>1. lg.oldestActive >= StartOf(b)
      BY <1>1, <2>2
    <3>2. StartField(b) = (lg.oldestActive - StartOf(b)) \div kIdsInField /\ StartField(b) \in Int
      <4> DEFINE s == StartOf(b)
      <4>1. s \in Nat
        <5>1. b - 1 \in Nat /\ kIdsInBlock \in Nat
          BY BlockSizeType
        <5>2. (b - 1) * kIdsInBlock \in Nat
          BY <5>1, Product
        <5> QED BY <1>1, <5>2
      <4>2. lg.oldestActive >= s /\ StartField(b) = (lg.oldestActive - s) \div kIdsInField
        BY <3>1
      <4> HIDE DEF s, StartField
      <4>3. lg.oldestActive - s \in Nat /\ kIdsInField \in Nat \ {0}
        BY <1>1, <4>1, <4>2, CommitLogConstants
      <4>4. (lg.oldestActive - s) \div kIdsInField \in Nat
        BY <4>3, Division
      <4> QED BY <4>2, <4>4 DEF s
    <3>3. f < (lg.oldestActive - StartOf(b)) \div kIdsInField
      BY <1>1, <2>2, <3>2
    <3> QED BY <3>1, <3>3, SkippedFieldsFull
  <2> QED BY <2>1, <2>2
<1>4. ASSUME NEW id \in Nat, id >= lg.headStart, BlockIndex(lg, id) \in 1 .. have,
             BlockIndex(lg, id) \notin opened
      PROVE  IsFinished(lg, id)
  <2>1. /\ FieldOf(id) \in Fields /\ BitOf(id) \in AllOnes
        /\ FieldOf(id) \notin Open(BlockIndex(lg, id))
    BY <1>4, IdIsBit
  <2>2. lg.blocks[BlockIndex(lg, id)][FieldOf(id)] = AllOnes
    BY <1>3, <1>4, <2>1
  <2> QED BY <1>4, <2>1, <2>2, LogTypes DEF IsFinished
<1>5. CASE opened = {}
  <2>1. r = [blocks |-> <<>>, headStart |-> lg.headStart + have * kIdsInBlock,
             nextStart |-> lg.nextStart, oldestActive |-> lg.nextStart]
    <3> HIDE DEF have
    <3>1. r = [lg EXCEPT !.blocks = <<>>, !.headStart = lg.headStart + have * kIdsInBlock,
                         !.oldestActive = lg.nextStart]
      BY <1>5 DEF UpdateOldestActive, have
    <3> QED BY <1>1, <3>1
  <2>2. /\ r.blocks = <<>> /\ r.headStart = lg.nextStart /\ r.nextStart = lg.nextStart
        /\ r.oldestActive = lg.nextStart /\ Len(r.blocks) = 0
    BY <2>1 DEF WellFormed
  <2>3. WellFormed(r)
    <3>1. r \in Logs
      BY <1>1, <2>1, <2>2 DEF Logs
    <3>2. Aligned(lg.nextStart)
      <4> DEFINE h == lg.headStart \div kIdsInBlock
      <4>1. lg.headStart \in Nat /\ lg.headStart % kIdsInBlock = 0 /\ kIdsInBlock \in Nat \ {0}
        BY LogTypes, BlockSizeType DEF Aligned
      <4>2. h \in Nat /\ lg.headStart = h * kIdsInBlock + (lg.headStart % kIdsInBlock)
        BY <4>1, Division
      <4> HIDE DEF h
      <4>3. h * kIdsInBlock \in Nat /\ lg.headStart = h * kIdsInBlock
        BY <4>1, <4>2, Product
      <4>4. (h + have) * kIdsInBlock = h * kIdsInBlock + have * kIdsInBlock
        <5>1. (h + have) - h = have /\ h \in Int /\ h + have \in Int /\ kIdsInBlock \in Int
          BY <1>1, <4>1, <4>2
        <5> QED BY <5>1, Distribute
      <4>5. lg.nextStart = (h + have) * kIdsInBlock
        BY <4>3, <4>4 DEF WellFormed
      <4>6. h + have \in Nat /\ 0 \in 0 .. kIdsInBlock - 1
        BY <1>1, <4>1, <4>2
      <4>7. ((h + have) * kIdsInBlock + 0) % kIdsInBlock = 0 /\ (h + have) * kIdsInBlock \in Nat
        BY <4>1, <4>6, DivisionUnique, Product
      <4>8. (h + have) * kIdsInBlock + 0 = (h + have) * kIdsInBlock
        BY <4>7
      <4> QED BY <4>5, <4>7, <4>8 DEF Aligned
    <3>3. r.nextStart = r.headStart + Len(r.blocks) * kIdsInBlock
      <4>1. 0 * kIdsInBlock = 0
        BY BlockSizeType
      <4> QED BY <1>1, <2>2, <4>1
    <3> QED BY <2>2, <3>1, <3>2, <3>3 DEF WellFormed
  <2>4. \A id \in Nat : Finished(lg, id) <=> id < lg.nextStart
    <3> SUFFICES ASSUME NEW id \in Nat PROVE Finished(lg, id) <=> id < lg.nextStart
      OBVIOUS
    <3>1. CASE id < lg.headStart
      <4>1. have * kIdsInBlock \in Nat
        BY <1>1, BlockSizeType, Product
      <4>2. lg.headStart <= lg.nextStart
        BY <1>1, <4>1 DEF WellFormed
      <4> QED BY <1>1, <3>1, <4>2 DEF Finished
    <3>2. CASE id >= lg.headStart
      <4>1. BlockIndex(lg, id) \in 1 .. have <=> id < lg.nextStart
        BY <3>2, IdIsBit
      <4>2. id < lg.nextStart => IsFinished(lg, id)
        BY <1>4, <1>5, <3>2, <4>1
      <4>3. IsFinished(lg, id) => id < lg.nextStart
        BY <3>2, IdIsBit
      <4> QED BY <1>1, <3>2, <4>2, <4>3 DEF Finished
    <3> QED BY <1>1, <3>1, <3>2
  <2>5. \A id \in Nat : Finished(r, id) <=> id < lg.nextStart
    BY <2>2 DEF Finished, IsFinished
  <2>6. OldestIsLeast(r)
    BY <1>1, <2>2, <2>5 DEF OldestIsLeast, NoneBelow
  <2> QED BY <2>3, <2>4, <2>5, <2>6
<1> DEFINE b == First(opened)
           f == First(Open(b))
           x == First(AllOnes \ lg.blocks[b][f])
           new == StartOf(b) + f * kIdsInField + x
<1>6. CASE opened # {}
  <2>1. b \in opened /\ \A c \in opened : b <= c
    <3>1. opened \in SUBSET Nat
      BY <1>1
    <3> HIDE DEF opened
    <3> QED BY <1>2, <1>6, <3>1
  <2>2. b \in 1 .. have /\ Open(b) # {}
    BY <2>1
  <2>3. f \in Open(b) /\ \A g \in Open(b) : f <= g
    <3>1. Open(b) \in SUBSET Nat
      BY <1>1
    <3> HIDE DEF Open, b
    <3> QED BY <1>2, <2>2, <3>1
  <2>4. f \in Fields /\ lg.blocks[b][f] # AllOnes /\ lg.blocks[b][f] \subseteq AllOnes
    <3> HIDE DEF b, f
    <3>1. lg.blocks[b] \in Block
      BY <2>2, LogTypes
    <3> QED BY <2>3, <3>1 DEF Block
  <2>5. x \in AllOnes \ lg.blocks[b][f] /\ \A y \in AllOnes \ lg.blocks[b][f] : x <= y
    <3> DEFINE clear == AllOnes \ lg.blocks[b][f]
    <3>1. clear \in SUBSET Nat /\ clear # {}
      <4> HIDE DEF b, f
      <4> QED BY <1>1, <2>4
    <3> HIDE DEF clear
    <3>2. First(clear) \in clear /\ \A y \in clear : First(clear) <= y
      BY <1>2, <3>1
    <3> QED BY <3>2 DEF clear
  <2>6. r = [blocks |-> SubSeq(lg.blocks, b, have), headStart |-> StartOf(b),
             nextStart |-> lg.nextStart, oldestActive |-> new]
    <3>1. r = [lg EXCEPT !.blocks = SubSeq(lg.blocks, b, Len(lg.blocks)),
                         !.headStart = StartOf(b), !.oldestActive = new]
      BY <1>6 DEF UpdateOldestActive, First
    <3> HIDE DEF b, f, x, new, StartOf, have
    <3> QED BY <1>1, <3>1 DEF have
  <2> HIDE DEF b, f, x, opened
  <2>7. /\ new \in Nat /\ new >= lg.headStart /\ ~IsFinished(lg, new)
        /\ BlockIndex(lg, new) = b /\ FieldOf(new) = f /\ BitOf(new) = x
    BY <2>2, <2>4, <2>5, BitIsId
  <2> HIDE DEF new
  <2>8. /\ WellFormed(r) /\ r.headStart >= lg.headStart
        /\ \A id \in Nat : id >= r.headStart => (IsFinished(r, id) <=> IsFinished(lg, id))
    BY <2>2, <2>6, <2>7, DropBlocks
  <2>9. r.headStart = StartOf(b) /\ r.oldestActive = new /\ r.headStart \in Nat
    <3> HIDE DEF StartOf, have
    <3> QED BY <2>6, <2>8, LogTypes
  <2>10. ASSUME NEW id \in Nat, id >= lg.headStart, id < StartOf(b) PROVE IsFinished(lg, id)
    <3>1. BlockIndex(lg, id) < b /\ BlockIndex(lg, id) \in Nat \ {0}
      BY <2>2, <2>10, BlockOrder, IdIsBit
    <3>2. BlockIndex(lg, id) \notin opened /\ BlockIndex(lg, id) \in 1 .. have
      BY <1>1, <2>1, <2>2, <3>1 DEF opened
    <3> QED BY <1>4, <2>10, <3>2 DEF opened
  <2>11. \A id \in Nat : Finished(r, id) <=> Finished(lg, id)
    <3> HIDE DEF StartOf
    <3> QED BY <1>1, <2>8, <2>9, <2>10 DEF Finished
  <2>12. ASSUME NEW id \in Nat, id < new PROVE Finished(lg, id)
    <3>1. CASE id < StartOf(b)
      <4> HIDE DEF StartOf
      <4> QED BY <1>1, <2>10, <3>1 DEF Finished
    <3>2. CASE id >= StartOf(b)
      <4> DEFINE c == BlockIndex(lg, id)
                 g == FieldOf(id)
                 y == BitOf(id)
      <4>1. id >= lg.headStart
        <5> HIDE DEF StartOf
        <5> QED BY <1>1, <2>8, <2>9, <3>2
      <4>2. /\ c \in Nat \ {0} /\ g \in Fields /\ y \in AllOnes
            /\ id = lg.headStart + (c - 1) * kIdsInBlock + g * kIdsInField + y
        BY <4>1, IdIsBit
      <4>3. ~(c < b)
        <5>1. c < b <=> id < StartOf(b)
          BY <2>2, <4>1, BlockOrder
        <5> HIDE DEF StartOf
        <5> QED BY <2>9, <3>2, <5>1
      <4>4. ~(b < c)
        <5>1. c \in Nat \ {0} /\ b \in Nat \ {0} /\ id >= lg.headStart /\ new >= lg.headStart
          BY <2>2, <2>7, <4>1, <4>2
        <5>2. b < c <=> new < StartOf(c)
          BY <2>7, <5>1, BlockOrder
        <5>3. c < c <=> id < StartOf(c)
          BY <5>1, BlockOrder
        <5>4. StartOf(c) \in Int
          <6>1. c - 1 \in Nat /\ kIdsInBlock \in Nat
            BY <5>1, BlockSizeType
          <6>2. (c - 1) * kIdsInBlock \in Nat
            BY <6>1, Product
          <6> QED BY <1>1, <6>2
        <5> HIDE DEF StartOf, c
        <5> QED BY <2>7, <2>12, <5>1, <5>2, <5>3, <5>4
      <4>5. c = b
        BY <2>2, <4>2, <4>3, <4>4
      <4>6. g * kIdsInField + y < f * kIdsInField + x
        <5> DEFINE u == g * kIdsInField
                   v == f * kIdsInField
        <5>1. u \in Nat /\ v \in Nat /\ x \in Nat /\ y \in Nat
          <6>1. kIdsInField \in Nat /\ g \in Nat /\ f \in Nat /\ x \in Nat /\ y \in Nat
            BY <1>1, <2>4, <2>5, <4>2, CommitLogConstants
          <6> QED BY <6>1, Product
        <5>2. id = StartOf(b) + u + y /\ new = StartOf(b) + v + x
          BY <4>2, <4>5 DEF new
        <5>3. StartOf(b) \in Nat
          BY <2>9
        <5> HIDE DEF StartOf, u, v, g, y
        <5>4. u + y < v + x
          BY <2>12, <5>1, <5>2, <5>3
        <5> QED BY <5>4 DEF u, v
      <4>7. g < f \/ (g = f /\ y < x)
        BY <2>4, <2>5, <4>2, <4>6, FieldOrder
      <4>8. CASE g < f
        <5>1. g \notin Open(b)
          <6>1. g \in Nat /\ f \in Nat
            BY <1>1, <2>4, <4>2
          <6> HIDE DEF Open, g
          <6> QED BY <2>3, <4>8, <6>1
        <5>2. lg.blocks[b][g] = AllOnes
          BY <1>3, <2>2, <4>2, <5>1
        <5> QED BY <2>2, <4>1, <4>2, <4>5, <5>2, BitIsId DEF Finished
      <4>9. CASE g = f /\ y < x
        <5>1. y \in lg.blocks[b][f]
          <6>1. x \in Nat /\ y \in Nat
            BY <1>1, <2>5, <4>2
          <6> HIDE DEF y
          <6> QED BY <2>5, <4>2, <4>9, <6>1
        <5> QED BY <2>2, <4>1, <4>2, <4>5, <4>9, <5>1, BitIsId DEF Finished
      <4> QED BY <4>7, <4>8, <4>9
    <3>3. StartOf(b) \in Nat
      BY <2>9
    <3> HIDE DEF StartOf
    <3> QED BY <3>1, <3>2, <3>3
  <2>13. OldestIsLeast(r)
    <3>1. ~Finished(lg, new)
      BY <1>1, <2>7 DEF Finished
    <3> QED BY <2>7, <2>9, <2>11, <2>12, <3>1 DEF OldestIsLeast, NoneBelow
  <2> QED BY <2>8, <2>11, <2>13
<1> QED BY <1>5, <1>6

-----------------------------------------------------------------------------
(* Other bits in the same blocks.                                          *)
LEMMA ReplaceBlocks ==
  ASSUME NEW lg, WellFormed(lg), NEW new \in Seq(Block), Len(new) = Len(lg.blocks),
         NEW r, r = [lg EXCEPT !.blocks = new]
  PROVE  /\ WellFormed(r) /\ r.headStart = lg.headStart /\ r.oldestActive = lg.oldestActive
         /\ \A id \in Nat : id >= lg.headStart =>
              (IsFinished(r, id) <=> /\ BlockIndex(lg, id) \in 1 .. Len(lg.blocks)
                                     /\ BitOf(id) \in new[BlockIndex(lg, id)][FieldOf(id)])
<1>1. /\ lg = [blocks |-> lg.blocks, headStart |-> lg.headStart,
               nextStart |-> lg.nextStart, oldestActive |-> lg.oldestActive]
      /\ lg.headStart \in Nat /\ lg.nextStart \in Nat /\ lg.oldestActive \in Nat
      /\ Len(lg.blocks) \in Nat
  BY LogTypes
<1>2. r = [blocks |-> new, headStart |-> lg.headStart,
           nextStart |-> lg.nextStart, oldestActive |-> lg.oldestActive]
  BY <1>1
<1>3. r.headStart = lg.headStart /\ r.oldestActive = lg.oldestActive /\ r.blocks = new /\ r.nextStart = lg.nextStart
  BY <1>2
<1>4. r \in Logs
  BY <1>1, <1>2 DEF Logs, Block
<1>5. WellFormed(r)
  BY <1>3, <1>4 DEF WellFormed
<1>6. ASSUME NEW id \in Nat, id >= lg.headStart
      PROVE  IsFinished(r, id) <=> /\ BlockIndex(lg, id) \in 1 .. Len(lg.blocks)
                                   /\ BitOf(id) \in new[BlockIndex(lg, id)][FieldOf(id)]
  <2>1. BlockIndex(r, id) = BlockIndex(lg, id)
    BY <1>3 DEF BlockIndex
  <2>2. BlockIndex(lg, id) \in Nat \ {0}
    BY <1>6, IdIsBit
  <2>3. new # <<>> <=> Len(lg.blocks) # 0
    OBVIOUS
  <2> QED BY <1>1, <1>3, <2>1, <2>2, <2>3 DEF IsFinished
<1> QED BY <1>3, <1>5, <1>6

(* MarkFinished of an id the list still holds or does not reach yet: that     *)
(* id, and no other, becomes finished, and the answer of OldestActive is     *)
(* right again.                                                            *)
LEMMA MarkCorrect ==
  ASSUME NEW lg, WellFormed(lg), OldestIsLeast(lg), NEW id \in Nat, id >= lg.headStart,
         NEW r, r = MarkFinished(lg, id)
  PROVE  /\ WellFormed(r) /\ OldestIsLeast(r)
         /\ \A j \in Nat : Finished(r, j) <=> Finished(lg, j) \/ j = id
<1> DEFINE l == FindOrCreateBlock(lg, id)
           b == BlockIndex(l, id)
           f == FieldOf(id)
           x == BitOf(id)
           new == [l.blocks EXCEPT ![b][f] = @ \cup {x}]
           m == [l EXCEPT !.blocks = new]
<1>1. /\ WellFormed(l) /\ l.headStart = lg.headStart /\ l.oldestActive = lg.oldestActive
      /\ b \in 1 .. Len(l.blocks)
      /\ \A j \in Nat : Finished(l, j) <=> Finished(lg, j)
  BY FindOrCreateCorrect
<1>2. r = IF id = lg.oldestActive THEN UpdateOldestActive(m) ELSE m
  <2>1. m = [l EXCEPT !.blocks[BlockIndex(l, id)][FieldOf(id)] = @ \cup {BitOf(id)}]
    OBVIOUS
  <2> QED BY <2>1 DEF MarkFinished
<1> HIDE DEF l
<1>3. f \in Fields /\ x \in AllOnes
  BY <1>1, IdIsBit
<1>4. /\ l.blocks \in Seq(Block) /\ DOMAIN l.blocks = 1 .. Len(l.blocks) /\ l.blocks[b] \in Block
      /\ l.headStart \in Nat /\ l.oldestActive \in Nat
  BY <1>1, LogTypes
<1> HIDE DEF b, f, x
<1>5. new = [l.blocks EXCEPT ![b] = [l.blocks[b] EXCEPT ![f] = l.blocks[b][f] \cup {x}]]
  OBVIOUS
<1>6. [l.blocks[b] EXCEPT ![f] = l.blocks[b][f] \cup {x}] \in Block
  BY <1>3, <1>4 DEF Block
<1>7. /\ new \in Seq(Block) /\ Len(new) = Len(l.blocks)
      /\ \A c \in 1 .. Len(l.blocks) : \A g \in Fields :
           new[c][g] = IF c = b /\ g = f THEN l.blocks[c][g] \cup {x} ELSE l.blocks[c][g]
  <2>1. new \in Seq(Block) /\ Len(new) = Len(l.blocks)
    BY <1>1, <1>4, <1>5, <1>6
  <2>2. \A c \in 1 .. Len(l.blocks) : l.blocks[c] \in Block
    BY <1>1, LogTypes
  <2>3. ASSUME NEW c \in 1 .. Len(l.blocks), NEW g \in Fields
        PROVE  new[c][g] = IF c = b /\ g = f THEN l.blocks[c][g] \cup {x} ELSE l.blocks[c][g]
    <3>1. CASE c = b
      <4>1. new[c] = [l.blocks[b] EXCEPT ![f] = l.blocks[b][f] \cup {x}]
        BY <1>4, <1>5, <3>1
      <4> QED BY <1>4, <3>1, <4>1 DEF Block
    <3>2. CASE c # b
      BY <1>4, <1>5, <3>2
    <3> QED BY <3>1, <3>2
  <2> QED BY <2>1, <2>3
<1> HIDE DEF new
<1>8. /\ WellFormed(m) /\ m.headStart = l.headStart /\ m.oldestActive = l.oldestActive
      /\ \A j \in Nat : j >= l.headStart =>
           (IsFinished(m, j) <=> /\ BlockIndex(l, j) \in 1 .. Len(l.blocks)
                                 /\ BitOf(j) \in new[BlockIndex(l, j)][FieldOf(j)])
  BY <1>1, <1>7, ReplaceBlocks
<1> HIDE DEF m
<1>9. ASSUME NEW j \in Nat, j >= l.headStart PROVE IsFinished(m, j) <=> IsFinished(l, j) \/ j = id
  <2> DEFINE c == BlockIndex(l, j)
             g == FieldOf(j)
             y == BitOf(j)
  <2>1. c \in Nat \ {0} /\ g \in Fields /\ y \in AllOnes
    BY <1>1, <1>9, IdIsBit
  <2>2. c = b /\ g = f /\ y = x <=> j = id
    <3>1. /\ j = l.headStart + (c - 1) * kIdsInBlock + g * kIdsInField + y
          /\ id = l.headStart + (b - 1) * kIdsInBlock + f * kIdsInField + x
      BY <1>1, <1>9, IdIsBit DEF b, f, x
    <3>2. j = id => c = b /\ g = f /\ y = x
      BY DEF b, f, x
    <3>3. c = b /\ g = f /\ y = x => j = id
      <4> HIDE DEF c, g, y
      <4> QED BY <3>1, Zenon
    <3> QED BY <3>2, <3>3
  <2>3. IsFinished(l, j) <=> c \in 1 .. Len(l.blocks) /\ y \in l.blocks[c][g]
    <3>1. l.blocks # <<>>
      BY <1>1, <1>4
    <3> QED BY <1>4, <2>1, <3>1 DEF IsFinished
  <2>4. IsFinished(m, j) <=> c \in 1 .. Len(l.blocks) /\ y \in new[c][g]
    BY <1>8, <1>9
  <2> HIDE DEF c, g, y
  <2>5. CASE c \in 1 .. Len(l.blocks)
    <3>1. new[c][g] = IF c = b /\ g = f THEN l.blocks[c][g] \cup {x} ELSE l.blocks[c][g]
      BY <1>7, <2>1, <2>5
    <3> QED BY <2>2, <2>3, <2>4, <2>5, <3>1
  <2>6. CASE c \notin 1 .. Len(l.blocks)
    BY <1>1, <2>2, <2>3, <2>4, <2>6
  <2> QED BY <2>5, <2>6
<1>10. \A j \in Nat : Finished(m, j) <=> Finished(lg, j) \/ j = id
  <2>1. \A j \in Nat : Finished(m, j) <=> Finished(l, j) \/ j = id
    BY <1>1, <1>4, <1>8, <1>9 DEF Finished
  <2> QED BY <1>1, <2>1
<1>11. m.oldestActive \in Nat /\ NoneBelow(m)
  BY <1>1, <1>4, <1>8, <1>10 DEF OldestIsLeast, NoneBelow
<1>12. CASE id = lg.oldestActive
  <2>1. r = UpdateOldestActive(m)
    BY <1>2, <1>12
  <2>2. /\ WellFormed(r) /\ OldestIsLeast(r)
        /\ \A j \in Nat : Finished(r, j) <=> Finished(m, j)
    BY <1>8, <1>11, <2>1, UpdateCorrect
  <2> QED BY <1>10, <2>2
<1>13. CASE id # lg.oldestActive
  <2>1. r = m
    BY <1>2, <1>13
  <2>2. ~Finished(m, m.oldestActive)
    BY <1>1, <1>8, <1>10, <1>11, <1>13 DEF OldestIsLeast
  <2> QED BY <1>8, <1>10, <1>11, <2>1, <2>2 DEF OldestIsLeast
<1> QED BY <1>12, <1>13

-----------------------------------------------------------------------------
(* The order of the ids is that of their blocks, fields and bits.           *)
LEMMA PlaceOrder ==
  ASSUME NEW lg, WellFormed(lg), NEW i \in Nat, i >= lg.headStart, NEW j \in Nat, j >= lg.headStart
  PROVE  i < j <=> \/ BlockIndex(lg, i) < BlockIndex(lg, j)
                   \/ /\ BlockIndex(lg, i) = BlockIndex(lg, j)
                      /\ \/ FieldOf(i) < FieldOf(j)
                         \/ FieldOf(i) = FieldOf(j) /\ BitOf(i) < BitOf(j)
<1> DEFINE b == BlockIndex(lg, i)
           f == FieldOf(i)
           x == BitOf(i)
           c == BlockIndex(lg, j)
           g == FieldOf(j)
           y == BitOf(j)
           B == lg.headStart + (b - 1) * kIdsInBlock
           C == lg.headStart + (c - 1) * kIdsInBlock
           u == f * kIdsInField
           v == g * kIdsInField
<1>1. /\ b \in Nat \ {0} /\ f \in Fields /\ x \in AllOnes /\ i = B + u + x
      /\ c \in Nat \ {0} /\ g \in Fields /\ y \in AllOnes /\ j = C + v + y
  BY IdIsBit
<1>2. /\ b < c <=> i < C
      /\ c < b <=> j < B
      /\ ~(j < C) /\ ~(i < B)
  <2>1. b < c <=> i < C
    BY <1>1, BlockOrder
  <2>2. c < b <=> j < B
    BY <1>1, BlockOrder
  <2>3. c < c <=> j < C
    BY <1>1, BlockOrder
  <2>4. b < b <=> i < B
    BY <1>1, BlockOrder
  <2> HIDE DEF b, c, B, C
  <2> QED BY <1>1, <2>1, <2>2, <2>3, <2>4
<1>3. b = c => B = C
  OBVIOUS
<1>4. f \in Nat /\ g \in Nat /\ x \in Nat /\ y \in Nat /\ u \in Nat /\ v \in Nat
  <2>1. f \in Nat /\ g \in Nat /\ x \in Nat /\ y \in Nat /\ kIdsInField \in Nat
    BY <1>1, CommitLogConstants DEF Fields, AllOnes
  <2> QED BY <2>1, Product
<1>5. B \in Nat /\ C \in Nat
  <2>0. kIdsInBlock \in Nat /\ lg.headStart \in Nat
    BY BlockSizeType, LogTypes
  <2>1. b - 1 \in Nat /\ c - 1 \in Nat /\ kIdsInBlock \in Nat /\ lg.headStart \in Nat
    <3>1. b \in Nat \ {0} /\ c \in Nat \ {0}
      BY <1>1
    <3> HIDE DEF b, c
    <3> QED BY <2>0, <3>1
  <2>2. (b - 1) * kIdsInBlock \in Nat /\ (c - 1) * kIdsInBlock \in Nat
    BY <2>1, Product
  <2> QED BY <2>1, <2>2
<1>6. u + x < v + y <=> f < g \/ (f = g /\ x < y)
  <2>1. u + x < v + y => f < g \/ (f = g /\ x < y)
    BY <1>1, FieldOrder
  <2>2. v + y < u + x => g < f \/ (g = f /\ y < x)
    BY <1>1, FieldOrder
  <2>3. f = g => u = v
    OBVIOUS
  <2>4. f < g => u + kIdsInField <= v
    <3>1. kIdsInField \in Nat \ {0}
      BY CommitLogConstants
    <3> QED BY <1>4, <3>1, Monotone
  <2>5. x < kIdsInField /\ kIdsInField \in Nat
    BY <1>1, CommitLogConstants DEF AllOnes
  <2> HIDE DEF f, g, x, y, u, v
  <2> QED BY <1>4, <2>1, <2>2, <2>3, <2>4, <2>5
<1> HIDE DEF b, c, f, g, x, y, B, C, u, v
<1>7. i < j <=> b < c \/ (b = c /\ (f < g \/ (f = g /\ x < y)))
  <2>1. CASE b < c
    BY <1>1, <1>2, <1>4, <1>5, <2>1
  <2>2. CASE c < b
    BY <1>1, <1>2, <1>4, <1>5, <2>2
  <2>3. CASE b = c
    <3>1. i < j <=> u + x < v + y
      BY <1>1, <1>3, <1>4, <1>5, <2>3
    <3> QED BY <1>1, <1>6, <2>3, <3>1
  <2> QED BY <1>1, <2>1, <2>2, <2>3
<1> QED BY <1>7 DEF b, c, f, g, x, y

(* The masks of MarkFinishedInRange cover the ids of the range.             *)
LEMMA RangeMaskIsRange ==
  ASSUME NEW lg, WellFormed(lg), NEW start \in Nat, start >= lg.headStart,
         NEW end \in Nat, start <= end, NEW j \in Nat, j >= lg.headStart
  PROVE  BitOf(j) \in RangeMask(lg, start, end, BlockIndex(lg, j), FieldOf(j))
           <=> start <= j /\ j <= end
<1> DEFINE sb == BlockIndex(lg, start)
           sf == FieldOf(start)
           sx == BitOf(start)
           eb == BlockIndex(lg, end)
           ef == FieldOf(end)
           ex == BitOf(end)
           b == BlockIndex(lg, j)
           f == FieldOf(j)
           x == BitOf(j)
           before == b < sb \/ (b = sb /\ (f < sf \/ (f = sf /\ x < sx)))
           after == eb < b \/ (eb = b /\ (ef < f \/ (ef = f /\ ex < x)))
           empty == eb < sb \/ (eb = sb /\ (ef < sf \/ (ef = sf /\ ex < sx)))
<1>1. lg.headStart \in Nat
  BY LogTypes
<1>2. end >= lg.headStart
  BY <1>1
<1>3. /\ sb \in Nat /\ eb \in Nat /\ b \in Nat
      /\ sf \in Fields /\ ef \in Fields /\ f \in Fields
      /\ sx \in AllOnes /\ ex \in AllOnes /\ x \in AllOnes
  BY <1>2, IdIsBit
<1>4. /\ sf \in Nat /\ ef \in Nat /\ f \in Nat
      /\ sx \in Nat /\ ex \in Nat /\ x \in Nat /\ x <= kIdsInField - 1 /\ kIdsInField \in Nat
  BY <1>3, CommitLogConstants DEF Fields, AllOnes
<1>5. (j < start <=> before) /\ (end < j <=> after)
  BY <1>2, PlaceOrder
<1>6. ~empty
  <2>1. end < start <=> empty
    BY <1>2, PlaceOrder
  <2> QED BY <2>1
<1> DEFINE afterStart == b > sb \/ (b = sb /\ f > sf)
           beforeEnd  == b < eb \/ (b = eb /\ f < ef)
           atStart    == b = sb /\ f = sf
           atEnd      == b = eb /\ f = ef
           mask == RangeMask(lg, start, end, b, f)
<1>7. /\ atStart /\ atEnd => mask = sx .. ex
      /\ atStart /\ ~atEnd => mask = sx .. kIdsInField - 1
      /\ atEnd /\ ~atStart => mask = 0 .. ex
      /\ ~atStart /\ ~atEnd /\ afterStart /\ beforeEnd => mask = AllOnes
      /\ ~atStart /\ ~atEnd /\ ~(afterStart /\ beforeEnd) => mask = {}
  <2> HIDE DEF sb, sf, sx, eb, ef, ex, b, f, x
  <2>1. mask = CASE atStart /\ atEnd          -> sx .. ex
                 [] atStart /\ ~atEnd         -> sx .. kIdsInField - 1
                 [] atEnd /\ ~atStart         -> 0 .. ex
                 [] afterStart /\ beforeEnd   -> AllOnes
                 [] OTHER                     -> {}
    BY DEF RangeMask, sb, sf, sx, eb, ef, ex
  <2>2. atStart \/ atEnd => ~(afterStart /\ beforeEnd)
    BY <1>3, <1>4
  <2> HIDE DEF mask, atStart, atEnd, afterStart, beforeEnd
  <2> QED BY <2>1, <2>2
<1> HIDE DEF sb, sf, sx, eb, ef, ex, b, f, x, mask
<1>8. x \in mask <=> ~before /\ ~after
  <2>1. CASE atStart /\ atEnd
    BY <1>3, <1>4, <1>6, <1>7, <2>1
  <2>2. CASE atStart /\ ~atEnd
    BY <1>3, <1>4, <1>6, <1>7, <2>2
  <2>3. CASE atEnd /\ ~atStart
    BY <1>3, <1>4, <1>6, <1>7, <2>3
  <2>4. CASE ~atStart /\ ~atEnd /\ afterStart /\ beforeEnd
    BY <1>3, <1>4, <1>6, <1>7, <2>4
  <2>5. CASE ~atStart /\ ~atEnd /\ ~(afterStart /\ beforeEnd)
    BY <1>3, <1>4, <1>6, <1>7, <2>5
  <2> QED BY <2>1, <2>2, <2>3, <2>4, <2>5
<1>9. x \in mask <=> ~(j < start) /\ ~(end < j)
  BY <1>5, <1>8
<1> QED BY <1>9 DEF x, mask, b, f

(* What MarkFinishedInRange does before it looks at oldest_active_.         *)
Masked(lg, start, end) ==
  [lg EXCEPT !.blocks =
     [b \in DOMAIN lg.blocks |->
        [f \in Fields |-> lg.blocks[b][f] \cup RangeMask(lg, start, end, b, f)]]]

(* MarkFinishedInRange up to its last line: exactly the range is finished.  *)
LEMMA MaskedCorrect ==
  ASSUME NEW lg, WellFormed(lg), NEW start \in Nat, start >= lg.headStart,
         NEW end \in Nat, start <= end, NEW m, m = Masked(RangeBlocks(lg, start, end), start, end)
  PROVE  /\ WellFormed(m) /\ m.headStart = lg.headStart /\ m.oldestActive = lg.oldestActive
         /\ \A j \in Nat : Finished(m, j) <=> Finished(lg, j) \/ (start <= j /\ j <= end)
<1> DEFINE k == FindOrCreateBlock(lg, end)
           l == FindOrCreateBlock(k, start)
           mask(b, f) == RangeMask(l, start, end, b, f)
           new == [b \in DOMAIN l.blocks |-> [f \in Fields |-> l.blocks[b][f] \cup mask(b, f)]]
<1>1. /\ WellFormed(k) /\ k.headStart = lg.headStart /\ k.oldestActive = lg.oldestActive
      /\ BlockIndex(k, end) \in 1 .. Len(k.blocks)
      /\ \A j \in Nat : Finished(k, j) <=> Finished(lg, j)
  BY FindOrCreateCorrect
<1>2. m = [l EXCEPT !.blocks = new]
  BY DEF Masked, RangeBlocks
<1> HIDE DEF k
<1>3. /\ WellFormed(l) /\ l.headStart = k.headStart /\ l.oldestActive = k.oldestActive
      /\ Len(l.blocks) >= Len(k.blocks)
      /\ \A j \in Nat : Finished(l, j) <=> Finished(k, j)
  BY <1>1, FindOrCreateCorrect
<1> HIDE DEF l
<1>4. /\ DOMAIN l.blocks = 1 .. Len(l.blocks) /\ Len(l.blocks) \in Nat /\ Len(k.blocks) \in Nat
      /\ \A b \in 1 .. Len(l.blocks) : l.blocks[b] \in Block
      /\ l.headStart \in Nat
  BY <1>1, <1>3, LogTypes
<1>5. start >= l.headStart /\ end >= l.headStart
  BY <1>1, <1>3, <1>4
<1>6. \A b \in 1 .. Len(l.blocks) : \A f \in Fields : mask(b, f) \subseteq AllOnes
  <2>1. BitOf(start) \in AllOnes /\ BitOf(end) \in AllOnes
    BY <1>3, <1>5, IdIsBit
  <2>2. /\ BitOf(start) .. BitOf(end) \subseteq AllOnes
        /\ BitOf(start) .. kIdsInField - 1 \subseteq AllOnes
        /\ 0 .. BitOf(end) \subseteq AllOnes
    BY <2>1, CommitLogConstants DEF AllOnes
  <2> QED BY <2>2, Zenon DEF RangeMask
<1> HIDE DEF mask
<1>7. \A b \in 1 .. Len(l.blocks) : [f \in Fields |-> l.blocks[b][f] \cup mask(b, f)] \in Block
  BY <1>4, <1>6 DEF Block
<1>8. new \in Seq(Block) /\ Len(new) = Len(l.blocks)
  BY <1>4, <1>7
<1>9. /\ WellFormed(m) /\ m.headStart = l.headStart /\ m.oldestActive = l.oldestActive
      /\ \A j \in Nat : j >= l.headStart =>
           (IsFinished(m, j) <=> /\ BlockIndex(l, j) \in 1 .. Len(l.blocks)
                                 /\ BitOf(j) \in new[BlockIndex(l, j)][FieldOf(j)])
  <2> HIDE DEF new
  <2> QED BY <1>2, <1>3, <1>8, ReplaceBlocks
<1>10. ASSUME NEW j \in Nat, j >= l.headStart
       PROVE  IsFinished(m, j) <=> IsFinished(l, j) \/ (start <= j /\ j <= end)
  <2> DEFINE c == BlockIndex(l, j)
             g == FieldOf(j)
             y == BitOf(j)
  <2>1. c \in Nat \ {0} /\ g \in Fields /\ y \in AllOnes
    BY <1>3, <1>10, IdIsBit
  <2>2. y \in mask(c, g) <=> start <= j /\ j <= end
    BY <1>3, <1>5, <1>10, RangeMaskIsRange DEF mask
  <2>3. IsFinished(l, j) <=> c \in 1 .. Len(l.blocks) /\ y \in l.blocks[c][g]
    <3>1. l.blocks # <<>> <=> Len(l.blocks) # 0
      BY <1>3, LogTypes
    <3> QED BY <1>4, <2>1, <3>1 DEF IsFinished
  <2>4. IsFinished(m, j) <=> c \in 1 .. Len(l.blocks) /\ y \in new[c][g]
    BY <1>9, <1>10
  <2>5. j <= end => c \in 1 .. Len(l.blocks)
    <3> DEFINE e == BlockIndex(l, end)
    <3>1. e \in 1 .. Len(k.blocks)
      BY <1>1, <1>3 DEF BlockIndex
    <3>2. ~(end < j) => ~(e < c)
      BY <1>3, <1>5, <1>10, PlaceOrder
    <3> HIDE DEF c, e
    <3> QED BY <1>3, <1>4, <2>1, <3>1, <3>2
  <2> HIDE DEF c, g, y
  <2>6. CASE c \in 1 .. Len(l.blocks)
    <3>1. new[c][g] = l.blocks[c][g] \cup mask(c, g)
      BY <1>4, <2>1, <2>6
    <3> HIDE DEF new
    <3> QED BY <2>2, <2>3, <2>4, <2>6, <3>1
  <2>7. CASE c \notin 1 .. Len(l.blocks)
    BY <2>3, <2>4, <2>5, <2>7
  <2> QED BY <2>6, <2>7
<1>11. \A j \in Nat : Finished(m, j) <=> Finished(l, j) \/ (start <= j /\ j <= end)
  BY <1>4, <1>5, <1>9, <1>10 DEF Finished
<1> QED BY <1>1, <1>3, <1>9, <1>11

(* MarkFinishedInRange, once both of its blocks exist and the masks are set.   *)
LEMMA RangeUnfolds ==
  ASSUME NEW lg, NEW start \in Nat, NEW end \in Nat, start <= end,
         NEW m, m = Masked(RangeBlocks(lg, start, end), start, end)
  PROVE  MarkFinishedInRange(lg, start, end)
           = IF start <= lg.oldestActive /\ lg.oldestActive <= end THEN UpdateOldestActive(m) ELSE m
<1>1. ~(end < start)
  OBVIOUS
<1> QED BY <1>1 DEF MarkFinishedInRange, Masked

(* MarkFinishedInRange of ids the list still holds or does not reach yet:     *)
(* those ids, and no others, become finished.                              *)
LEMMA RangeCorrect ==
  ASSUME NEW lg, WellFormed(lg), OldestIsLeast(lg), NEW start \in Nat, start >= lg.headStart,
         NEW end \in Nat, NEW r, r = MarkFinishedInRange(lg, start, end)
  PROVE  /\ WellFormed(r) /\ OldestIsLeast(r)
         /\ \A j \in Nat : Finished(r, j) <=> Finished(lg, j) \/ (start <= j /\ j <= end)
<1>1. CASE end < start
  <2>1. r = lg
    BY <1>1 DEF MarkFinishedInRange
  <2>2. \A j \in Nat : ~(start <= j /\ j <= end)
    BY <1>1
  <2> QED BY <2>1, <2>2
<1>2. CASE start <= end
  <2> DEFINE m == Masked(RangeBlocks(lg, start, end), start, end)
  <2>1. /\ WellFormed(m) /\ m.headStart = lg.headStart /\ m.oldestActive = lg.oldestActive
        /\ \A j \in Nat : Finished(m, j) <=> Finished(lg, j) \/ (start <= j /\ j <= end)
    BY <1>2, MaskedCorrect
  <2>2. r = IF start <= lg.oldestActive /\ lg.oldestActive <= end THEN UpdateOldestActive(m) ELSE m
    BY <1>2, RangeUnfolds
  <2> HIDE DEF m
  <2>3. lg.oldestActive \in Nat
    BY LogTypes
  <2>4. NoneBelow(m)
    BY <2>1, <2>3 DEF OldestIsLeast, NoneBelow
  <2>5. CASE start <= lg.oldestActive /\ lg.oldestActive <= end
    <3>1. r = UpdateOldestActive(m)
      BY <2>2, <2>5
    <3>2. WellFormed(r) /\ OldestIsLeast(r) /\ \A j \in Nat : Finished(r, j) <=> Finished(m, j)
      BY <2>1, <2>4, <3>1, UpdateCorrect
    <3> QED BY <2>1, <3>2
  <2>6. CASE ~(start <= lg.oldestActive /\ lg.oldestActive <= end)
    <3>1. r = m
      BY <2>2, <2>6
    <3>2. ~Finished(m, m.oldestActive)
      BY <2>1, <2>3, <2>6 DEF OldestIsLeast
    <3> QED BY <2>1, <2>4, <3>1, <3>2 DEF OldestIsLeast
  <2> QED BY <2>5, <2>6
<1> QED BY <1>1, <1>2

-----------------------------------------------------------------------------
(* The constructors.  A list of one empty block from an aligned id on holds   *)
(* every id before it finished and no other.                               *)
LEMMA OneBlock ==
  ASSUME NEW h, Aligned(h), NEW lg,
         lg = [blocks |-> <<EmptyBlock>>, headStart |-> h,
               nextStart |-> h + kIdsInBlock, oldestActive |-> 0]
  PROVE  /\ WellFormed(lg) /\ lg.headStart = h /\ lg.oldestActive = 0 /\ NoneBelow(lg)
         /\ \A j \in Nat : Finished(lg, j) <=> j < h
<1>1. h \in Nat /\ kIdsInBlock \in Nat /\ EmptyBlock \in [Fields -> SUBSET AllOnes]
  BY BlockSizeType DEF Aligned, EmptyBlock
<1>2. /\ lg.blocks = <<EmptyBlock>> /\ lg.headStart = h
      /\ lg.nextStart = h + kIdsInBlock /\ lg.oldestActive = 0
  OBVIOUS
<1>3. lg \in Logs
  <2>1. <<EmptyBlock>> \in Seq([Fields -> SUBSET AllOnes])
    BY <1>1
  <2>2. h + kIdsInBlock \in Nat
    BY <1>1
  <2> QED BY <1>1, <2>1, <2>2 DEF Logs
<1>4. Len(lg.blocks) = 1 /\ 1 * kIdsInBlock = kIdsInBlock
  BY <1>1, <1>2
<1>5. WellFormed(lg)
  BY <1>2, <1>3, <1>4 DEF WellFormed
<1>6. ASSUME NEW j \in Nat, j >= h PROVE ~IsFinished(lg, j)
  <2>1. FieldOf(j) \in Fields /\ BlockIndex(lg, j) \in Nat \ {0}
    BY <1>2, <1>5, <1>6, IdIsBit
  <2>2. BlockIndex(lg, j) <= 1 => lg.blocks[BlockIndex(lg, j)][FieldOf(j)] = {}
    BY <1>2, <2>1 DEF EmptyBlock
  <2> QED BY <1>4, <2>2 DEF IsFinished
<1>7. \A j \in Nat : Finished(lg, j) <=> j < h
  BY <1>1, <1>2, <1>6 DEF Finished
<1>8. NoneBelow(lg)
  BY <1>2 DEF NoneBelow
<1> QED BY <1>2, <1>5, <1>7, <1>8

(* The log of a new storage: nothing is finished.                           *)
LEMMA EmptyLogCorrect ==
  /\ WellFormed(EmptyLog) /\ OldestIsLeast(EmptyLog)
  /\ \A j \in Nat : ~Finished(EmptyLog, j)
<1>1. kIdsInBlock \in Nat \ {0}
  BY BlockSizeType
<1>2. Aligned(0)
  <2>1. (0 * kIdsInBlock + 0) % kIdsInBlock = 0
    BY <1>1, DivisionUnique
  <2> QED BY <1>1, <2>1 DEF Aligned
<1>3. /\ EmptyLog.blocks = <<>> /\ EmptyLog.headStart = 0
      /\ EmptyLog.nextStart = 0 /\ EmptyLog.oldestActive = 0
  BY DEF EmptyLog
<1>4. EmptyLog \in Logs
  BY DEF EmptyLog, Logs
<1>5. WellFormed(EmptyLog)
  <2>1. 0 = 0 + 0 * kIdsInBlock /\ Len(EmptyLog.blocks) = 0
    BY <1>1, <1>3
  <2> QED BY <1>2, <1>3, <1>4, <2>1 DEF WellFormed
<1>6. \A j \in Nat : ~Finished(EmptyLog, j)
  BY <1>3 DEF Finished, IsFinished
<1> QED BY <1>3, <1>5, <1>6 DEF OldestIsLeast, NoneBelow

(* The range of the constructor starts at 0, often before its only block;     *)
(* it marks what the range from the start of the block would.              *)
LEMMA RangeFromZero ==
  ASSUME NEW h, Aligned(h), NEW lg, WellFormed(lg), lg.headStart = h, NEW end \in Nat, h <= end
  PROVE  Masked(RangeBlocks(lg, 0, end), 0, end) = Masked(RangeBlocks(lg, h, end), h, end)
<1>1. h \in Nat /\ kIdsInBlock \in Nat \ {0} /\ kIdsInField \in Nat \ {0} /\ kBlockSize \in Nat \ {0}
  BY BlockSizeType, CommitLogConstants DEF Aligned
<1>2. 0 \in Fields /\ 0 \in AllOnes
  BY <1>1 DEF Fields, AllOnes
<1>3. \A H : Aligned(H) => FieldOf(H) = 0 /\ BitOf(H) = 0 /\ (H - H) \div kIdsInBlock = 0
  <2> SUFFICES ASSUME NEW H, Aligned(H)
               PROVE  FieldOf(H) = 0 /\ BitOf(H) = 0 /\ (H - H) \div kIdsInBlock = 0
    OBVIOUS
  <2>1. 0 * kIdsInBlock = 0 /\ 0 * kIdsInField = 0 /\ H \in Nat
    BY <1>1 DEF Aligned
  <2>2. H = H + 0 * kIdsInBlock + 0 * kIdsInField + 0
    BY <2>1
  <2> QED BY <1>2, <2>2, IdAt
<1>4. Aligned(0)
  BY <1>1, EmptyLogCorrect DEF WellFormed, EmptyLog
<1>5. FieldOf(0) = FieldOf(h) /\ BitOf(0) = BitOf(h)
  BY <1>3, <1>4
<1>6. ASSUME NEW k, k.headStart = h PROVE BlockIndex(k, 0) = 1 /\ BlockIndex(k, h) = 1
  <2>1. (h - h) \div kIdsInBlock = 0 /\ (0 - 0) \div kIdsInBlock = 0
    BY <1>3, <1>4
  <2>2. CASE h = 0
    BY <1>6, <2>1, <2>2 DEF BlockIndex
  <2>3. CASE 0 < h
    BY <1>1, <1>6, <2>1, <2>3 DEF BlockIndex
  <2> QED BY <1>1, <2>2, <2>3
<1> DEFINE k == FindOrCreateBlock(lg, end)
           l == FindOrCreateBlock(k, 0)
<1>7. WellFormed(k) /\ k.headStart = h
  BY FindOrCreateCorrect
<1> HIDE DEF k
<1>8. l = FindOrCreateBlock(k, h)
  <2> DEFINE based == [k EXCEPT !.headStart = IF k.blocks = <<>> THEN k.nextStart ELSE k.headStart]
  <2>1. based.headStart = h
    <3>1. k.blocks = <<>> => k.nextStart = h
      <4>1. k.blocks = <<>> => Len(k.blocks) = 0
        OBVIOUS
      <4>2. 0 * kIdsInBlock = 0
        BY <1>1
      <4> QED BY <1>1, <1>7, <4>1, <4>2 DEF WellFormed
    <3>2. k = [blocks |-> k.blocks, headStart |-> k.headStart,
               nextStart |-> k.nextStart, oldestActive |-> k.oldestActive]
      BY <1>7, LogTypes
    <3> QED BY <1>7, <3>1, <3>2
  <2>2. BlockIndex(based, 0) = BlockIndex(based, h)
    <3> HIDE DEF based
    <3> QED BY <1>6, <2>1
  <2> QED BY <2>2, Zenon DEF FindOrCreateBlock
<1>9. l.headStart = h
  BY <1>7, FindOrCreateCorrect
<1>10. RangeBlocks(lg, 0, end) = l /\ RangeBlocks(lg, h, end) = l
  BY <1>8 DEF RangeBlocks, k
<1> HIDE DEF l
<1>11. BlockIndex(l, 0) = BlockIndex(l, h)
  BY <1>6, <1>9
<1>12. \A b, f : RangeMask(l, 0, end, b, f) = RangeMask(l, h, end, b, f)
  BY <1>5, <1>11, Zenon DEF RangeMask
<1> QED BY <1>10, <1>12, Zenon DEF Masked

(* CommitLog::CommitLog(oldest_active): the ids below oldest_active, and     *)
(* no others, are finished.                                                *)
LEMMA NewLogCorrect ==
  ASSUME NEW oldest \in Nat, NEW r, r = NewLog(oldest)
  PROVE  /\ WellFormed(r) /\ OldestIsLeast(r)
         /\ \A j \in Nat : Finished(r, j) <=> j < oldest
<1>1. kIdsInBlock \in Nat \ {0}
  BY BlockSizeType
<1> DEFINE one == [EmptyLog EXCEPT !.blocks = <<EmptyBlock>>]
<1>one. one = [blocks |-> <<EmptyBlock>>, headStart |-> 0, nextStart |-> 0, oldestActive |-> 0]
  BY DEF EmptyLog
<1> HIDE DEF one
<1>2. CASE oldest = 0
  <2>1. r = [blocks |-> <<EmptyBlock>>, headStart |-> 0, nextStart |-> 0 + kIdsInBlock, oldestActive |-> 0]
    <3>1. r = [one EXCEPT !.nextStart = kIdsInBlock]
      BY <1>2, Zenon DEF NewLog, one
    <3>2. kIdsInBlock = 0 + kIdsInBlock
      BY <1>1
    <3> QED BY <1>one, <3>1, <3>2
  <2>2. Aligned(0)
    BY EmptyLogCorrect DEF WellFormed, EmptyLog
  <2>3. /\ WellFormed(r) /\ r.oldestActive = 0 /\ NoneBelow(r)
        /\ \A j \in Nat : Finished(r, j) <=> j < 0
    BY <2>1, <2>2, OneBlock
  <2> QED BY <1>2, <2>3 DEF OldestIsLeast
<1>3. CASE oldest # 0
  <2> DEFINE end == oldest - 1
             d == end \div kIdsInBlock
             h == d * kIdsInBlock
             lg == [blocks |-> <<EmptyBlock>>, headStart |-> h,
                    nextStart |-> h + kIdsInBlock, oldestActive |-> 0]
  <2>1. end \in Nat
    BY <1>3
  <2>2. d \in Nat /\ (end % kIdsInBlock) \in 0 .. kIdsInBlock - 1 /\ end = d * kIdsInBlock + (end % kIdsInBlock)
    BY <1>1, <2>1, Division
  <2> HIDE DEF d
  <2>3. h \in Nat
    BY <1>1, <2>2, Product
  <2>4. h <= end
    <3> DEFINE e == end % kIdsInBlock
    <3>1. end = h + e /\ e \in 0 .. kIdsInBlock - 1
      BY <2>2
    <3> HIDE DEF e, h, end
    <3> QED BY <1>1, <2>3, <3>1
  <2>5. Aligned(h)
    <3>1. 0 \in 0 .. kIdsInBlock - 1
      BY <1>1
    <3>2. (d * kIdsInBlock + 0) % kIdsInBlock = 0
      BY <1>1, <2>2, <3>1, DivisionUnique
    <3>3. d * kIdsInBlock + 0 = d * kIdsInBlock
      BY <2>3
    <3> QED BY <2>3, <3>2, <3>3 DEF Aligned
  <2>6. r = MarkFinishedInRange(lg, 0, end)
    <3>1. r = MarkFinishedInRange([one EXCEPT !.headStart = h, !.nextStart = h + kIdsInBlock], 0, end)
      BY <1>3, Zenon DEF NewLog, one, d
    <3> HIDE DEF h
    <3>2. [one EXCEPT !.headStart = h, !.nextStart = h + kIdsInBlock] = lg
      <4> DEFINE N == h + kIdsInBlock
                 blocks == <<EmptyBlock>>
      <4>1. one = [blocks |-> blocks, headStart |-> 0, nextStart |-> 0, oldestActive |-> 0]
        BY <1>one
      <4> HIDE DEF N, blocks
      <4>2. [one EXCEPT !.headStart = h, !.nextStart = N]
              = [blocks |-> blocks, headStart |-> h, nextStart |-> N, oldestActive |-> 0]
        <5> DEFINE k == [one EXCEPT !.headStart = h]
        <5>1. k = [blocks |-> blocks, headStart |-> h, nextStart |-> 0, oldestActive |-> 0]
          BY <4>1
        <5>2. [one EXCEPT !.headStart = h, !.nextStart = N] = [k EXCEPT !.nextStart = N]
          BY <4>1
        <5> HIDE DEF k
        <5> QED BY <5>1, <5>2
      <4> QED BY <4>2, Zenon DEF N, blocks
    <3> HIDE DEF lg, end
    <3> QED BY <3>1, <3>2
  <2>7. /\ WellFormed(lg) /\ lg.headStart = h /\ lg.oldestActive = 0 /\ NoneBelow(lg)
        /\ \A j \in Nat : Finished(lg, j) <=> j < h
    <3> HIDE DEF h
    <3> QED BY <2>5, OneBlock
  <2> HIDE DEF lg, h, end
  <2> DEFINE m == Masked(RangeBlocks(lg, h, end), h, end)
  <2>8. /\ WellFormed(m) /\ m.oldestActive = lg.oldestActive
        /\ \A j \in Nat : Finished(m, j) <=> Finished(lg, j) \/ (h <= j /\ j <= end)
    BY <2>1, <2>3, <2>4, <2>7, MaskedCorrect
  <2>9. m = Masked(RangeBlocks(lg, 0, end), 0, end)
    BY <2>1, <2>4, <2>5, <2>7, RangeFromZero
  <2> HIDE DEF m
  <2>10. r = UpdateOldestActive(m)
    <3>1. 0 <= lg.oldestActive /\ lg.oldestActive <= end /\ 0 <= end
      BY <2>1, <2>7
    <3> QED BY <2>1, <2>6, <2>9, <3>1, RangeUnfolds
  <2>11. NoneBelow(m)
    BY <2>7, <2>8 DEF NoneBelow
  <2>12. WellFormed(r) /\ OldestIsLeast(r) /\ \A j \in Nat : Finished(r, j) <=> Finished(m, j)
    BY <2>8, <2>10, <2>11, UpdateCorrect
  <2>13. \A j \in Nat : j < h \/ (h <= j /\ j <= end) <=> j < oldest
    BY <2>1, <2>3, <2>4 DEF end
  <2> QED BY <2>7, <2>8, <2>12, <2>13
<1> QED BY <1>2, <1>3

=============================================================================

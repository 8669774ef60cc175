---------------------------- MODULE CommitLogOps ----------------------------
(***************************************************************************)
(* storage/v2/commit_log.{hpp,cpp}: the data structure and its methods, as *)
(* operators from a log to a log.  The log is a linked list of blocks of   *)
(* kBlockSize fields of kIdsInField bits each; a block is dropped from the *)
(* head as soon as every id in it is finished.  Every method runs under    *)
(* CommitLog::lock_, so a user of these operators applies each in one step.*)
(*                                                                         *)
(* A field is the set of its bits that are 1.  Allocation failures         *)
(* (std::bad_alloc) are left out.                                          *)
(***************************************************************************)
EXTENDS Naturals, Sequences, FiniteSets

CONSTANTS
  kBlockSize,    \* fields in a block (8192 in the code)
  kIdsInField,   \* bits in a field (64 in the code)
  MaxId          \* bound: the largest id of the instance

ASSUME CommitLogConstants ==
  /\ kBlockSize \in Nat \ {0}
  /\ kIdsInField \in Nat \ {0}
  /\ MaxId \in Nat

kIdsInBlock == kBlockSize * kIdsInField
AllOnes     == 0 .. kIdsInField - 1
Fields      == 0 .. kBlockSize - 1
EmptyBlock  == [f \in Fields |-> {}]
Ids         == 0 .. MaxId

FieldOf(id) == (id % kIdsInBlock) \div kIdsInField
BitOf(id)   == id % kIdsInField

(* CommitLog::CommitLog(): no block, every id active. *)
EmptyLog == [blocks |-> <<>>, headStart |-> 0, nextStart |-> 0, oldestActive |-> 0]

-----------------------------------------------------------------------------
(* The list walk of FindOrCreateBlock: an id below the head block also     *)
(* lands on the head.                                                      *)
BlockIndex(lg, id) ==
  IF id < lg.headStart THEN 1 ELSE 1 + (id - lg.headStart) \div kIdsInBlock

(* Mutant: next_start_ moves by one block however many are appended.       *)
FindOrCreateOneBlock(lg, id) ==
  LET start  == IF lg.blocks = <<>> THEN lg.nextStart ELSE lg.headStart
      based  == [lg EXCEPT !.headStart = start]
      have   == Len(lg.blocks)
      need   == BlockIndex(based, id)
      total  == IF need > have THEN need ELSE have
  IN [based EXCEPT
        !.blocks    = [b \in 1 .. total |-> IF b <= have THEN @[b] ELSE EmptyBlock],
        !.nextStart = IF total > have THEN @ + kIdsInBlock ELSE @]

(* FindOrCreateBlock: a head if there is none, then every block up to id.  *)
FindOrCreateBlock(lg, id) ==
  LET start  == IF lg.blocks = <<>> THEN lg.nextStart ELSE lg.headStart
      based  == [lg EXCEPT !.headStart = start]
      have   == Len(lg.blocks)
      need   == BlockIndex(based, id)
      total  == IF need > have THEN need ELSE have
  IN [based EXCEPT
        !.blocks    = [b \in 1 .. total |-> IF b <= have THEN @[b] ELSE EmptyBlock],
        !.nextStart = @ + (total - have) * kIdsInBlock]

(* Mutant: the answer for an empty list is where the head was.             *)
UpdateOldestActiveToHead(lg) ==
  LET full == \A b \in DOMAIN lg.blocks : \A f \in Fields : lg.blocks[b][f] = AllOnes
  IN [lg EXCEPT !.blocks = IF full THEN <<>> ELSE @,
                !.headStart = IF full THEN lg.nextStart ELSE @,
                !.oldestActive = lg.headStart]

(* UpdateOldestActive: drop the full blocks at the head, reading each from *)
(* the field oldest_active_ lies in, and stop at the first zero bit.       *)
UpdateOldestActive(lg) ==
  LET StartOf(b)    == lg.headStart + (b - 1) * kIdsInBlock
      StartField(b) == IF lg.oldestActive >= StartOf(b)
                       THEN (lg.oldestActive - StartOf(b)) \div kIdsInField ELSE 0
      Open(b)       == {f \in Fields : f >= StartField(b) /\ lg.blocks[b][f] # AllOnes}
      opened        == {b \in 1 .. Len(lg.blocks) : Open(b) # {}}
      First(S)      == CHOOSE x \in S : \A y \in S : x <= y
  IN IF opened = {}
     THEN [lg EXCEPT !.blocks = <<>>,
                     !.headStart = @ + Len(lg.blocks) * kIdsInBlock,
                     !.oldestActive = lg.nextStart]
     ELSE LET b == First(opened)
              f == First(Open(b))
          IN [lg EXCEPT
                !.blocks       = SubSeq(@, b, Len(@)),
                !.headStart    = StartOf(b),
                !.oldestActive = StartOf(b) + f * kIdsInField
                                   + First(AllOnes \ lg.blocks[b][f])]

(* MarkFinished *)
MarkFinished(lg, id) ==
  LET l == FindOrCreateBlock(lg, id)
      m == [l EXCEPT !.blocks[BlockIndex(l, id)][FieldOf(id)] = @ \cup {BitOf(id)}]
  IN IF id = lg.oldestActive THEN UpdateOldestActive(m) ELSE m

-----------------------------------------------------------------------------
(* MarkFinishedInRange, part by part.                                      *)

(* The block on which the loop over the intermediate blocks stops: it      *)
(* starts one after the start block and makes one step for every block     *)
(* whose successor starts before end_id.                                   *)
LoopEnd(lg, start, end) ==
  BlockIndex(lg, start) + 1
    + Cardinality({b \in (start \div kIdsInBlock) + 1 .. end \div kIdsInBlock :
                     (b + 1) * kIdsInBlock < end})

(* MG_ASSERT(current == end_block); a loop that runs off the list          *)
(* dereferences a null pointer first.                                      *)
WalkReachesEndBlock(lg, start, end) ==
  \/ BlockIndex(lg, start) = BlockIndex(lg, end)
  \/ LoopEnd(lg, start, end) = BlockIndex(lg, end)

(* Mutant: the mask of the last field leaves out end_id.                   *)
RangeMaskHalfOpen(lg, start, end, b, f) ==
  LET first(x) == BlockIndex(lg, x) * kBlockSize + FieldOf(x)
      here == b * kBlockSize + f
  IN {bit \in AllOnes : /\ here > first(start) \/ (here = first(start) /\ bit >= BitOf(start))
                        /\ here < first(end) \/ (here = first(end) /\ bit < BitOf(end))}

(* The bits the masks set in field f of block b, when the walk succeeds.   *)
RangeMask(lg, start, end, b, f) ==
  LET sb == BlockIndex(lg, start)
      eb == BlockIndex(lg, end)
      sf == FieldOf(start)
      ef == FieldOf(end)
      afterStart == b > sb \/ (b = sb /\ f > sf)
      beforeEnd  == b < eb \/ (b = eb /\ f < ef)
      atStart    == b = sb /\ f = sf
      atEnd      == b = eb /\ f = ef
  IN CASE atStart /\ atEnd          -> BitOf(start) .. BitOf(end)
       [] atStart /\ ~atEnd         -> BitOf(start) .. kIdsInField - 1
       [] atEnd /\ ~atStart         -> 0 .. BitOf(end)
       [] afterStart /\ beforeEnd   -> AllOnes
       [] OTHER                     -> {}

(* Both blocks of the range exist (FindOrCreateBlock for end and start).   *)
RangeBlocks(lg, start, end) == FindOrCreateBlock(FindOrCreateBlock(lg, end), start)

MarkFinishedInRange(lg, start, end) ==
  LET l == RangeBlocks(lg, start, end)
      m == [l EXCEPT !.blocks =
              [b \in DOMAIN l.blocks |->
                 [f \in Fields |-> l.blocks[b][f] \cup RangeMask(l, start, end, b, f)]]]
  IN IF end < start THEN lg
     ELSE IF start <= lg.oldestActive /\ lg.oldestActive <= end
          THEN UpdateOldestActive(m) ELSE m

(* The call survives: an empty range returns before the walk.              *)
RangeSurvives(lg, start, end) ==
  end < start \/ WalkReachesEndBlock(RangeBlocks(lg, start, end), start, end)

(* CommitLog::CommitLog(oldest_active): one block, the one that holds the  *)
(* last finished id, then the range up to it.                              *)
NewLog(oldest) ==
  LET one == [EmptyLog EXCEPT !.blocks = <<EmptyBlock>>]
      h   == ((oldest - 1) \div kIdsInBlock) * kIdsInBlock
  IN IF oldest = 0 THEN [one EXCEPT !.nextStart = kIdsInBlock]
     ELSE MarkFinishedInRange(
            [one EXCEPT !.headStart = h, !.nextStart = h + kIdsInBlock], 0, oldest - 1)

(* IsFinished *)
IsFinished(lg, id) ==
  /\ lg.blocks # <<>>
  /\ BlockIndex(lg, id) <= Len(lg.blocks)
  /\ BitOf(id) \in lg.blocks[BlockIndex(lg, id)][FieldOf(id)]

(* The ids of the dropped blocks and those whose bit is set.               *)
FinishedIn(lg) == {id \in Ids : id < lg.headStart \/ IsFinished(lg, id)}

(* What a method may be handed and what it returns.                        *)
Logs == [blocks : Seq([Fields -> SUBSET AllOnes]),
         headStart : Nat, nextStart : Nat, oldestActive : Nat]
=============================================================================

-------------------------- MODULE CommitLogProofs --------------------------
(***************************************************************************)
(* The list of bit fields is the set of unfinished ids, for blocks and     *)
(* fields of any size and for any number of ids.                           *)
(*                                                                         *)
(* The inductive invariant adds to TypeOK that the head of the list starts *)
(* at a multiple of the size of a block (or the place of an id in its      *)
(* block, computed from the id alone, is not its place in the list) and    *)
(* that oldest_active_ is the least id that is not finished, over all ids  *)
(* and not only those of the instance (UpdateOldestActive skips the fields *)
(* before oldest_active_, and MarkFinished calls it for that id only).     *)
(***************************************************************************)
EXTENDS CommitLog, CommitLogOpsProofs, FiniteSetTheorems

IInv == WellFormed(log) /\ OldestIsLeast(log) /\ crashed \in BOOLEAN

(* FinishedIn is Finished, for the ids of the instance.                    *)
LEMMA FinishedSets ==
  ASSUME NEW lg, NEW r, NEW more, \A j \in Nat : Finished(r, j) <=> Finished(lg, j) \/ j \in more,
         more \subseteq Ids
  PROVE  FinishedIn(r) = FinishedIn(lg) \cup more
<1>1. Ids \subseteq Nat
  BY DEF Ids
<1>2. /\ FinishedIn(r) = {id \in Ids : Finished(r, id)}
      /\ FinishedIn(lg) = {id \in Ids : Finished(lg, id)}
  BY DEF FinishedIn, Finished
<1> QED BY <1>1, <1>2

(* An id MarkFinished may be given has its place in the list.               *)
LEMMA MarkGuard ==
  ASSUME NEW lg, WellFormed(lg), NEW id \in Ids, id \notin FinishedIn(lg)
  PROVE  id \in Nat /\ id >= lg.headStart
<1>1. id \in Nat /\ lg.headStart \in Nat
  BY LogTypes DEF Ids
<1>2. ~(id < lg.headStart)
  BY DEF FinishedIn
<1> QED BY <1>1, <1>2

(* MarkFinished adds one id to the finished ones.                           *)
LEMMA MarkStep ==
  ASSUME NEW lg, WellFormed(lg), OldestIsLeast(lg), NEW id \in Ids, id \notin FinishedIn(lg)
  PROVE  /\ WellFormed(MarkFinished(lg, id)) /\ OldestIsLeast(MarkFinished(lg, id))
         /\ FinishedIn(MarkFinished(lg, id)) = FinishedIn(lg) \cup {id}
<1> DEFINE r == MarkFinished(lg, id)
<1>1. id \in Nat /\ id >= lg.headStart
  BY MarkGuard
<1>2. /\ WellFormed(r) /\ OldestIsLeast(r)
      /\ \A j \in Nat : Finished(r, j) <=> Finished(lg, j) \/ j = id
  BY <1>1, MarkCorrect
<1> HIDE DEF r
<1>3. \A j \in Nat : Finished(r, j) <=> Finished(lg, j) \/ j \in {id}
  BY <1>2
<1>4. FinishedIn(r) = FinishedIn(lg) \cup {id}
  <2> DEFINE more == {id}
  <2>1. more \subseteq Ids
    OBVIOUS
  <2> HIDE DEF more
  <2>2. FinishedIn(r) = FinishedIn(lg) \cup more
    BY <1>3, <2>1, FinishedSets DEF more
  <2> QED BY <2>2 DEF more
<1> QED BY <1>2, <1>4 DEF r

(* MarkFinishedInRange adds a range.                                        *)
LEMMA RangeStep ==
  ASSUME NEW lg, WellFormed(lg), OldestIsLeast(lg), NEW start \in Ids, NEW end \in Ids,
         start >= lg.headStart
  PROVE  /\ WellFormed(MarkFinishedInRange(lg, start, end))
         /\ OldestIsLeast(MarkFinishedInRange(lg, start, end))
         /\ FinishedIn(MarkFinishedInRange(lg, start, end)) = FinishedIn(lg) \cup (start .. end)
<1> DEFINE r == MarkFinishedInRange(lg, start, end)
<1>1. start \in Nat /\ end \in Nat /\ start .. end \subseteq Ids
  BY CommitLogConstants DEF Ids
<1>2. /\ WellFormed(r) /\ OldestIsLeast(r)
      /\ \A j \in Nat : Finished(r, j) <=> Finished(lg, j) \/ (start <= j /\ j <= end)
  BY <1>1, RangeCorrect
<1> HIDE DEF r
<1>3. \A j \in Nat : Finished(r, j) <=> Finished(lg, j) \/ j \in start .. end
  BY <1>1, <1>2
<1>4. FinishedIn(r) = FinishedIn(lg) \cup (start .. end)
  BY <1>1, <1>3, FinishedSets
<1> QED BY <1>2, <1>4 DEF r

(* Both constructors: an initial segment is finished.                       *)
LEMMA ConstructStep ==
  ASSUME NEW oldest \in 0 .. MaxId + 1, NEW r, r \in {EmptyLog, NewLog(oldest)}
  PROVE  /\ WellFormed(r) /\ OldestIsLeast(r)
         /\ \E n \in 0 .. MaxId + 1 : FinishedIn(r) = 0 .. n - 1
<1>1. oldest \in Nat /\ MaxId \in Nat
  BY CommitLogConstants
<1>2. FinishedIn(r) = {id \in Ids : Finished(r, id)}
  BY DEF FinishedIn, Finished
<1>3. CASE r = EmptyLog
  <2>1. WellFormed(r) /\ OldestIsLeast(r) /\ \A j \in Nat : ~Finished(r, j)
    BY <1>3, EmptyLogCorrect
  <2>2. FinishedIn(r) = 0 .. 0 - 1 /\ 0 \in 0 .. MaxId + 1
    BY <1>1, <1>2, <2>1 DEF Ids
  <2> QED BY <2>1, <2>2
<1>4. CASE r = NewLog(oldest)
  <2>1. WellFormed(r) /\ OldestIsLeast(r) /\ \A j \in Nat : Finished(r, j) <=> j < oldest
    BY <1>1, <1>4, NewLogCorrect
  <2>2. FinishedIn(r) = 0 .. oldest - 1
    BY <1>1, <1>2, <2>1 DEF Ids
  <2> QED BY <2>1, <2>2
<1> QED BY <1>3, <1>4

(* A new log satisfies the inductive invariant.                             *)
LEMMA InitIInv == Init => IInv
BY EmptyLogCorrect DEF Init, IInv

(* Every operation keeps it.                                                *)
LEMMA NextIInv == IInv /\ [Next]_vars => IInv'
<1> SUFFICES ASSUME IInv, [Next]_vars PROVE IInv'
  OBVIOUS
<1>1. WellFormed(log) /\ OldestIsLeast(log) /\ crashed \in BOOLEAN
  BY DEF IInv
<1>2. CASE UNCHANGED vars
  BY <1>1, <1>2 DEF vars, IInv
<1>3. ASSUME NEW id \in Ids, Mark(id) PROVE IInv'
  <2>1. id \notin FinishedIn(log) /\ log' = MarkFinished(log, id) /\ crashed' = crashed
    BY <1>3 DEF Mark
  <2>2. WellFormed(log') /\ OldestIsLeast(log')
    BY <1>1, <2>1, MarkStep
  <2> QED BY <1>1, <2>1, <2>2 DEF IInv
<1>4. ASSUME NEW start \in Ids, NEW end \in Ids, MarkRange(start, end) PROVE IInv'
  <2>1. /\ start >= log.headStart /\ crashed' \in BOOLEAN
        /\ log' = log \/ log' = MarkFinishedInRange(log, start, end)
    BY <1>4 DEF MarkRange
  <2>2. WellFormed(log') /\ OldestIsLeast(log')
    BY <1>1, <2>1, RangeStep
  <2> QED BY <2>1, <2>2 DEF IInv
<1>5. CASE Construct
  <2>1. PICK oldest \in 0 .. MaxId + 1 : log' \in {EmptyLog, NewLog(oldest)}
    BY <1>5 DEF Construct
  <2>2. WellFormed(log') /\ OldestIsLeast(log')
    BY <2>1, ConstructStep
  <2> QED BY <1>5, <2>2 DEF IInv, Construct
<1> QED BY <1>2, <1>3, <1>4, <1>5 DEF Next

(* Hence it always holds.                                                   *)
LEMMA Inductive == Spec => []IInv
BY InitIInv, NextIInv, PTL DEF Spec

-----------------------------------------------------------------------------
(* The list stays contiguous and ends at next_start_ (FindOrCreateBlock and  *)
(* UpdateOldestActive), however many blocks are appended and dropped.       *)
THEOREM CommitLogTypes == Spec => []TypeOK
<1>1. IInv => TypeOK
  BY DEF IInv, TypeOK, WellFormed
<1> QED BY <1>1, Inductive, PTL

(* The place of an id in the list, counted in blocks from zero.             *)
LEMMA IndexByQuotient ==
  ASSUME NEW lg, NEW H \in Nat, Aligned(H), lg.headStart = H, NEW id \in Nat, id >= H
  PROVE  /\ H \div kIdsInBlock \in Nat /\ id \div kIdsInBlock \in Nat
         /\ BlockIndex(lg, id) = 1 + id \div kIdsInBlock - H \div kIdsInBlock
<1> DEFINE h == H \div kIdsInBlock
           q == id \div kIdsInBlock
           r == id % kIdsInBlock
<1>1. kIdsInBlock \in Nat \ {0}
  BY BlockSizeType
<1>2. /\ h \in Nat /\ H = h * kIdsInBlock + (H % kIdsInBlock) /\ H % kIdsInBlock = 0
      /\ q \in Nat /\ r \in 0 .. kIdsInBlock - 1 /\ id = q * kIdsInBlock + r
  BY <1>1, Division DEF Aligned
<1> HIDE DEF h, q, r
<1>3. h * kIdsInBlock \in Nat /\ q * kIdsInBlock \in Nat /\ H = h * kIdsInBlock
  BY <1>1, <1>2, Product
<1>4. h <= q
  <2>1. q < h => q * kIdsInBlock + kIdsInBlock <= h * kIdsInBlock
    BY <1>1, <1>2, Monotone
  <2> QED BY <1>1, <1>2, <1>3, <2>1
<1>5. q * kIdsInBlock = h * kIdsInBlock + (q - h) * kIdsInBlock
  BY <1>1, <1>2, Distribute
<1>6. q - h \in Nat /\ (q - h) * kIdsInBlock \in Nat
  BY <1>1, <1>2, <1>4, Product
<1>7. id - H = (q - h) * kIdsInBlock + r
  BY <1>1, <1>2, <1>3, <1>5, <1>6
<1>8. (id - H) \div kIdsInBlock = q - h
  <2> DEFINE d == q - h
  <2>1. d \in Nat /\ id - H = d * kIdsInBlock + r
    BY <1>6, <1>7
  <2> HIDE DEF d
  <2>2. (d * kIdsInBlock + r) \div kIdsInBlock = d
    BY <1>1, <1>2, <2>1, DivisionUnique
  <2> QED BY <2>1, <2>2 DEF d
<1>9. BlockIndex(lg, id) = 1 + (id - H) \div kIdsInBlock
  BY DEF BlockIndex
<1>10. BlockIndex(lg, id) = 1 + q - h
  BY <1>2, <1>6, <1>8, <1>9
<1> QED BY <1>2, <1>10 DEF h, q

(* The loop over the blocks between s and e makes one step for each of them; *)
(* it leaves out the last one when the range ends on a boundary.             *)
LEMMA LoopLength ==
  ASSUME NEW end \in Nat, NEW s \in Nat, NEW e \in Nat, NEW x \in 0 .. kIdsInBlock - 1,
         end = e * kIdsInBlock + x
  PROVE  Cardinality({b \in s + 1 .. e : (b + 1) * kIdsInBlock < end})
           = LET last == IF x = 0 THEN e - 2 ELSE e - 1 IN IF s + 1 > last THEN 0 ELSE last - s
<1> DEFINE last == IF x = 0 THEN e - 2 ELSE e - 1
           S == {b \in s + 1 .. e : (b + 1) * kIdsInBlock < end}
<1>1. kIdsInBlock \in Nat \ {0} /\ e * kIdsInBlock \in Nat /\ last \in Int
  BY BlockSizeType, Product
<1>2. ASSUME NEW b \in s + 1 .. e
      PROVE  (b + 1) * kIdsInBlock < end <=> b <= last
  <2> DEFINE p == (b + 1) * kIdsInBlock
             q == e * kIdsInBlock
  <2>1. b + 1 \in Nat /\ p \in Nat /\ q \in Nat
    BY <1>1, Product
  <2>2. b + 1 < e => p + kIdsInBlock <= q
    BY <1>1, <2>1, Monotone
  <2>3. e < b + 1 => q + kIdsInBlock <= p
    BY <1>1, <2>1, Monotone
  <2>4. b + 1 = e => p = q
    OBVIOUS
  <2>5. end = q + x
    OBVIOUS
  <2> HIDE DEF p, q
  <2>6. p < end <=> b <= last
    BY <1>1, <2>1, <2>2, <2>3, <2>4, <2>5
  <2> QED BY <2>6 DEF p
<1>3. S = s + 1 .. last
  <2>1. last <= e
    OBVIOUS
  <2> HIDE DEF last
  <2> QED BY <1>1, <1>2, <2>1
<1> HIDE DEF S, last
<1>4. Cardinality(S) = IF s + 1 > last THEN 0 ELSE last - (s + 1) + 1
  BY <1>1, <1>3, FS_Interval
<1>5. Cardinality(S) = IF s + 1 > last THEN 0 ELSE last - s
  BY <1>1, <1>4
<1> QED BY <1>5 DEF S, last

(* MG_ASSERT(current == end_block) holds except for the ranges StopsShort    *)
(* describes, and fails for each of them.                                    *)
LEMMA SurvivesUnlessShort ==
  ASSUME NEW lg, WellFormed(lg), NEW start \in Nat, NEW end \in Nat, start >= lg.headStart
  PROVE  RangeSurvives(lg, start, end) <=> ~StopsShort(start, end)
<1> DEFINE s == start \div kIdsInBlock
           e == end \div kIdsInBlock
           x == end % kIdsInBlock
<1>1. /\ kIdsInBlock \in Nat \ {0}
      /\ s \in Nat /\ start % kIdsInBlock \in 0 .. kIdsInBlock - 1
      /\ start = s * kIdsInBlock + (start % kIdsInBlock)
      /\ e \in Nat /\ x \in 0 .. kIdsInBlock - 1 /\ end = e * kIdsInBlock + x
      /\ s * kIdsInBlock \in Nat /\ e * kIdsInBlock \in Nat
  BY BlockSizeType, Division, Product
<1>2. CASE end < start
  <2>1. ~(s < e)
    <3>1. s < e => s * kIdsInBlock + kIdsInBlock <= e * kIdsInBlock
      BY <1>1, Monotone
    <3> HIDE DEF s, e, x
    <3> QED BY <1>1, <1>2, <3>1
  <2>2. ~StopsShort(start, end)
    BY <1>1, <2>1 DEF StopsShort
  <2> QED BY <1>2, <2>2 DEF RangeSurvives
<1>3. CASE start <= end
  <2> DEFINE l == RangeBlocks(lg, start, end)
             h == lg.headStart \div kIdsInBlock
  <2>1. l.headStart = lg.headStart /\ lg.headStart \in Nat /\ Aligned(lg.headStart)
    <3> DEFINE k == FindOrCreateBlock(lg, end)
    <3>1. WellFormed(k) /\ k.headStart = lg.headStart
      BY FindOrCreateCorrect
    <3> HIDE DEF k
    <3>2. FindOrCreateBlock(k, start).headStart = k.headStart
      BY <3>1, FindOrCreateCorrect
    <3>3. l = FindOrCreateBlock(k, start)
      BY DEF RangeBlocks, k
    <3> QED BY <3>1, <3>2, <3>3, LogTypes DEF WellFormed
  <2> HIDE DEF l
  <2>2. end >= lg.headStart
    BY <1>3, <2>1
  <2>3. /\ h \in Nat /\ BlockIndex(l, start) = 1 + s - h /\ BlockIndex(l, end) = 1 + e - h
    BY <2>1, <2>2, IndexByQuotient
  <2>4. s <= e
    <3>1. e < s => e * kIdsInBlock + kIdsInBlock <= s * kIdsInBlock
      BY <1>1, Monotone
    <3> HIDE DEF s, e, x
    <3> QED BY <1>1, <1>3, <3>1
  <2> DEFINE n == Cardinality({b \in s + 1 .. e : (b + 1) * kIdsInBlock < end})
  <2>5. n = LET last == IF x = 0 THEN e - 2 ELSE e - 1 IN IF s + 1 > last THEN 0 ELSE last - s
    <3> HIDE DEF s, e, x
    <3> QED BY <1>1, LoopLength
  <2>6. LoopEnd(l, start, end) = BlockIndex(l, start) + 1 + n
    BY DEF LoopEnd
  <2> HIDE DEF n, h
  <2>7. StopsShort(start, end) <=> x = 0 /\ s + 2 <= e
    BY DEF StopsShort
  <2>8. RangeSurvives(lg, start, end) <=> WalkReachesEndBlock(l, start, end)
    BY <1>3 DEF RangeSurvives, l
  <2>9. WalkReachesEndBlock(l, start, end)
          <=> 1 + s - h = 1 + e - h \/ 1 + s - h + 1 + n = 1 + e - h
    BY <2>3, <2>6 DEF WalkReachesEndBlock
  <2> HIDE DEF s, e, x
  <2>10. 1 + s - h = 1 + e - h \/ 1 + s - h + 1 + n = 1 + e - h <=> ~(x = 0 /\ s + 2 <= e)
    BY <1>1, <2>3, <2>4, <2>5
  <2> QED BY <2>7, <2>8, <2>9, <2>10
<1> QED BY <1>2, <1>3

(* MarkFinished and MarkFinishedInRange finish exactly the ids they are       *)
(* given, from every log the program can reach, and the assertion of a range *)
(* fails for the ranges of StopsShort and for no other.                     *)
THEOREM MarksAreExact == Spec => []MarksExactly
<1>1. IInv => MarksExactly
  <2> SUFFICES ASSUME IInv PROVE MarksExactly
    OBVIOUS
  <2>1. WellFormed(log) /\ OldestIsLeast(log)
    BY DEF IInv
  <2>2. ASSUME NEW id \in Ids \ FinishedIn(log)
        PROVE  FinishedIn(MarkFinished(log, id)) = FinishedIn(log) \cup {id}
    BY <2>1, MarkStep
  <2>3. ASSUME NEW start \in Ids, NEW end \in Ids, start >= log.headStart
        PROVE  /\ RangeSurvives(log, start, end) <=> ~StopsShort(start, end)
               /\ FinishedIn(MarkFinishedInRange(log, start, end))
                    = FinishedIn(log) \cup (start .. end)
    <3>1. start \in Nat /\ end \in Nat
      BY DEF Ids
    <3> QED BY <2>1, <2>3, <3>1, RangeStep, SurvivesUnlessShort
  <2> QED BY <2>2, <2>3 DEF MarksExactly
<1> QED BY <1>1, Inductive, PTL

-----------------------------------------------------------------------------
(* oldest_active_, cut at the largest id, is the minimum of the abstract set.  *)
Oldest(lg) == IF lg.oldestActive > MaxId THEN MaxId + 1 ELSE lg.oldestActive

(* OldestActive returns what the specification calls the least unfinished   *)
(* id.                                                                      *)
LEMMA OldestIsMinimum ==
  ASSUME NEW lg, WellFormed(lg), OldestIsLeast(lg)
  PROVE  Oldest(lg) = Abstract!MinUnfinished(FinishedIn(lg))
<1> DEFINE o == Oldest(lg)
           done == FinishedIn(lg)
           Is(i) == i \notin done /\ 0 .. i - 1 \subseteq done
<1>1. lg.oldestActive \in Nat /\ MaxId \in Nat
  BY LogTypes, CommitLogConstants
<1>2. done = {id \in Ids : Finished(lg, id)}
  BY DEF FinishedIn, Finished
<1>3. o \in 0 .. MaxId + 1
  BY <1>1 DEF Oldest
<1> HIDE DEF done
<1>4. o \notin done
  BY <1>1, <1>2 DEF OldestIsLeast, Ids, Oldest
<1>5. ASSUME NEW j \in 0 .. o - 1 PROVE j \in done
  <2>1. j \in Nat /\ j < lg.oldestActive /\ j \in Ids
    BY <1>1 DEF Oldest, Ids
  <2> QED BY <1>2, <2>1 DEF OldestIsLeast, NoneBelow
<1> HIDE DEF o
<1>6. Is(o)
  BY <1>4, <1>5
<1>7. ASSUME NEW i \in 0 .. MaxId + 1, Is(i) PROVE i = o
  <2>1. i \in Nat /\ o \in Nat
    BY <1>1, <1>3
  <2>2. ~(i < o)
    BY <1>6, <1>7, <2>1
  <2>3. ~(o < i)
    BY <1>6, <1>7, <2>1
  <2> QED BY <2>1, <2>2, <2>3
<1>8. o = CHOOSE i \in 0 .. MaxId + 1 : Is(i)
  <2> HIDE DEF Is
  <2> QED BY <1>3, <1>6, <1>7
<1> QED BY <1>8 DEF Abstract!MinUnfinished, o, done

(* A new log is the initial state of the set.                               *)
LEMMA InitRefines == Init => Abstract!Init
<1> SUFFICES ASSUME Init PROVE Abstract!Init
  OBVIOUS
<1>1. log = EmptyLog
  BY DEF Init
<1>2. log.oldestActive = 0
  BY <1>1 DEF EmptyLog
<1>3. FinishedIn(log) = {id \in Ids : Finished(log, id)} /\ Ids \subseteq Nat
  BY DEF FinishedIn, Finished, Ids
<1>4. FinishedIn(log) = {}
  BY <1>1, <1>3, EmptyLogCorrect
<1> QED BY <1>2, <1>4, CommitLogConstants DEF Abstract!Init

(* Every operation on the list is one on the set, or leaves it alone.       *)
LEMMA NextRefines ==
  IInv /\ IInv' /\ [Next]_vars =>
    [Abstract!Finish \/ Abstract!FinishRange \/ Abstract!Rebuild]_<<FinishedIn(log), Oldest(log)>>
<1> SUFFICES ASSUME IInv, IInv', [Next]_vars
             PROVE  [Abstract!Finish \/ Abstract!FinishRange \/ Abstract!Rebuild]_<<FinishedIn(log), Oldest(log)>>
  OBVIOUS
<1>1. WellFormed(log) /\ OldestIsLeast(log) /\ WellFormed(log') /\ OldestIsLeast(log')
  BY DEF IInv
<1>2. Oldest(log') = Abstract!MinUnfinished(FinishedIn(log'))
  BY <1>1, OldestIsMinimum
<1>3. ASSUME NEW done, FinishedIn(log') = done PROVE Abstract!Becomes(done)
  BY <1>2, <1>3 DEF Abstract!Becomes, Oldest
<1>4. ASSUME log' = log
      PROVE  UNCHANGED <<FinishedIn(log), Oldest(log)>>
  BY <1>4
<1>5. CASE UNCHANGED vars
  BY <1>4, <1>5 DEF vars
<1>6. ASSUME NEW id \in Ids, Mark(id) PROVE Abstract!Finish
  <2>1. FinishedIn(log') = FinishedIn(log) \cup {id}
    BY <1>1, <1>6, MarkStep DEF Mark
  <2>2. Abstract!Becomes(FinishedIn(log) \cup {id})
    BY <1>3, <2>1
  <2> QED BY <2>2 DEF Abstract!Finish, Abstract!Ids, Ids
<1>7. ASSUME NEW start \in Ids, NEW end \in Ids, MarkRange(start, end)
      PROVE  Abstract!FinishRange \/ log' = log
  <2>1. CASE crashed'
    BY <1>7, <2>1 DEF MarkRange
  <2>2. CASE ~crashed'
    <3>1. start >= log.headStart /\ log' = MarkFinishedInRange(log, start, end)
      BY <1>7, <2>2 DEF MarkRange
    <3>2. FinishedIn(log') = FinishedIn(log) \cup (start .. end)
      BY <1>1, <3>1, RangeStep
    <3>3. Abstract!Becomes(FinishedIn(log) \cup (start .. end))
      BY <1>3, <3>2
    <3> QED BY <3>3 DEF Abstract!FinishRange, Abstract!Ids, Ids
  <2> QED BY <2>1, <2>2
<1>8. CASE Construct
  <2>1. PICK oldest \in 0 .. MaxId + 1 : log' \in {EmptyLog, NewLog(oldest)}
    BY <1>8 DEF Construct
  <2>2. PICK n \in 0 .. MaxId + 1 : FinishedIn(log') = 0 .. n - 1
    BY <2>1, ConstructStep
  <2>3. Abstract!Becomes(0 .. n - 1)
    BY <1>3, <2>2
  <2> QED BY <2>3 DEF Abstract!Rebuild
<1> QED BY <1>4, <1>5, <1>6, <1>7, <1>8 DEF Next

(* The commit log implements the set of its class comment (commit_log.hpp:22). *)
THEOREM ListImplementsSet == Spec => ImplementsSet
<1>1. [Abstract!Finish \/ Abstract!FinishRange \/ Abstract!Rebuild]_<<FinishedIn(log), Oldest(log)>>
        <=> [Abstract!Finish \/ Abstract!FinishRange \/ Abstract!Rebuild]_
              <<FinishedIn(log), IF log.oldestActive > MaxId THEN MaxId + 1 ELSE log.oldestActive>>
  BY DEF Oldest
<1> QED BY <1>1, InitRefines, NextRefines, Inductive, PTL DEF Spec, ImplementsSet, Abstract!Spec
=============================================================================

------------------------------ MODULE CommitLog ------------------------------
(***************************************************************************)
(* The commit log on its own, called as its interface allows: an id is     *)
(* marked once, a range starts at an id the log still holds, or covers a   *)
(* fresh log.  Whether the storage keeps to this is the subject of module  *)
(* TimestampLifecycle.                                                     *)
(*                                                                         *)
(* A failed MG_ASSERT ends the process; so does a walk past the last block *)
(* (a null dereference).  The log is gone then, and a new one is built.    *)
(***************************************************************************)
EXTENDS CommitLogOps

VARIABLES log, crashed

vars == <<log, crashed>>

Init == log = EmptyLog /\ crashed = FALSE

Mark(id) ==
  /\ ~crashed
  /\ id \notin FinishedIn(log)
  /\ log' = MarkFinished(log, id)
  /\ UNCHANGED crashed

(* A range of ids that were never handed out, or everything on a new log.  *)
MarkRange(start, end) ==
  /\ ~crashed
  /\ start >= log.headStart
  /\ crashed' = ~RangeSurvives(log, start, end)
  /\ log' = IF crashed' THEN log ELSE MarkFinishedInRange(log, start, end)

(* The constructors. *)
Construct ==
  /\ \E oldest \in 0 .. MaxId + 1 : log' \in {EmptyLog, NewLog(oldest)}
  /\ crashed' = FALSE

Next == \/ \E id \in Ids : Mark(id)
        \/ \E start, end \in Ids : MarkRange(start, end)
        \/ Construct

Spec == Init /\ [][Next]_vars

-----------------------------------------------------------------------------
(* The log is well formed: besides the types, the list is contiguous and   *)
(* ends at next_start_, so that a block that is appended covers the ids    *)
(* that follow (FindOrCreateBlock, and the answer of UpdateOldestActive    *)
(* once the list is empty).                                                *)
TypeOK ==
  /\ log \in Logs /\ crashed \in BOOLEAN
  /\ log.nextStart = log.headStart + Len(log.blocks) * kIdsInBlock

(* Each call finishes exactly the ids it names (commit_log.hpp:53, "in     *)
(* range [start_id, end_id]"), whatever fields it crosses and whatever     *)
(* blocks it creates or drops, with one kind of exception: a range that    *)
(* ends at the first id of a block, two or more blocks after the one it    *)
(* begins in.  The walk over the blocks in between stops one short of it,  *)
(* and every such call fails the assertion of commit_log.cpp:126 ("Same    *)
(* path leads to two different end blocks in commit log"); no other does.  *)
StopsShort(start, end) ==
  end % kIdsInBlock = 0 /\ start \div kIdsInBlock + 2 <= end \div kIdsInBlock
MarksExactly ==
  /\ \A id \in Ids \ FinishedIn(log) :
       FinishedIn(MarkFinished(log, id)) = FinishedIn(log) \cup {id}
  /\ \A start, end \in Ids : start >= log.headStart =>
       IF StopsShort(start, end) THEN ~RangeSurvives(log, start, end)
       ELSE /\ RangeSurvives(log, start, end)
            /\ FinishedIn(MarkFinishedInRange(log, start, end)) = FinishedIn(log) \cup (start .. end)

(* The list of bit fields implements the set of unfinished ids of the      *)
(* class comment: ids only leave the set, and oldest_active_ is the        *)
(* minimum of what remains.                                                *)
Abstract == INSTANCE CommitLogSpec
  WITH finished <- FinishedIn(log),
       oldestActive <- IF log.oldestActive > MaxId THEN MaxId + 1 ELSE log.oldestActive
ImplementsSet == Abstract!Spec
=============================================================================

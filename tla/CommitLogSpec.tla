---------------------------- MODULE CommitLogSpec ----------------------------
(***************************************************************************)
(* What the commit log promises (storage/v2/commit_log.hpp, class comment  *)
(* on lines 22-31): a set that starts with every transaction id in it,     *)
(* from which ids are removed when their transaction finishes, and whose   *)
(* minimum can be read at any time.  finished is the complement of that    *)
(* set; oldestActive is the answer of OldestActive().                      *)
(***************************************************************************)
EXTENDS Naturals

CONSTANT MaxId    \* the ids are 0 .. MaxId

VARIABLES finished, oldestActive

Ids == 0 .. MaxId

(* The minimum of the ids that are not finished; MaxId + 1 when all are. *)
MinUnfinished(done) ==
  CHOOSE i \in 0 .. MaxId + 1 : i \notin done /\ 0 .. i - 1 \subseteq done

Becomes(done) == finished' = done /\ oldestActive' = MinUnfinished(done)

Init == finished = {} /\ oldestActive = 0

(* MarkFinished and MarkFinishedInRange remove exactly what they are told. *)
Finish      == \E id \in Ids : Becomes(finished \cup {id})
FinishRange == \E start, end \in Ids : Becomes(finished \cup (start .. end))

(* A restart, or Storage::Clear, builds another log. *)
Rebuild == \E n \in 0 .. MaxId + 1 : Becomes(0 .. n - 1)

Spec == Init /\ [][Finish \/ FinishRange \/ Rebuild]_<<finished, oldestActive>>
=============================================================================

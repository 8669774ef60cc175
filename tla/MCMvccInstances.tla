-------------------------- MODULE MCMvccInstances --------------------------
(***************************************************************************)
(* Two instances of Mvcc in one run.  In the first, two transactions write *)
(* and read two vertices and make edges between them; the second one runs  *)
(* two commands.  In the other, two transactions write one vertex and make *)
(* loops at it, and one whose snapshot lies between theirs reads.          *)
(***************************************************************************)
EXTENDS MCMvcc

VARIABLE instance

Instances == {
  [begin |-> {1, 2}, write |-> {1, 2}, deltas |-> 3, ends |-> <<a, b>>, set |-> b,
   commands |-> {2}, read |-> {1, 2}, vertices |-> {a, b}, views |-> {"OLD", "NEW"}],
  [begin |-> {1, 2, 3}, write |-> {1, 3}, deltas |-> 2, ends |-> <<a, a>>, set |-> a,
   commands |-> {}, read |-> {2}, vertices |-> {a}, views |-> {"OLD"}]}

MCEnds == MCEdge \cup MCLoop

(* The steps of Mvcc that the instance has.                                *)
MCWrite(t) ==
  /\ t \in instance.write
  /\ SetProperty(t, instance.set) \/ CreateEdge(t, instance.ends[1], instance.ends[2])
  /\ tx'[t].n <= instance.deltas
MCRead(t) ==
  \/ ReadDelta(t) \/ ReadEnd(t)
  \/ /\ t \in instance.read
     /\ \E v \in instance.vertices, view \in instance.views : ReadBegin(t, v, view)
MCTransaction(t) ==
  \/ t \in instance.begin /\ Begin(t)
  \/ t \in instance.commands /\ AdvanceCommand(t)
  \/ MCWrite(t) \/ MCRead(t) \/ Commit(t) \/ Abort(t)

MCNext == /\ CollectGarbage \/ \E t \in Txns : MCTransaction(t)
          /\ UNCHANGED instance

MCInit == Init /\ instance \in Instances

MCSpec == MCInit /\ [][MCNext]_<<vars, instance>> /\ Fairness
=============================================================================

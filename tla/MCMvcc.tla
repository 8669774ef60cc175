------------------------------- MODULE MCMvcc -------------------------------
(***************************************************************************)
(* Instances of Mvcc for TLC: where edges are created.                     *)
(***************************************************************************)
EXTENDS Mvcc

CONSTANTS a, b    \* two vertices

MCEdge   == {<<a, b>>}
MCLoop   == {<<a, a>>}
=============================================================================

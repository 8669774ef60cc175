-------------------------- MODULE ResourceLockSpec --------------------------
(***************************************************************************)
(* What utils::ResourceLock promises its users: who may hold it together.  *)
(* UNIQUE is held alone, WRITE and READ_ONLY exclude each other, READ goes *)
(* with every shared mode; a WRITE or READ_ONLY holder may downgrade to    *)
(* READ without letting go in between.                                     *)
(***************************************************************************)
CONSTANT Threads

VARIABLE held    \* held[t]: the mode thread t holds, or "NONE"

Compatible(m, n) ==
  \/ m = "NONE" \/ n = "NONE"
  \/ m # "UNIQUE" /\ n # "UNIQUE" /\ {m, n} # {"WRITE", "READ_ONLY"}

Init == held = [t \in Threads |-> "NONE"]

Acquire(t, m) ==
  /\ held[t] = "NONE"
  /\ \A u \in Threads : Compatible(m, held[u])
  /\ held' = [held EXCEPT ![t] = m]

Downgrade(t) ==
  /\ held[t] \in {"WRITE", "READ_ONLY"}
  /\ held' = [held EXCEPT ![t] = "READ"]

Release(t) ==
  /\ held[t] # "NONE"
  /\ held' = [held EXCEPT ![t] = "NONE"]

Next == \E t \in Threads :
  \/ \E m \in {"UNIQUE", "READ", "WRITE", "READ_ONLY"} : Acquire(t, m)
  \/ Downgrade(t)
  \/ Release(t)

Spec == Init /\ [][Next]_held
=============================================================================

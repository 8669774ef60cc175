------------------------- MODULE ResourceLockProofs -------------------------
(***************************************************************************)
(* Proofs, for any finite set of threads and any bound on requests, that   *)
(* ResourceLock keeps its modes apart, that its counters are those of its  *)
(* holders and that it loses no wake-up.                                   *)
(***************************************************************************)
EXTENDS ResourceLock, TLAPS, FiniteSetTheorems

(* The size of a finite set in which one element came or went.             *)
LEMMA CardChange ==
  ASSUME NEW S, NEW T, NEW x, IsFiniteSet(S), S \ {x} = T \ {x}
  PROVE  /\ Cardinality(S) \in Nat /\ Cardinality(T) \in Nat
         /\ x \in S /\ x \notin T => Cardinality(T) = Cardinality(S) - 1
         /\ x \notin S /\ x \in T => Cardinality(T) = Cardinality(S) + 1
         /\ (x \in S <=> x \in T) => Cardinality(T) = Cardinality(S)
<1>1. IsFiniteSet(S \ {x}) /\ (x \notin S => S \ {x} = S) /\ (x \notin T => T \ {x} = T)
  BY FS_Difference
<1>2. Cardinality(S \ {x}) \in Nat /\ Cardinality(S) \in Nat
  BY <1>1, FS_CardinalityType
<1>3. x \in S => Cardinality(S) = Cardinality(S \ {x}) + 1
  <2>1. x \in S => (S \ {x}) \cup {x} = S /\ x \notin S \ {x}
    OBVIOUS
  <2> QED BY <2>1, <1>1, FS_AddElement
<1>4. x \in T => IsFiniteSet(T) /\ Cardinality(T) = Cardinality(S \ {x}) + 1
  <2>1. x \in T => (S \ {x}) \cup {x} = T /\ x \notin S \ {x}
    OBVIOUS
  <2> QED BY <2>1, <1>1, FS_AddElement
<1>5. x \notin T => Cardinality(T) = Cardinality(S \ {x})
  BY <1>1
<1>6. x \notin S => Cardinality(S) = Cardinality(S \ {x})
  BY <1>1
<1>7. Cardinality(T) \in Nat
  BY <1>2, <1>4, <1>5
<1> QED BY <1>2, <1>3, <1>4, <1>5, <1>6, <1>7

(* A count is zero exactly when the set it counts is empty.                *)
LEMMA CardZero ==
  ASSUME NEW S, IsFiniteSet(S)
  PROVE  Cardinality(S) = 0 <=> S = {}
BY FS_EmptySet

(* Only thread t moved: the holders and the pending requests among the     *)
(* others are the same.                                                    *)
LEMMA OthersStay ==
  ASSUME NEW t \in Threads,
         \A u \in Threads \ {t} : pc'[u] = pc[u] /\ mode'[u] = mode[u]
  PROVE  /\ \A m : Holders(m) \ {t} = Holders(m)' \ {t}
         /\ Pending \ {t} = Pending' \ {t}
BY DEF Holders, Holds, Pending

(* All these sets are finite.                                              *)
LEMMA FiniteSets ==
  /\ \A m : IsFiniteSet(Holders(m))
  /\ IsFiniteSet(Pending)
<1>1. IsFiniteSet(Threads)
  BY ResourceLockConstants
<1>2. Pending \subseteq Threads /\ \A m : Holders(m) \subseteq Threads
  BY DEF Pending, Holders
<1> QED BY <1>1, <1>2, FS_Subset

(* The counters of the code are zero exactly when nobody is counted.       *)
LEMMA ZeroCounts ==
  ASSUME CountsAgree
  PROVE  /\ \A m \in LockReq : count[m] = 0 <=> Holders(m) = {}
         /\ ro_pending_count = 0 <=> Pending = {}
BY FiniteSets, CardZero DEF CountsAgree

(* Thread t gets the lock in mode m, from any place where it did not hold  *)
(* it: the first test, a wake-up, an expired timer or a try.               *)
LEMMA AcquireStep ==
  ASSUME IInv, NEW t \in Threads, NEW m \in Modes,
         pc[t] # "holding", note[t] = "None",
         lock_guard_condition(m), Take(m),
         pc' = [pc EXCEPT ![t] = "holding"],
         mode' = [mode EXCEPT ![t] = m],
         ro_pending_count' = IF t \in Pending THEN ro_pending_count - 1
                                              ELSE ro_pending_count,
         t \in Pending => m = "READ_ONLY",
         note' = note
  PROVE  /\ state' \in {"UNIQUE", "SHARED"} /\ count' \in [LockReq -> Nat]
         /\ ro_pending_count' \in Nat
         /\ CountsAgree' /\ Exclusion' /\ NotesSentFirst' /\ SharedWake' /\ UniqueWake'
<1>1. \A n : Holders(n) \ {t} = Holders(n)' \ {t}
  BY OthersStay DEF IInv, TypeOK
<1>2. Pending \ {t} = Pending' \ {t}
  BY OthersStay DEF IInv, TypeOK
<1>3. /\ \A n : t \notin Holders(n)
      /\ \A n : t \in Holders(n)' <=> n = m
      /\ t \notin Pending'
  BY DEF IInv, TypeOK, Holders, Holds, Pending, Waiting
<1>4. \A n : n # m => Holders(n)' = Holders(n)
  BY <1>1, <1>3
<1>5. Holders(m)' = Holders(m) \cup {t}
  BY <1>1, <1>3
<1>6. /\ \A n \in LockReq : count'[n] = Cardinality(Holders(n)')
      /\ count' \in [LockReq -> Nat]
  <2>1. CASE m = "UNIQUE"
    BY <2>1, <1>4 DEF IInv, TypeOK, CountsAgree, Take, LockReq
  <2>2. CASE m \in LockReq
    <3>1. Cardinality(Holders(m)') = Cardinality(Holders(m)) + 1
      BY <1>1, <1>3, FiniteSets, CardChange
    <3>2. m # "UNIQUE"
      BY <2>2 DEF LockReq
    <3> QED BY <2>2, <3>1, <3>2, <1>4 DEF IInv, TypeOK, CountsAgree, Take
  <2> QED BY <2>1, <2>2 DEF Modes
<1>7. /\ ro_pending_count' = Cardinality(Pending')
      /\ ro_pending_count' \in Nat
  <2>1. ro_pending_count = Cardinality(Pending)
    BY DEF IInv, CountsAgree
  <2>2. /\ Cardinality(Pending) \in Nat /\ Cardinality(Pending') \in Nat
        /\ t \in Pending => Cardinality(Pending') = Cardinality(Pending) - 1
        /\ t \notin Pending => Cardinality(Pending') = Cardinality(Pending)
    BY <1>2, <1>3, FiniteSets, CardChange
  <2> QED BY <2>1, <2>2
<1>8. /\ state' = IF m = "UNIQUE" THEN "UNIQUE" ELSE "SHARED"
      /\ m = "UNIQUE" => state = "UNLOCKED"
      /\ state # "UNIQUE"
  BY DEF lock_guard_condition, Take, Modes, LockReq
<1>9. m = "UNIQUE" => \A n \in LockReq : Holders(n)' = {}
  BY <1>8, <1>4 DEF IInv, CountsAgree, LockReq
<1>10. Holders("UNIQUE") = {}
  BY <1>8 DEF IInv, CountsAgree
<1>11. CountsAgree'
  <2>1. (state = "UNIQUE" <=> Holders("UNIQUE") # {})'
    BY <1>3, <1>4, <1>8, <1>10
  <2>2. (state = "SHARED" <=> \E n \in LockReq : Holders(n) # {})'
    BY <1>3, <1>8, <1>9 DEF Modes
  <2> QED BY <1>6, <1>7, <2>1, <2>2 DEF CountsAgree
<1>12. Exclusion'
  <2>1. ASSUME NEW u \in Threads, NEW v \in Threads,
               Holds(u, "UNIQUE")', pc'[v] = "holding"
        PROVE  u = v
    <3>1. m = "UNIQUE" /\ u = t
      BY <2>1, <1>4, <1>10, <1>5 DEF Holders, Holds
    <3>2. v = t
      BY <2>1, <3>1, <1>9, <1>5, <1>10 DEF Holders, Holds, IInv, TypeOK, Modes
    <3> QED BY <3>1, <3>2
  <2>2. m = "WRITE" => Holders("READ_ONLY") = {}
    BY ZeroCounts DEF IInv, lock_guard_condition, LockReq
  <2>3. m = "READ_ONLY" => Holders("WRITE") = {}
    BY ZeroCounts DEF IInv, lock_guard_condition, LockReq
  <2>4. Holders("WRITE")' = {} \/ Holders("READ_ONLY")' = {}
    BY <2>2, <2>3, <1>4 DEF IInv, Exclusion
  <2> QED BY <2>1, <2>4 DEF Exclusion
<1>13. NotesSentFirst'
  BY DEF IInv, TypeOK, NotesSentFirst
<1>14. UniqueWake'
  BY <1>8 DEF UniqueWake
<1>15. SharedWake'
  <2> SUFFICES ASSUME NEW u \in Threads, pc'[u] = "asleep", mode'[u] \in LockReq,
                      lock_guard_condition(mode[u])'
               PROVE  \E v \in Threads : note[v] = "All"
    BY DEF SharedWake
  <2>1. u # t /\ pc[u] = "asleep" /\ mode'[u] = mode[u]
    BY DEF IInv, TypeOK
  <2>2. m # "UNIQUE"
    BY <1>8 DEF lock_guard_condition, LockReq
  <2>3. lock_guard_condition(mode[u])
    <3>1. \A n \in LockReq : count'[n] >= count[n] /\ (n = m => count'[n] = count[n] + 1)
      BY <2>2 DEF IInv, TypeOK, Take
    <3>2. m # "READ_ONLY" => ro_pending_count' = ro_pending_count
      OBVIOUS
    <3>3. CASE mode[u] = "READ"
      BY <3>3, <1>8 DEF lock_guard_condition
    <3>4. CASE mode[u] = "READ_ONLY"
      <4>1. count'["WRITE"] = 0
        BY <3>4, <2>1 DEF lock_guard_condition
      <4> QED BY <4>1, <3>1, <3>4, <1>8 DEF lock_guard_condition, LockReq, IInv, TypeOK
    <3>5. CASE mode[u] = "WRITE"
      <4>1. count'["READ_ONLY"] = 0 /\ ro_pending_count' = 0
        BY <3>5, <2>1 DEF lock_guard_condition
      <4>2. m # "READ_ONLY"
        BY <4>1, <3>1 DEF LockReq, IInv, TypeOK
      <4> QED BY <4>1, <4>2, <3>1, <3>2, <3>5, <1>8
              DEF lock_guard_condition, LockReq, IInv, TypeOK
    <3> QED BY <3>3, <3>4, <3>5, <2>1 DEF LockReq
  <2> QED BY <2>1, <2>3 DEF IInv, SharedWake
<1> QED BY <1>6, <1>7, <1>8, <1>11, <1>12, <1>13, <1>14, <1>15

(* Thread t finds its predicate false and goes to sleep: first request or  *)
(* one more round of cv.wait.                                              *)
LEMMA SleepStep ==
  ASSUME IInv, NEW t \in Threads, NEW m \in Modes,
         pc[t] \in {"idle", "awake"}, note[t] = "None",
         pc[t] = "awake" => mode[t] = m,
         ~lock_guard_condition(m),
         pc' = [pc EXCEPT ![t] = "asleep"],
         mode' = [mode EXCEPT ![t] = m],
         ro_pending_count' = IF m = "READ_ONLY" /\ pc[t] = "idle"
                             THEN ro_pending_count + 1 ELSE ro_pending_count,
         UNCHANGED <<state, count, note>>
  PROVE  /\ ro_pending_count' \in Nat
         /\ CountsAgree' /\ Exclusion' /\ NotesSentFirst' /\ SharedWake' /\ UniqueWake'
<1>1. \A n : Holders(n)' = Holders(n)
  BY DEF IInv, TypeOK, Holders, Holds
<1>2. /\ ro_pending_count' = Cardinality(Pending')
      /\ ro_pending_count' \in Nat
  <2>1. Pending \ {t} = Pending' \ {t}
    BY OthersStay DEF IInv, TypeOK
  <2>2. /\ t \in Pending <=> pc[t] = "awake" /\ m = "READ_ONLY"
        /\ t \in Pending' <=> m = "READ_ONLY"
    BY DEF IInv, TypeOK, Pending, Waiting
  <2>3. ro_pending_count = Cardinality(Pending) /\ ro_pending_count \in Nat
    BY DEF IInv, TypeOK, CountsAgree
  <2>4. /\ t \notin Pending /\ t \in Pending' => Cardinality(Pending') = Cardinality(Pending) + 1
        /\ (t \in Pending <=> t \in Pending') => Cardinality(Pending') = Cardinality(Pending)
    BY <2>1, FiniteSets, CardChange
  <2> QED BY <2>2, <2>3, <2>4
<1>3. CountsAgree' /\ Exclusion'
  <2>1. CountsAgree'
    BY <1>1, <1>2 DEF IInv, CountsAgree
  <2>2. Exclusion'
    BY <1>1 DEF IInv, TypeOK, Exclusion, Holds
  <2> QED BY <2>1, <2>2
<1>4. NotesSentFirst'
  BY DEF IInv, TypeOK, NotesSentFirst
<1>5. \A n \in Modes : lock_guard_condition(n)' => lock_guard_condition(n)
  <2>1. ro_pending_count' = 0 => ro_pending_count = 0
    BY DEF IInv, TypeOK
  <2> QED BY <2>1 DEF lock_guard_condition, Modes, LockReq
<1>6. state = "UNLOCKED" => m # "READ_ONLY"
  <2>1. state = "UNLOCKED" => Holders("WRITE") = {}
    BY DEF IInv, CountsAgree, LockReq
  <2>2. state = "UNLOCKED" => count["WRITE"] = 0
    BY <2>1, ZeroCounts DEF IInv, LockReq
  <2> QED BY <2>2 DEF lock_guard_condition
<1>7. SharedWake'
  <2> SUFFICES ASSUME NEW u \in Threads, pc'[u] = "asleep", mode'[u] \in LockReq,
                      lock_guard_condition(mode[u])'
               PROVE  \E v \in Threads : note[v] = "All"
    BY DEF SharedWake
  <2>1. lock_guard_condition(mode'[u])
    BY <1>5 DEF Modes, lock_guard_condition
  <2>2. u # t
    BY <2>1 DEF IInv, TypeOK
  <2>3. pc[u] = "asleep" /\ mode[u] = mode'[u]
    BY <2>2 DEF IInv, TypeOK
  <2> QED BY <2>1, <2>3 DEF IInv, SharedWake
<1>8. UniqueWake'
  <2> SUFFICES ASSUME NEW u \in Threads, pc'[u] = "asleep", mode'[u] = "UNIQUE",
                      state = "UNLOCKED"
               PROVE  \E v \in Threads :
                        \/ note[v] # "None"
                        \/ pc'[v] \in {"awake", "expired"} /\ lock_guard_condition(mode[v])'
    BY DEF UniqueWake
  <2>1. u # t
    BY DEF IInv, TypeOK, lock_guard_condition
  <2>2. PICK v \in Threads : \/ note[v] # "None"
                             \/ pc[v] \in {"awake", "expired"} /\ lock_guard_condition(mode[v])
    BY <2>1 DEF IInv, TypeOK, UniqueWake
  <2>3. v # t \/ note[v] # "None"
    BY <2>2
  <2>4. ro_pending_count' = ro_pending_count
    BY <1>6
  <2>5. CASE note[v] # "None"
    BY <2>5
  <2>6. CASE v # t /\ pc[v] \in {"awake", "expired"} /\ lock_guard_condition(mode[v])
    <3>1. pc'[v] = pc[v] /\ mode'[v] = mode[v]
      BY <2>6 DEF IInv, TypeOK
    <3>2. lock_guard_condition(mode[v])'
      BY <2>6, <2>4, <3>1 DEF lock_guard_condition
    <3> QED BY <2>6, <3>1, <3>2
  <2> QED BY <2>2, <2>3, <2>5, <2>6
<1> QED BY <1>2, <1>3, <1>4, <1>7, <1>8

(* A sleeper leaves the wait set by a timer or for no reason.              *)
LEMMA WakeStep ==
  ASSUME IInv, NEW t \in Threads, NEW x \in {"awake", "expired"},
         pc[t] = "asleep",
         pc' = [pc EXCEPT ![t] = x],
         UNCHANGED <<state, count, ro_pending_count, mode, note>>
  PROVE  CountsAgree' /\ Exclusion' /\ NotesSentFirst' /\ SharedWake' /\ UniqueWake'
<1>1. Pending' = Pending /\ \A n : Holders(n)' = Holders(n)
  BY DEF IInv, TypeOK, Holders, Holds, Pending, Waiting
<1>2. CountsAgree'
  BY <1>1 DEF IInv, CountsAgree
<1>3. Exclusion'
  BY <1>1 DEF IInv, TypeOK, Exclusion, Holds
<1>4. NotesSentFirst'
  BY DEF IInv, TypeOK, NotesSentFirst
<1>5. \A n : lock_guard_condition(n)' <=> lock_guard_condition(n)
  BY DEF lock_guard_condition
<1>6. SharedWake'
  BY <1>5 DEF IInv, TypeOK, SharedWake, lock_guard_condition
<1>7. UniqueWake'
  <2> SUFFICES ASSUME NEW u \in Threads, pc'[u] = "asleep", mode[u] = "UNIQUE",
                      state = "UNLOCKED"
               PROVE  \E v \in Threads :
                        \/ note[v] # "None"
                        \/ pc'[v] \in {"awake", "expired"} /\ lock_guard_condition(mode[v])'
    BY DEF UniqueWake
  <2>1. PICK v \in Threads : \/ note[v] # "None"
                             \/ pc[v] \in {"awake", "expired"} /\ lock_guard_condition(mode[v])
    BY DEF IInv, TypeOK, UniqueWake
  <2> QED BY <2>1 DEF IInv, TypeOK, lock_guard_condition
<1> QED BY <1>2, <1>3, <1>4, <1>6, <1>7

(* notify_one and notify_all.  The thread woken by a notify_one may be a   *)
(* WRITE request that must still wait; then a READ_ONLY request is pending, *)
(* which is either up itself or about to be notified by somebody else.     *)
LEMMA NotifyStep ==
  ASSUME IInv, NEW t \in Threads, Notify(t)
  PROVE  IInv'
<1>1. PICK woken \in SUBSET Asleep :
        /\ \/ note[t] = "All" /\ woken = Asleep
           \/ /\ note[t] = "One"
              /\ IF Asleep = {} THEN woken = {} ELSE \E u \in Asleep : woken = {u}
        /\ pc' = [u \in Threads |-> IF u \in woken THEN "awake" ELSE pc[u]]
  BY DEF Notify
<1>2. note' = [note EXCEPT ![t] = "None"]
      /\ UNCHANGED <<state, count, ro_pending_count, mode, timed, left>>
  BY DEF Notify
<1>3. TypeOK'
  BY <1>1, <1>2 DEF IInv, TypeOK, Waiting, NotifyKind
<1>4. Pending' = Pending /\ \A n : Holders(n)' = Holders(n)
  BY <1>1, <1>2 DEF IInv, TypeOK, Holders, Holds, Pending, Waiting, Asleep
<1>5. CountsAgree'
  BY <1>2, <1>4 DEF IInv, CountsAgree
<1>6. Exclusion'
  <2>1. \A u \in Threads : pc'[u] = "holding" <=> pc[u] = "holding"
    BY <1>1 DEF Asleep
  <2> QED BY <1>2, <1>4, <2>1 DEF IInv, Exclusion, Holds
<1>7. NotesSentFirst'
  BY <1>1, <1>2 DEF IInv, TypeOK, NotesSentFirst, Asleep
<1>8. \A u \in Threads : pc'[u] = "asleep" => pc[u] = "asleep" /\ u \notin woken
  BY <1>1
<1>9. CASE note[t] = "All"
  <2>1. \A u \in Threads : pc'[u] # "asleep"
    BY <1>1, <1>8, <1>9 DEF Asleep
  <2> QED BY <1>3, <1>5, <1>6, <1>7, <2>1 DEF IInv, SharedWake, UniqueWake
<1>10. CASE note[t] = "One"
  <2>1. \A v \in Threads : note[v] = "All" => note'[v] = "All"
    BY <1>2, <1>10 DEF IInv, TypeOK
  <2>2. SharedWake'
    BY <1>2, <1>8, <2>1 DEF IInv, SharedWake, lock_guard_condition
  <2>3. UniqueWake'
    <3> SUFFICES ASSUME NEW u \in Threads, pc'[u] = "asleep", mode[u] = "UNIQUE",
                        state = "UNLOCKED"
                 PROVE  \E v \in Threads :
                          \/ note'[v] # "None"
                          \/ pc'[v] \in {"awake", "expired"} /\ lock_guard_condition(mode[v])
      BY <1>2 DEF UniqueWake, lock_guard_condition
    <3>1. PICK w \in Asleep : woken = {w}
      BY <1>1, <1>8, <1>10 DEF Asleep
    <3>2. w \in Threads /\ pc'[w] = "awake"
      BY <1>1, <3>1 DEF Asleep
    <3>3. \A n \in LockReq : count[n] = 0
      BY ZeroCounts DEF IInv, CountsAgree
    <3>4. CASE lock_guard_condition(mode[w])
      BY <3>2, <3>4
    <3>5. CASE ~lock_guard_condition(mode[w])
      <4>1. mode[w] \in Modes /\ mode[w] = "WRITE" /\ ro_pending_count # 0
        BY <3>2, <3>3, <3>5 DEF IInv, TypeOK, lock_guard_condition, Modes, LockReq
      <4>2. PICK p \in Pending : TRUE
        BY <4>1, ZeroCounts DEF IInv
      <4>3. /\ p \in Threads /\ pc[p] \in Waiting /\ mode[p] = "READ_ONLY"
            /\ lock_guard_condition(mode[p])
        BY <3>3, <4>2 DEF Pending, lock_guard_condition, LockReq
      <4>4. CASE pc[p] = "asleep"
        BY <4>3, <4>4, <2>1 DEF IInv, SharedWake, LockReq
      <4>5. CASE pc[p] \in {"awake", "expired"}
        BY <1>1, <4>3, <4>5
      <4> QED BY <4>3, <4>4, <4>5 DEF Waiting
    <3> QED BY <3>4, <3>5
  <2> QED BY <1>3, <1>5, <1>6, <1>7, <2>2, <2>3 DEF IInv
<1> QED BY <1>1, <1>9, <1>10

(* A timed request that fails.  A READ_ONLY request that was the last one  *)
(* pending may have kept WRITE requests out, and it notifies them.         *)
LEMMA GiveUpStep ==
  ASSUME IInv, NEW t \in Threads, pc[t] = "expired", GiveUp(t)
  PROVE  IInv'
<1>1. note[t] = "None"
  BY DEF IInv, TypeOK, NotesSentFirst
<1>2. /\ pc' = [pc EXCEPT ![t] = "idle"]
      /\ note' = [note EXCEPT ![t] =
                    lock_failed_wait_should_notify(mode[t], ro_pending_count')]
      /\ UNCHANGED <<state, count, mode, timed, left>>
      /\ ~lock_guard_condition(mode[t])
      /\ ro_pending_count' = IF mode[t] = "READ_ONLY" THEN ro_pending_count - 1
                                                      ELSE ro_pending_count
  BY DEF GiveUp, ThenNotify
<1>3. \A n : Holders(n)' = Holders(n)
  BY <1>2 DEF IInv, TypeOK, Holders, Holds
<1>4. /\ ro_pending_count' = Cardinality(Pending')
      /\ ro_pending_count' \in Nat
  <2>1. Pending \ {t} = Pending' \ {t}
    BY <1>2, OthersStay DEF IInv, TypeOK
  <2>2. /\ t \in Pending <=> mode[t] = "READ_ONLY"
        /\ t \notin Pending'
    BY <1>2 DEF IInv, TypeOK, Pending, Waiting
  <2>3. ro_pending_count = Cardinality(Pending) /\ ro_pending_count \in Nat
    BY DEF IInv, TypeOK, CountsAgree
  <2>4. /\ t \in Pending => Cardinality(Pending') = Cardinality(Pending) - 1
        /\ t \notin Pending => Cardinality(Pending') = Cardinality(Pending)
        /\ Cardinality(Pending') \in Nat
    BY <2>1, <2>2, FiniteSets, CardChange
  <2> QED BY <1>2, <2>2, <2>3, <2>4
<1>5. TypeOK'
  BY <1>2, <1>4 DEF IInv, TypeOK, NotifyKind, lock_failed_wait_should_notify
<1>6. CountsAgree'
  BY <1>2, <1>3, <1>4 DEF IInv, CountsAgree
<1>7. Exclusion'
  BY <1>2, <1>3 DEF IInv, TypeOK, Exclusion, Holds
<1>8. NotesSentFirst'
  BY <1>2 DEF IInv, TypeOK, NotesSentFirst
<1>9. \A v \in Threads : note[v] # "None" => note'[v] = note[v]
  BY <1>1, <1>2 DEF IInv, TypeOK
<1>10. SharedWake'
  <2> SUFFICES ASSUME NEW u \in Threads, pc'[u] = "asleep", mode[u] \in LockReq,
                      lock_guard_condition(mode[u])'
               PROVE  \E v \in Threads : note'[v] = "All"
    BY <1>2 DEF SharedWake
  <2>1. pc[u] = "asleep"
    BY <1>2 DEF IInv, TypeOK
  <2>2. CASE lock_guard_condition(mode[u])
    BY <2>1, <2>2, <1>9 DEF IInv, SharedWake
  <2>3. CASE ~lock_guard_condition(mode[u])
    <3>1. mode[u] = "WRITE" /\ mode[t] = "READ_ONLY" /\ ro_pending_count' = 0
      BY <1>2, <2>3 DEF lock_guard_condition, LockReq
    <3>2. note'[t] = "All"
      BY <1>2, <3>1 DEF lock_failed_wait_should_notify, IInv, TypeOK
    <3> QED BY <3>2
  <2> QED BY <2>2, <2>3
<1>11. UniqueWake'
  <2> SUFFICES ASSUME NEW u \in Threads, pc'[u] = "asleep", mode[u] = "UNIQUE",
                      state = "UNLOCKED"
               PROVE  \E v \in Threads :
                        \/ note'[v] # "None"
                        \/ pc'[v] \in {"awake", "expired"} /\ lock_guard_condition(mode[v])'
    BY <1>2 DEF UniqueWake
  <2>1. PICK v \in Threads : \/ note[v] # "None"
                             \/ pc[v] \in {"awake", "expired"} /\ lock_guard_condition(mode[v])
    BY <1>2 DEF IInv, TypeOK, UniqueWake
  <2>2. CASE note[v] # "None"
    BY <2>2, <1>9
  <2>3. CASE pc[v] \in {"awake", "expired"} /\ lock_guard_condition(mode[v])
    <3>1. count["WRITE"] = 0
      BY ZeroCounts DEF IInv, CountsAgree, LockReq
    <3>2. mode[t] # "READ_ONLY"
      BY <1>2, <3>1 DEF lock_guard_condition
    <3>3. v # t /\ pc'[v] = pc[v]
      BY <1>2, <2>3 DEF IInv, TypeOK
    <3>4. lock_guard_condition(mode[v])'
      BY <1>2, <2>3, <3>2 DEF lock_guard_condition
    <3> QED BY <2>3, <3>3, <3>4
  <2> QED BY <2>1, <2>2, <2>3
<1> QED BY <1>5, <1>6, <1>7, <1>8, <1>10, <1>11 DEF IInv

(* unlock: the UNIQUE holder leaves and everybody is notified.             *)
LEMMA UnlockUniqueStep ==
  ASSUME IInv, NEW t \in Threads, UnlockUnique(t)
  PROVE  IInv'
<1>1. /\ pc[t] = "holding" /\ mode[t] = "UNIQUE" /\ state' = "UNLOCKED"
      /\ pc' = [pc EXCEPT ![t] = "idle"] /\ note' = [note EXCEPT ![t] = "All"]
      /\ UNCHANGED <<count, ro_pending_count, mode, timed, left>>
  BY DEF UnlockUnique, ThenNotify, At
<1>2. TypeOK'
  BY <1>1 DEF IInv, TypeOK, NotifyKind
<1>3. \A u \in Threads : pc'[u] # "holding"
  BY <1>1 DEF IInv, TypeOK, Exclusion, Holds
<1>4. \A n \in Modes : Holders(n)' = {}
  BY <1>3 DEF Holders, Holds
<1>5. \A n \in LockReq : Holders(n) = {}
  <2>1. t \in Holders("UNIQUE")
    BY <1>1 DEF Holders, Holds
  <2> QED BY <2>1 DEF IInv, CountsAgree
<1>6. Pending' = Pending
  BY <1>1 DEF IInv, TypeOK, Pending, Waiting
<1>7. CountsAgree'
  BY <1>1, <1>4, <1>5, <1>6 DEF IInv, CountsAgree, Modes
<1>8. Exclusion' /\ NotesSentFirst'
  BY <1>1, <1>3, <1>4 DEF IInv, TypeOK, Exclusion, NotesSentFirst, Modes, LockReq
<1>9. note'[t] = "All"
  BY <1>1 DEF IInv, TypeOK
<1> QED BY <1>2, <1>7, <1>8, <1>9 DEF IInv, SharedWake, UniqueWake

(* A shared holder that leaves or downgrades, with counters c after it,    *)
(* may keep its notification to itself only if no shared sleeper gained.   *)
LEMMA ShareGoes ==
  ASSUME IInv, NEW t \in Threads, NEW m \in LockReq,
         note[t] = "None", state = "SHARED",
         \A n \in LockReq : n \notin {m, "READ"} => count'[n] = count[n],
         ro_pending_count' = ro_pending_count,
         pc'[t] # "asleep",
         \A u \in Threads \ {t} : pc'[u] = pc[u] /\ mode'[u] = mode[u],
         note' = [note EXCEPT ![t] = unlock_should_notify(m, count')]
  PROVE  SharedWake'
<1> SUFFICES ASSUME NEW u \in Threads, pc'[u] = "asleep", mode'[u] \in LockReq,
                    lock_guard_condition(mode[u])'
             PROVE  \E v \in Threads : note'[v] = "All"
  BY DEF SharedWake
<1>1. u # t /\ pc[u] = "asleep" /\ mode'[u] = mode[u]
  OBVIOUS
<1>2. CASE unlock_should_notify(m, count') = "All"
  BY <1>2 DEF IInv, TypeOK
<1>3. CASE unlock_should_notify(m, count') # "All"
  <2>1. lock_guard_condition(mode[u])
    BY <1>1, <1>3 DEF lock_guard_condition, unlock_should_notify, LockReq
  <2>2. PICK v \in Threads : note[v] = "All"
    BY <1>1, <2>1 DEF IInv, SharedWake
  <2> QED BY <2>2 DEF IInv, TypeOK
<1> QED BY <1>2, <1>3

(* unlock_shared *)
LEMMA UnlockSharedStep ==
  ASSUME IInv, NEW t \in Threads, UnlockShared(t)
  PROVE  IInv'
<1>0. PICK m \in LockReq : mode[t] = m
  BY DEF UnlockShared
<1>1. /\ pc[t] = "holding" /\ note[t] = "None" /\ mode[t] = m
      /\ count' = [count EXCEPT ![m] = @ - 1]
      /\ state' = IF unlock_has_fully_unlocked(m, count') THEN "UNLOCKED" ELSE state
      /\ pc' = [pc EXCEPT ![t] = "idle"]
      /\ note' = [note EXCEPT ![t] = unlock_should_notify(m, count')]
      /\ UNCHANGED <<ro_pending_count, mode, timed, left>>
  BY <1>0 DEF UnlockShared, ThenNotify, At
<1>2. \A n : Holders(n) \ {t} = Holders(n)' \ {t}
  BY <1>1, OthersStay DEF IInv, TypeOK
<1>3. /\ \A n : t \in Holders(n) <=> n = m
      /\ \A n : t \notin Holders(n)'
  BY <1>1 DEF IInv, TypeOK, Holders, Holds
<1>4. \A n : n # m => Holders(n)' = Holders(n)
  BY <1>2, <1>3
<1>5. Pending' = Pending
  BY <1>1 DEF IInv, TypeOK, Pending, Waiting
<1>6. /\ \A n \in LockReq : count'[n] = Cardinality(Holders(n)')
      /\ count' \in [LockReq -> Nat]
  <2>1. /\ Cardinality(Holders(m)') = Cardinality(Holders(m)) - 1
        /\ Cardinality(Holders(m)') \in Nat
    BY <1>2, <1>3, FiniteSets, CardChange
  <2> QED BY <1>1, <1>4, <2>1 DEF IInv, TypeOK, CountsAgree
<1>7. \A n \in LockReq : count'[n] = 0 <=> Holders(n)' = {}
  <2>1. \A n : IsFiniteSet(Holders(n)')
    BY FiniteSets, <1>2, <1>3, FS_Subset
  <2> QED BY <1>6, <2>1, CardZero
<1>8. state = "SHARED" /\ Holders("UNIQUE")' = {}
  <2>1. state = "SHARED"
    BY <1>1, <1>3 DEF IInv, CountsAgree
  <2> QED BY <1>1, <1>4, <2>1 DEF IInv, CountsAgree, LockReq
<1>9. /\ m = "WRITE" => Holders("READ_ONLY")' = {}
      /\ m = "READ_ONLY" => Holders("WRITE")' = {}
  BY <1>3, <1>4 DEF IInv, Exclusion
<1>10. state' = "UNLOCKED" <=> \A n \in LockReq : Holders(n)' = {}
  BY <1>1, <1>7, <1>8, <1>9 DEF unlock_has_fully_unlocked, LockReq
<1>11. CountsAgree'
  <2>1. state' \in {"UNLOCKED", "SHARED"}
    BY <1>1, <1>8
  <2> QED BY <1>1, <1>5, <1>6, <1>8, <1>10, <2>1 DEF IInv, CountsAgree
<1>12. TypeOK'
  <2>1. unlock_should_notify(m, count') \in NotifyKind
    BY <1>1 DEF unlock_should_notify, NotifyKind, LockReq
  <2> QED BY <1>1, <1>6, <2>1 DEF IInv, TypeOK
<1>13. Exclusion'
  <2>1. Holders("WRITE")' = {} \/ Holders("READ_ONLY")' = {}
    BY <1>2, <1>3 DEF IInv, Exclusion
  <2> QED BY <1>8, <2>1 DEF Exclusion, Holders
<1>14. NotesSentFirst'
  BY <1>1 DEF IInv, TypeOK, NotesSentFirst
<1>15. SharedWake'
  <2>1. /\ \A n \in LockReq : n \notin {m, "READ"} => count'[n] = count[n]
        /\ pc'[t] # "asleep"
        /\ \A u \in Threads \ {t} : pc'[u] = pc[u] /\ mode'[u] = mode[u]
    BY <1>1 DEF IInv, TypeOK
  <2> QED BY <1>1, <1>8, <2>1, ShareGoes
<1>16. UniqueWake'
  <2>1. state' = "UNLOCKED" => note'[t] # "None"
    BY <1>1, <1>7, <1>10 DEF unlock_should_notify, LockReq, IInv, TypeOK
  <2> QED BY <2>1 DEF UniqueWake
<1> QED BY <1>11, <1>12, <1>13, <1>14, <1>15, <1>16 DEF IInv

(* downgrade_to_read: the holder changes sets, the lock stays SHARED.      *)
LEMMA DowngradeStep ==
  ASSUME IInv, NEW t \in Threads, DowngradeToRead(t)
  PROVE  IInv'
<1>0. PICK m \in {"WRITE", "READ_ONLY"} : mode[t] = m
  BY DEF DowngradeToRead
<1>1. /\ pc[t] = "holding" /\ note[t] = "None" /\ mode[t] = m
      /\ state = "SHARED"
      /\ count' = [count EXCEPT ![m] = @ - 1, !["READ"] = @ + 1]
      /\ mode' = [mode EXCEPT ![t] = "READ"]
      /\ pc' = [pc EXCEPT ![t] = "holding"]
      /\ note' = [note EXCEPT ![t] = unlock_should_notify(m, count')]
      /\ UNCHANGED <<state, ro_pending_count, timed, left>>
  BY <1>0 DEF DowngradeToRead, ThenNotify, At
<1>2. \A n : Holders(n) \ {t} = Holders(n)' \ {t}
  BY <1>1, OthersStay DEF IInv, TypeOK
<1>3. /\ \A n : t \in Holders(n) <=> n = m
      /\ \A n : t \in Holders(n)' <=> n = "READ"
  BY <1>1 DEF IInv, TypeOK, Holders, Holds
<1>4. \A n : n # m /\ n # "READ" => Holders(n)' = Holders(n)
  BY <1>2, <1>3
<1>5. Pending' = Pending
  BY <1>1 DEF IInv, TypeOK, Pending, Waiting
<1>6. /\ \A n \in LockReq : count'[n] = Cardinality(Holders(n)')
      /\ count' \in [LockReq -> Nat]
  <2>1. /\ Cardinality(Holders(m)') = Cardinality(Holders(m)) - 1
        /\ Cardinality(Holders(m)') \in Nat
    BY <1>1, <1>2, <1>3, FiniteSets, CardChange
  <2>2. Cardinality(Holders("READ")') = Cardinality(Holders("READ")) + 1
    BY <1>1, <1>2, <1>3, FiniteSets, CardChange
  <2>3. \A n \in LockReq : n # m /\ n # "READ" => count'[n] = count[n]
    BY <1>1 DEF IInv, TypeOK
  <2>4. count'[m] = count[m] - 1 /\ count'["READ"] = count["READ"] + 1
    BY <1>1 DEF IInv, TypeOK, LockReq
  <2>5. \A n \in LockReq : count[n] = Cardinality(Holders(n)) /\ count[n] \in Nat
    BY DEF IInv, TypeOK, CountsAgree
  <2>6. \A n \in LockReq : count'[n] = Cardinality(Holders(n)') /\ count'[n] \in Nat
    <3>1. m \in LockReq /\ "READ" \in LockReq /\ m # "READ"
      BY <1>0 DEF LockReq
    <3>2. count'[m] = Cardinality(Holders(m)') /\ count'[m] \in Nat
      BY <2>1, <2>4, <2>5, <3>1
    <3>3. count'["READ"] = Cardinality(Holders("READ")') /\ count'["READ"] \in Nat
      BY <2>2, <2>4, <2>5, <3>1
    <3>4. \A n \in LockReq : n # m /\ n # "READ" =>
            count'[n] = Cardinality(Holders(n)') /\ count'[n] \in Nat
      BY <1>4, <2>3, <2>5
    <3> QED BY <3>2, <3>3, <3>4
  <2>7. count' = [n \in LockReq |-> count'[n]]
    BY <1>1 DEF IInv, TypeOK
  <2> QED BY <2>6, <2>7
<1>7. CountsAgree'
  <2>1. Holders("UNIQUE")' = {}
    BY <1>1, <1>4 DEF IInv, CountsAgree
  <2>2. Holders("READ")' # {}
    BY <1>3
  <2> QED BY <1>1, <1>5, <1>6, <2>1, <2>2 DEF IInv, CountsAgree, LockReq
<1>8. TypeOK'
  <2>1. unlock_should_notify(m, count') \in NotifyKind
    BY <1>1 DEF unlock_should_notify, NotifyKind
  <2> QED BY <1>1, <1>6, <2>1 DEF IInv, TypeOK, Modes, LockReq
<1>9. Exclusion'
  <2>1. Holders("WRITE")' = {} \/ Holders("READ_ONLY")' = {}
    BY <1>2, <1>3 DEF IInv, Exclusion
  <2>2. Holders("UNIQUE")' = {}
    BY <1>1, <1>4 DEF IInv, CountsAgree
  <2> QED BY <2>1, <2>2 DEF Exclusion, Holders
<1>10. NotesSentFirst'
  BY <1>1 DEF IInv, TypeOK, NotesSentFirst
<1>11. SharedWake'
  <2>1. /\ \A n \in LockReq : n \notin {m, "READ"} => count'[n] = count[n]
        /\ pc'[t] # "asleep" /\ m \in LockReq
        /\ \A u \in Threads \ {t} : pc'[u] = pc[u] /\ mode'[u] = mode[u]
    BY <1>1 DEF IInv, TypeOK, LockReq
  <2> QED BY <1>1, <2>1, ShareGoes
<1>12. UniqueWake'
  BY <1>1 DEF UniqueWake
<1> QED BY <1>7, <1>8, <1>9, <1>10, <1>11, <1>12 DEF IInv

(* Every step of every thread preserves the inductive invariant.           *)
LEMMA Inductive == IInv /\ [Next]_vars => IInv'
<1> SUFFICES ASSUME IInv, [Next]_vars PROVE IInv'
  OBVIOUS
<1>1. CASE UNCHANGED vars
  BY <1>1 DEF vars, IInv, TypeOK, CountsAgree, Exclusion, NotesSentFirst, SharedWake,
     UniqueWake, Holders, Holds, Pending, lock_guard_condition
<1>2. ASSUME NEW t \in Threads, NEW m \in Modes, NEW withTimer \in BOOLEAN,
             Lock(t, m, withTimer)
      PROVE  IInv'
  <2>1. pc[t] = "idle" /\ note[t] = "None" /\ t \notin Pending
    BY <1>2 DEF Lock, At, Pending, Waiting
  <2>2. CASE lock_guard_condition(m)
    <3>1. /\ Take(m)
          /\ pc' = [pc EXCEPT ![t] = "holding"]
          /\ mode' = [mode EXCEPT ![t] = m]
          /\ timed' = [timed EXCEPT ![t] = withTimer] /\ left' = [left EXCEPT ![t] = @ - 1]
          /\ UNCHANGED <<ro_pending_count, note>>
      BY <1>2, <2>2 DEF Lock
    <3>2. /\ state' \in {"UNIQUE", "SHARED"} /\ count' \in [LockReq -> Nat]
          /\ ro_pending_count' \in Nat
          /\ CountsAgree' /\ Exclusion' /\ NotesSentFirst' /\ SharedWake' /\ UniqueWake'
      BY <2>1, <2>2, <3>1, AcquireStep
    <3>3. TypeOK'
      BY <1>2, <3>1, <3>2, ResourceLockConstants DEF IInv, TypeOK, Lock
    <3> QED BY <3>2, <3>3 DEF IInv
  <2>3. CASE ~lock_guard_condition(m)
    <3>1. /\ pc' = [pc EXCEPT ![t] = "asleep"]
          /\ mode' = [mode EXCEPT ![t] = m]
          /\ timed' = [timed EXCEPT ![t] = withTimer] /\ left' = [left EXCEPT ![t] = @ - 1]
          /\ ro_pending_count' = IF m = "READ_ONLY" THEN ro_pending_count + 1
                                                    ELSE ro_pending_count
          /\ UNCHANGED <<state, count, note>>
      BY <1>2, <2>3 DEF Lock
    <3>2. /\ ro_pending_count' \in Nat
          /\ CountsAgree' /\ Exclusion' /\ NotesSentFirst' /\ SharedWake' /\ UniqueWake'
      BY <2>1, <2>3, <3>1, SleepStep
    <3>3. TypeOK'
      BY <1>2, <3>1, <3>2, ResourceLockConstants DEF IInv, TypeOK, Lock, Waiting
    <3> QED BY <3>2, <3>3 DEF IInv
  <2> QED BY <2>2, <2>3
<1>3. ASSUME NEW t \in Threads, NEW m \in Modes, TryLock(t, m)
      PROVE  IInv'
  <2>1. pc[t] = "idle" /\ note[t] = "None" /\ t \notin Pending
    BY <1>3 DEF TryLock, At, Pending, Waiting
  <2>2. CASE lock_guard_condition(m)
    <3>1. /\ Take(m)
          /\ pc' = [pc EXCEPT ![t] = "holding"]
          /\ mode' = [mode EXCEPT ![t] = m]
          /\ left' = [left EXCEPT ![t] = @ - 1]
          /\ UNCHANGED <<ro_pending_count, timed, note>>
      BY <1>3, <2>2 DEF TryLock
    <3>2. /\ state' \in {"UNIQUE", "SHARED"} /\ count' \in [LockReq -> Nat]
          /\ ro_pending_count' \in Nat
          /\ CountsAgree' /\ Exclusion' /\ NotesSentFirst' /\ SharedWake' /\ UniqueWake'
      BY <2>1, <2>2, <3>1, AcquireStep
    <3>3. TypeOK'
      BY <1>3, <3>1, <3>2, ResourceLockConstants DEF IInv, TypeOK, TryLock
    <3> QED BY <3>2, <3>3 DEF IInv
  <2>3. CASE ~lock_guard_condition(m)
    <3>1. /\ UNCHANGED <<state, count, pc, mode, ro_pending_count, timed, note>>
          /\ left' = [left EXCEPT ![t] = @ - 1] /\ left[t] > 0
      BY <1>3, <2>3 DEF TryLock
    <3>2. TypeOK'
      BY <3>1, ResourceLockConstants DEF IInv, TypeOK
    <3>3. CountsAgree' /\ Exclusion' /\ NotesSentFirst' /\ SharedWake' /\ UniqueWake'
      <4>1. CountsAgree' /\ Exclusion' /\ NotesSentFirst'
        BY <3>1 DEF IInv, CountsAgree, Exclusion, NotesSentFirst, Holders, Holds, Pending
      <4>2. \A n : lock_guard_condition(n)' <=> lock_guard_condition(n)
        BY <3>1 DEF lock_guard_condition
      <4>3. SharedWake'
        BY <3>1, <4>2 DEF IInv, SharedWake, lock_guard_condition
      <4>4. UniqueWake'
        BY <3>1, <4>2 DEF IInv, UniqueWake, lock_guard_condition
      <4> QED BY <4>1, <4>3, <4>4
    <3> QED BY <3>2, <3>3 DEF IInv
  <2> QED BY <2>2, <2>3
<1>4. ASSUME NEW t \in Threads, pc[t] \in {"awake", "expired"}, Acquire(t)
      PROVE  IInv'
  <2>1. /\ note[t] = "None" /\ mode[t] \in Modes
        /\ t \in Pending <=> mode[t] = "READ_ONLY"
        /\ mode' = [mode EXCEPT ![t] = mode[t]]
    BY <1>4 DEF Acquire, IInv, TypeOK, NotesSentFirst, Pending, Waiting
  <2> QED BY <1>4, <2>1, AcquireStep DEF Acquire, IInv, TypeOK
<1>5. ASSUME NEW t \in Threads, pc[t] = "awake", SleepAgain(t)
      PROVE  IInv'
  <2>1. /\ note[t] = "None" /\ mode[t] \in Modes
        /\ mode' = [mode EXCEPT ![t] = mode[t]]
    BY <1>5 DEF SleepAgain, IInv, TypeOK, NotesSentFirst
  <2> QED BY <1>5, <2>1, SleepStep DEF SleepAgain, IInv, TypeOK, Waiting
<1>6. ASSUME NEW t \in Threads, Expire(t) \/ SpuriousWakeup(t)
      PROVE  IInv'
  BY <1>6, WakeStep DEF Expire, SpuriousWakeup, IInv, TypeOK, Waiting
<1> QED
  BY <1>1, <1>2, <1>3, <1>4, <1>5, <1>6, GiveUpStep, NotifyStep, UnlockUniqueStep,
     UnlockSharedStep, DowngradeStep
  DEF Next, Progress, Recheck, FinishTimedWait

(* The initial state satisfies the inductive invariant.                    *)
LEMMA Initially == Init => IInv
<1> SUFFICES ASSUME Init PROVE IInv
  OBVIOUS
<1>1. TypeOK
  BY ResourceLockConstants DEF Init, TypeOK, LockReq, Modes, NotifyKind
<1>2. Pending = {} /\ \A n : Holders(n) = {}
  BY DEF Init, Pending, Holders, Holds, Waiting
<1>3. CountsAgree
  BY <1>2, FS_EmptySet DEF Init, CountsAgree
<1> QED
  BY <1>1, <1>2, <1>3 DEF IInv, Init, Exclusion, Holders, NotesSentFirst, SharedWake, UniqueWake

(* Every reachable state satisfies the inductive invariant.                *)
THEOREM Invariance == Spec => []IInv
BY Initially, Inductive, PTL DEF Spec

(* Types, among them that no counter goes below zero.                      *)
THEOREM TypeCorrect == Spec => []TypeOK
<1>1. IInv => TypeOK
  BY DEF IInv
<1> QED BY <1>1, Invariance, PTL

(* The four modes are kept apart, for any number of threads: main_lock_    *)
(* gives a UNIQUE accessor the storage to itself and never lets a WRITE    *)
(* accessor in beside a READ_ONLY one.                                     *)
THEOREM ModesExclude == Spec => []Exclusion
<1>1. IInv => Exclusion
  BY DEF IInv
<1> QED BY <1>1, Invariance, PTL

(* r_count, w_count, ro_count and ro_pending_count never drift from the    *)
(* threads they count, through time-outs and downgrades.                   *)
THEOREM CountersExact == Spec => []CountsAgree
<1>1. IInv => CountsAgree
  BY DEF IInv
<1> QED BY <1>1, Invariance, PTL

(* No sleeper that could have the lock is forgotten, although unlocking a  *)
(* READ lock wakes only one thread and that one may have to wait on.       *)
THEOREM WakeupsKept == Spec => []NoLostWakeup
<1>1. IInv => NoLostWakeup
  BY DEF IInv, TypeOK, NoLostWakeup, SharedWake, UniqueWake, Modes, lock_guard_condition
<1> QED BY <1>1, Invariance, PTL

-----------------------------------------------------------------------------
(* What lock_guard_condition grants is compatible with every holder.       *)
LEMMA GrantFits ==
  ASSUME IInv, NEW m \in Modes, lock_guard_condition(m), NEW u \in Threads
  PROVE  Abstract!Compatible(m, Held[u])
<1>1. Held[u] = (IF pc[u] = "holding" THEN mode[u] ELSE "NONE") /\ mode[u] \in Modes
  BY DEF Held, IInv, TypeOK
<1>2. CASE pc[u] # "holding"
  BY <1>1, <1>2 DEF Abstract!Compatible
<1>3. CASE pc[u] = "holding"
  <2>1. u \in Holders(mode[u]) /\ Held[u] = mode[u]
    BY <1>1, <1>3 DEF Holders, Holds
  <2>2. state # "UNLOCKED" /\ (mode[u] = "UNIQUE" => state = "UNIQUE")
    BY <1>1, <2>1 DEF IInv, CountsAgree, Modes
  <2>3. mode[u] \in LockReq => count[mode[u]] # 0
    BY <2>1, FiniteSets, CardZero DEF IInv, CountsAgree
  <2>4. CASE m = "UNIQUE" \/ m = "READ"
    BY <1>1, <2>1, <2>2, <2>4 DEF lock_guard_condition, Abstract!Compatible
  <2>5. CASE m = "WRITE"
    BY <1>1, <2>1, <2>2, <2>3, <2>5 DEF lock_guard_condition, Abstract!Compatible, LockReq
  <2>6. CASE m = "READ_ONLY"
    BY <1>1, <2>1, <2>2, <2>3, <2>6 DEF lock_guard_condition, Abstract!Compatible, LockReq
  <2> QED BY <2>4, <2>5, <2>6 DEF Modes, LockReq
<1> QED BY <1>2, <1>3

(* Taking the lock is an abstract Acquire.                                 *)
LEMMA AcquireMaps ==
  ASSUME IInv, NEW t \in Threads, NEW m \in Modes, lock_guard_condition(m),
         pc[t] # "holding",
         pc' = [pc EXCEPT ![t] = "holding"],
         mode' = [mode EXCEPT ![t] = m]
  PROVE  Abstract!Acquire(t, m)
<1>1. \A u \in Threads : Abstract!Compatible(m, Held[u])
  BY GrantFits
<1>2. Held[t] = "NONE"
  BY DEF Held
<1>3. Held' = [Held EXCEPT ![t] = m]
  BY DEF Held, IInv, TypeOK
<1> QED BY <1>1, <1>2, <1>3 DEF Abstract!Acquire

(* A thread that neither takes nor gives anything is a stuttering step.    *)
LEMMA WaitMaps ==
  ASSUME IInv, NEW t \in Threads,
         pc[t] # "holding", pc'[t] # "holding",
         \A u \in Threads \ {t} : pc'[u] = pc[u] /\ mode'[u] = mode[u]
  PROVE  Held' = Held
BY DEF Held

(* Every step of the lock is a step of its specification, or none.         *)
LEMMA StepMaps == IInv /\ [Next]_vars => [Abstract!Next]_Held
<1> SUFFICES ASSUME IInv, [Next]_vars PROVE [Abstract!Next]_Held
  OBVIOUS
<1> DEFINE Maps == Abstract!Next \/ Held' = Held
<1>1. CASE UNCHANGED vars
  BY <1>1 DEF vars, Held
<1>2. ASSUME NEW t \in Threads, NEW m \in Modes, NEW withTimer \in BOOLEAN, Lock(t, m, withTimer)
      PROVE  Maps
  <2>1. pc[t] # "holding" /\ mode' = [mode EXCEPT ![t] = m]
    BY <1>2 DEF Lock, At
  <2>2. CASE lock_guard_condition(m)
    <3>1. pc' = [pc EXCEPT ![t] = "holding"]
      BY <1>2, <2>2 DEF Lock
    <3> QED BY <2>1, <2>2, <3>1, AcquireMaps DEF Abstract!Next, Modes, LockReq
  <2>3. CASE ~lock_guard_condition(m)
    <3>1. pc' = [pc EXCEPT ![t] = "asleep"]
      BY <1>2, <2>3 DEF Lock
    <3> QED BY <2>1, <3>1, WaitMaps DEF IInv, TypeOK
  <2> QED BY <2>2, <2>3
<1>3. ASSUME NEW t \in Threads, NEW m \in Modes, TryLock(t, m)
      PROVE  Maps
  <2>1. pc[t] # "holding"
    BY <1>3 DEF TryLock, At
  <2>2. CASE lock_guard_condition(m)
    <3>1. pc' = [pc EXCEPT ![t] = "holding"] /\ mode' = [mode EXCEPT ![t] = m]
      BY <1>3, <2>2 DEF TryLock
    <3> QED BY <2>1, <2>2, <3>1, AcquireMaps DEF Abstract!Next, Modes, LockReq
  <2>3. CASE ~lock_guard_condition(m)
    BY <1>3, <2>3 DEF TryLock, Held
  <2> QED BY <2>2, <2>3
<1>4. ASSUME NEW t \in Threads, pc[t] \in {"awake", "expired"}, Acquire(t)
      PROVE  Maps
  <2>1. mode[t] \in Modes /\ mode' = [mode EXCEPT ![t] = mode[t]]
    BY <1>4 DEF Acquire, IInv, TypeOK
  <2>2. Abstract!Acquire(t, mode[t])
    BY <1>4, <2>1, AcquireMaps DEF Acquire
  <2> QED BY <2>1, <2>2 DEF Abstract!Next, Modes, LockReq
<1>5. ASSUME NEW t \in Threads,
             \/ pc[t] = "awake" /\ SleepAgain(t)
             \/ pc[t] = "expired" /\ GiveUp(t)
             \/ Expire(t) \/ SpuriousWakeup(t)
      PROVE  Maps
  <2>1. /\ pc[t] # "holding" /\ mode' = mode
        /\ \E w \in {"asleep", "awake", "expired", "idle"} : pc' = [pc EXCEPT ![t] = w]
    BY <1>5 DEF SleepAgain, GiveUp, ThenNotify, Expire, SpuriousWakeup
  <2> QED BY <2>1, WaitMaps DEF IInv, TypeOK
<1>6. ASSUME NEW t \in Threads, Notify(t)
      PROVE  Maps
  BY <1>6 DEF Notify, Asleep, Held, IInv, TypeOK
<1>7. ASSUME NEW t \in Threads, UnlockUnique(t) \/ UnlockShared(t)
      PROVE  Maps
  <2>1. /\ pc[t] = "holding" /\ pc' = [pc EXCEPT ![t] = "idle"]
        /\ mode' = mode /\ mode[t] \in Modes
    BY <1>7 DEF UnlockUnique, UnlockShared, ThenNotify, At, IInv, TypeOK
  <2>2. Held[t] # "NONE" /\ Held' = [Held EXCEPT ![t] = "NONE"]
    BY <2>1 DEF Held, IInv, TypeOK, Modes, LockReq
  <2> QED BY <2>2 DEF Abstract!Next, Abstract!Release
<1>8. ASSUME NEW t \in Threads, DowngradeToRead(t)
      PROVE  Maps
  <2>1. /\ pc[t] = "holding" /\ pc' = [pc EXCEPT ![t] = "holding"]
        /\ mode' = [mode EXCEPT ![t] = "READ"] /\ mode[t] \in {"WRITE", "READ_ONLY"}
    BY <1>8 DEF DowngradeToRead, ThenNotify, At
  <2>2. Held[t] \in {"WRITE", "READ_ONLY"} /\ Held' = [Held EXCEPT ![t] = "READ"]
    BY <2>1 DEF Held, IInv, TypeOK
  <2> QED BY <2>2 DEF Abstract!Next, Abstract!Downgrade
<1> QED
  BY <1>1, <1>2, <1>3, <1>4, <1>5, <1>6, <1>7, <1>8
  DEF Next, Progress, Recheck, FinishTimedWait

(* The lock with its mutex, condition variable and counters implements the *)
(* table of its four modes.                                                *)
THEOREM Refinement == Spec => ImplementsModes
<1>1. Init => Abstract!Init
  BY DEF Init, Abstract!Init, Held
<1> QED BY <1>1, Invariance, StepMaps, PTL DEF Spec, ImplementsModes, Abstract!Spec
=============================================================================

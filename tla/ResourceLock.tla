---------------------------- MODULE ResourceLock ----------------------------
(***************************************************************************)
(* utils/resource_lock.hpp: the lock behind Storage::main_lock_, taken in  *)
(* one of four modes, built from a mutex, a condition variable, three      *)
(* holder counters and the count of READ_ONLY requests still waiting.      *)
(*                                                                         *)
(* Each stretch of code that holds mtx is one step.  cv.wait releases mtx, *)
(* so a wait is split into the test before it, the sleep (the cv's wait    *)
(* set), and the test after a wake-up or an expired timer.  maybe_notify   *)
(* and unlock() call notify after mtx is released, so the notification is  *)
(* a step of its own.  A thread whose timer fires has left the wait set    *)
(* before it gets mtx back.                                                *)
(***************************************************************************)
EXTENDS Naturals, FiniteSets

CONSTANTS
  Threads,       \* the threads that use the lock
  MaxRequests    \* bound: how many times each of them asks for it

ASSUME ResourceLockConstants ==
  /\ IsFiniteSet(Threads)
  /\ MaxRequests \in Nat

VARIABLES
  state,               \* UNLOCKED, UNIQUE or SHARED
  count,               \* r_count, w_count and ro_count, by LockReq
  ro_pending_count,    \* READ_ONLY requests inside lock_shared/try_lock_shared_for
  pc,                  \* where each thread is
  mode,                \* the mode it asks for or holds
  timed,               \* it waits in try_lock_for / try_lock_shared_for
  note,                \* the notification it still has to send
  left                 \* requests it may still make

vars == <<state, count, ro_pending_count, pc, mode, timed, note, left>>

LockReq == {"READ", "WRITE", "READ_ONLY"}
Modes   == LockReq \cup {"UNIQUE"}
Waiting == {"asleep", "awake", "expired"}
NotifyKind == {"None", "One", "All"}

TypeOK ==
  /\ state \in {"UNLOCKED", "UNIQUE", "SHARED"}
  /\ count \in [LockReq -> Nat]
  /\ ro_pending_count \in Nat
  /\ pc \in [Threads -> Waiting \cup {"idle", "holding"}]
  /\ mode \in [Threads -> Modes]
  /\ timed \in [Threads -> BOOLEAN]
  /\ note \in [Threads -> NotifyKind]
  /\ left \in [Threads -> 0 .. MaxRequests]

-----------------------------------------------------------------------------
(* Mutant: a WRITE request looks at waiting READ_ONLY requests only.       *)
guard_without_read_only(m) ==
  CASE m = "UNIQUE"    -> state = "UNLOCKED"
    [] m = "READ"      -> state # "UNIQUE"
    [] m = "WRITE"     -> state # "UNIQUE" /\ ro_pending_count = 0
    [] m = "READ_ONLY" -> state # "UNIQUE" /\ count["WRITE"] = 0

(* lock_guard_condition, with the test on state that goes before it; for   *)
(* UNIQUE the predicate of lock().                                         *)
lock_guard_condition(m) ==
  CASE m = "UNIQUE"    -> state = "UNLOCKED"
    [] m = "READ"      -> state # "UNIQUE"
    [] m = "WRITE"     -> state # "UNIQUE" /\ count["READ_ONLY"] = 0 /\ ro_pending_count = 0
    [] m = "READ_ONLY" -> state # "UNIQUE" /\ count["WRITE"] = 0

(* unlock_has_fully_unlocked, on the counters after the decrement. *)
unlock_has_fully_unlocked(m, c) ==
  CASE m = "WRITE"     -> c["WRITE"] = 0 /\ c["READ"] = 0
    [] m = "READ"      -> c["READ"] = 0 /\ c["READ_ONLY"] = 0 /\ c["WRITE"] = 0
    [] m = "READ_ONLY" -> c["READ_ONLY"] = 0 /\ c["READ"] = 0

(* Mutant: the last WRITE or READ_ONLY holder wakes one thread.            *)
unlock_notifies_one(m, c) == IF c[m] = 0 THEN "One" ELSE "None"

(* unlock_should_notify *)
unlock_should_notify(m, c) ==
  CASE m = "WRITE"     -> IF c["WRITE"] = 0 THEN "All" ELSE "None"
    [] m = "READ"      -> IF c["READ"] = 0 /\ c["WRITE"] = 0 /\ c["READ_ONLY"] = 0
                          THEN "One" ELSE "None"
    [] m = "READ_ONLY" -> IF c["READ_ONLY"] = 0 THEN "All" ELSE "None"

(* lock_failed_wait_should_notify, on the pending count after the failure; *)
(* UNIQUE (try_lock_for) never notifies on failure.                        *)
lock_failed_wait_should_notify(m, pending) ==
  IF m = "READ_ONLY" /\ pending = 0 THEN "All" ELSE "None"

(* What taking the lock in mode m does to state and counters. *)
Take(m) ==
  /\ state' = IF m = "UNIQUE" THEN "UNIQUE" ELSE "SHARED"
  /\ count' = IF m = "UNIQUE" THEN count ELSE [count EXCEPT ![m] = @ + 1]

(* The thread moves on to next; maybe_notify has released mtx and the      *)
(* notification is still to be sent, before anything else the thread does. *)
ThenNotify(t, kind, next) ==
  /\ note' = [note EXCEPT ![t] = kind]
  /\ pc'   = [pc EXCEPT ![t] = next]

At(t, where) == pc[t] = where /\ note[t] = "None"

-----------------------------------------------------------------------------
Init ==
  /\ state = "UNLOCKED"
  /\ count = [m \in LockReq |-> 0]
  /\ ro_pending_count = 0
  /\ pc = [t \in Threads |-> "idle"]
  /\ mode = [t \in Threads |-> "READ"]
  /\ timed = [t \in Threads |-> FALSE]
  /\ note = [t \in Threads |-> "None"]
  /\ left = [t \in Threads |-> MaxRequests]

(* lock, lock_shared, try_lock_for, try_lock_shared_for, up to the first   *)
(* test of the predicate.  lock_pre_state_change counts a READ_ONLY request *)
(* before the test and lock_post_state_change takes it back once the lock  *)
(* is held, so only a request that sleeps leaves a trace.                  *)
Lock(t, m, withTimer) ==
  /\ At(t, "idle") /\ left[t] > 0
  /\ left' = [left EXCEPT ![t] = @ - 1]
  /\ mode' = [mode EXCEPT ![t] = m]
  /\ timed' = [timed EXCEPT ![t] = withTimer]
  /\ \/ /\ lock_guard_condition(m)
        /\ Take(m)
        /\ pc' = [pc EXCEPT ![t] = "holding"]
        /\ UNCHANGED ro_pending_count
     \/ /\ ~lock_guard_condition(m)
        /\ pc' = [pc EXCEPT ![t] = "asleep"]
        /\ ro_pending_count' = IF m = "READ_ONLY" THEN ro_pending_count + 1
                                                  ELSE ro_pending_count
        /\ UNCHANGED <<state, count>>
  /\ UNCHANGED note

(* try_lock, try_lock_shared: one test; a failure changes nothing but the  *)
(* bound on requests.                                                      *)
TryLock(t, m) ==
  /\ At(t, "idle") /\ left[t] > 0
  /\ left' = [left EXCEPT ![t] = @ - 1]
  /\ \/ /\ lock_guard_condition(m)
        /\ Take(m)
        /\ pc' = [pc EXCEPT ![t] = "holding"]
        /\ mode' = [mode EXCEPT ![t] = m]
     \/ /\ ~lock_guard_condition(m)
        /\ UNCHANGED <<state, count, pc, mode>>
  /\ UNCHANGED <<ro_pending_count, timed, note>>

(* The end of a wait that succeeds: lock_state_updater and                 *)
(* lock_post_state_change.                                                 *)
Acquire(t) ==
  /\ lock_guard_condition(mode[t])
  /\ Take(mode[t])
  /\ ro_pending_count' = IF mode[t] = "READ_ONLY" THEN ro_pending_count - 1
                                                  ELSE ro_pending_count
  /\ pc' = [pc EXCEPT ![t] = "holding"]
  /\ UNCHANGED <<mode, timed, note, left>>

(* cv.wait: a notified (or spuriously woken) thread tests its predicate    *)
(* again and either takes the lock or goes back to sleep.                  *)
SleepAgain(t) ==
  /\ ~lock_guard_condition(mode[t])
  /\ pc' = [pc EXCEPT ![t] = "asleep"]
  /\ UNCHANGED <<state, count, ro_pending_count, mode, timed, note, left>>

(* Mutant: a wait with a timer does not test its predicate on wake-up.     *)
RecheckUntimed(t) == pc[t] = "awake" /\ ~timed[t] /\ (Acquire(t) \/ SleepAgain(t))

Recheck(t) == pc[t] = "awake" /\ (Acquire(t) \/ SleepAgain(t))

(* cv.wait_for: the timer fires and the thread leaves the wait set.        *)
Expire(t) ==
  /\ pc[t] = "asleep" /\ timed[t]
  /\ pc' = [pc EXCEPT ![t] = "expired"]
  /\ UNCHANGED <<state, count, ro_pending_count, mode, timed, note, left>>

(* Mutant: a READ_ONLY request that timed out stays pending.               *)
GiveUpStillPending(t) ==
  /\ ~lock_guard_condition(mode[t])
  /\ ThenNotify(t, lock_failed_wait_should_notify(mode[t], ro_pending_count), "idle")
  /\ UNCHANGED <<state, count, ro_pending_count, mode, timed, left>>

(* The failure branch of try_lock_for and try_lock_shared_for.             *)
GiveUp(t) ==
  /\ ~lock_guard_condition(mode[t])
  /\ ro_pending_count' = IF mode[t] = "READ_ONLY" THEN ro_pending_count - 1
                                                  ELSE ro_pending_count
  /\ ThenNotify(t, lock_failed_wait_should_notify(mode[t], ro_pending_count'), "idle")
  /\ UNCHANGED <<state, count, mode, timed, left>>

(* wait_for returns the value of its predicate after the timer fired.      *)
FinishTimedWait(t) == pc[t] = "expired" /\ (Acquire(t) \/ GiveUp(t))

(* unlock *)
UnlockUnique(t) ==
  /\ At(t, "holding") /\ mode[t] = "UNIQUE"
  /\ state' = "UNLOCKED"
  /\ ThenNotify(t, "All", "idle")
  /\ UNCHANGED <<count, ro_pending_count, mode, timed, left>>

(* unlock_shared *)
UnlockShared(t) ==
  /\ At(t, "holding") /\ mode[t] \in LockReq
  /\ count' = [count EXCEPT ![mode[t]] = @ - 1]
  /\ state' = IF unlock_has_fully_unlocked(mode[t], count') THEN "UNLOCKED" ELSE state
  /\ ThenNotify(t, unlock_should_notify(mode[t], count'), "idle")
  /\ UNCHANGED <<ro_pending_count, mode, timed, left>>

(* Mutant: every downgrade gives up a READ_ONLY share.                     *)
DowngradeReadOnly(t) ==
  /\ At(t, "holding") /\ mode[t] \in {"WRITE", "READ_ONLY"}
  /\ state = "SHARED"
  /\ count' = [count EXCEPT !["READ_ONLY"] = @ - 1, !["READ"] = @ + 1]
  /\ mode' = [mode EXCEPT ![t] = "READ"]
  /\ ThenNotify(t, unlock_should_notify("READ_ONLY", count'), "holding")
  /\ UNCHANGED <<state, ro_pending_count, timed, left>>

(* Mutant: the counter of WRITE is raised instead of that of READ.         *)
DowngradeToWrite(t) ==
  /\ At(t, "holding") /\ mode[t] \in {"WRITE", "READ_ONLY"}
  /\ state = "SHARED"
  /\ count' = [count EXCEPT ![mode[t]] = @ - 1, !["WRITE"] = @ + 1]
  /\ mode' = [mode EXCEPT ![t] = "WRITE"]
  /\ ThenNotify(t, unlock_should_notify(mode[t], count'), "holding")
  /\ UNCHANGED <<state, ro_pending_count, timed, left>>

(* SharedResourceLockGuard::downgrade_to_read on a WRITE or READ_ONLY      *)
(* guard; ResourceLock::downgrade_to_read refuses unless state is SHARED.  *)
DowngradeToRead(t) ==
  /\ At(t, "holding") /\ mode[t] \in {"WRITE", "READ_ONLY"}
  /\ state = "SHARED"
  /\ count' = [count EXCEPT ![mode[t]] = @ - 1, !["READ"] = @ + 1]
  /\ mode' = [mode EXCEPT ![t] = "READ"]
  /\ ThenNotify(t, unlock_should_notify(mode[t], count'), "holding")
  /\ UNCHANGED <<state, ro_pending_count, timed, left>>

Asleep == {t \in Threads : pc[t] = "asleep"}

(* notify_one and notify_all. *)
Notify(t) ==
  /\ \E woken \in SUBSET Asleep :
       /\ \/ note[t] = "All" /\ woken = Asleep
          \/ /\ note[t] = "One"
             /\ IF Asleep = {} THEN woken = {} ELSE \E u \in Asleep : woken = {u}
       /\ pc' = [u \in Threads |-> IF u \in woken THEN "awake" ELSE pc[u]]
  /\ note' = [note EXCEPT ![t] = "None"]
  /\ UNCHANGED <<state, count, ro_pending_count, mode, timed, left>>

(* A condition variable may wake a sleeper for no reason.                  *)
SpuriousWakeup(t) ==
  /\ pc[t] = "asleep"
  /\ pc' = [pc EXCEPT ![t] = "awake"]
  /\ UNCHANGED <<state, count, ro_pending_count, mode, timed, note, left>>

(* The steps a thread takes once it has asked for the lock.                *)
Progress(t) ==
  \/ Recheck(t) \/ FinishTimedWait(t) \/ Notify(t)
  \/ UnlockUnique(t) \/ UnlockShared(t)

Next == \E t \in Threads :
  \/ \E m \in Modes, withTimer \in BOOLEAN : Lock(t, m, withTimer)
  \/ \E m \in Modes : TryLock(t, m)
  \/ Progress(t)
  \/ Expire(t) \/ DowngradeToRead(t) \/ SpuriousWakeup(t)

Spec == Init /\ [][Next]_vars

(* Every thread is scheduled, and a holder lets go eventually.  Nothing is *)
(* assumed of timers and of spurious wake-ups.                             *)
FairSpec == Spec /\ \A t \in Threads : WF_vars(Progress(t))

-----------------------------------------------------------------------------
Holds(t, m) == pc[t] = "holding" /\ mode[t] = m
Holders(m)  == {t \in Threads : Holds(t, m)}
Pending     == {t \in Threads : pc[t] \in Waiting /\ mode[t] = "READ_ONLY"}

(* A UNIQUE holder is alone and WRITE excludes READ_ONLY: what accessors   *)
(* of main_lock_ (storage.cpp CreateSharedGuard, CreateUniqueGuard) rely on.*)
Exclusion ==
  /\ \A t, u \in Threads :
       Holds(t, "UNIQUE") /\ pc[u] = "holding" => t = u
  /\ Holders("WRITE") = {} \/ Holders("READ_ONLY") = {}

(* The counters and state are those of the threads that hold the lock, and *)
(* ro_pending_count that of the READ_ONLY requests still waiting, across   *)
(* time-outs and downgrades: no WRITE is kept out by a request that left.  *)
CountsAgree ==
  /\ \A m \in LockReq : count[m] = Cardinality(Holders(m))
  /\ ro_pending_count = Cardinality(Pending)
  /\ state = "UNIQUE" <=> Holders("UNIQUE") # {}
  /\ state = "SHARED" <=> \E m \in LockReq : Holders(m) # {}

(* A sleeper that could have the lock now is not forgotten: somebody is    *)
(* about to notify, or a thread that is up can take the lock and will      *)
(* notify when it lets go.  READ's notify_one (unlock_should_notify) and   *)
(* the timed-out READ_ONLY request that kept WRITE out are the two ways to *)
(* lose a wake-up.                                                         *)
NoLostWakeup ==
  \A t \in Threads :
    pc[t] = "asleep" /\ lock_guard_condition(mode[t]) =>
      \E u \in Threads :
        \/ note[u] # "None"
        \/ pc[u] \in {"awake", "expired"} /\ lock_guard_condition(mode[u])

(* The inductive invariant behind the two above.  A shared request that is *)
(* asleep although it could have the lock waits for a notify_all; only a   *)
(* UNIQUE request may depend on a notify_one and on the thread it wakes.   *)
SharedWake ==
  \A t \in Threads :
    pc[t] = "asleep" /\ mode[t] \in LockReq /\ lock_guard_condition(mode[t]) =>
      \E u \in Threads : note[u] = "All"

UniqueWake ==
  \A t \in Threads :
    pc[t] = "asleep" /\ mode[t] = "UNIQUE" /\ state = "UNLOCKED" =>
      \E u \in Threads :
        \/ note[u] # "None"
        \/ pc[u] \in {"awake", "expired"} /\ lock_guard_condition(mode[u])

NotesSentFirst == \A t \in Threads : note[t] # "None" => pc[t] \in {"idle", "holding"}

IInv == TypeOK /\ CountsAgree /\ Exclusion /\ NotesSentFirst /\ SharedWake /\ UniqueWake

(* Every request that waits is answered (a bounded number of requests, so  *)
(* that nobody is starved by an endless stream of others).                 *)
RequestAnswered ==
  \A t \in Threads : pc[t] \in Waiting ~> pc[t] \in {"holding", "idle"}

(* The lock implements the compatibility table of its four modes: a lock   *)
(* is granted only beside compatible ones, and a downgrade never lets go.  *)
Held == [t \in Threads |-> IF pc[t] = "holding" THEN mode[t] ELSE "NONE"]
Abstract == INSTANCE ResourceLockSpec WITH held <- Held
ImplementsModes == Abstract!Spec
=============================================================================

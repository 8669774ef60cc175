----------------------------- MODULE Databases -----------------------------
(***************************************************************************)
(* The databases of an instance: the Gatekeeper that counts the accessors   *)
(* of each, the map of the DbmsHandler, the sessions that use them, the     *)
(* drop of a database, at once or deferred to a pool of one thread, and the *)
(* async indexer thread of each storage, which has to be stopped first.     *)
(*                                                                         *)
(* A step is what runs under one mutex.  The lock_ of the DbmsHandler is     *)
(* held by a drop from its first to its last step.                         *)
(***************************************************************************)
EXTENDS Integers, Sequences, FiniteSets

CONSTANTS
  Names,       \* names of databases
  Databases,   \* the databases ever created, each with its Gatekeeper
  DefaultName, \* kDefaultDB
  Default,     \* the database that has that name
  Sessions,    \* the interpreters
  None,        \* no database
  Indexed,     \* the databases with write transactions and changes of storage mode
  Labels       \* what an index can be requested for

ASSUME DatabasesAssumption ==
  /\ DefaultName \in Names /\ Default \in Databases /\ None \notin Databases
  /\ Indexed \subseteq Databases
  /\ IsFiniteSet(Databases) /\ IsFiniteSet(Sessions)

VARIABLES
  items,    \* Handler::items_
  name,     \* the name a database's protector factory was made with
  life,     \* its GKInternals: unborn, open, closing (~Database runs), gone
  marked,   \* is_marked_for_deletion
  count,    \* count_
  owner,    \* Accessor::owner_ of every accessor
  drop,     \* the drop under way, which holds lock_
  deferred, \* Handler::defer_pool_, its queue
  worker,   \* its thread: the Gatekeeper it destroys, and if it sleeps on cv_
  indexer,  \* the thread of AsyncIndexer
  stop,     \* its stop token
  requests, \* request_queue_
  created,  \* the indices there are
  mode,     \* what a session has main_lock_ for: a write transaction, a SetStorageMode
  missed    \* history: notifications that came too early or not at all

gates == <<count, owner, worker>>
storage == <<indexer, stop, requests, created>>
vars == <<items, name, life, marked, gates, drop, deferred, storage, mode, missed>>

(* The accessors: db_acc_ of a session, the one its query holds, the one in  *)
(* the protector of an indexer, and the one of a drop.                     *)
Current(s) == <<"current", s>>
Query(s) == <<"query", s>>
Protector(d) == <<"protector", d>>
Dropping == <<"drop", None>>
Accessors == {Current(s) : s \in Sessions} \cup {Query(s) : s \in Sessions}
             \cup {Protector(d) : d \in Databases} \cup {Dropping}
HeldOf(d) == {a \in Accessors : owner[a] = d}

NoDrop == [pc |-> "idle", db |-> None, forced |-> FALSE]
Locked == drop.pc # "idle"
NoWork == [db |-> None, asleep |-> FALSE]

(* Where the thread of an async indexer has its mutex_.                     *)
Processing == {"check", "park", "pick", "guarded", "indexing"}

Init ==
  /\ items = [n \in Names |-> IF n = DefaultName THEN Default ELSE None]
  /\ name = [d \in Databases |-> DefaultName]
  /\ life = [d \in Databases |-> IF d = Default THEN "open" ELSE "unborn"]
  /\ marked = [d \in Databases |-> FALSE]
  /\ count = [d \in Databases |-> 0] /\ owner = [a \in Accessors |-> None]
  /\ drop = NoDrop /\ deferred = <<>> /\ worker = NoWork
  /\ indexer = [d \in Databases |-> IF d \in Indexed THEN "woken" ELSE "asleep"]
  /\ stop = [d \in Databases |-> FALSE] /\ requests = [d \in Databases |-> {}]
  /\ created = [d \in Databases |-> {}]
  /\ mode = [s \in Sessions |-> "none"] /\ missed = {}

-----------------------------------------------------------------------------
(* Gatekeeper.                                                             *)

(* A new accessor: of another one, or with access() if the value is there.   *)
CopyAccessor(a, d) ==
  owner' = [owner EXCEPT ![a] = d] /\ count' = [count EXCEPT ![d] = @ + 1]
Access(a, d) == life[d] = "open" /\ CopyAccessor(a, d)

(* Mutant: who waits is not told.                                          *)
ResetSilently(a) ==
  /\ owner' = [owner EXCEPT ![a] = None] /\ count' = [count EXCEPT ![owner[a]] = @ - 1]
  /\ UNCHANGED worker

(* Accessor::reset() and ~Accessor: who sleeps on cv_ looks again.          *)
Reset(a) ==
  LET d == owner[a]
  IN  /\ owner' = [owner EXCEPT ![a] = None] /\ count' = [count EXCEPT ![d] = @ - 1]
      /\ worker' = IF worker.db = d THEN [worker EXCEPT !.asleep = FALSE] ELSE worker

(* Mutant: the accessor that is assigned to keeps its count.                *)
MoveAssignKeepsCount(to, from) ==
  /\ owner' = [owner EXCEPT ![to] = owner[from], ![from] = None]
  /\ UNCHANGED <<count, worker, missed>>

(* The move assignment to = std::move(from): nobody is told.                *)
MoveAssign(to, from) ==
  /\ count' = [d \in Databases |-> IF d = owner[to] THEN count[d] - 1 ELSE count[d]]
  /\ owner' = [owner EXCEPT ![to] = owner[from], ![from] = None]
  /\ missed' = IF worker.asleep /\ worker.db = owner[to] THEN missed \cup {"drained"} ELSE missed
  /\ UNCHANGED worker

-----------------------------------------------------------------------------
(* DbmsHandler::New and Rename.  A new database has the next id.            *)
Unborn == {d \in Databases : life[d] = "unborn"}
New(n) ==
  LET d == CHOOSE d \in Unborn : TRUE
  IN  /\ ~Locked /\ items[n] = None /\ Unborn # {}
      /\ items' = [items EXCEPT ![n] = d] /\ name' = [name EXCEPT ![d] = n]
      /\ life' = [life EXCEPT ![d] = "open"]
      /\ UNCHANGED <<marked, gates, drop, deferred, storage, mode, missed>>

Rename(old, new) ==
  /\ ~Locked /\ old # DefaultName /\ items[old] # None /\ items[new] = None
  /\ items' = [items EXCEPT ![old] = None, ![new] = items[old]]
  /\ UNCHANGED <<name, life, marked, gates, drop, deferred, storage, mode, missed>>

-----------------------------------------------------------------------------
(* A session.                                                              *)

(* DbmsHandler::Get of USE DATABASE and of a session's configuration.       *)
Get(s, n) ==
  /\ ~Locked /\ mode[s] = "none" /\ owner[Query(s)] = None /\ items[n] # None
  /\ Access(Query(s), items[n])
  /\ UNCHANGED <<items, name, life, marked, worker, drop, deferred, storage, mode, missed>>

(* CurrentDB::SetCurrentDB.                                                *)
SetCurrentDB(s) ==
  /\ mode[s] = "none" /\ owner[Query(s)] # None
  /\ MoveAssign(Current(s), Query(s))
  /\ UNCHANGED <<items, name, life, marked, drop, deferred, storage, mode>>

(* The accessor of a query, a callback or a task goes, ResetInterpreter and  *)
(* ResetDB let go of the session's.                                        *)
Release(s, a) ==
  /\ a \in {Current(s), Query(s)} /\ owner[a] # None
  /\ mode[s] = "none" \/ (mode[s] = "write" /\ a = Query(s))
  /\ Reset(a)
  /\ UNCHANGED <<items, name, life, marked, drop, deferred, storage, mode, missed>>

(* A query, a callback or a task copies the accessor of its session.        *)
Copy(s) ==
  /\ mode[s] \in {"none", "write"} /\ owner[Query(s)] = None /\ owner[Current(s)] # None
  /\ CopyAccessor(Query(s), owner[Current(s)])
  /\ UNCHANGED <<items, name, life, marked, worker, drop, deferred, storage, mode, missed>>

(* cv_.notify_all of an indexer.                                           *)
Woken(d) == IF indexer[d] = "asleep" THEN "woken" ELSE indexer[d]

(* The main_lock_ of a database is held UNIQUE by a SetStorageMode, or for   *)
(* WRITE by a transaction; READ_ONLY, the indexer's, goes with neither.     *)
Exclusive(d) == \E s \in Sessions : mode[s] \in {"waiting", "asleep"} /\ owner[Current(s)] = d
Writing(d) == \E s \in Sessions : mode[s] = "write" /\ owner[Current(s)] = d
Blocked(d) == Exclusive(d) \/ Writing(d)

(* A client's write transaction; it stays open as long as the client likes,  *)
(* and ends without new labels or with Enqueue.                            *)
BeginWrite(s) ==
  LET d == owner[Current(s)]
  IN  /\ mode[s] = "none" /\ d \in Indexed /\ ~Exclusive(d) /\ indexer[d] # "indexing"
      /\ mode' = [mode EXCEPT ![s] = "write"]
      /\ UNCHANGED <<items, name, life, marked, gates, drop, deferred, storage, missed>>

EndWrite(s) ==
  /\ mode[s] = "write" /\ mode' = [mode EXCEPT ![s] = "none"]
  /\ UNCHANGED <<items, name, life, marked, gates, drop, deferred, storage, missed>>

(* AsyncIndexer::Enqueue in the commit of a transaction that saw no index on  *)
(* the label, without mutex_.  One with two labels is like two commits.      *)
Enqueue(s, l) ==
  LET d == owner[Current(s)]
  IN  /\ mode[s] = "write" /\ d \in Indexed /\ l \notin created[d]
      /\ requests' = [requests EXCEPT ![d] = @ \cup {l}]
      /\ indexer' = [indexer EXCEPT ![d] = Woken(d)]
      /\ mode' = [mode EXCEPT ![s] = "none"]
      /\ UNCHANGED <<items, name, life, marked, gates, drop, deferred, stop, created, missed>>

(* SetStorageMode to IN_MEMORY_ANALYTICAL: UniqueAccess, then               *)
(* CompleteRemaining, which waits on the indexer's cv_.  (If the database    *)
(* has constraints it throws before it waits, and nothing has changed.)     *)
SetStorageMode(s) ==
  LET d == owner[Current(s)]
  IN  /\ mode[s] = "none" /\ d \in Indexed /\ ~Blocked(d) /\ indexer[d] # "indexing"
      /\ mode' = [mode EXCEPT ![s] = "waiting"]
      /\ UNCHANGED <<items, name, life, marked, gates, drop, deferred, storage, missed>>

CompleteRemaining(s) ==
  LET d == owner[Current(s)]
  IN  /\ mode[s] = "waiting" /\ indexer[d] \notin Processing
      /\ mode' = [mode EXCEPT ![s] = IF requests[d] = {} \/ indexer[d] = "stopped"
                                     THEN "none" ELSE "asleep"]
      /\ UNCHANGED <<items, name, life, marked, gates, drop, deferred, storage, missed>>

-----------------------------------------------------------------------------
(* The waiter in CompleteRemaining of an indexer that notifies.             *)
WokenModes(d) ==
  [s \in Sessions |-> IF mode[s] = "asleep" /\ owner[Current(s)] = d THEN "waiting" ELSE mode[s]]

(* DROP DATABASE.  AsyncIndexer::Shutdown first asks the thread to stop,     *)
(* without mutex_, and then waits until it has.                            *)
RequestStop(d) ==
  /\ stop' = [stop EXCEPT ![d] = TRUE] /\ indexer' = [indexer EXCEPT ![d] = Woken(d)]
  /\ mode' = WokenModes(d)
  /\ missed' = IF indexer[d] = "park" THEN missed \cup {"stop"} ELSE missed

(* DbmsHandler::Delete_: marked, and its background tasks stopped.          *)
BeginDelete(n) ==
  /\ ~Locked /\ n # DefaultName /\ items[n] # None
  /\ Access(Dropping, items[n])
  /\ marked' = [marked EXCEPT ![items[n]] = TRUE]
  /\ RequestStop(items[n])
  /\ drop' = [pc |-> "join", db |-> items[n], forced |-> TRUE]
  /\ UNCHANGED <<items, name, life, worker, deferred, requests, created>>

(* Mutant: the tasks are asked to stop, and not waited for.                 *)
TasksStopping ==
  /\ drop.pc = "join" /\ drop' = [drop EXCEPT !.pc = "try"]
  /\ UNCHANGED <<items, name, life, marked, gates, deferred, storage, mode, missed>>

TasksStopped ==
  /\ drop.pc = "join" /\ indexer[drop.db] = "stopped"
  /\ drop' = [drop EXCEPT !.pc = "try"]
  /\ UNCHANGED <<items, name, life, marked, gates, deferred, storage, mode, missed>>

(* DbmsHandler::TryDelete, without FORCE.                                  *)
BeginTryDelete(n) ==
  /\ ~Locked /\ n # DefaultName /\ items[n] # None
  /\ Access(Dropping, items[n])
  /\ drop' = [pc |-> "try", db |-> items[n], forced |-> FALSE]
  /\ UNCHANGED <<items, name, life, marked, worker, deferred, storage, mode, missed>>

(* Mutant: whoever else has an accessor.                                   *)
DestroyInUse ==
  /\ drop.pc = "try" /\ life' = [life EXCEPT ![drop.db] = "closing"]
  /\ RequestStop(drop.db) /\ drop' = [drop EXCEPT !.pc = "destroy"]
  /\ UNCHANGED <<items, name, marked, gates, deferred, requests, created>>

(* try_delete with the only accessor: ~Database begins, and it stops the     *)
(* background tasks with the Gatekeeper's mutex_ held.                     *)
Destroy ==
  /\ drop.pc = "try" /\ count[drop.db] = 1
  /\ life' = [life EXCEPT ![drop.db] = "closing"]
  /\ RequestStop(drop.db)
  /\ drop' = [drop EXCEPT !.pc = "destroy"]
  /\ UNCHANGED <<items, name, marked, gates, deferred, requests, created>>

(* The storage goes with everything in it.                                  *)
Free(d) ==
  /\ life' = [life EXCEPT ![d] = "gone"] /\ marked' = [marked EXCEPT ![d] = FALSE]
  /\ requests' = [requests EXCEPT ![d] = {}] /\ created' = [created EXCEPT ![d] = {}]

Erased == [n \in Names |-> IF items[n] = drop.db THEN None ELSE items[n]]

(* The value is gone; the accessor is reset and the Gatekeeper erased.       *)
Destroyed ==
  /\ drop.pc = "destroy" /\ indexer[drop.db] = "stopped"
  /\ Reset(Dropping)
  /\ Free(drop.db)
  /\ items' = Erased /\ drop' = NoDrop
  /\ UNCHANGED <<name, deferred, indexer, stop, mode, missed>>

(* try_delete gives up: the drop fails, or DeferDelete moves the Gatekeeper  *)
(* to the pool.                                                            *)
GiveUp ==
  /\ drop.pc = "try" /\ count[drop.db] # 1
  /\ Reset(Dropping)
  /\ IF drop.forced
     THEN items' = Erased /\ deferred' = Append(deferred, drop.db)
     ELSE UNCHANGED <<items, deferred>>
  /\ drop' = NoDrop
  /\ UNCHANGED <<name, life, marked, storage, mode, missed>>

(* The thread of defer_pool_: ~Gatekeeper waits for the accessors to go.     *)
TakeDeferred ==
  /\ worker.db = None /\ deferred # <<>>
  /\ worker' = [db |-> Head(deferred), asleep |-> FALSE] /\ deferred' = Tail(deferred)
  /\ UNCHANGED <<items, name, life, marked, count, owner, drop, storage, mode, missed>>

Drain ==
  /\ worker.db # None /\ ~worker.asleep
  /\ IF count[worker.db] = 0
     THEN Free(worker.db) /\ worker' = NoWork
     ELSE worker' = [worker EXCEPT !.asleep = TRUE] /\ UNCHANGED <<life, marked, requests, created>>
  /\ UNCHANGED <<items, name, count, owner, drop, deferred, indexer, stop, mode, missed>>

-----------------------------------------------------------------------------
(* The thread of AsyncIndexer.                                             *)
Becomes(d, pc) == indexer' = [indexer EXCEPT ![d] = pc]

(* The wait: its predicate is evaluated before the thread sleeps on cv_; what *)
(* is notified in between is lost.  On its way out it notifies.            *)
Look(d) ==
  /\ life[d] \in {"open", "closing"} /\ indexer[d] \in {"woken", "check"}
  /\ Becomes(d, IF stop[d] THEN "stopped" ELSE IF requests[d] # {} THEN "pick" ELSE "park")
  /\ mode' = IF stop[d] THEN WokenModes(d) ELSE mode
  /\ UNCHANGED <<items, name, life, marked, gates, drop, deferred, stop, requests, created, missed>>

Park(d) ==
  /\ indexer[d] = "park" /\ Becomes(d, "asleep")
  /\ UNCHANGED <<items, name, life, marked, gates, drop, deferred, stop, requests, created, mode, missed>>

(* make_database_protector: the factory looks the database up by the name it *)
(* was made with, without lock_, and takes the Gatekeeper's mutex_.         *)
MutexFree(d) == ~(drop.pc = "destroy" /\ drop.db = d)

(* Mutant: the thread goes on without a database.                          *)
ProtectOrRetry(d) ==
  /\ indexer[d] = "pick" /\ items[name[d]] # None /\ MutexFree(items[name[d]])
  /\ Access(Protector(d), items[name[d]]) /\ Becomes(d, "guarded")
  /\ UNCHANGED <<items, name, life, marked, worker, drop, deferred, stop, requests, created, mode, missed>>

Protect(d) ==
  /\ indexer[d] = "pick"
  /\ LET e == items[name[d]]
     IN  IF e = None
         THEN Becomes(d, "stopped") /\ mode' = WokenModes(d) /\ UNCHANGED <<count, owner>>
         ELSE MutexFree(e) /\ Access(Protector(d), e) /\ Becomes(d, "guarded") /\ UNCHANGED mode
  /\ UNCHANGED <<items, name, life, marked, worker, drop, deferred, stop, requests, created, missed>>

(* ReadOnlyAccess, or its timeout while another has main_lock_: the          *)
(* protector goes, the thread sleeps a while and tries again, whether it was *)
(* asked to stop or not.  (The UniqueAccess of analytical mode is not        *)
(* reached: CompleteRemaining leaves no request, a commit then makes none.)  *)
TakeAccess(d) ==
  /\ indexer[d] = "guarded" /\ ~Blocked(d) /\ Becomes(d, "indexing")
  /\ UNCHANGED <<items, name, life, marked, gates, drop, deferred, stop, requests, created, mode, missed>>

AccessTimesOut(d) ==
  /\ indexer[d] = "guarded" /\ Blocked(d) /\ Becomes(d, "pick") /\ Reset(Protector(d))
  /\ UNCHANGED <<items, name, life, marked, drop, deferred, stop, requests, created, mode, missed>>

(* The index is created and published; on to the next request of this pass,  *)
(* which may miss a new one, or back to the wait.                          *)
CreateIndex(d) ==
  /\ indexer[d] = "indexing" /\ Reset(Protector(d))
  /\ \E l \in requests[d] :
       /\ requests' = [requests EXCEPT ![d] = @ \ {l}]
       /\ created' = [created EXCEPT ![d] = @ \cup {l}]
  /\ \/ Becomes(d, "check")
     \/ requests'[d] # {} /\ Becomes(d, "pick")
  /\ UNCHANGED <<items, name, life, marked, drop, deferred, stop, mode, missed>>

-----------------------------------------------------------------------------
Session(s) ==
  \/ \E n \in Names : Get(s, n)
  \/ SetCurrentDB(s) \/ Release(s, Current(s)) \/ Release(s, Query(s)) \/ Copy(s)
  \/ BeginWrite(s) \/ EndWrite(s) \/ (\E l \in Labels : Enqueue(s, l))
  \/ SetStorageMode(s) \/ CompleteRemaining(s)
Dropper == TasksStopped \/ Destroy \/ Destroyed \/ GiveUp
Pool == TakeDeferred \/ Drain
Indexer(d) ==
  Look(d) \/ Park(d) \/ Protect(d) \/ TakeAccess(d) \/ AccessTimesOut(d) \/ CreateIndex(d)

Next ==
  \/ \E n \in Names : New(n) \/ BeginDelete(n) \/ BeginTryDelete(n)
  \/ \E old, new \in Names : Rename(old, new)
  \/ Dropper \/ Pool
  \/ \E s \in Sessions : Session(s)
  \/ \E d \in Databases : Indexer(d)

Spec == Init /\ [][Next]_vars

(* The threads go on when they can.  No client is counted on: a transaction   *)
(* may stay open and an accessor be kept for ever.                         *)
Fairness ==
  /\ WF_vars(Dropper) /\ WF_vars(Pool)
  /\ \A s \in Sessions : WF_vars(CompleteRemaining(s))
  /\ \A d \in Databases : WF_vars(Indexer(d))
FairSpec == Spec /\ Fairness

-----------------------------------------------------------------------------
TypeOK ==
  /\ items \in [Names -> Databases \cup {None}] /\ name \in [Databases -> Names]
  /\ life \in [Databases -> {"unborn", "open", "closing", "gone"}]
  /\ marked \in [Databases -> BOOLEAN] /\ count \in [Databases -> Nat]
  /\ owner \in [Accessors -> Databases \cup {None}]
  /\ drop \in [pc : {"idle", "join", "try", "destroy"}, db : Databases \cup {None}, forced : BOOLEAN]
  /\ deferred \in Seq(Databases)
  /\ worker \in [db : Databases \cup {None}, asleep : BOOLEAN]
  /\ indexer \in [Databases -> Processing \cup {"woken", "asleep", "stopped"}]
  /\ stop \in [Databases -> BOOLEAN] /\ requests \in [Databases -> SUBSET Labels]
  /\ created \in [Databases -> SUBSET Labels]
  /\ mode \in [Sessions -> {"none", "write", "waiting", "asleep"}] /\ missed \subseteq {"stop", "drained"}

(* Gatekeeper: whatever the order of copies, moves, resets and drops, an      *)
(* accessor's database exists; only the drop itself has one of a database    *)
(* that is being destroyed.                                                *)
NoDanglingAccess ==
  \A a \in Accessors :
    owner[a] # None => life[owner[a]] = "open" \/ (a = Dropping /\ life[owner[a]] = "closing")

(* count_ is the number of accessors: try_delete and ~Gatekeeper rely on it. *)
CountExact == \A d \in Databases : count[d] = Cardinality(HeldOf(d))

(* StopAllBackgroundTasks: the thread of the indexer does not outlive the    *)
(* storage it works on, by whichever way the database goes.                 *)
IndexerStopsFirst == \A d \in Databases : life[d] = "gone" => indexer[d] = "stopped"

(* What can keep a drop from ending: the indexer was about to sleep when it   *)
(* was asked to stop; it waits for the mutex_ that try_delete holds over      *)
(* ~Database; it cannot get the main_lock_ of a session whose SetStorageMode  *)
(* waits for the indexer; it cannot get the main_lock_ of a transaction.      *)
StopMissed == "stop" \in missed
MutexCycle == drop.pc = "destroy" /\ indexer[drop.db] = "pick" /\ items[name[drop.db]] = drop.db
ModeChange == Exclusive(drop.db)
Writer == Writing(drop.db)

(* DROP DATABASE returns, and lock_ with it, in no other way does it hang:    *)
(* once clients leave no transactions open, with the three others excepted. *)
DropEndsUnlessStuck ==
  <>[](\A d \in Databases : ~Writing(d)) =>
     (Locked ~> (~Locked \/ StopMissed \/ MutexCycle \/ ModeChange))

(* DROP DATABASE does "delete or defer deletion of database"                 *)
(* (dbms_handler.hpp:274): it does not wait for the users, who "continue      *)
(* using the db until they commit/abort" (interpreter.cpp:7686).  It fails:   *)
(* the stop of the indexer waits for a client that left a transaction open.  *)
(* (Transactions that come and go, each time the indexer tries, are left out.) *)
DropNeedsNoClient ==
  (\A d \in Databases : <>[]Writing(d) \/ <>[]~Writing(d)) =>
     (Locked ~> (~Locked \/ StopMissed \/ MutexCycle \/ ModeChange))

(* The indexer sees the request to stop: the destruction of a storage "should  *)
(* cleanly shut down the async indexer thread"                              *)
(* (database_protector_test.cpp:264).  It fails: the request comes between    *)
(* the thread's test and its sleep.                                        *)
StopIsSeen == Locked ~> (~Locked \/ MutexCycle \/ ModeChange \/ Writer)

(* "Database has been dropped, we should aim to stop this worker ASAP"        *)
(* (async_indexer.cpp:104).  It fails: the indexer, about to ask for a         *)
(* protector, waits for the mutex_ of the drop that waits for it.            *)
DropNeedsNoProtector == Locked ~> (~Locked \/ StopMissed \/ ModeChange \/ Writer)

(* SetStorageMode is to "ensure all pending work has been completed"          *)
(* (storage.cpp:2754).  It fails: it waits, with UNIQUE access, for an indexer *)
(* that waits for access.                                                  *)
ModeChangeEnds == \A s \in Sessions : mode[s] = "waiting" ~> mode[s] = "none"

(* DeferDelete: the pool's thread is done with a database that was dropped    *)
(* while in use once its last accessor has gone, and goes on to the next,    *)
(* except that an accessor that goes by assignment tells nobody.           *)
DeferredEnds ==
  (worker.db # None /\ count[worker.db] = 0) ~> (worker.db = None \/ "drained" \in missed)

(* The one thread of the pool gets to every database in its queue, if every   *)
(* database there is let go of in the end.                                 *)
Pooled == {d \in Databases : d = worker.db \/ \E i \in DOMAIN deferred : deferred[i] = d}
PooledEnds ==
  <>[](\A d \in Pooled : count[d] = 0) =>
     \A d \in Databases : d \in Pooled ~> (life[d] = "gone" \/ "drained" \in missed)

(* "Wait for count to drain to 0" (gatekeeper.hpp:284), without the exception. *)
DrainIsNoticed == (worker.db # None /\ count[worker.db] = 0) ~> worker.db = None

=============================================================================

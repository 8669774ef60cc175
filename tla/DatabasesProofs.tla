-------------------------- MODULE DatabasesProofs --------------------------
(***************************************************************************)
(* Proofs, for any finite sets of databases and sessions, that a database  *)
(* is not destroyed while an accessor of it is held, that the counter of    *)
(* its Gatekeeper is exact and that its indexer has stopped by then.        *)
(***************************************************************************)
EXTENDS Databases, FiniteSetTheorems, TLAPS

(* The drop under way has one accessor, of the database it drops, and the   *)
(* database is closing from the start of ~Database on.                     *)
DropHolds ==
  /\ owner[Dropping] = drop.db
  /\ drop.pc = "idle" <=> drop.db = None
  /\ drop.pc = "destroy" => life[drop.db] = "closing"

(* An indexer has its protector exactly while it works on a request.        *)
ProtectedWhileWorking ==
  \A d \in Databases : indexer[d] \in {"guarded", "indexing"} <=> owner[Protector(d)] # None

(* The background tasks of a database have stopped before its Gatekeeper     *)
(* may go to the pool, and stay so.                                        *)
StoppedBeforeDeferred ==
  /\ drop.forced /\ drop.pc = "try" => indexer[drop.db] = "stopped"
  /\ \A i \in 1..Len(deferred) : indexer[deferred[i]] = "stopped"
  /\ worker.db # None => indexer[worker.db] = "stopped"

(* Handler::items_: it names a database only while there is one, and none   *)
(* that has gone to the pool.                                              *)
NamedDatabasesExist ==
  \A n \in Names : items[n] # None =>
    life[items[n]] = "open" \/ (drop.pc = "destroy" /\ items[n] = drop.db)
NotNamedOncePooled ==
  /\ \A i \in 1..Len(deferred) :
       life[deferred[i]] # "unborn" /\ \A n \in Names : items[n] # deferred[i]
  /\ worker.db # None => life[worker.db] # "unborn" /\ \A n \in Names : items[n] # worker.db

(* The default database is always there under its name, and under no other. *)
DefaultStays ==
  /\ items[DefaultName] = Default /\ life[Default] = "open"
  /\ \A n \in Names : items[n] = Default => n = DefaultName
  /\ drop.db # Default

IInv ==
  /\ TypeOK /\ CountExact /\ NoDanglingAccess /\ IndexerStopsFirst
  /\ DropHolds /\ ProtectedWhileWorking /\ StoppedBeforeDeferred
  /\ NamedDatabasesExist /\ NotNamedOncePooled /\ DefaultStays

-----------------------------------------------------------------------------
(* The accessors: they are finitely many and of four kinds.                *)

(* Finitely many sessions and databases have finitely many accessors.       *)
LEMMA AccessorsFinite == IsFiniteSet(Accessors)
<1>1. IsFiniteSet({"current", "query", "protector", "drop"} \X (Sessions \cup Databases \cup {None}))
  <2>1. IsFiniteSet({"current", "query", "protector", "drop"})
    <3>1. IsFiniteSet({"current"})
      BY FS_Singleton
    <3>2. IsFiniteSet({"current"} \cup {"query"})
      BY <3>1, FS_AddElement
    <3>3. IsFiniteSet(({"current"} \cup {"query"}) \cup {"protector"})
      BY <3>2, FS_AddElement
    <3>4. IsFiniteSet((({"current"} \cup {"query"}) \cup {"protector"}) \cup {"drop"})
      BY <3>3, FS_AddElement
    <3>5. (({"current"} \cup {"query"}) \cup {"protector"}) \cup {"drop"}
             = {"current", "query", "protector", "drop"}
      OBVIOUS
    <3> QED BY <3>4, <3>5
  <2>2. IsFiniteSet(Sessions \cup Databases)
    BY FS_Union, DatabasesAssumption
  <2>3. IsFiniteSet((Sessions \cup Databases) \cup {None})
    BY <2>2, FS_AddElement
  <2> QED BY <2>1, <2>3, FS_Product
<1>2. Accessors \subseteq {"current", "query", "protector", "drop"} \X (Sessions \cup Databases \cup {None})
  BY DEF Accessors, Current, Query, Protector, Dropping
<1> QED BY <1>1, <1>2, FS_Subset

(* The accessors of a session, of an indexer and of a drop are different    *)
(* ones.                                                                    *)
LEMMA AccessorKinds ==
  /\ Dropping \in Accessors
  /\ \A s \in Sessions :
       /\ Current(s) \in Accessors /\ Query(s) \in Accessors
       /\ Current(s) # Query(s) /\ Current(s) # Dropping /\ Query(s) # Dropping
  /\ \A d \in Databases : Protector(d) \in Accessors /\ Protector(d) # Dropping
  /\ \A s \in Sessions, d \in Databases : Protector(d) # Current(s) /\ Protector(d) # Query(s)
  /\ \A d, e \in Databases : d # e => Protector(d) # Protector(e)
<1>1. /\ \A s, d : <<"current", s>> # <<"query", d>> /\ <<"current", s>> # <<"drop", d>>
      /\ \A s, d : <<"query", s>> # <<"drop", d>> /\ <<"protector", d>> # <<"drop", s>>
      /\ \A s, d : <<"protector", d>> # <<"current", s>> /\ <<"protector", d>> # <<"query", s>>
      /\ \A d, e : d # e => <<"protector", d>> # <<"protector", e>>
  OBVIOUS
<1> QED BY <1>1 DEF Accessors, Current, Query, Protector, Dropping

(* The accessors of a database are finitely many, and if there is one,      *)
(* count_ is positive.                                                     *)
LEMMA HeldFinite ==
  ASSUME NEW d
  PROVE  IsFiniteSet(HeldOf(d)) /\ IsFiniteSet(HeldOf(d)') /\ Cardinality(HeldOf(d)) \in Nat
<1>1. HeldOf(d) \subseteq Accessors /\ HeldOf(d)' \subseteq Accessors
  BY DEF HeldOf
<1> QED BY <1>1, AccessorsFinite, FS_Subset, FS_CardinalityType

(* A database somebody has an accessor of is counted.                       *)
LEMMA HeldCounts ==
  ASSUME TypeOK, CountExact, NEW a \in Accessors, owner[a] # None
  PROVE  owner[a] \in Databases /\ count[owner[a]] > 0
<1>1. owner[a] \in Databases /\ a \in HeldOf(owner[a])
  BY DEF TypeOK, HeldOf
<1>2. Cardinality(HeldOf(owner[a])) # 0
  BY <1>1, HeldFinite, FS_EmptySet
<1> QED BY <1>1, <1>2, HeldFinite DEF CountExact

(* A count of zero: nobody has an accessor.  A count of one: only a has.     *)
LEMMA NobodyElse ==
  ASSUME TypeOK, CountExact, NEW d \in Databases
  PROVE  /\ count[d] = 0 => \A a \in Accessors : owner[a] # d
         /\ count[d] = 1 => \A a, b \in Accessors : owner[a] = d /\ owner[b] = d => a = b
<1>1. count[d] = Cardinality(HeldOf(d)) /\ IsFiniteSet(HeldOf(d))
  BY HeldFinite DEF CountExact
<1>2. count[d] = 0 => HeldOf(d) = {}
  BY <1>1, FS_EmptySet
<1>3. count[d] = 1 => \E x : HeldOf(d) = {x}
  BY <1>1, FS_Singleton
<1> QED BY <1>2, <1>3 DEF HeldOf

-----------------------------------------------------------------------------
(* Gatekeeper: copies, resets and moves keep the count exact.               *)

(* The constructor and the copy constructor of Accessor count one up.       *)
LEMMA CopyCounts ==
  ASSUME TypeOK, CountExact, NEW a \in Accessors, NEW d \in Databases,
         owner[a] = None, CopyAccessor(a, d)
  PROVE  /\ owner' \in [Accessors -> Databases \cup {None}]
         /\ count' \in [Databases -> Nat] /\ CountExact'
<1>1. /\ owner' \in [Accessors -> Databases \cup {None}] /\ count' \in [Databases -> Nat]
      /\ owner'[a] = d /\ \A b \in Accessors : b # a => owner'[b] = owner[b]
  BY DEF TypeOK, CopyAccessor
<1>2. ASSUME NEW e \in Databases PROVE count'[e] = Cardinality(HeldOf(e)')
  <2>1. CASE e = d
    <3>1. HeldOf(d)' = HeldOf(d) \cup {a} /\ a \notin HeldOf(d)
      BY <1>1, DatabasesAssumption DEF HeldOf
    <3>2. Cardinality(HeldOf(d)') = Cardinality(HeldOf(d)) + 1
      BY <3>1, HeldFinite, FS_AddElement
    <3> QED BY <2>1, <3>2 DEF CountExact, CopyAccessor, TypeOK
  <2>2. CASE e # d
    <3>1. HeldOf(e)' = HeldOf(e)
      BY <1>1, <2>2, DatabasesAssumption DEF HeldOf
    <3> QED BY <2>2, <3>1 DEF CountExact, CopyAccessor, TypeOK
  <2> QED BY <2>1, <2>2
<1> QED BY <1>1, <1>2 DEF CountExact

(* Accessor::reset counts one down.                                         *)
LEMMA ResetCounts ==
  ASSUME TypeOK, CountExact, NEW a \in Accessors, owner[a] # None, Reset(a)
  PROVE  /\ owner' \in [Accessors -> Databases \cup {None}]
         /\ count' \in [Databases -> Nat] /\ CountExact'
         /\ worker' \in [db : Databases \cup {None}, asleep : BOOLEAN]
         /\ worker'.db = worker.db
<1> DEFINE d == owner[a]
<1>1. d \in Databases /\ count[d] > 0
  BY HeldCounts
<1>2. /\ owner' \in [Accessors -> Databases \cup {None}] /\ count' \in [Databases -> Nat]
      /\ owner'[a] = None /\ \A b \in Accessors : b # a => owner'[b] = owner[b]
  BY <1>1 DEF TypeOK, Reset
<1>3. worker' \in [db : Databases \cup {None}, asleep : BOOLEAN] /\ worker'.db = worker.db
  BY DEF TypeOK, Reset
<1>4. ASSUME NEW e \in Databases PROVE count'[e] = Cardinality(HeldOf(e)')
  <2>1. CASE e = d
    <3>1. HeldOf(e)' = HeldOf(e) \ {a} /\ a \in HeldOf(e)
      BY <1>1, <1>2, <2>1, DatabasesAssumption DEF HeldOf
    <3>2. Cardinality(HeldOf(e)') = Cardinality(HeldOf(e)) - 1
      BY <3>1, HeldFinite, FS_RemoveElement
    <3> QED BY <1>1, <2>1, <3>2 DEF CountExact, Reset, TypeOK
  <2>2. CASE e # d
    <3>1. HeldOf(e)' = HeldOf(e)
      BY <1>2, <2>2, DatabasesAssumption DEF HeldOf
    <3> QED BY <1>1, <2>2, <3>1 DEF CountExact, Reset, TypeOK
  <2> QED BY <2>1, <2>2
<1> QED BY <1>2, <1>3, <1>4 DEF CountExact

(* A move assignment counts one down if it overwrites, and else nothing.    *)
LEMMA MoveCounts ==
  ASSUME TypeOK, CountExact, NEW to \in Accessors, NEW from \in Accessors, to # from,
         owner[from] # None, MoveAssign(to, from)
  PROVE  /\ owner' \in [Accessors -> Databases \cup {None}]
         /\ count' \in [Databases -> Nat] /\ CountExact'
<1>1. /\ owner' \in [Accessors -> Databases \cup {None}]
      /\ owner'[to] = owner[from] /\ owner'[from] = None
      /\ \A b \in Accessors \ {to, from} : owner'[b] = owner[b]
  BY DEF TypeOK, MoveAssign
<1>2. count' \in [Databases -> Nat]
  BY HeldCounts, DatabasesAssumption DEF TypeOK, MoveAssign
<1>3. ASSUME NEW e \in Databases PROVE count'[e] = Cardinality(HeldOf(e)')
  <2> DEFINE kept == HeldOf(e) \ {to}
  <2>1. Cardinality(kept) = count'[e] /\ IsFiniteSet(kept)
    <3>1. to \in HeldOf(e) <=> e = owner[to]
      BY DEF HeldOf
    <3>2. /\ IsFiniteSet(kept)
          /\ Cardinality(kept) = IF to \in HeldOf(e) THEN Cardinality(HeldOf(e)) - 1
                                                     ELSE Cardinality(HeldOf(e))
      BY HeldFinite, FS_RemoveElement
    <3> QED BY <3>1, <3>2 DEF CountExact, MoveAssign
  <2>2. CASE owner[from] = e
    <3>1. HeldOf(e)' = (kept \ {from}) \cup {to} /\ from \in kept /\ to \notin kept \ {from}
      BY <1>1, <2>2, DatabasesAssumption DEF HeldOf
    <3>2. IsFiniteSet(kept \ {from}) /\ Cardinality(kept \ {from}) = Cardinality(kept) - 1
      BY <2>1, <3>1, FS_RemoveElement
    <3>3. Cardinality(HeldOf(e)') = Cardinality(kept \ {from}) + 1
      BY <3>1, <3>2, FS_AddElement
    <3> QED BY <2>1, <3>2, <3>3, <1>2
  <2>3. CASE owner[from] # e
    <3>1. HeldOf(e)' = kept
      BY <1>1, <2>3, DatabasesAssumption DEF HeldOf
    <3> QED BY <2>1, <3>1
  <2> QED BY <2>2, <2>3
<1> QED BY <1>1, <1>2, <1>3 DEF CountExact

-----------------------------------------------------------------------------
(* The steps.                                                              *)

(* There is no database yet.                                                *)
LEMMA InitIInv == Init => IInv
<1> SUFFICES ASSUME Init PROVE IInv
  OBVIOUS
<1>1. TypeOK
  <2>1. Processing \subseteq Processing \cup {"woken", "asleep", "stopped"}
    OBVIOUS
  <2> QED BY DatabasesAssumption DEF Init, TypeOK, NoDrop, NoWork
<1>2. CountExact
  <2>1. \A d \in Databases : HeldOf(d) = {}
    BY DatabasesAssumption DEF Init, HeldOf
  <2> QED BY <2>1, FS_EmptySet DEF Init, CountExact
<1>3. NoDanglingAccess /\ IndexerStopsFirst /\ DropHolds
  BY AccessorKinds DEF Init, NoDanglingAccess, IndexerStopsFirst, DropHolds, NoDrop
<1>4. ProtectedWhileWorking /\ StoppedBeforeDeferred
  BY AccessorKinds DEF Init, ProtectedWhileWorking, StoppedBeforeDeferred, NoDrop, NoWork
<1>5. NamedDatabasesExist /\ NotNamedOncePooled /\ DefaultStays
  BY DatabasesAssumption
  DEF Init, NamedDatabasesExist, NotNamedOncePooled, DefaultStays, NoDrop, NoWork
<1> QED BY <1>1, <1>2, <1>3, <1>4, <1>5 DEF IInv

(* Nothing happens to the accessors.                                       *)
LEMMA SameAccessors ==
  ASSUME CountExact, owner' = owner, count' = count
  PROVE  CountExact'
BY DEF CountExact, HeldOf

(* NewDatabaseHandler::New_ makes a database nobody has.                    *)
LEMMA NewStep ==
  ASSUME IInv, NEW n \in Names, New(n)
  PROVE  IInv'
<1> DEFINE d == CHOOSE d \in Unborn : TRUE
<1>1. d \in Databases /\ life[d] = "unborn"
  BY DEF New, Unborn
<1>2. /\ items' = [items EXCEPT ![n] = d] /\ name' = [name EXCEPT ![d] = n]
      /\ life' = [life EXCEPT ![d] = "open"] /\ drop.pc = "idle" /\ items[n] = None
      /\ UNCHANGED <<marked, gates, drop, deferred, storage, mode, missed>>
  BY DEF New, Locked
<1> HIDE DEF d
<1>3. TypeOK'
  BY <1>1, <1>2 DEF IInv, TypeOK, gates, storage
<1>4. CountExact'
  BY <1>2, SameAccessors DEF IInv, gates
<1>5. NoDanglingAccess' /\ IndexerStopsFirst'
  BY <1>1, <1>2 DEF IInv, TypeOK, NoDanglingAccess, IndexerStopsFirst, gates, storage
<1>6. DropHolds' /\ ProtectedWhileWorking' /\ StoppedBeforeDeferred'
  BY <1>2 DEF IInv, DropHolds, ProtectedWhileWorking, StoppedBeforeDeferred, gates, storage
<1>7. NamedDatabasesExist'
  BY <1>1, <1>2 DEF IInv, TypeOK, NamedDatabasesExist
<1>8. NotNamedOncePooled'
  <2>1. \A i \in 1..Len(deferred) : deferred[i] \in Databases
    BY DEF IInv, TypeOK
  <2> QED BY <1>1, <1>2, <2>1, DatabasesAssumption DEF IInv, TypeOK, NotNamedOncePooled, gates
<1>9. DefaultStays'
  BY <1>1, <1>2, DatabasesAssumption DEF IInv, TypeOK, DefaultStays
<1> QED BY <1>3, <1>4, <1>5, <1>6, <1>7, <1>8, <1>9 DEF IInv

(* A rename moves the gatekeeper to another name.                           *)
LEMMA RenameStep ==
  ASSUME IInv, NEW old \in Names, NEW new \in Names, Rename(old, new)
  PROVE  IInv'
<1>1. TypeOK' /\ CountExact'
  BY SameAccessors DEF IInv, TypeOK, Rename, gates, storage
<1>2. NoDanglingAccess' /\ IndexerStopsFirst'
  BY DEF IInv, NoDanglingAccess, IndexerStopsFirst, Rename, gates, storage
<1>3. DropHolds' /\ ProtectedWhileWorking' /\ StoppedBeforeDeferred'
  BY DEF IInv, DropHolds, ProtectedWhileWorking, StoppedBeforeDeferred, Rename, gates, storage
<1>4. \A n \in Names : items'[n] # None => \E m \in Names : items'[n] = items[m]
  BY DEF IInv, TypeOK, Rename
<1>5. NamedDatabasesExist'
  <2>1. life' = life /\ drop' = drop /\ NamedDatabasesExist
    BY DEF IInv, Rename
  <2> QED BY <1>4, <2>1 DEF NamedDatabasesExist
<1>6. NotNamedOncePooled'
  BY <1>4, DatabasesAssumption DEF IInv, TypeOK, NotNamedOncePooled, Rename, gates
<1>7. DefaultStays'
  BY DatabasesAssumption DEF IInv, TypeOK, DefaultStays, Rename
<1> QED BY <1>1, <1>2, <1>3, <1>5, <1>6, <1>7 DEF IInv

(* The thread of an indexer moved, or was told something, and no accessor,   *)
(* database or name changed.  It does not come back once it has stopped.    *)
LEMMA IndexerMoves ==
  ASSUME IInv, NEW d \in Databases, NEW pc \in Processing \cup {"woken", "asleep", "stopped"},
         indexer' = [indexer EXCEPT ![d] = pc],
         indexer[d] = "stopped" => pc = "stopped",
         indexer[d] \in {"guarded", "indexing"} <=> pc \in {"guarded", "indexing"},
         UNCHANGED <<items, life, gates, drop, deferred>>, TypeOK'
  PROVE  IInv'
<1>1. CountExact'
  BY SameAccessors DEF IInv, gates
<1>2. \A e \in Databases :
        /\ indexer[e] = "stopped" => indexer'[e] = "stopped"
        /\ indexer[e] \in {"guarded", "indexing"} <=> indexer'[e] \in {"guarded", "indexing"}
  BY DEF IInv, TypeOK
<1>3. NoDanglingAccess' /\ IndexerStopsFirst' /\ DropHolds' /\ ProtectedWhileWorking'
  BY <1>2 DEF IInv, NoDanglingAccess, IndexerStopsFirst, DropHolds, ProtectedWhileWorking, gates
<1>4. StoppedBeforeDeferred'
  <2>1. /\ \A i \in 1..Len(deferred) : deferred[i] \in Databases
        /\ worker.db # None => worker.db \in Databases
        /\ drop.pc # "idle" => drop.db \in Databases
    BY DEF IInv, TypeOK, DropHolds
  <2> QED BY <1>2, <2>1 DEF IInv, StoppedBeforeDeferred, gates
<1>5. NamedDatabasesExist' /\ NotNamedOncePooled' /\ DefaultStays'
  BY DEF IInv, NamedDatabasesExist, NotNamedOncePooled, DefaultStays, gates
<1> QED BY <1>1, <1>3, <1>4, <1>5 DEF IInv

(* Only modes, requests, indices and the history change.                   *)
LEMMA ModeMoves ==
  ASSUME IInv, UNCHANGED <<items, life, gates, drop, deferred, indexer>>, TypeOK'
  PROVE  IInv'
<1>1. CountExact'
  BY SameAccessors DEF IInv, gates
<1>2. NoDanglingAccess' /\ IndexerStopsFirst' /\ DropHolds' /\ ProtectedWhileWorking'
  BY DEF IInv, NoDanglingAccess, IndexerStopsFirst, DropHolds, ProtectedWhileWorking, gates
<1>3. StoppedBeforeDeferred'
  BY DEF IInv, StoppedBeforeDeferred, gates
<1>4. NamedDatabasesExist' /\ NotNamedOncePooled' /\ DefaultStays'
  BY DEF IInv, NamedDatabasesExist, NotNamedOncePooled, DefaultStays, gates
<1> QED BY <1>1, <1>2, <1>3, <1>4 DEF IInv

(* What a notification leaves.                                             *)
LEMMA WokenTypes ==
  ASSUME TypeOK, NEW d \in Databases
  PROVE  /\ Woken(d) \in Processing \cup {"woken", "asleep", "stopped"}
         /\ indexer[d] = "stopped" <=> Woken(d) = "stopped"
         /\ indexer[d] \in {"guarded", "indexing"} <=> Woken(d) \in {"guarded", "indexing"}
         /\ WokenModes(d) \in [Sessions -> {"none", "write", "waiting", "asleep"}]
<1>1. indexer[d] \in Processing \cup {"woken", "asleep", "stopped"}
  BY DEF TypeOK
<1> QED BY <1>1 DEF TypeOK, Woken, WokenModes

(* A query puts a request before the indexer.                               *)
LEMMA EnqueueStep ==
  ASSUME IInv, NEW s \in Sessions, NEW l \in Labels, Enqueue(s, l)
  PROVE  IInv'
<1> DEFINE d == owner[Current(s)]
<1>1. d \in Databases
  BY DatabasesAssumption DEF Enqueue
<1>2. TypeOK'
  BY <1>1, WokenTypes DEF IInv, TypeOK, Enqueue, gates
<1> QED BY <1>1, <1>2, WokenTypes, IndexerMoves DEF IInv, Enqueue

(* Neither a transaction nor a change of the storage mode touches the gates. *)
LEMMA SetStorageModeStep ==
  ASSUME IInv, NEW s \in Sessions,
         BeginWrite(s) \/ EndWrite(s) \/ SetStorageMode(s) \/ CompleteRemaining(s)
  PROVE  IInv'
<1>1. TypeOK'
  BY DEF IInv, TypeOK, BeginWrite, EndWrite, SetStorageMode, CompleteRemaining, gates, storage
<1>2. UNCHANGED <<items, life, gates, drop, deferred, indexer>>
  BY DEF BeginWrite, EndWrite, SetStorageMode, CompleteRemaining, storage
<1> QED BY <1>1, <1>2, ModeMoves

(* The indexer looks at its queue.                                          *)
LEMMA LookStep ==
  ASSUME IInv, NEW d \in Databases, Look(d)
  PROVE  IInv'
<1> DEFINE pc == IF stop[d] THEN "stopped" ELSE IF requests[d] # {} THEN "pick" ELSE "park"
<1>1. pc \in Processing \cup {"woken", "asleep", "stopped"} /\ pc \notin {"guarded", "indexing"}
  BY DEF Processing
<1>2. indexer[d] \in {"woken", "check"} /\ indexer' = [indexer EXCEPT ![d] = pc]
  BY DEF Look, Becomes
<1>3. TypeOK'
  BY <1>1, <1>2, WokenTypes DEF IInv, TypeOK, Look, gates
<1>4. UNCHANGED <<items, life, gates, drop, deferred>>
  BY DEF Look
<1> HIDE DEF pc
<1> QED BY <1>1, <1>2, <1>3, <1>4, IndexerMoves

(* It goes to sleep.                                                        *)
LEMMA ParkStep ==
  ASSUME IInv, NEW d \in Databases, Park(d)
  PROVE  IInv'
<1>1. TypeOK'
  BY DEF IInv, TypeOK, Park, Becomes, gates
<1> QED BY <1>1, IndexerMoves DEF Park, Becomes

(* It takes its access to the storage.                                      *)
LEMMA TakeAccessStep ==
  ASSUME IInv, NEW d \in Databases, TakeAccess(d)
  PROVE  IInv'
<1>1. TypeOK'
  BY DEF IInv, TypeOK, TakeAccess, Becomes, gates, Processing
<1> QED BY <1>1, IndexerMoves DEF TakeAccess, Becomes, Processing

(* ~Database has joined the indexer: the gate is closed after it.           *)
LEMMA TasksStoppedStep ==
  ASSUME IInv, TasksStopped
  PROVE  IInv'
<1>1. /\ drop.pc = "join" /\ drop'.pc = "try" /\ drop'.db = drop.db
      /\ indexer[drop.db] = "stopped"
      /\ UNCHANGED <<items, name, life, marked, gates, deferred, storage, mode, missed>>
      /\ drop' \in [pc : {"idle", "join", "try", "destroy"}, db : Databases \cup {None}, forced : BOOLEAN]
  BY DEF IInv, TypeOK, TasksStopped
<1>2. TypeOK' /\ CountExact'
  BY <1>1, SameAccessors DEF IInv, TypeOK, gates, storage
<1>3. NoDanglingAccess' /\ IndexerStopsFirst' /\ DropHolds' /\ ProtectedWhileWorking'
  BY <1>1 DEF IInv, NoDanglingAccess, IndexerStopsFirst, DropHolds, ProtectedWhileWorking,
              gates, storage
<1>4. StoppedBeforeDeferred'
  BY <1>1 DEF IInv, StoppedBeforeDeferred, gates, storage
<1>5. NamedDatabasesExist' /\ NotNamedOncePooled' /\ DefaultStays'
  BY <1>1 DEF IInv, NamedDatabasesExist, NotNamedOncePooled, DefaultStays, gates
<1> QED BY <1>2, <1>3, <1>4, <1>5 DEF IInv

(* The pool takes the first Gatekeeper of its queue.                       *)
LEMMA TakeDeferredStep ==
  ASSUME IInv, TakeDeferred
  PROVE  IInv'
<1>1. /\ deferred \in Seq(Databases) /\ deferred # <<>> /\ deferred' = Tail(deferred)
      /\ worker' = [db |-> Head(deferred), asleep |-> FALSE]
      /\ UNCHANGED <<items, name, life, marked, count, owner, drop, storage, mode, missed>>
  BY DEF IInv, TypeOK, TakeDeferred
<1>2. /\ Tail(deferred) \in Seq(Databases) /\ Head(deferred) \in Databases
      /\ Head(deferred) = deferred[1] /\ 1 \in 1..Len(deferred)
      /\ \A i \in 1..Len(Tail(deferred)) : i + 1 \in 1..Len(deferred) /\ Tail(deferred)[i] = deferred[i + 1]
  BY <1>1
<1>3. TypeOK' /\ CountExact'
  BY <1>1, <1>2, SameAccessors DEF IInv, TypeOK, storage
<1>4. NoDanglingAccess' /\ IndexerStopsFirst' /\ DropHolds' /\ ProtectedWhileWorking'
  BY <1>1 DEF IInv, NoDanglingAccess, IndexerStopsFirst, DropHolds, ProtectedWhileWorking, storage
<1>5. StoppedBeforeDeferred'
  BY <1>1, <1>2 DEF IInv, StoppedBeforeDeferred, storage
<1>6. NotNamedOncePooled'
  BY <1>1, <1>2 DEF IInv, NotNamedOncePooled
<1>7. NamedDatabasesExist' /\ DefaultStays'
  BY <1>1 DEF IInv, NamedDatabasesExist, DefaultStays
<1> QED BY <1>3, <1>4, <1>5, <1>6, <1>7 DEF IInv

(* ~Gatekeeper: it destroys the database when the last accessor has gone,    *)
(* and else sleeps.                                                        *)
LEMMA DrainStep ==
  ASSUME IInv, Drain
  PROVE  IInv'
<1> DEFINE d == worker.db
<1>1. d \in Databases /\ indexer[d] = "stopped" /\ \A n \in Names : items[n] # d
  BY DEF IInv, TypeOK, Drain, StoppedBeforeDeferred, NotNamedOncePooled
<1>2. UNCHANGED <<items, name, count, owner, drop, deferred, indexer, stop, mode, missed>>
  BY DEF Drain
<1>3. CountExact'
  BY <1>2, SameAccessors DEF IInv
<1>4. CASE count[d] # 0
  <2>1. /\ UNCHANGED <<life, marked, requests, created>> /\ worker'.db = worker.db
        /\ worker' \in [db : Databases \cup {None}, asleep : BOOLEAN]
    BY <1>4 DEF Drain, IInv, TypeOK
  <2>2. TypeOK'
    BY <1>2, <2>1 DEF IInv, TypeOK
  <2>3. NoDanglingAccess' /\ IndexerStopsFirst' /\ DropHolds' /\ ProtectedWhileWorking'
    BY <1>2, <2>1 DEF IInv, NoDanglingAccess, IndexerStopsFirst, DropHolds, ProtectedWhileWorking
  <2>4. StoppedBeforeDeferred'
    BY <1>2, <2>1 DEF IInv, StoppedBeforeDeferred
  <2>5. NamedDatabasesExist' /\ NotNamedOncePooled' /\ DefaultStays'
    BY <1>2, <2>1 DEF IInv, NamedDatabasesExist, NotNamedOncePooled, DefaultStays
  <2> QED BY <1>3, <2>2, <2>3, <2>4, <2>5 DEF IInv
<1>5. CASE count[d] = 0
  <2>1. Free(d) /\ worker' = NoWork
    BY <1>5 DEF Drain
  <2>2. /\ life'[d] = "gone" /\ \A e \in Databases : e # d => life'[e] = life[e]
        /\ worker'.db = None
    BY <1>1, <2>1 DEF IInv, TypeOK, Free, NoWork
  <2>3. TypeOK'
    BY <1>1, <1>2, <2>1 DEF IInv, TypeOK, Free, NoWork
  <2>4. \A a \in Accessors : owner[a] # d
    BY <1>1, <1>5, NobodyElse DEF IInv
  <2>5. NoDanglingAccess'
    BY <1>2, <2>2, <2>4 DEF IInv, TypeOK, NoDanglingAccess
  <2>6. IndexerStopsFirst' /\ ProtectedWhileWorking'
    BY <1>1, <1>2, <2>2 DEF IInv, IndexerStopsFirst, ProtectedWhileWorking
  <2>7. DropHolds'
    <3>1. drop.db # d
      BY <2>4, AccessorKinds DEF IInv, DropHolds
    <3>2. drop.pc = "destroy" => drop.db \in Databases
      BY DEF IInv, TypeOK, DropHolds
    <3> QED BY <1>2, <2>2, <3>1, <3>2 DEF IInv, DropHolds
  <2>8. StoppedBeforeDeferred'
    BY <1>2, <2>2 DEF IInv, StoppedBeforeDeferred
  <2>9. NamedDatabasesExist'
    BY <1>1, <1>2, <2>2 DEF IInv, TypeOK, NamedDatabasesExist
  <2>10. NotNamedOncePooled'
    <3>1. \A i \in 1..Len(deferred) : deferred[i] \in Databases
      BY DEF IInv, TypeOK
    <3> QED BY <1>2, <2>2, <3>1 DEF IInv, NotNamedOncePooled
  <2>11. DefaultStays'
    BY <1>1, <1>2, <2>2, DatabasesAssumption DEF IInv, DefaultStays
  <2> QED BY <1>3, <2>3, <2>5, <2>6, <2>7, <2>8, <2>9, <2>10, <2>11 DEF IInv
<1> QED BY <1>4, <1>5

(* try_delete with the only accessor: it is the drop's own.                 *)
LEMMA DestroyStep ==
  ASSUME IInv, Destroy
  PROVE  IInv'
<1> DEFINE d == drop.db
<1>1. /\ d \in Databases /\ drop.pc = "try" /\ count[d] = 1 /\ owner[Dropping] = d
      /\ d # Default
  BY DEF IInv, TypeOK, DropHolds, Destroy, DefaultStays
<1>2. /\ indexer' = [indexer EXCEPT ![d] = Woken(d)] /\ stop' = [stop EXCEPT ![d] = TRUE]
      /\ mode' = WokenModes(d)
      /\ life' = [life EXCEPT ![d] = "closing"]
      /\ UNCHANGED <<items, name, marked, gates, deferred, requests, created>>
  BY DEF Destroy, RequestStop
<1>3. /\ drop'.pc = "destroy" /\ drop'.db = drop.db
      /\ drop' \in [pc : {"idle", "join", "try", "destroy"}, db : Databases \cup {None}, forced : BOOLEAN]
  BY DEF IInv, TypeOK, Destroy
<1>4. missed' \subseteq {"stop", "drained"}
  BY DEF IInv, TypeOK, Destroy, RequestStop
<1>5. \A e \in Databases :
        /\ indexer[e] = "stopped" => indexer'[e] = "stopped"
        /\ indexer[e] \in {"guarded", "indexing"} <=> indexer'[e] \in {"guarded", "indexing"}
  BY <1>1, <1>2, WokenTypes DEF IInv, TypeOK
<1>6. life'[d] = "closing" /\ \A e \in Databases : e # d => life'[e] = life[e]
  BY <1>1, <1>2 DEF IInv, TypeOK
<1>7. TypeOK'
  BY <1>1, <1>2, <1>3, <1>4, WokenTypes DEF IInv, TypeOK, gates
<1>8. CountExact'
  BY <1>2, SameAccessors DEF IInv, gates
<1>9. NoDanglingAccess'
  <2>1. \A a \in Accessors : owner[a] = d => a = Dropping
    BY <1>1, NobodyElse, AccessorKinds DEF IInv
  <2> QED BY <1>2, <1>6, <2>1 DEF IInv, TypeOK, NoDanglingAccess, gates
<1>10. IndexerStopsFirst'
  BY <1>5, <1>6 DEF IInv, IndexerStopsFirst
<1>11. DropHolds'
  BY <1>1, <1>2, <1>3, <1>6, DatabasesAssumption DEF DropHolds, gates
<1>12. ProtectedWhileWorking'
  BY <1>2, <1>5 DEF IInv, ProtectedWhileWorking, gates
<1>13. StoppedBeforeDeferred'
  <2>1. /\ \A i \in 1..Len(deferred) : deferred[i] \in Databases
        /\ worker.db # None => worker.db \in Databases
    BY DEF IInv, TypeOK
  <2> QED BY <1>2, <1>3, <1>5, <2>1 DEF IInv, StoppedBeforeDeferred, gates
<1>14. NamedDatabasesExist'
  BY <1>1, <1>2, <1>3, <1>6 DEF IInv, TypeOK, NamedDatabasesExist
<1>15. NotNamedOncePooled'
  <2>1. /\ \A i \in 1..Len(deferred) : deferred[i] \in Databases
        /\ worker.db # None => worker.db \in Databases
    BY DEF IInv, TypeOK
  <2> QED BY <1>2, <1>6, <2>1 DEF IInv, NotNamedOncePooled, gates
<1>16. DefaultStays'
  BY <1>1, <1>2, <1>3, <1>6, DatabasesAssumption DEF IInv, DefaultStays
<1> QED BY <1>7, <1>8, <1>9, <1>10, <1>11, <1>12, <1>13, <1>14, <1>15, <1>16 DEF IInv

(* Only the accessors of a session change, and what it gets is of an open    *)
(* database.                                                               *)
LEMMA SessionMoves ==
  ASSUME IInv, NEW s \in Sessions, TypeOK', CountExact',
         \A a \in Accessors \ {Current(s), Query(s)} : owner'[a] = owner[a],
         \A a \in {Current(s), Query(s)} : owner'[a] # None => life[owner'[a]] = "open",
         UNCHANGED <<items, life, drop, deferred, indexer>>, worker'.db = worker.db
  PROVE  IInv'
<1>1. NoDanglingAccess'
  BY DEF IInv, NoDanglingAccess
<1>2. IndexerStopsFirst'
  BY DEF IInv, IndexerStopsFirst
<1>3. DropHolds' /\ ProtectedWhileWorking'
  <2>1. owner'[Dropping] = owner[Dropping]
    BY AccessorKinds
  <2>2. \A d \in Databases : owner'[Protector(d)] = owner[Protector(d)]
    BY AccessorKinds
  <2> QED BY <2>1, <2>2 DEF IInv, DropHolds, ProtectedWhileWorking
<1>4. StoppedBeforeDeferred' /\ NamedDatabasesExist' /\ NotNamedOncePooled' /\ DefaultStays'
  BY DEF IInv, StoppedBeforeDeferred, NamedDatabasesExist, NotNamedOncePooled, DefaultStays
<1> QED BY <1>1, <1>2, <1>3, <1>4 DEF IInv

(* A session gets an accessor by name.                                      *)
LEMMA GetStep ==
  ASSUME IInv, NEW s \in Sessions, NEW n \in Names, Get(s, n)
  PROVE  IInv'
<1>1. items[n] \in Databases /\ CopyAccessor(Query(s), items[n]) /\ life[items[n]] = "open"
  BY DEF IInv, TypeOK, Get, Access
<1>2. /\ owner' \in [Accessors -> Databases \cup {None}]
      /\ count' \in [Databases -> Nat] /\ CountExact'
  BY <1>1, CopyCounts, AccessorKinds DEF IInv, Get
<1>3. TypeOK'
  BY <1>2 DEF IInv, TypeOK, Get, storage
<1>4. /\ \A a \in Accessors : a # Query(s) => owner'[a] = owner[a]
      /\ owner'[Query(s)] = items[n]
  BY <1>1, AccessorKinds DEF IInv, TypeOK, CopyAccessor
<1>5. \A a \in {Current(s), Query(s)} : owner'[a] # None => life[owner'[a]] = "open"
  BY <1>1, <1>4, AccessorKinds DEF IInv, NoDanglingAccess
<1>6. UNCHANGED <<items, life, worker, drop, deferred, indexer>>
  BY DEF Get, storage
<1> QED BY <1>2, <1>3, <1>4, <1>5, <1>6, SessionMoves

(* A query copies the accessor of its session.                              *)
LEMMA CopyStep ==
  ASSUME IInv, NEW s \in Sessions, Copy(s)
  PROVE  IInv'
<1> DEFINE d == owner[Current(s)]
<1>1. d \in Databases /\ CopyAccessor(Query(s), d) /\ life[d] = "open"
  BY AccessorKinds DEF IInv, TypeOK, Copy, NoDanglingAccess
<1>2. /\ owner' \in [Accessors -> Databases \cup {None}]
      /\ count' \in [Databases -> Nat] /\ CountExact'
  BY <1>1, CopyCounts, AccessorKinds DEF IInv, Copy
<1>3. TypeOK'
  BY <1>2 DEF IInv, TypeOK, Copy, storage
<1>4. /\ \A a \in Accessors : a # Query(s) => owner'[a] = owner[a]
      /\ owner'[Query(s)] = d
  BY <1>1, AccessorKinds DEF IInv, TypeOK, CopyAccessor
<1>5. \A a \in {Current(s), Query(s)} : owner'[a] # None => life[owner'[a]] = "open"
  BY <1>1, <1>4, AccessorKinds
<1>6. UNCHANGED <<items, life, worker, drop, deferred, indexer>>
  BY DEF Copy, storage
<1> QED BY <1>2, <1>3, <1>4, <1>5, <1>6, SessionMoves

(* A session goes over to another database.                                 *)
LEMMA SetCurrentDBStep ==
  ASSUME IInv, NEW s \in Sessions, SetCurrentDB(s)
  PROVE  IInv'
<1>1. owner[Query(s)] # None /\ MoveAssign(Current(s), Query(s)) /\ Current(s) # Query(s)
  BY AccessorKinds DEF SetCurrentDB
<1>2. /\ owner' \in [Accessors -> Databases \cup {None}]
      /\ count' \in [Databases -> Nat] /\ CountExact'
  BY <1>1, MoveCounts, AccessorKinds DEF IInv
<1>3. missed' \subseteq {"stop", "drained"} /\ worker' = worker
  BY <1>1 DEF IInv, TypeOK, MoveAssign
<1>4. TypeOK'
  BY <1>2, <1>3 DEF IInv, TypeOK, SetCurrentDB, storage
<1>5. /\ \A a \in Accessors \ {Current(s), Query(s)} : owner'[a] = owner[a]
      /\ owner'[Query(s)] = None /\ owner'[Current(s)] = owner[Query(s)]
  BY <1>1, AccessorKinds DEF IInv, TypeOK, MoveAssign
<1>6. life[owner[Query(s)]] = "open"
  BY <1>1, AccessorKinds DEF IInv, NoDanglingAccess
<1>7. UNCHANGED <<items, life, drop, deferred, indexer>>
  BY DEF SetCurrentDB, storage
<1> QED BY <1>2, <1>3, <1>4, <1>5, <1>6, <1>7, SessionMoves

(* A session or a query gives its accessor back.                            *)
LEMMA ReleaseStep ==
  ASSUME IInv, NEW s \in Sessions, NEW a \in {Current(s), Query(s)}, Release(s, a)
  PROVE  IInv'
<1>1. owner[a] # None /\ Reset(a) /\ a \in Accessors
  BY AccessorKinds DEF Release
<1>2. /\ owner' \in [Accessors -> Databases \cup {None}]
      /\ count' \in [Databases -> Nat] /\ CountExact'
      /\ worker' \in [db : Databases \cup {None}, asleep : BOOLEAN]
      /\ worker'.db = worker.db
  BY <1>1, ResetCounts DEF IInv
<1>3. TypeOK'
  BY <1>2 DEF IInv, TypeOK, Release, storage
<1>4. owner'[a] = None /\ \A b \in Accessors : b # a => owner'[b] = owner[b]
  BY <1>1 DEF IInv, TypeOK, Reset
<1>5. \A b \in {Current(s), Query(s)} : owner'[b] # None => life[owner'[b]] = "open"
  BY <1>4, AccessorKinds DEF IInv, NoDanglingAccess
<1>6. UNCHANGED <<items, life, drop, deferred, indexer>>
  BY DEF Release, storage
<1> QED BY <1>2, <1>3, <1>4, <1>5, <1>6, SessionMoves

(* make_database_protector and the end of what it protects: the accessor of  *)
(* the indexer of d comes or goes with its place in the loop.              *)
LEMMA ProtectorMoves ==
  ASSUME IInv, NEW d \in Databases, TypeOK', CountExact',
         \A a \in Accessors \ {Protector(d)} : owner'[a] = owner[a],
         owner'[Protector(d)] # None => life[owner'[Protector(d)]] = "open",
         indexer'[d] \in {"guarded", "indexing"} <=> owner'[Protector(d)] # None,
         \A e \in Databases : e # d => indexer'[e] = indexer[e],
         indexer[d] # "stopped",
         UNCHANGED <<items, life, drop, deferred>>, worker'.db = worker.db
  PROVE  IInv'
<1>1. NoDanglingAccess'
  BY DEF IInv, NoDanglingAccess
<1>2. \A e \in Databases : indexer[e] = "stopped" => indexer'[e] = "stopped"
  OBVIOUS
<1>3. IndexerStopsFirst'
  BY <1>2 DEF IInv, IndexerStopsFirst
<1>4. DropHolds' /\ ProtectedWhileWorking'
  <2>1. owner'[Dropping] = owner[Dropping]
    BY AccessorKinds
  <2>2. \A e \in Databases : e # d => owner'[Protector(e)] = owner[Protector(e)]
    BY AccessorKinds
  <2> QED BY <2>1, <2>2 DEF IInv, DropHolds, ProtectedWhileWorking
<1>5. StoppedBeforeDeferred'
  <2>1. /\ \A i \in 1..Len(deferred) : deferred[i] \in Databases
        /\ worker.db # None => worker.db \in Databases
        /\ drop.pc # "idle" => drop.db \in Databases
    BY DEF IInv, TypeOK, DropHolds
  <2> QED BY <1>2, <2>1 DEF IInv, StoppedBeforeDeferred
<1>6. NamedDatabasesExist' /\ NotNamedOncePooled' /\ DefaultStays'
  BY DEF IInv, NamedDatabasesExist, NotNamedOncePooled, DefaultStays
<1> QED BY <1>1, <1>3, <1>4, <1>5, <1>6 DEF IInv

(* The indexer makes itself a protector.                                    *)
LEMMA ProtectStep ==
  ASSUME IInv, NEW d \in Databases, Protect(d)
  PROVE  IInv'
<1> DEFINE e == items[name[d]]
<1>1. indexer[d] = "pick" /\ owner[Protector(d)] = None
  BY DEF IInv, ProtectedWhileWorking, Protect
<1>2. UNCHANGED <<items, name, life, marked, worker, drop, deferred, stop, requests, created, missed>>
  BY DEF Protect
<1>3. CASE e = None
  <2>1. indexer' = [indexer EXCEPT ![d] = "stopped"] /\ mode' = WokenModes(d) /\ UNCHANGED <<count, owner>>
    BY <1>3 DEF Protect, Becomes
  <2>2. TypeOK'
    BY <1>2, <2>1, WokenTypes DEF IInv, TypeOK
  <2> QED BY <1>1, <1>2, <2>1, <2>2, IndexerMoves DEF gates
<1>4. CASE e # None
  <2>1. /\ e \in Databases /\ life[e] = "open" /\ CopyAccessor(Protector(d), e)
        /\ indexer' = [indexer EXCEPT ![d] = "guarded"] /\ UNCHANGED mode
    BY <1>4 DEF IInv, TypeOK, Protect, Becomes, Access
  <2>2. /\ owner' \in [Accessors -> Databases \cup {None}]
        /\ count' \in [Databases -> Nat] /\ CountExact'
    BY <1>1, <2>1, CopyCounts, AccessorKinds DEF IInv
  <2>3. TypeOK'
    BY <1>2, <2>1, <2>2 DEF IInv, TypeOK, Processing
  <2>4. /\ \A a \in Accessors \ {Protector(d)} : owner'[a] = owner[a]
        /\ owner'[Protector(d)] = e
    BY <2>1, AccessorKinds DEF IInv, TypeOK, CopyAccessor
  <2>5. indexer'[d] = "guarded" /\ \A f \in Databases : f # d => indexer'[f] = indexer[f]
    BY <2>1 DEF IInv, TypeOK
  <2> QED BY <1>1, <1>2, <1>4, <2>1, <2>2, <2>3, <2>4, <2>5, ProtectorMoves
<1> QED BY <1>3, <1>4

(* The protector goes: after a timeout or after the index.                  *)
LEMMA UnprotectStep ==
  ASSUME IInv, NEW d \in Databases, AccessTimesOut(d) \/ CreateIndex(d)
  PROVE  IInv'
<1>1. indexer[d] \in {"guarded", "indexing"} /\ Reset(Protector(d))
  BY DEF AccessTimesOut, CreateIndex
<1>2. owner[Protector(d)] # None /\ Protector(d) \in Accessors
  BY <1>1, AccessorKinds DEF IInv, ProtectedWhileWorking
<1>3. /\ owner' \in [Accessors -> Databases \cup {None}]
      /\ count' \in [Databases -> Nat] /\ CountExact'
      /\ worker' \in [db : Databases \cup {None}, asleep : BOOLEAN]
      /\ worker'.db = worker.db
  BY <1>1, <1>2, ResetCounts DEF IInv
<1>4. /\ UNCHANGED <<items, name, life, marked, drop, deferred, stop, mode, missed>>
      /\ requests' \in [Databases -> SUBSET Labels] /\ created' \in [Databases -> SUBSET Labels]
  <2>1. CASE AccessTimesOut(d)
    BY <2>1 DEF IInv, TypeOK, AccessTimesOut
  <2>2. CASE CreateIndex(d)
    <3>1. PICK l \in requests[d] : /\ requests' = [requests EXCEPT ![d] = @ \ {l}]
                                  /\ created' = [created EXCEPT ![d] = @ \cup {l}]
      BY <2>2 DEF CreateIndex
    <3>2. l \in Labels
      BY <3>1 DEF IInv, TypeOK
    <3> QED BY <2>2, <3>1, <3>2 DEF IInv, TypeOK, CreateIndex
  <2> QED BY <2>1, <2>2
<1>5. PICK pc \in {"check", "pick"} : indexer' = [indexer EXCEPT ![d] = pc]
  BY DEF AccessTimesOut, CreateIndex, Becomes
<1>6. TypeOK'
  BY <1>3, <1>4, <1>5 DEF IInv, TypeOK, Processing
<1>7. owner'[Protector(d)] = None /\ \A a \in Accessors \ {Protector(d)} : owner'[a] = owner[a]
  BY <1>1, <1>2 DEF IInv, TypeOK, Reset
<1>8. indexer'[d] = pc /\ \A f \in Databases : f # d => indexer'[f] = indexer[f]
  BY <1>5 DEF IInv, TypeOK
<1> QED BY <1>1, <1>3, <1>4, <1>5, <1>6, <1>7, <1>8, ProtectorMoves

(* A drop begins: DbmsHandler::TryDelete takes an accessor, and Delete_ also  *)
(* asks the background tasks to stop.                                      *)
LEMMA DropBegins ==
  ASSUME IInv, NEW n \in Names, drop.pc = "idle", n # DefaultName, items[n] # None,
         Access(Dropping, items[n]), drop'.db = items[n],
         \/ drop'.pc = "join"
         \/ drop'.pc = "try" /\ ~drop'.forced,
         \A e \in Databases :
           /\ indexer[e] = "stopped" => indexer'[e] = "stopped"
           /\ indexer[e] \in {"guarded", "indexing"} <=> indexer'[e] \in {"guarded", "indexing"},
         TypeOK', CountExact', UNCHANGED <<items, life, worker, deferred>>
  PROVE  IInv'
<1>1. /\ items[n] \in Databases /\ life[items[n]] = "open"
      /\ owner' = [owner EXCEPT ![Dropping] = items[n]]
  BY DEF IInv, TypeOK, Access, CopyAccessor
<1>2. owner'[Dropping] = items[n] /\ \A a \in Accessors : a # Dropping => owner'[a] = owner[a]
  BY <1>1, AccessorKinds DEF IInv, TypeOK
<1>3. NoDanglingAccess'
  BY <1>1, <1>2 DEF IInv, NoDanglingAccess
<1>4. IndexerStopsFirst'
  BY DEF IInv, IndexerStopsFirst
<1>5. DropHolds'
  BY <1>1, <1>2, DatabasesAssumption DEF DropHolds
<1>6. ProtectedWhileWorking'
  <2>1. \A e \in Databases : owner'[Protector(e)] = owner[Protector(e)]
    BY <1>2, AccessorKinds
  <2> QED BY <2>1 DEF IInv, ProtectedWhileWorking
<1>7. StoppedBeforeDeferred'
  <2>1. /\ \A i \in 1..Len(deferred) : deferred[i] \in Databases
        /\ worker.db # None => worker.db \in Databases
    BY DEF IInv, TypeOK
  <2> QED BY <2>1 DEF IInv, StoppedBeforeDeferred
<1>8. NamedDatabasesExist' /\ NotNamedOncePooled'
  BY DEF IInv, NamedDatabasesExist, NotNamedOncePooled
<1>9. DefaultStays'
  BY DEF IInv, DefaultStays
<1> QED BY <1>3, <1>4, <1>5, <1>6, <1>7, <1>8, <1>9 DEF IInv

(* TryDelete takes an accessor of the database it wants.                    *)
LEMMA BeginTryDeleteStep ==
  ASSUME IInv, NEW n \in Names, BeginTryDelete(n)
  PROVE  IInv'
<1>1. /\ drop.pc = "idle" /\ n # DefaultName /\ items[n] # None /\ Access(Dropping, items[n])
      /\ drop' = [pc |-> "try", db |-> items[n], forced |-> FALSE]
      /\ UNCHANGED <<items, name, life, marked, worker, deferred, storage, mode, missed>>
  BY DEF BeginTryDelete, Locked
<1>2. items[n] \in Databases /\ owner[Dropping] = None /\ CopyAccessor(Dropping, items[n])
  BY <1>1 DEF IInv, TypeOK, DropHolds, Access
<1>3. /\ owner' \in [Accessors -> Databases \cup {None}]
      /\ count' \in [Databases -> Nat] /\ CountExact'
  BY <1>2, CopyCounts, AccessorKinds DEF IInv
<1>4. TypeOK'
  BY <1>1, <1>2, <1>3 DEF IInv, TypeOK, storage
<1> QED BY <1>1, <1>3, <1>4, DropBegins DEF storage

(* Delete takes the name away first.                                        *)
LEMMA BeginDeleteStep ==
  ASSUME IInv, NEW n \in Names, BeginDelete(n)
  PROVE  IInv'
<1> DEFINE d == items[n]
<1>1. /\ drop.pc = "idle" /\ n # DefaultName /\ d # None /\ Access(Dropping, d)
      /\ drop' = [pc |-> "join", db |-> d, forced |-> TRUE]
      /\ marked' = [marked EXCEPT ![d] = TRUE] /\ stop' = [stop EXCEPT ![d] = TRUE]
      /\ indexer' = [indexer EXCEPT ![d] = Woken(d)] /\ mode' = WokenModes(d)
      /\ UNCHANGED <<items, name, life, worker, deferred, requests, created>>
  BY DEF BeginDelete, Locked, RequestStop
<1>2. d \in Databases /\ owner[Dropping] = None /\ CopyAccessor(Dropping, d)
  BY <1>1 DEF IInv, TypeOK, DropHolds, Access
<1>3. /\ owner' \in [Accessors -> Databases \cup {None}]
      /\ count' \in [Databases -> Nat] /\ CountExact'
  BY <1>2, CopyCounts, AccessorKinds DEF IInv
<1>4. missed' \subseteq {"stop", "drained"}
  BY DEF IInv, TypeOK, BeginDelete, RequestStop
<1>5. TypeOK'
  BY <1>1, <1>2, <1>3, <1>4, WokenTypes DEF IInv, TypeOK
<1>6. \A e \in Databases :
        /\ indexer[e] = "stopped" => indexer'[e] = "stopped"
        /\ indexer[e] \in {"guarded", "indexing"} <=> indexer'[e] \in {"guarded", "indexing"}
  BY <1>1, <1>2, WokenTypes DEF IInv, TypeOK
<1> QED BY <1>1, <1>3, <1>5, <1>6, DropBegins

(* ~Database has run: nobody has an accessor of what is freed.              *)
LEMMA DestroyedStep ==
  ASSUME IInv, Destroyed
  PROVE  IInv'
<1> DEFINE d == drop.db
<1>1. /\ d \in Databases /\ drop.pc = "destroy" /\ owner[Dropping] = d
      /\ life[d] = "closing" /\ indexer[d] = "stopped" /\ d # Default /\ owner[Dropping] # None
  BY DatabasesAssumption DEF IInv, TypeOK, DropHolds, Destroyed, DefaultStays
<1>2. /\ Reset(Dropping) /\ Free(d) /\ items' = Erased /\ drop' = NoDrop
      /\ UNCHANGED <<name, deferred, indexer, stop, mode, missed>>
  BY DEF Destroyed
<1>3. /\ owner' \in [Accessors -> Databases \cup {None}]
      /\ count' \in [Databases -> Nat] /\ CountExact'
      /\ worker' \in [db : Databases \cup {None}, asleep : BOOLEAN]
      /\ worker'.db = worker.db
  BY <1>1, <1>2, ResetCounts, AccessorKinds DEF IInv
<1>4. TypeOK'
  BY <1>1, <1>2, <1>3 DEF IInv, TypeOK, Free, Erased, NoDrop
<1>5. owner'[Dropping] = None /\ \A a \in Accessors : a # Dropping => owner'[a] = owner[a]
  BY <1>2, AccessorKinds DEF IInv, TypeOK, Reset
<1>6. life'[d] = "gone" /\ \A e \in Databases : e # d => life'[e] = life[e]
  BY <1>1, <1>2 DEF IInv, TypeOK, Free
<1>7. \A n \in Names : items'[n] = IF items[n] = d THEN None ELSE items[n]
  BY <1>2 DEF Erased
<1>8. drop'.pc = "idle" /\ drop'.db = None /\ ~drop'.forced
  BY <1>2 DEF NoDrop
<1>9. NoDanglingAccess'
  <2>1. \A a \in Accessors : a # Dropping => owner[a] # d
    BY <1>1 DEF IInv, NoDanglingAccess
  <2> QED BY <1>5, <1>6, <2>1 DEF IInv, TypeOK, NoDanglingAccess
<1>10. IndexerStopsFirst'
  BY <1>1, <1>2, <1>6 DEF IInv, IndexerStopsFirst
<1>11. DropHolds'
  BY <1>5, <1>8 DEF DropHolds
<1>12. ProtectedWhileWorking'
  <2>1. \A e \in Databases : owner'[Protector(e)] = owner[Protector(e)]
    BY <1>5, AccessorKinds
  <2> QED BY <1>2, <2>1 DEF IInv, ProtectedWhileWorking
<1>13. StoppedBeforeDeferred'
  BY <1>2, <1>3, <1>8 DEF IInv, StoppedBeforeDeferred
<1>14. NamedDatabasesExist'
  BY <1>6, <1>7 DEF IInv, TypeOK, NamedDatabasesExist
<1>15. NotNamedOncePooled'
  <2>1. /\ \A i \in 1..Len(deferred) : deferred[i] \in Databases
        /\ worker.db # None => worker.db \in Databases
    BY DEF IInv, TypeOK
  <2> QED BY <1>2, <1>3, <1>6, <1>7, <2>1, DatabasesAssumption DEF IInv, NotNamedOncePooled
<1>16. DefaultStays'
  BY <1>1, <1>6, <1>7, <1>8, DatabasesAssumption DEF IInv, DefaultStays
<1> QED BY <1>3, <1>4, <1>9, <1>10, <1>11, <1>12, <1>13, <1>14, <1>15, <1>16 DEF IInv

(* try_delete gives up, and DeferDelete moves the Gatekeeper out of the map.  *)
LEMMA GiveUpStep ==
  ASSUME IInv, GiveUp
  PROVE  IInv'
<1> DEFINE d == drop.db
<1>1. /\ d \in Databases /\ drop.pc = "try" /\ owner[Dropping] = d
      /\ d # Default /\ owner[Dropping] # None
  BY DatabasesAssumption DEF IInv, TypeOK, DropHolds, GiveUp, DefaultStays
<1>2. /\ Reset(Dropping) /\ drop' = NoDrop
      /\ UNCHANGED <<name, life, marked, storage, mode, missed>>
  BY DEF GiveUp
<1>3. /\ owner' \in [Accessors -> Databases \cup {None}]
      /\ count' \in [Databases -> Nat] /\ CountExact'
      /\ worker' \in [db : Databases \cup {None}, asleep : BOOLEAN]
      /\ worker'.db = worker.db
  BY <1>1, <1>2, ResetCounts, AccessorKinds DEF IInv
<1>4. owner'[Dropping] = None /\ \A a \in Accessors : a # Dropping => owner'[a] = owner[a]
  BY <1>2, AccessorKinds DEF IInv, TypeOK, Reset
<1>5. drop'.pc = "idle" /\ drop'.db = None /\ ~drop'.forced
  BY <1>2 DEF NoDrop
<1>6. items' \in [Names -> Databases \cup {None}] /\ deferred' \in Seq(Databases)
  <2>1. items \in [Names -> Databases \cup {None}] /\ deferred \in Seq(Databases)
    BY DEF IInv, TypeOK
  <2>2. Erased \in [Names -> Databases \cup {None}] /\ Append(deferred, d) \in Seq(Databases)
    BY <1>1, <2>1 DEF Erased
  <2>3. \/ items' = Erased /\ deferred' = Append(deferred, d)
        \/ items' = items /\ deferred' = deferred
    BY DEF GiveUp
  <2> QED BY <2>1, <2>2, <2>3
<1>7. TypeOK'
  BY <1>2, <1>3, <1>6 DEF IInv, TypeOK, NoDrop, storage
<1>8. NoDanglingAccess' /\ DropHolds'
  BY <1>2, <1>4, <1>5 DEF IInv, NoDanglingAccess, DropHolds
<1>9. IndexerStopsFirst'
  BY <1>2 DEF IInv, IndexerStopsFirst, storage
<1>10. ProtectedWhileWorking'
  <2>1. \A e \in Databases : owner'[Protector(e)] = owner[Protector(e)]
    BY <1>4, AccessorKinds
  <2> QED BY <1>2, <2>1 DEF IInv, ProtectedWhileWorking, storage
<1>11. CASE drop.forced
  <2>1. items' = Erased /\ deferred' = Append(deferred, d)
    BY <1>11 DEF GiveUp
  <2>2. \A n \in Names : items'[n] = IF items[n] = d THEN None ELSE items[n]
    BY <2>1 DEF Erased
  <2>3. \A i \in 1..Len(deferred') :
          deferred'[i] = d \/ (i \in 1..Len(deferred) /\ deferred'[i] = deferred[i])
    BY <1>1, <2>1 DEF IInv, TypeOK
  <2>4. indexer[d] = "stopped" /\ life[d] # "unborn"
    BY <1>1, <1>11, AccessorKinds DEF IInv, StoppedBeforeDeferred, NoDanglingAccess
  <2>5. StoppedBeforeDeferred'
    BY <1>2, <1>3, <1>5, <2>3, <2>4 DEF IInv, StoppedBeforeDeferred, storage
  <2>6. NamedDatabasesExist'
    BY <1>1, <1>2, <2>2 DEF IInv, NamedDatabasesExist
  <2>7. NotNamedOncePooled'
    <3>1. \A n \in Names : items'[n] # d
      BY <1>1, <2>2, DatabasesAssumption
    <3>2. \A i \in 1..Len(deferred) : deferred[i] # None
      BY DatabasesAssumption DEF IInv, TypeOK
    <3>3. \A i \in 1..Len(deferred') :
            life'[deferred'[i]] # "unborn" /\ \A n \in Names : items'[n] # deferred'[i]
      BY <1>2, <2>2, <2>3, <2>4, <3>1, <3>2 DEF IInv, NotNamedOncePooled
    <3> QED BY <1>2, <1>3, <2>2, <3>3 DEF IInv, NotNamedOncePooled
  <2>8. DefaultStays'
    BY <1>1, <1>2, <1>5, <2>2, DatabasesAssumption DEF IInv, DefaultStays
  <2> QED BY <1>3, <1>7, <1>8, <1>9, <1>10, <2>5, <2>6, <2>7, <2>8 DEF IInv
<1>12. CASE ~drop.forced
  <2>1. items' = items /\ deferred' = deferred
    BY <1>12 DEF GiveUp
  <2>2. StoppedBeforeDeferred'
    BY <1>2, <1>3, <1>5, <2>1 DEF IInv, StoppedBeforeDeferred, storage
  <2>3. NamedDatabasesExist' /\ NotNamedOncePooled' /\ DefaultStays'
    BY <1>1, <1>2, <1>3, <1>5, <2>1, DatabasesAssumption
    DEF IInv, NamedDatabasesExist, NotNamedOncePooled, DefaultStays
  <2> QED BY <1>3, <1>7, <1>8, <1>9, <1>10, <2>2, <2>3 DEF IInv
<1> QED BY <1>11, <1>12

-----------------------------------------------------------------------------
(* The inductive invariant is one.                                         *)
LEMMA NextIInv == IInv /\ [Next]_vars => IInv'
<1> SUFFICES ASSUME IInv, [Next]_vars PROVE IInv'
  OBVIOUS
<1>1. ASSUME NEW n \in Names, New(n) \/ BeginDelete(n) \/ BeginTryDelete(n) PROVE IInv'
  BY <1>1, NewStep, BeginDeleteStep, BeginTryDeleteStep
<1>2. ASSUME NEW old \in Names, NEW new \in Names, Rename(old, new) PROVE IInv'
  BY <1>2, RenameStep
<1>3. CASE Dropper
  BY <1>3, TasksStoppedStep, DestroyStep, DestroyedStep, GiveUpStep DEF Dropper
<1>4. CASE Pool
  BY <1>4, TakeDeferredStep, DrainStep DEF Pool
<1>5. ASSUME NEW s \in Sessions, Session(s) PROVE IInv'
  <2>1. ASSUME NEW n \in Names, Get(s, n) PROVE IInv'
    BY <2>1, GetStep
  <2>2. CASE Release(s, Current(s)) \/ Release(s, Query(s))
    BY <2>2, ReleaseStep
  <2>3. CASE SetCurrentDB(s) \/ Copy(s)
    BY <2>3, SetCurrentDBStep, CopyStep
  <2>4. ASSUME NEW l \in Labels, Enqueue(s, l) PROVE IInv'
    BY <2>4, EnqueueStep
  <2>5. CASE BeginWrite(s) \/ EndWrite(s) \/ SetStorageMode(s) \/ CompleteRemaining(s)
    BY <2>5, SetStorageModeStep
  <2> QED BY <1>5, <2>1, <2>2, <2>3, <2>4, <2>5 DEF Session
<1>6. ASSUME NEW d \in Databases, Indexer(d) PROVE IInv'
  BY <1>6, LookStep, ParkStep, ProtectStep, TakeAccessStep, UnprotectStep DEF Indexer
<1>7. CASE UNCHANGED vars
  <2>1. TypeOK'
    BY <1>7 DEF IInv, TypeOK, vars, gates, storage
  <2> QED BY <1>7, <2>1, ModeMoves DEF vars, storage
<1> QED BY <1>1, <1>2, <1>3, <1>4, <1>5, <1>6, <1>7 DEF Next

(* The variables of the model keep their types, whatever the sets of names,  *)
(* databases and sessions; count_ never goes below zero.                   *)
THEOREM DatabasesTypes == Spec => []TypeOK
<1>1. IInv => TypeOK
  BY DEF IInv
<1> QED BY <1>1, InitIInv, NextIInv, PTL DEF Spec

(* Gatekeeper, for any number of sessions and databases: whatever the order  *)
(* of copies, moves, resets and drops, no accessor of a destroyed database   *)
(* is left.                                                                *)
THEOREM AccessNeverDangles == Spec => []NoDanglingAccess
<1>1. IInv => NoDanglingAccess
  BY DEF IInv
<1> QED BY <1>1, InitIInv, NextIInv, PTL DEF Spec

(* count_ is the number of accessors at every step, so that try_delete and    *)
(* ~Gatekeeper decide on the true number.                                   *)
THEOREM CountIsExact == Spec => []CountExact
<1>1. IInv => CountExact
  BY DEF IInv
<1> QED BY <1>1, InitIInv, NextIInv, PTL DEF Spec

(* StopAllBackgroundTasks: by both ways a database can go, its indexer has    *)
(* stopped before the storage is freed.                                    *)
THEOREM IndexerStopsBeforeFree == Spec => []IndexerStopsFirst
<1>1. IInv => IndexerStopsFirst
  BY DEF IInv
<1> QED BY <1>1, InitIInv, NextIInv, PTL DEF Spec

(* Handler::items_ never names a destroyed database or one in the pool, and   *)
(* the default database is there under its name for good: what Get returns   *)
(* for a name is a live database.                                          *)
THEOREM NamesAreLive == Spec => [](NamedDatabasesExist /\ NotNamedOncePooled /\ DefaultStays)
<1>1. IInv => NamedDatabasesExist /\ NotNamedOncePooled /\ DefaultStays
  BY DEF IInv
<1> QED BY <1>1, InitIInv, NextIInv, PTL DEF Spec

=============================================================================

--------------------------- MODULE TimestampProofs ---------------------------
(***************************************************************************)
(* The commit log of the storage answers for the ids that are in use, for  *)
(* any number of accessors and ids and for blocks of any size.             *)
(*                                                                         *)
(* The inductive invariant has two parts.  Disciplined holds in every      *)
(* state: who may be where while somebody holds main_lock_ alone or        *)
(* engine_lock_, and where the last durable timestamp lies as long as no   *)
(* recovered snapshot left the clock behind it.  Good holds as             *)
(* long as every call named ids the log held open: an id is finished       *)
(* exactly when the clock has passed it and no accessor uses it, and no    *)
(* two uses share an id, the second report of an accessor without deltas   *)
(* included.                                                               *)
(***************************************************************************)
EXTENDS TimestampLifecycle, CommitLogOpsProofs

Phases == {"none", "active", "marked", "recovered", "committing", "committed",
           "prepared", "undo", "undone"}
Records == [phase : Phases, start : Nat, commit : Nat, kind : Kinds, durable : Nat]

(* The ids an accessor uses, and those it has yet to report.               *)
UsesStart(r)  == r.phase \in {"active", "committing", "prepared", "undo"}
UsesCommit(r) == r.phase \in {"committing", "prepared", "undo", "undone", "committed"}
OpenOf(r) == {id \in {r.start} : UsesStart(r)} \cup {id \in {r.commit} : UsesCommit(r)}
KeptOf(r) == OpenOf(r) \cup {id \in {r.start} : r.phase = "marked"}

Good(lg, clock, ac) ==
  /\ WellFormed(lg) /\ OldestIsLeast(lg)
  /\ \A a \in Accessors : KeptOf(ac[a]) \subseteq 0 .. clock - 1
  /\ \A a, b \in Accessors : a # b => KeptOf(ac[a]) \cap KeptOf(ac[b]) = {}
  /\ \A a \in Accessors : UsesStart(ac[a]) /\ UsesCommit(ac[a]) => ac[a].start # ac[a].commit
  /\ \A j \in Nat : Finished(lg, j) <=> j < clock /\ \A a \in Accessors : j \notin OpenOf(ac[a])

Types ==
  /\ timestamp \in Nat /\ ldt \in Nat /\ role \in {"main", "replica"}
  /\ acc \in [Accessors -> Records]
  /\ snap \in [next : Nat, durable : Nat] /\ behind \in BOOLEAN

Disciplined ==
  /\ \A a \in Accessors : acc[a].kind = "unique" => Quiet(Others(a))
  /\ \A a \in Accessors : acc[a].phase = "recovered" => acc[a].kind = "unique"
  /\ \A a \in Accessors : acc[a].phase = "prepared" => Replicating(a)
  /\ \A a \in Accessors : Replicating(a) => role = "replica"
  /\ \A a \in Accessors : acc[a].phase = "active" => acc[a].start < timestamp
  /\ \A a \in Accessors : acc[a].phase = "committing" =>
       /\ engine = a /\ acc[a].commit < timestamp
       /\ Replicating(a) \/ (role = "main" /\ (behind \/ ldt < acc[a].commit))
  /\ role = "main" => behind \/ ldt < timestamp \/ (ldt = 0 /\ timestamp = 0)

IInv == Types /\ Disciplined /\ (Exact => Good(log, timestamp, acc))

-----------------------------------------------------------------------------
(* One accessor gives up the ids in give, which the log was told of, and    *)
(* takes the next id of the clock or none.                                 *)
Change(lg, ts, ac, lg2, ts2, ac2, a, new, give, take) ==
  /\ \A b \in Accessors : ac2[b] = IF b = a THEN new ELSE ac[b]
  /\ WellFormed(lg2) /\ OldestIsLeast(lg2)
  /\ \A j \in Nat : Finished(lg2, j) <=> Finished(lg, j) \/ j \in give
  /\ give \subseteq 0 .. ts - 1
  /\ (ts2 = ts /\ take = {}) \/ (ts2 = ts + 1 /\ take = {ts})
  /\ KeptOf(new) \subseteq 0 .. ts2 - 1
  /\ \A b \in Accessors : b # a => /\ KeptOf(new) \cap KeptOf(ac[b]) = {}
                                   /\ give \cap KeptOf(ac[b]) = {}
  /\ UsesStart(new) /\ UsesCommit(new) => new.start # new.commit
  /\ OpenOf(new) = (OpenOf(ac[a]) \ give) \cup take

(* One accessor gives ids back and takes new ones; the log stays good.       *)
LEMMA AccessorChange ==
  ASSUME NEW lg, NEW ts \in Nat, NEW ac, Good(lg, ts, ac),
         NEW lg2, NEW ts2, NEW ac2, NEW a \in Accessors, NEW new, NEW give, NEW take,
         Change(lg, ts, ac, lg2, ts2, ac2, a, new, give, take)
  PROVE  Good(lg2, ts2, ac2)
<1> USE DEF Change
<1>1. \A b \in Accessors : OpenOf(ac[b]) \subseteq KeptOf(ac[b]) /\ KeptOf(ac[b]) \subseteq 0 .. ts - 1
  BY DEF Good, KeptOf
<1>2. ASSUME NEW b \in Accessors PROVE KeptOf(ac2[b]) \subseteq 0 .. ts2 - 1
  <2>1. 0 .. ts - 1 \subseteq 0 .. ts2 - 1
    OBVIOUS
  <2> QED BY <1>1, <2>1
<1>3. ASSUME NEW b \in Accessors, NEW c \in Accessors, b # c PROVE KeptOf(ac2[b]) \cap KeptOf(ac2[c]) = {}
  <2>1. KeptOf(ac[b]) \cap KeptOf(ac[c]) = {}
    BY <1>3 DEF Good
  <2> QED BY <1>3, <2>1
<1>4. ASSUME NEW b \in Accessors, UsesStart(ac2[b]), UsesCommit(ac2[b]) PROVE ac2[b].start # ac2[b].commit
  BY <1>4 DEF Good
<1>5. ASSUME NEW j \in Nat
      PROVE  Finished(lg2, j) <=> j < ts2 /\ \A b \in Accessors : j \notin OpenOf(ac2[b])
  <2>1. Finished(lg, j) <=> j < ts /\ \A b \in Accessors : j \notin OpenOf(ac[b])
    BY DEF Good
  <2>2. \A b \in Accessors : b # a => ac2[b] = ac[b]
    OBVIOUS
  <2>3. ac2[a] = new
    OBVIOUS
  <2>4. (\A b \in Accessors : j \notin OpenOf(ac2[b]))
          <=> j \notin OpenOf(new) /\ \A b \in Accessors : b # a => j \notin OpenOf(ac[b])
    BY <2>2, <2>3
  <2>5. (\A b \in Accessors : j \notin OpenOf(ac[b]))
          <=> j \notin OpenOf(ac[a]) /\ \A b \in Accessors : b # a => j \notin OpenOf(ac[b])
    OBVIOUS
  <2> DEFINE rest == \A b \in Accessors : b # a => j \notin OpenOf(ac[b])
  <2>6. j \in give => rest
    BY <1>1
  <2>7. (j \in give => j < ts) /\ (j \in take <=> ts2 = ts + 1 /\ j = ts) /\ (ts2 = ts \/ ts2 = ts + 1)
    OBVIOUS
  <2>8. j >= ts => rest /\ j \notin OpenOf(ac[a])
    <3>1. j >= ts => j \notin 0 .. ts - 1
      OBVIOUS
    <3> QED BY <1>1, <3>1
  <2>9. j \in OpenOf(new) <=> (j \in OpenOf(ac[a]) /\ j \notin give) \/ j \in take
    OBVIOUS
  <2>10. Finished(lg2, j) <=> Finished(lg, j) \/ j \in give
    OBVIOUS
  <2> HIDE DEF rest
  <2> QED BY <2>1, <2>4, <2>5, <2>6, <2>7, <2>8, <2>9, <2>10 DEF rest
<1> QED BY <1>2, <1>3, <1>4, <1>5 DEF Good

(* The accessor reports an id it has kept for itself.                      *)
LEMMA GiveUp ==
  ASSUME NEW lg, NEW ts \in Nat, NEW ac, Good(lg, ts, ac),
         NEW lg2, NEW ac2, NEW a \in Accessors, NEW new, NEW id,
         \A b \in Accessors : ac2[b] = IF b = a THEN new ELSE ac[b],
         WellFormed(lg2), OldestIsLeast(lg2),
         \A j \in Nat : Finished(lg2, j) <=> Finished(lg, j) \/ j \in {id},
         id \in KeptOf(ac[a]), KeptOf(new) \subseteq KeptOf(ac[a]),
         UsesStart(new) /\ UsesCommit(new) => new.start # new.commit,
         OpenOf(new) = OpenOf(ac[a]) \ {id}
  PROVE  Good(lg2, ts, ac2)
<1> DEFINE give == {id}
           take == {}
<1>1. /\ KeptOf(ac[a]) \subseteq 0 .. ts - 1
      /\ \A b \in Accessors : b # a => KeptOf(ac[a]) \cap KeptOf(ac[b]) = {}
  BY DEF Good
<1>2. give \subseteq 0 .. ts - 1 /\ KeptOf(new) \subseteq 0 .. ts - 1
  BY <1>1
<1>3. \A b \in Accessors : b # a => /\ KeptOf(new) \cap KeptOf(ac[b]) = {}
                                    /\ give \cap KeptOf(ac[b]) = {}
  BY <1>1
<1>4. OpenOf(new) = (OpenOf(ac[a]) \ give) \cup take /\ take = {}
  OBVIOUS
<1>5. \A j \in Nat : Finished(lg2, j) <=> Finished(lg, j) \/ j \in give
  OBVIOUS
<1> HIDE DEF give, take
<1>6. Change(lg, ts, ac, lg2, ts, ac2, a, new, give, take)
  BY <1>2, <1>3, <1>4, <1>5 DEF Change
<1> QED BY <1>6, AccessorChange

(* The accessor only moves on, with the ids it has.                        *)
LEMMA MoveOn ==
  ASSUME NEW lg, NEW ts \in Nat, NEW ac, Good(lg, ts, ac), NEW ac2, NEW a \in Accessors, NEW new,
         \A b \in Accessors : ac2[b] = IF b = a THEN new ELSE ac[b],
         KeptOf(new) \subseteq KeptOf(ac[a]), OpenOf(new) = OpenOf(ac[a]),
         UsesStart(new) /\ UsesCommit(new) => new.start # new.commit
  PROVE  Good(lg, ts, ac2)
<1> DEFINE none == {}
<1>1. /\ KeptOf(ac[a]) \subseteq 0 .. ts - 1
      /\ \A b \in Accessors : b # a => KeptOf(ac[a]) \cap KeptOf(ac[b]) = {}
      /\ WellFormed(lg) /\ OldestIsLeast(lg)
  BY DEF Good
<1>2. KeptOf(new) \subseteq 0 .. ts - 1 /\ none \subseteq 0 .. ts - 1
  BY <1>1
<1>3. \A b \in Accessors : b # a => /\ KeptOf(new) \cap KeptOf(ac[b]) = {}
                                    /\ none \cap KeptOf(ac[b]) = {}
  BY <1>1
<1>4. OpenOf(new) = (OpenOf(ac[a]) \ none) \cup none /\ none = {}
  OBVIOUS
<1>5. \A j \in Nat : Finished(lg, j) <=> Finished(lg, j) \/ j \in none
  OBVIOUS
<1> HIDE DEF none
<1>6. Change(lg, ts, ac, lg, ts, ac2, a, new, none, none)
  BY <1>1, <1>2, <1>3, <1>4, <1>5 DEF Change
<1> QED BY <1>6, AccessorChange

(* The accessor takes the next id of the clock.                            *)
LEMMA TakeNext ==
  ASSUME NEW lg, NEW ts \in Nat, NEW ac, Good(lg, ts, ac), NEW ac2, NEW a \in Accessors, NEW new,
         \A b \in Accessors : ac2[b] = IF b = a THEN new ELSE ac[b],
         KeptOf(new) \subseteq KeptOf(ac[a]) \cup {ts}, OpenOf(new) = OpenOf(ac[a]) \cup {ts},
         UsesStart(new) /\ UsesCommit(new) => new.start # new.commit
  PROVE  Good(lg, ts + 1, ac2)
<1> DEFINE none == {}
           take == {ts}
           ts2 == ts + 1
<1>1. /\ \A b \in Accessors : KeptOf(ac[b]) \subseteq 0 .. ts - 1
      /\ \A b \in Accessors : b # a => KeptOf(ac[a]) \cap KeptOf(ac[b]) = {}
      /\ WellFormed(lg) /\ OldestIsLeast(lg)
  BY DEF Good
<1>2. /\ KeptOf(new) \subseteq 0 .. ts2 - 1 /\ none \subseteq 0 .. ts - 1
      /\ ts \notin 0 .. ts - 1 /\ ts2 \in Nat /\ ts2 = ts + 1 /\ take = {ts}
  <2>1. 0 .. ts - 1 \subseteq 0 .. ts2 - 1 /\ ts \in 0 .. ts2 - 1
    OBVIOUS
  <2>2. KeptOf(new) \subseteq 0 .. ts2 - 1
    <3> HIDE DEF ts2
    <3> QED BY <1>1, <2>1
  <2> QED BY <2>2
<1>3. \A b \in Accessors : b # a => /\ KeptOf(new) \cap KeptOf(ac[b]) = {}
                                    /\ none \cap KeptOf(ac[b]) = {}
  BY <1>1, <1>2
<1>4. OpenOf(new) = (OpenOf(ac[a]) \ none) \cup take /\ none = {}
  OBVIOUS
<1>5. \A j \in Nat : Finished(lg, j) <=> Finished(lg, j) \/ j \in none
  OBVIOUS
<1> HIDE DEF none, take, ts2
<1>6. Change(lg, ts, ac, lg, ts2, ac2, a, new, none, take)
  BY <1>1, <1>2, <1>3, <1>4, <1>5 DEF Change
<1>7. Good(lg, ts2, ac2)
  BY <1>6, AccessorChange
<1> QED BY <1>7 DEF ts2

(* Nobody uses an id: the log of a storage that was cleared or started.     *)
LEMMA AllQuiet ==
  ASSUME NEW lg, NEW ts \in Nat, NEW ac, WellFormed(lg), OldestIsLeast(lg),
         \A a \in Accessors : ac[a].phase \in {"none", "recovered"},
         \A j \in Nat : Finished(lg, j) <=> j < ts
  PROVE  Good(lg, ts, ac)
<1>1. \A a \in Accessors : /\ ~UsesStart(ac[a]) /\ ~UsesCommit(ac[a])
                           /\ OpenOf(ac[a]) = {} /\ KeptOf(ac[a]) = {}
  BY DEF UsesStart, UsesCommit, OpenOf, KeptOf
<1> QED BY <1>1 DEF Good

-----------------------------------------------------------------------------
(* MarkFinished, as long as no call leaves the ids the log holds open.      *)
LEMMA ReportLog ==
  ASSUME NEW id \in Nat, Report(id), timestamp \in Nat, crashed' = crashed, Exact',
         Exact => Good(log, timestamp, acc)
  PROVE  /\ Good(log, timestamp, acc) /\ id < timestamp
         /\ WellFormed(log') /\ OldestIsLeast(log')
         /\ \A j \in Nat : Finished(log', j) <=> Finished(log, j) \/ j \in {id}
<1>1. history \subseteq history' /\ history' \subseteq {"recovery"} /\ ~crashed
  BY DEF Report, Exact
<1>2. Good(log, timestamp, acc)
  BY <1>1 DEF Exact
<1>3. WellFormed(log) /\ OldestIsLeast(log) /\ log.headStart \in Nat
  BY <1>2, LogTypes DEF Good
<1>4. ~(id < log.headStart) /\ ~(id >= timestamp)
  <2>1. "below" \notin history' /\ "ahead" \notin history'
    BY <1>1
  <2> QED BY <2>1 DEF Report
<1>5. id >= log.headStart /\ id < timestamp
  BY <1>3, <1>4
<1>6. /\ WellFormed(log') /\ OldestIsLeast(log')
      /\ \A j \in Nat : Finished(log', j) <=> Finished(log, j) \/ j = id
  BY <1>3, <1>5, MarkCorrect DEF Report
<1> QED BY <1>2, <1>5, <1>6

(* MarkFinishedInRange, likewise.                                          *)
LEMMA ReportRangeLog ==
  ASSUME NEW lg, NEW past, NEW from \in Nat, NEW to \in Nat, ReportRange(lg, past, from, to), Exact',
         WellFormed(lg), OldestIsLeast(lg)
  PROVE  /\ WellFormed(log') /\ OldestIsLeast(log')
         /\ \A j \in Nat : Finished(log', j) <=> Finished(lg, j) \/ (from <= j /\ j <= to)
<1>1. ~crashed' /\ "range" \notin history'
  BY DEF Exact
<1>2. log' = MarkFinishedInRange(lg, from, to) /\ ~(from < lg.headStart)
  BY <1>1 DEF ReportRange
<1>3. from >= lg.headStart
  BY <1>2, LogTypes
<1> QED BY <1>2, <1>3, RangeCorrect

(* The record of an accessor after a step.                                 *)
LEMMA PhaseStep ==
  ASSUME NEW ac \in [Accessors -> Records], NEW a \in Accessors, NEW p \in Phases, NEW new,
         new = [ac[a] EXCEPT !.phase = p]
  PROVE  /\ new \in Records /\ new.phase = p /\ new.start = ac[a].start
         /\ new.commit = ac[a].commit /\ new.kind = ac[a].kind
         /\ [ac EXCEPT ![a].phase = p] \in [Accessors -> Records]
         /\ \A b \in Accessors : [ac EXCEPT ![a].phase = p][b] = IF b = a THEN new ELSE ac[b]
<1>1. ac[a] \in Records
  OBVIOUS
<1>2. /\ new \in Records /\ new.phase = p /\ new.start = ac[a].start
      /\ new.commit = ac[a].commit /\ new.kind = ac[a].kind
  BY <1>1 DEF Records
<1>3. [ac EXCEPT ![a].phase = p] = [ac EXCEPT ![a] = new]
  OBVIOUS
<1> HIDE DEF Records
<1> QED BY <1>2, <1>3

Committing(r, c) == [r EXCEPT !.phase = "committing", !.commit = c]
OneCommitting(ac, a, c) == [ac EXCEPT ![a].phase = "committing", ![a].commit = c]

(* The same for the step to a commit timestamp.                             *)
LEMMA CommitPhaseStep ==
  ASSUME NEW ac \in [Accessors -> Records], NEW a \in Accessors, NEW c \in Nat, NEW f,
         f = OneCommitting(ac, a, c),
         NEW new, new = Committing(ac[a], c)
  PROVE  /\ new \in Records /\ new.phase = "committing" /\ new.start = ac[a].start
         /\ new.commit = c /\ new.kind = ac[a].kind
         /\ f \in [Accessors -> Records]
         /\ \A b \in Accessors : f[b] = IF b = a THEN new ELSE ac[b]
<1>1. ac[a] \in Records
  OBVIOUS
<1>2. /\ new.phase = "committing" /\ new.start = ac[a].start
      /\ new.commit = c /\ new.kind = ac[a].kind
  BY <1>1 DEF Records, Committing
<1>3. new \in Records
  BY <1>1 DEF Records, Phases, Committing
<1>4. f = [ac EXCEPT ![a] = new]
  BY DEF Committing, OneCommitting
<1> QED BY <1>2, <1>3, <1>4

(* The same for the end of an accessor.                                     *)
LEMMA EndStep ==
  ASSUME NEW ac \in [Accessors -> Records], NEW a \in Accessors
  PROVE  /\ Ended \in Records /\ Ended.phase = "none" /\ Ended.kind = "user"
         /\ KeptOf(Ended) = {} /\ OpenOf(Ended) = {} /\ ~UsesStart(Ended) /\ ~UsesCommit(Ended)
         /\ [ac EXCEPT ![a] = Ended] \in [Accessors -> Records]
         /\ \A b \in Accessors : [ac EXCEPT ![a] = Ended][b] = IF b = a THEN Ended ELSE ac[b]
<1>1. Ended \in Records
  BY DEF Ended, Records, Phases, Kinds
<1>2. Ended.phase = "none" /\ Ended.kind = "user"
  BY DEF Ended
<1>3. ~UsesStart(Ended) /\ ~UsesCommit(Ended)
  BY <1>2 DEF UsesStart, UsesCommit
<1>4. KeptOf(Ended) = {} /\ OpenOf(Ended) = {}
  BY <1>2, <1>3 DEF KeptOf, OpenOf
<1> QED BY <1>1, <1>2, <1>3, <1>4

(* What a step of an accessor must see to for the rules of main_lock_ and    *)
(* engine_lock_.                                                           *)
LEMMA DisciplineStep ==
  ASSUME Types, Disciplined, NEW a \in Accessors, NEW new,
         \A b \in Accessors : acc'[b] = IF b = a THEN new ELSE acc[b],
         acc[a].phase # "none", new.kind = acc[a].kind \/ new.kind = "user",
         role' = role, timestamp' \in Nat, timestamp' >= timestamp,
         new.phase = "recovered" => new.kind = "unique",
         new.phase = "prepared" => new.kind = "repl",
         new.phase = "active" => new.start < timestamp',
         new.phase = "committing" =>
           /\ engine' = a /\ new.commit < timestamp'
           /\ new.kind = "repl" \/ (role = "main" /\ (behind \/ ldt' < new.commit)),
         \A b \in Accessors : b # a /\ acc[b].phase = "committing" => engine' = b /\ ldt' = ldt,
         role = "main" => behind \/ ldt' < timestamp' \/ (ldt' = 0 /\ timestamp' = 0),
         behind' = behind
  PROVE  Disciplined'
<1>1. \A b \in Accessors : b # a => acc'[b] = acc[b]
  OBVIOUS
<1>2. acc'[a] = new
  OBVIOUS
<1>3. \A b \in Accessors : b # a => acc[b].kind # "unique"
  BY DEF Disciplined, Quiet, Others
<1>4. ASSUME NEW b \in Accessors, acc'[b].kind = "unique" PROVE Quiet(Others(b))'
  <2>1. b = a
    BY <1>1, <1>3, <1>4
  <2>2. Quiet(Others(a))
    BY <1>2, <1>4, <2>1 DEF Disciplined
  <2> QED BY <1>1, <2>1, <2>2 DEF Quiet, Others
<1>5. ASSUME NEW b \in Accessors
      PROVE  /\ acc'[b].phase = "recovered" => acc'[b].kind = "unique"
             /\ acc'[b].phase = "prepared" => acc'[b].kind = "repl"
             /\ acc'[b].kind = "repl" => role' = "replica"
  BY DEF Disciplined, Replicating
<1>6. ASSUME NEW b \in Accessors, acc'[b].phase = "active" PROVE acc'[b].start < timestamp'
  <2>1. CASE b = a
    BY <1>2, <1>6, <2>1
  <2>2. CASE b # a
    <3>1. acc[b].start < timestamp /\ acc[b].start \in Nat /\ timestamp \in Nat
      BY <1>1, <1>6, <2>2 DEF Disciplined, Types, Records
    <3> QED BY <1>1, <2>2, <3>1
  <2> QED BY <2>1, <2>2
<1>7. ASSUME NEW b \in Accessors, acc'[b].phase = "committing"
      PROVE  /\ engine' = b /\ acc'[b].commit < timestamp'
             /\ acc'[b].kind = "repl" \/ (role' = "main" /\ (behind \/ ldt' < acc'[b].commit))
  <2>1. CASE b = a
    BY <1>2, <1>7, <2>1
  <2>2. CASE b # a
    <3>1. acc[b].commit < timestamp /\ acc[b].commit \in Nat /\ timestamp \in Nat
      BY <1>1, <1>7, <2>2 DEF Disciplined, Types, Records
    <3>2. acc[b].kind = "repl" \/ (role = "main" /\ (behind \/ ldt < acc[b].commit))
      BY <1>1, <1>7, <2>2 DEF Disciplined, Replicating
    <3> QED BY <1>1, <1>7, <2>2, <3>1, <3>2
  <2> QED BY <2>1, <2>2
<1> QED BY <1>4, <1>5, <1>6, <1>7 DEF Disciplined, Replicating

(* The ids in use, phase by phase.                                         *)
LEMMA OpenByPhase ==
  ASSUME NEW r
  PROVE  /\ r.phase = "active" =>
              OpenOf(r) = {r.start} /\ KeptOf(r) = {r.start} /\ ~UsesCommit(r)
         /\ r.phase = "marked" => OpenOf(r) = {} /\ KeptOf(r) = {r.start} /\ ~UsesCommit(r)
         /\ r.phase \in {"none", "recovered"} => OpenOf(r) = {} /\ KeptOf(r) = {} /\ ~UsesCommit(r)
         /\ r.phase \in {"committing", "prepared", "undo"} =>
              /\ OpenOf(r) = {r.start, r.commit} /\ KeptOf(r) = {r.start, r.commit}
              /\ UsesStart(r) /\ UsesCommit(r)
         /\ r.phase \in {"undone", "committed"} =>
              OpenOf(r) = {r.commit} /\ KeptOf(r) = {r.commit} /\ ~UsesStart(r)
<1>1. /\ r.phase = "active" => UsesStart(r) /\ ~UsesCommit(r) /\ r.phase # "marked"
      /\ r.phase = "marked" => ~UsesStart(r) /\ ~UsesCommit(r)
      /\ r.phase \in {"none", "recovered"} => ~UsesStart(r) /\ ~UsesCommit(r) /\ r.phase # "marked"
      /\ r.phase \in {"committing", "prepared", "undo"} =>
           UsesStart(r) /\ UsesCommit(r) /\ r.phase # "marked"
      /\ r.phase \in {"undone", "committed"} => ~UsesStart(r) /\ UsesCommit(r) /\ r.phase # "marked"
  BY DEF UsesStart, UsesCommit
<1>2. UsesStart(r) /\ ~UsesCommit(r) => OpenOf(r) = {r.start}
  BY DEF OpenOf
<1>3. UsesStart(r) /\ UsesCommit(r) => OpenOf(r) = {r.start, r.commit}
  BY DEF OpenOf
<1>4. ~UsesStart(r) /\ UsesCommit(r) => OpenOf(r) = {r.commit}
  BY DEF OpenOf
<1>5. ~UsesStart(r) /\ ~UsesCommit(r) => OpenOf(r) = {}
  BY DEF OpenOf
<1>6. r.phase # "marked" => KeptOf(r) = OpenOf(r)
  BY DEF KeptOf
<1>7. r.phase = "marked" => KeptOf(r) = OpenOf(r) \cup {r.start}
  BY DEF KeptOf
<1> QED BY <1>1, <1>2, <1>3, <1>4, <1>5, <1>6, <1>7

(* The record of an accessor.                                               *)
LEMMA RecordTypes ==
  ASSUME Types, NEW a \in Accessors
  PROVE  /\ acc[a] \in Records /\ acc[a].phase \in Phases /\ acc[a].kind \in Kinds
         /\ acc[a].start \in Nat /\ acc[a].commit \in Nat
BY DEF Types, Records

-----------------------------------------------------------------------------
(* The steps of an accessor.  Begin: nobody holds main_lock_ alone.         *)
LEMMA BeginStep ==
  ASSUME IInv, NEW a \in Accessors, NEW kind \in Kinds, Begin(a, kind), UNCHANGED files
  PROVE  IInv'
<1> DEFINE seen == IF kind = "snapshot" THEN ldt ELSE 0
           new == [phase |-> "active", start |-> timestamp, commit |-> 0, kind |-> kind, durable |-> seen]
<1>1. Types /\ Disciplined /\ timestamp \in Nat /\ ldt \in Nat
  BY DEF IInv, Types
<1>2. /\ new.phase = "active" /\ new.start = timestamp /\ new.kind = kind
      /\ new.commit = 0 /\ new \in Records
  <2>1. seen \in Nat
    BY <1>1
  <2> HIDE DEF seen
  <2> QED BY <1>1, <2>1 DEF Records, Phases
<1>3. acc' = [acc EXCEPT ![a] = new] /\ timestamp' = timestamp + 1 /\ UNCHANGED <<log, ldt, role, engine, crashed, history, snap, behind>>
  BY DEF Begin, files
<1> HIDE DEF new
<1>4. acc' \in [Accessors -> Records] /\ \A b \in Accessors : acc'[b] = IF b = a THEN new ELSE acc[b]
  BY <1>1, <1>2, <1>3 DEF Types
<1>5. Types'
  BY <1>1, <1>3, <1>4 DEF Types
<1>6. /\ acc[a].phase = "none" \/ acc[a].phase = "marked"
      /\ kind = "unique" => Quiet(Others(a))
      /\ kind = "repl" => role = "replica"
      /\ \A b \in Others(a) : acc[b].kind # "unique"
  BY DEF Begin, At
<1>7. Disciplined'
  <2>1. ASSUME NEW b \in Accessors, acc'[b].kind = "unique" PROVE Quiet(Others(b))'
    <3>1. b = a /\ kind = "unique"
      BY <1>2, <1>4, <1>6, <2>1 DEF Others
    <3> QED BY <1>4, <1>6, <3>1 DEF Quiet, Others
  <2>2. ASSUME NEW b \in Accessors
        PROVE  /\ acc'[b].phase = "recovered" => acc'[b].kind = "unique"
               /\ acc'[b].phase = "prepared" => acc'[b].kind = "repl"
               /\ acc'[b].kind = "repl" => role' = "replica"
    BY <1>1, <1>2, <1>3, <1>4, <1>6 DEF Disciplined, Replicating
  <2>3. ASSUME NEW b \in Accessors, acc'[b].phase = "active" PROVE acc'[b].start < timestamp'
    <3>1. b # a => acc[b].start < timestamp /\ acc[b].start \in Nat
      BY <1>1, <1>4, <2>3, RecordTypes DEF Disciplined
    <3> QED BY <1>1, <1>2, <1>3, <1>4, <3>1
  <2>4. ASSUME NEW b \in Accessors, acc'[b].phase = "committing"
        PROVE  /\ engine' = b /\ acc'[b].commit < timestamp'
               /\ acc'[b].kind = "repl" \/ (role' = "main" /\ (behind \/ ldt' < acc'[b].commit))
    <3>1. b # a /\ acc'[b] = acc[b]
      BY <1>2, <1>4, <2>4
    <3>2. engine = b /\ acc[b].commit < timestamp /\ acc[b].commit \in Nat
      BY <1>1, <2>4, <3>1, RecordTypes DEF Disciplined
    <3>3. acc[b].kind = "repl" \/ (role = "main" /\ (behind \/ ldt < acc[b].commit))
      BY <1>1, <2>4, <3>1 DEF Disciplined, Replicating
    <3> QED BY <1>1, <1>3, <3>1, <3>2, <3>3
  <2>5. role' = "main" => behind \/ ldt' < timestamp'
    BY <1>1, <1>3 DEF Disciplined
  <2> QED BY <1>3, <2>1, <2>2, <2>3, <2>4, <2>5 DEF Disciplined, Replicating
<1>8. ASSUME Exact' PROVE Good(log', timestamp', acc')
  <2>1. Good(log, timestamp, acc)
    BY <1>3, <1>8 DEF IInv, Exact
  <2>2. OpenOf(acc[a]) = {} /\ OpenOf(new) = {timestamp} /\ KeptOf(new) = {timestamp} /\ ~UsesCommit(new)
    BY <1>2, <1>6, OpenByPhase
  <2>3. Good(log, timestamp + 1, acc')
    BY <1>1, <1>4, <2>1, <2>2, TakeNext
  <2> QED BY <1>3, <2>3
<1> QED BY <1>5, <1>7, <1>8 DEF IInv

(* Steps that only change the phase of an accessor, and may let go of        *)
(* engine_lock_.                                                           *)
LEMMA MoveStep ==
  ASSUME IInv, NEW a \in Accessors, NEW p \in {"undo", "prepared"}, Step(a, p),
         acc[a].phase \in {"committing", "prepared"},
         p = "prepared" => acc[a].kind = "repl",
         UNCHANGED <<log, timestamp, ldt, role, crashed, history, snap, behind>>,
         engine' = engine \/ engine = a
  PROVE  IInv'
<1> DEFINE new == [acc[a] EXCEPT !.phase = p]
<1>1. Types /\ Disciplined /\ timestamp \in Nat /\ acc \in [Accessors -> Records] /\ p \in Phases
  BY DEF IInv, Types, Phases
<1>2. /\ new.phase = p /\ new.start = acc[a].start
      /\ new.commit = acc[a].commit /\ new.kind = acc[a].kind
      /\ acc' \in [Accessors -> Records]
      /\ \A b \in Accessors : acc'[b] = IF b = a THEN new ELSE acc[b]
  BY <1>1, PhaseStep DEF Step
<1> HIDE DEF new
<1>3. Types'
  BY <1>1, <1>2 DEF Types
<1>4. Disciplined'
  <2>1. \A b \in Accessors : b # a /\ acc[b].phase = "committing" => engine' = b
    BY <1>1 DEF Disciplined
  <2>2. role = "main" => behind \/ ldt < timestamp \/ (ldt = 0 /\ timestamp = 0)
    BY <1>1 DEF Disciplined
  <2> QED BY <1>1, <1>2, <2>1, <2>2, DisciplineStep
<1>5. ASSUME Exact' PROVE Good(log', timestamp', acc')
  <2>1. Good(log, timestamp, acc)
    BY <1>5 DEF IInv, Exact
  <2>2. /\ OpenOf(acc[a]) = {acc[a].start, acc[a].commit} /\ KeptOf(acc[a]) = {acc[a].start, acc[a].commit}
        /\ UsesStart(acc[a]) /\ UsesCommit(acc[a])
    BY OpenByPhase
  <2>3. OpenOf(new) = {acc[a].start, acc[a].commit} /\ KeptOf(new) = {acc[a].start, acc[a].commit}
    BY <1>2, OpenByPhase
  <2>4. new.start # new.commit
    BY <1>2, <2>1, <2>2 DEF Good
  <2>5. Good(log, timestamp, acc')
    <3>1. KeptOf(new) \subseteq KeptOf(acc[a]) /\ OpenOf(new) = OpenOf(acc[a])
      BY <2>2, <2>3
    <3>2. UsesStart(new) /\ UsesCommit(new) => new.start # new.commit
      BY <2>4
    <3> QED BY <1>1, <1>2, <2>1, <3>1, <3>2, MoveOn
  <2> QED BY <2>5
<1> QED BY <1>3, <1>4, <1>5 DEF IInv

(* An accessor reports an id it has kept.                                  *)
LEMMA GiveUpGood ==
  ASSUME IInv, NEW a \in Accessors, NEW new, NEW id \in Nat, Report(id), id \in KeptOf(acc[a]),
         \A b \in Accessors : acc'[b] = IF b = a THEN new ELSE acc[b],
         UNCHANGED <<timestamp, crashed>>, KeptOf(new) \subseteq KeptOf(acc[a]),
         OpenOf(new) = OpenOf(acc[a]) \ {id}, ~UsesStart(new) \/ ~UsesCommit(new), Exact'
  PROVE  Good(log', timestamp', acc')
<1>1. timestamp \in Nat /\ (Exact => Good(log, timestamp, acc))
  BY DEF IInv, Types
<1>2. /\ Good(log, timestamp, acc) /\ WellFormed(log') /\ OldestIsLeast(log')
      /\ \A j \in Nat : Finished(log', j) <=> Finished(log, j) \/ j \in {id}
  BY <1>1, ReportLog
<1>3. Good(log', timestamp, acc')
  BY <1>1, <1>2, GiveUp
<1> QED BY <1>3

(* The accessor of a RECOVER SNAPSHOT query reports its own id again.       *)
LEMMA RecoveredGood ==
  ASSUME IInv, NEW a \in Accessors, acc[a].phase = "recovered", NEW new, Report(acc[a].start),
         \A b \in Accessors : acc'[b] = IF b = a THEN new ELSE acc[b],
         UNCHANGED <<timestamp, crashed>>,
         KeptOf(new) \subseteq {acc[a].start}, OpenOf(new) = {}, ~UsesCommit(new), Exact'
  PROVE  Good(log', timestamp', acc')
<1> DEFINE give == {acc[a].start}
           none == {}
<1>1. timestamp \in Nat /\ (Exact => Good(log, timestamp, acc)) /\ acc[a].start \in Nat
  BY RecordTypes DEF IInv, Types
<1>2. /\ Good(log, timestamp, acc) /\ WellFormed(log') /\ OldestIsLeast(log')
      /\ acc[a].start < timestamp
      /\ \A j \in Nat : Finished(log', j) <=> Finished(log, j) \/ j \in give
  BY <1>1, ReportLog
<1>3. Quiet(Others(a))
  BY DEF IInv, Disciplined
<1>4. \A b \in Accessors : b # a => KeptOf(acc[b]) = {}
  BY <1>3, OpenByPhase DEF Quiet, Others
<1>5. give \subseteq 0 .. timestamp - 1
  BY <1>1, <1>2
<1>6. KeptOf(new) \subseteq 0 .. timestamp - 1
  BY <1>5
<1>7. OpenOf(new) = (OpenOf(acc[a]) \ give) \cup none /\ none = {}
  BY OpenByPhase
<1>8. \A b \in Accessors : b # a => /\ KeptOf(new) \cap KeptOf(acc[b]) = {}
                                    /\ give \cap KeptOf(acc[b]) = {}
  BY <1>4
<1> HIDE DEF give, none
<1>9. Change(log, timestamp, acc, log', timestamp, acc', a, new, give, none)
  BY <1>2, <1>5, <1>6, <1>7, <1>8 DEF Change
<1>10. Good(log', timestamp, acc')
  BY <1>1, <1>2, <1>9, AccessorChange
<1> QED BY <1>10

(* What steps that report an id leave to the rules of the locks.            *)
LEMMA ReportDiscipline ==
  ASSUME IInv, NEW a \in Accessors, NEW new,
         acc' \in [Accessors -> Records],
         \A b \in Accessors : acc'[b] = IF b = a THEN new ELSE acc[b],
         acc[a].phase # "none", new.kind = acc[a].kind \/ new.kind = "user",
         new.phase \in {"marked", "none", "undone"}, UNCHANGED <<timestamp, ldt, role, engine, snap, behind>>
  PROVE  Types' /\ Disciplined'
<1>1. Types /\ Disciplined /\ timestamp \in Nat
  BY DEF IInv, Types
<1>2. Types'
  BY <1>1 DEF Types
<1>3. /\ \A b \in Accessors : acc[b].phase = "committing" => engine = b
      /\ role = "main" => behind \/ ldt < timestamp \/ (ldt = 0 /\ timestamp = 0)
  BY <1>1 DEF Disciplined
<1>4. Disciplined'
  BY <1>1, <1>3, DisciplineStep
<1> QED BY <1>2, <1>4

(* PrepareForCommitPhase without deltas: the start id is reported.          *)
LEMMA CommitNothingStep ==
  ASSUME IInv, NEW a \in Accessors, CommitNothing(a), UNCHANGED files
  PROVE  IInv'
<1> DEFINE new == [acc[a] EXCEPT !.phase = "marked"]
<1>1. /\ acc[a].phase \in {"active", "recovered"} /\ Report(acc[a].start) /\ Step(a, "marked")
      /\ UNCHANGED <<timestamp, ldt, role, engine, crashed, snap, behind>>
  BY DEF CommitNothing, At, files
<1>2. acc \in [Accessors -> Records] /\ "marked" \in Phases /\ acc[a].start \in Nat
  BY RecordTypes DEF IInv, Types, Phases
<1>3. /\ new.phase = "marked" /\ new.start = acc[a].start /\ new.kind = acc[a].kind
      /\ acc' \in [Accessors -> Records]
      /\ \A b \in Accessors : acc'[b] = IF b = a THEN new ELSE acc[b]
  BY <1>1, <1>2, PhaseStep DEF Step
<1> HIDE DEF new
<1>4. Types' /\ Disciplined'
  BY <1>1, <1>3, ReportDiscipline
<1>5. OpenOf(new) = {} /\ KeptOf(new) = {acc[a].start} /\ ~UsesCommit(new)
  BY <1>3, OpenByPhase
<1>6. ASSUME Exact' PROVE Good(log', timestamp', acc')
  <2>1. CASE acc[a].phase = "active"
    <3>1. OpenOf(acc[a]) = {acc[a].start} /\ KeptOf(acc[a]) = {acc[a].start}
      BY <2>1, OpenByPhase
    <3>2. KeptOf(new) \subseteq KeptOf(acc[a]) /\ OpenOf(new) = OpenOf(acc[a]) \ {acc[a].start}
      BY <1>5, <3>1
    <3>3. acc[a].start \in KeptOf(acc[a])
      BY <3>1
    <3> QED BY <1>1, <1>2, <1>3, <1>5, <1>6, <3>2, <3>3, GiveUpGood
  <2>2. CASE acc[a].phase = "recovered"
    <3>1. KeptOf(new) \subseteq {acc[a].start}
      BY <1>5
    <3> QED BY <1>1, <1>3, <1>5, <1>6, <2>2, <3>1, RecoveredGood
  <2> QED BY <1>1, <2>1, <2>2
<1> QED BY <1>4, <1>6 DEF IInv

(* Abort outside a commit.                                                  *)
LEMMA AbortStep ==
  ASSUME IInv, NEW a \in Accessors, Abort(a), UNCHANGED files
  PROVE  IInv'
<1>1. /\ acc[a].phase \in {"active", "marked", "recovered"} /\ Report(acc[a].start)
      /\ acc' = [acc EXCEPT ![a] = Ended]
      /\ UNCHANGED <<timestamp, ldt, role, engine, crashed, snap, behind>>
  BY DEF Abort, At, files
<1>2. acc \in [Accessors -> Records] /\ acc[a].start \in Nat
  BY RecordTypes DEF IInv, Types
<1>3. /\ Ended.phase = "none" /\ Ended.kind = "user"
      /\ KeptOf(Ended) = {} /\ OpenOf(Ended) = {} /\ ~UsesCommit(Ended)
      /\ acc' \in [Accessors -> Records]
      /\ \A b \in Accessors : acc'[b] = IF b = a THEN Ended ELSE acc[b]
  BY <1>1, <1>2, EndStep
<1>4. Types' /\ Disciplined'
  BY <1>1, <1>3, ReportDiscipline
<1>5. ASSUME Exact' PROVE Good(log', timestamp', acc')
  <2>1. CASE acc[a].phase \in {"active", "marked"}
    <3>1. OpenOf(acc[a]) \subseteq {acc[a].start} /\ KeptOf(acc[a]) = {acc[a].start}
      BY <2>1, OpenByPhase
    <3>2. KeptOf(Ended) \subseteq KeptOf(acc[a]) /\ OpenOf(Ended) = OpenOf(acc[a]) \ {acc[a].start}
      BY <1>3, <3>1
    <3>3. acc[a].start \in KeptOf(acc[a])
      BY <3>1
    <3> QED BY <1>1, <1>2, <1>3, <1>5, <3>2, <3>3, GiveUpGood
  <2>2. CASE acc[a].phase = "recovered"
    <3>1. KeptOf(Ended) \subseteq {acc[a].start}
      BY <1>3
    <3> QED BY <1>1, <1>3, <1>5, <2>2, <3>1, RecoveredGood
  <2> QED BY <1>1, <2>1, <2>2
<1> QED BY <1>4, <1>5 DEF IInv

(* Abort inside a commit, up to its first report.                           *)
LEMMA AbortCommitStep ==
  ASSUME IInv, NEW a \in Accessors, AbortCommit(a), UNCHANGED files
  PROVE  IInv'
<1> DEFINE new == [acc[a] EXCEPT !.phase = "undone"]
<1>1. /\ acc[a].phase = "undo" /\ Report(acc[a].start) /\ Step(a, "undone")
      /\ UNCHANGED <<timestamp, ldt, role, engine, crashed, snap, behind>>
  BY DEF AbortCommit, At, files
<1>2. acc \in [Accessors -> Records] /\ "undone" \in Phases /\ acc[a].start \in Nat
  BY RecordTypes DEF IInv, Types, Phases
<1>3. /\ new.phase = "undone" /\ new.commit = acc[a].commit /\ new.kind = acc[a].kind
      /\ acc' \in [Accessors -> Records]
      /\ \A b \in Accessors : acc'[b] = IF b = a THEN new ELSE acc[b]
  BY <1>1, <1>2, PhaseStep DEF Step
<1> HIDE DEF new
<1>4. Types' /\ Disciplined'
  BY <1>1, <1>3, ReportDiscipline
<1>5. OpenOf(new) = {acc[a].commit} /\ KeptOf(new) = {acc[a].commit} /\ ~UsesStart(new)
  BY <1>3, OpenByPhase
<1>6. /\ OpenOf(acc[a]) = {acc[a].start, acc[a].commit} /\ KeptOf(acc[a]) = {acc[a].start, acc[a].commit}
      /\ UsesStart(acc[a]) /\ UsesCommit(acc[a])
  BY <1>1, OpenByPhase
<1>7. ASSUME Exact' PROVE Good(log', timestamp', acc')
  <2>1. acc[a].start # acc[a].commit
    <3>1. timestamp \in Nat /\ (Exact => Good(log, timestamp, acc))
      BY DEF IInv, Types
    <3>2. Good(log, timestamp, acc)
      BY <1>1, <1>2, <1>7, <3>1, ReportLog
    <3> QED BY <1>6, <3>2 DEF Good
  <2>2. KeptOf(new) \subseteq KeptOf(acc[a]) /\ OpenOf(new) = OpenOf(acc[a]) \ {acc[a].start}
    BY <1>5, <1>6, <2>1
  <2>3. acc[a].start \in KeptOf(acc[a])
    BY <1>6
  <2> QED BY <1>1, <1>2, <1>3, <1>5, <1>7, <2>2, <2>3, GiveUpGood
<1> QED BY <1>4, <1>7 DEF IInv

(* ResetCommitTimestamp and FinalizeTransaction: the commit timestamp.      *)
LEMMA LastReportStep ==
  ASSUME IInv, NEW a \in Accessors, acc[a].phase \in {"undone", "committed"}, Report(acc[a].commit),
         acc' = [acc EXCEPT ![a] = Ended], UNCHANGED <<timestamp, ldt, role, engine, crashed, snap, behind>>
  PROVE  IInv'
<1>1. acc \in [Accessors -> Records] /\ acc[a].commit \in Nat
  BY RecordTypes DEF IInv, Types
<1>2. /\ Ended.phase = "none" /\ Ended.kind = "user"
      /\ KeptOf(Ended) = {} /\ OpenOf(Ended) = {} /\ ~UsesCommit(Ended)
      /\ acc' \in [Accessors -> Records]
      /\ \A b \in Accessors : acc'[b] = IF b = a THEN Ended ELSE acc[b]
  BY <1>1, EndStep
<1>3. Types' /\ Disciplined'
  BY <1>2, ReportDiscipline
<1>4. OpenOf(acc[a]) = {acc[a].commit} /\ KeptOf(acc[a]) = {acc[a].commit}
  BY OpenByPhase
<1>5. ASSUME Exact' PROVE Good(log', timestamp', acc')
  <2>1. KeptOf(Ended) \subseteq KeptOf(acc[a]) /\ OpenOf(Ended) = OpenOf(acc[a]) \ {acc[a].commit}
    BY <1>2, <1>4
  <2>2. acc[a].commit \in KeptOf(acc[a])
    BY <1>4
  <2> QED BY <1>1, <1>2, <1>5, <2>1, <2>2, GiveUpGood
<1> QED BY <1>3, <1>5 DEF IInv

(* The commit timestamp: on the main it lies above everything durable.      *)
LEMMA TakeCommitStep ==
  ASSUME IInv, NEW a \in Accessors, TakeCommitTimestamp(a), UNCHANGED files
  PROVE  IInv'
<1> DEFINE new == Committing(acc[a], timestamp)
<1>1. /\ acc[a].phase = "active" /\ (Replicating(a) <=> role = "replica") /\ engine = NoOne
      /\ timestamp' = timestamp + 1 /\ engine' = a
      /\ acc' = [acc EXCEPT ![a].phase = "committing", ![a].commit = timestamp]
      /\ UNCHANGED <<log, ldt, role, crashed, history, snap, behind>>
  BY DEF TakeCommitTimestamp, At, files
<1>2. /\ Types /\ Disciplined /\ acc \in [Accessors -> Records] /\ timestamp \in Nat
      /\ ldt \in Nat /\ role \in {"main", "replica"} /\ acc[a].start \in Nat
  BY RecordTypes DEF IInv, Types
<1>3. /\ new.phase = "committing" /\ new.start = acc[a].start
      /\ new.commit = timestamp /\ new.kind = acc[a].kind
      /\ acc' \in [Accessors -> Records]
      /\ \A b \in Accessors : acc'[b] = IF b = a THEN new ELSE acc[b]
  <2>1. acc' = OneCommitting(acc, a, timestamp)
    BY <1>1 DEF OneCommitting
  <2> QED BY <1>2, <2>1, CommitPhaseStep
<1> HIDE DEF new
<1>4. Types'
  BY <1>1, <1>2, <1>3 DEF Types
<1>5. acc[a].start < timestamp
  BY <1>1, <1>2 DEF Disciplined
<1>6. role = "main" => behind \/ ldt < timestamp
  BY <1>2, <1>5 DEF Disciplined
<1>7. Disciplined'
  <2>1. \A b \in Accessors : b # a /\ acc[b].phase = "committing" => engine' = b /\ ldt' = ldt
    BY <1>1, <1>2, NoOneAssumption DEF Disciplined
  <2>2. new.kind = "repl" \/ (role = "main" /\ (behind \/ ldt' < new.commit))
    BY <1>1, <1>2, <1>3, <1>6 DEF Replicating
  <2>3. timestamp' \in Nat /\ timestamp' >= timestamp /\ timestamp < timestamp'
    BY <1>1, <1>2
  <2>4. role = "main" => behind \/ ldt' < timestamp'
    BY <1>1, <1>2, <1>6
  <2> QED BY <1>1, <1>2, <1>3, <2>1, <2>2, <2>3, <2>4, DisciplineStep
<1>8. ASSUME Exact' PROVE Good(log', timestamp', acc')
  <2>1. Good(log, timestamp, acc)
    BY <1>1, <1>8 DEF IInv, Exact
  <2>2. OpenOf(acc[a]) = {acc[a].start} /\ KeptOf(acc[a]) = {acc[a].start}
    BY <1>1, OpenByPhase
  <2>3. OpenOf(new) = {acc[a].start, timestamp} /\ KeptOf(new) = {acc[a].start, timestamp}
    BY <1>3, OpenByPhase
  <2>4. /\ KeptOf(new) \subseteq KeptOf(acc[a]) \cup {timestamp}
        /\ OpenOf(new) = OpenOf(acc[a]) \cup {timestamp}
    BY <2>2, <2>3
  <2>5. new.start # new.commit
    BY <1>2, <1>3, <1>5
  <2>6. UsesStart(new) /\ UsesCommit(new) => new.start # new.commit
    BY <2>5
  <2>7. Good(log, timestamp + 1, acc')
    BY <1>2, <1>3, <2>1, <2>4, <2>6, TakeNext
  <2> QED BY <1>1, <2>7
<1> QED BY <1>4, <1>7, <1>8 DEF IInv

(* FinalizeCommitPhase: the last durable timestamp does not go down.         *)
LEMMA FinalizeCommitStep ==
  ASSUME IInv, NEW a \in Accessors, FinalizeCommitPhase(a), UNCHANGED files
  PROVE  IInv'
<1> DEFINE new == [acc[a] EXCEPT !.phase = "committed"]
<1>1. /\ acc[a].phase = "committing" /\ engine = a /\ Report(acc[a].start) /\ Step(a, "committed")
      /\ IF Replicating(a) THEN \E d \in ldt + 1 .. MaxId : ldt' = d ELSE ldt' = acc[a].commit
      /\ UNCHANGED <<timestamp, role, crashed, snap, behind>>
  BY DEF FinalizeCommitPhase, At, files
<1>2. /\ Types /\ Disciplined /\ acc \in [Accessors -> Records] /\ timestamp \in Nat
      /\ ldt \in Nat /\ acc[a].start \in Nat /\ acc[a].commit \in Nat /\ "committed" \in Phases
  BY RecordTypes DEF IInv, Types, Phases
<1>3. /\ new.phase = "committed" /\ new.start = acc[a].start
      /\ new.commit = acc[a].commit /\ new.kind = acc[a].kind
      /\ acc' \in [Accessors -> Records]
      /\ \A b \in Accessors : acc'[b] = IF b = a THEN new ELSE acc[b]
  BY <1>1, <1>2, PhaseStep DEF Step
<1> HIDE DEF new
<1>4. /\ acc[a].commit < timestamp
      /\ Replicating(a) \/ (role = "main" /\ (behind \/ ldt < acc[a].commit))
  BY <1>1, <1>2 DEF Disciplined
<1>5. ldt' \in Nat
  <2>1. CASE Replicating(a)
    <3>1. PICK d \in ldt + 1 .. MaxId : ldt' = d
      BY <1>1, <2>1
    <3> QED BY <1>2, <3>1
  <2>2. CASE ~Replicating(a)
    BY <1>1, <1>2, <1>4, <2>2
  <2> QED BY <2>1, <2>2
<1>6. Types'
  BY <1>1, <1>2, <1>3, <1>5 DEF Types
<1>7. Disciplined'
  <2>1. \A b \in Accessors : b # a => acc[b].phase # "committing"
    BY <1>1, <1>2 DEF Disciplined
  <2>2. CASE role = "replica"
    BY <1>1, <1>2, <1>3, <2>1, <2>2, DisciplineStep
  <2>3. CASE role = "main" /\ ~Replicating(a)
    BY <1>1, <1>2, <1>3, <1>4, <2>1, <2>3, DisciplineStep
  <2>4. CASE role = "main" /\ Replicating(a)
    BY <1>2, <2>4 DEF Disciplined
  <2> QED BY <1>2, <2>2, <2>3, <2>4 DEF Types
<1>8. OpenOf(new) = {acc[a].commit} /\ KeptOf(new) = {acc[a].commit} /\ ~UsesStart(new)
  BY <1>3, OpenByPhase
<1>9. /\ OpenOf(acc[a]) = {acc[a].start, acc[a].commit} /\ KeptOf(acc[a]) = {acc[a].start, acc[a].commit}
      /\ UsesStart(acc[a]) /\ UsesCommit(acc[a])
  BY <1>1, OpenByPhase
<1>10. ASSUME Exact' PROVE Good(log', timestamp', acc')
  <2>1. acc[a].start # acc[a].commit
    <3>1. Exact => Good(log, timestamp, acc)
      BY DEF IInv
    <3>2. Good(log, timestamp, acc)
      BY <1>1, <1>2, <1>10, <3>1, ReportLog
    <3> QED BY <1>9, <3>2 DEF Good
  <2>2. KeptOf(new) \subseteq KeptOf(acc[a]) /\ OpenOf(new) = OpenOf(acc[a]) \ {acc[a].start}
    BY <1>8, <1>9, <2>1
  <2>3. acc[a].start \in KeptOf(acc[a])
    BY <1>9
  <2> QED BY <1>1, <1>2, <1>3, <1>8, <1>10, <2>2, <2>3, GiveUpGood
<1> QED BY <1>6, <1>7, <1>10 DEF IInv

(* The assertion on the durable timestamp ends the process.                 *)
LEMMA FailAssertionStep ==
  ASSUME IInv, NEW a \in Accessors, FailLdtAssertion(a), UNCHANGED files
  PROVE  IInv'
<1>1. crashed' /\ UNCHANGED <<log, timestamp, ldt, role, engine, acc, history, snap, behind>>
  BY DEF FailLdtAssertion, files
<1>2. Types' /\ Disciplined'
  BY <1>1 DEF IInv, Types, Disciplined, Quiet, Others, Replicating
<1>3. ~Exact'
  BY <1>1 DEF Exact
<1> QED BY <1>2, <1>3 DEF IInv

(* A snapshot of the storage changes nothing in memory.                     *)
LEMMA WriteSnapshotStep ==
  ASSUME IInv, NEW a \in Accessors, WriteSnapshot(a)
  PROVE  IInv'
<1>1. /\ snap' = [next |-> acc[a].start + 1, durable |-> acc[a].durable]
      /\ UNCHANGED <<log, timestamp, ldt, role, engine, acc, crashed, history, behind>>
  BY DEF WriteSnapshot
<1>2. acc[a].start \in Nat /\ acc[a].durable \in Nat
  BY DEF IInv, Types, Records
<1>3. Types'
  BY <1>1, <1>2 DEF IInv, Types
<1>4. Disciplined'
  BY <1>1 DEF IInv, Disciplined, Quiet, Others, Replicating
<1>5. Exact' => Good(log', timestamp', acc')
  BY <1>1 DEF IInv, Exact
<1> QED BY <1>3, <1>4, <1>5 DEF IInv

(* Two-phase commit: the commit timestamp of the first phase is given up for   *)
(* that of the second.                                                     *)
LEMMA FinalizeHandlerStep ==
  ASSUME IInv, NEW a \in Accessors, FinalizeCommitHandler(a), UNCHANGED files
  PROVE  IInv'
<1> DEFINE new == Committing(acc[a], timestamp)
           give == {acc[a].commit}
           take == {timestamp}
           ts2 == timestamp + 1
<1>1. /\ acc[a].phase = "prepared" /\ role = "replica" /\ engine = NoOne
      /\ timestamp' = ts2 /\ engine' = a /\ Report(acc[a].commit)
      /\ acc' = [acc EXCEPT ![a].phase = "committing", ![a].commit = timestamp]
      /\ UNCHANGED <<ldt, role, crashed, snap, behind>>
  BY DEF FinalizeCommitHandler, At, files
<1>2. /\ Types /\ Disciplined /\ acc \in [Accessors -> Records] /\ timestamp \in Nat
      /\ ldt \in Nat /\ acc[a].start \in Nat /\ acc[a].commit \in Nat
  BY RecordTypes DEF IInv, Types
<1>3. /\ new.phase = "committing" /\ new.start = acc[a].start
      /\ new.commit = timestamp /\ new.kind = acc[a].kind
      /\ acc' \in [Accessors -> Records]
      /\ \A b \in Accessors : acc'[b] = IF b = a THEN new ELSE acc[b]
  <2>1. acc' = OneCommitting(acc, a, timestamp)
    BY <1>1 DEF OneCommitting
  <2> QED BY <1>2, <2>1, CommitPhaseStep
<1> HIDE DEF new
<1>4. ts2 \in Nat /\ ts2 >= timestamp /\ timestamp < ts2
  BY <1>2
<1>5. Types'
  BY <1>1, <1>2, <1>3, <1>4 DEF Types
<1>6. Disciplined'
  <2>1. \A b \in Accessors : b # a /\ acc[b].phase = "committing" => engine' = b /\ ldt' = ldt
    BY <1>1, <1>2, NoOneAssumption DEF Disciplined
  <2>2. new.kind = "repl"
    BY <1>1, <1>2, <1>3 DEF Disciplined, Replicating
  <2> HIDE DEF ts2
  <2> QED BY <1>1, <1>2, <1>3, <1>4, <2>1, <2>2, DisciplineStep
<1>7. ASSUME Exact' PROVE Good(log', timestamp', acc')
  <2>1. /\ Good(log, timestamp, acc) /\ WellFormed(log') /\ OldestIsLeast(log')
        /\ \A j \in Nat : Finished(log', j) <=> Finished(log, j) \/ j \in give
    <3>1. Exact => Good(log, timestamp, acc)
      BY DEF IInv
    <3> QED BY <1>1, <1>2, <1>7, <3>1, ReportLog
  <2>2. /\ OpenOf(acc[a]) = {acc[a].start, acc[a].commit} /\ KeptOf(acc[a]) = {acc[a].start, acc[a].commit}
        /\ UsesStart(acc[a]) /\ UsesCommit(acc[a])
    BY <1>1, OpenByPhase
  <2>3. OpenOf(new) = {acc[a].start, timestamp} /\ KeptOf(new) = {acc[a].start, timestamp}
    BY <1>3, OpenByPhase
  <2>4. /\ acc[a].start # acc[a].commit
        /\ \A b \in Accessors : KeptOf(acc[b]) \subseteq 0 .. timestamp - 1
        /\ \A b \in Accessors : b # a => KeptOf(acc[a]) \cap KeptOf(acc[b]) = {}
    BY <2>1, <2>2 DEF Good
  <2>5. /\ acc[a].start \in 0 .. timestamp - 1 /\ acc[a].commit \in 0 .. timestamp - 1
        /\ timestamp \notin 0 .. timestamp - 1 /\ 0 .. timestamp - 1 \subseteq 0 .. ts2 - 1
        /\ timestamp \in 0 .. ts2 - 1
    BY <1>2, <2>2, <2>4
  <2>6. give \subseteq 0 .. timestamp - 1 /\ take = {timestamp} /\ ts2 = timestamp + 1
    BY <2>5
  <2>7. new.start # new.commit
    BY <1>2, <1>3, <2>5
  <2>8. OpenOf(new) = (OpenOf(acc[a]) \ give) \cup take
    BY <2>2, <2>3, <2>4
  <2>9. \A b \in Accessors : b # a => /\ KeptOf(new) \cap KeptOf(acc[b]) = {}
                                      /\ give \cap KeptOf(acc[b]) = {}
    BY <2>2, <2>3, <2>4, <2>5
  <2> HIDE DEF give, take, ts2
  <2>10. KeptOf(new) \subseteq 0 .. ts2 - 1
    BY <2>3, <2>5
  <2>11. Change(log, timestamp, acc, log', ts2, acc', a, new, give, take)
    BY <1>3, <2>1, <2>6, <2>7, <2>8, <2>9, <2>10 DEF Change
  <2>12. Good(log', ts2, acc')
    BY <1>2, <2>1, <2>11, AccessorChange
  <2> QED BY <1>1, <2>12
<1> QED BY <1>5, <1>6, <1>7 DEF IInv

-----------------------------------------------------------------------------
(* The roles.  A promotion finishes the ids it skips.                      *)
LEMMA PromoteStep ==
  ASSUME IInv, PromoteToMain, UNCHANGED files
  PROVE  IInv'
<1>1. /\ \A a \in Accessors : ~Replicating(a)
      /\ ~crashed /\ engine = NoOne /\ role' = "main" /\ UNCHANGED <<ldt, engine, acc, snap, behind>>
      /\ IF ldt >= timestamp
         THEN ReportRange(log, history, timestamp, ldt) /\ timestamp' = ldt + 1
         ELSE UNCHANGED <<log, timestamp, crashed, history>>
  BY DEF PromoteToMain, Up, files
<1>2. Types /\ Disciplined /\ timestamp \in Nat /\ ldt \in Nat
  BY DEF IInv, Types
<1>3. timestamp' \in Nat /\ timestamp' >= timestamp /\ ldt' < timestamp'
  BY <1>1, <1>2
<1>4. Types'
  BY <1>1, <1>2, <1>3 DEF Types
<1>5. Disciplined'
  <2>1. \A a \in Accessors : acc[a].phase # "committing"
    BY <1>1, <1>2, NoOneAssumption DEF Disciplined
  <2>2. \A a \in Accessors : acc[a].phase = "active" => acc[a].start < timestamp'
    <3> SUFFICES ASSUME NEW a \in Accessors, acc[a].phase = "active" PROVE acc[a].start < timestamp'
      OBVIOUS
    <3>1. acc[a].start \in Nat /\ acc[a].start < timestamp
      BY <1>2, RecordTypes DEF Disciplined
    <3> QED BY <1>2, <1>3, <3>1
  <2>3. \A a \in Accessors : /\ acc[a].kind = "unique" => Quiet(Others(a))'
                             /\ acc[a].phase = "recovered" => acc[a].kind = "unique"
                             /\ acc[a].phase = "prepared" => acc[a].kind = "repl"
    BY <1>1, <1>2 DEF Disciplined, Replicating, Quiet, Others
  <2> QED BY <1>1, <1>3, <2>1, <2>2, <2>3 DEF Disciplined, Replicating
<1>6. ASSUME Exact' PROVE Good(log', timestamp', acc')
  <2>1. CASE ldt >= timestamp
    <3>1. ReportRange(log, history, timestamp, ldt) /\ timestamp' = ldt + 1
      BY <1>1, <2>1
    <3>2. Good(log, timestamp, acc)
      <4>1. history \subseteq history'
        BY <3>1 DEF ReportRange
      <4> QED BY <1>1, <1>6, <4>1 DEF IInv, Exact
    <3>3. /\ WellFormed(log') /\ OldestIsLeast(log')
          /\ \A j \in Nat : Finished(log', j) <=> Finished(log, j) \/ (timestamp <= j /\ j <= ldt)
      BY <1>2, <1>6, <3>1, <3>2, ReportRangeLog DEF Good
    <3>4. \A a \in Accessors : /\ KeptOf(acc[a]) \subseteq 0 .. timestamp - 1
                               /\ OpenOf(acc[a]) \subseteq KeptOf(acc[a])
      BY <3>2 DEF Good, KeptOf
    <3>5. 0 .. timestamp - 1 \subseteq 0 .. timestamp' - 1
      <4> DEFINE later == timestamp'
      <4>1. later \in Nat /\ later >= timestamp
        BY <1>3
      <4> HIDE DEF later
      <4>2. 0 .. timestamp - 1 \subseteq 0 .. later - 1
        BY <1>2, <4>1
      <4> QED BY <4>2 DEF later
    <3>6. ASSUME NEW j \in Nat
          PROVE  Finished(log', j) <=> j < timestamp' /\ \A a \in Accessors : j \notin OpenOf(acc[a])
      <4>1. Finished(log, j) <=> j < timestamp /\ \A a \in Accessors : j \notin OpenOf(acc[a])
        BY <3>2 DEF Good
      <4>2. j >= timestamp => \A a \in Accessors : j \notin OpenOf(acc[a])
        <5>1. j >= timestamp => j \notin 0 .. timestamp - 1
          BY <1>2
        <5> QED BY <3>4, <5>1
      <4>3. j < timestamp' <=> j < timestamp \/ (timestamp <= j /\ j <= ldt)
        BY <1>2, <2>1, <3>1
      <4>4. ~(j < timestamp) => j >= timestamp
        BY <1>2
      <4> QED BY <3>3, <4>1, <4>2, <4>3, <4>4
    <3> QED BY <1>1, <3>2, <3>3, <3>4, <3>5, <3>6 DEF Good
  <2>2. CASE ~(ldt >= timestamp)
    BY <1>1, <1>6, <2>2 DEF IInv, Exact
  <2> QED BY <2>1, <2>2
<1> QED BY <1>4, <1>5, <1>6 DEF IInv

(* A demotion: the commit log is left as it is.                             *)
LEMMA DemoteStep ==
  ASSUME IInv, DemoteToReplica, UNCHANGED files
  PROVE  IInv'
<1>1. /\ \A a \in Accessors : acc[a].phase # "committing"
      /\ role' = "replica"
      /\ UNCHANGED <<log, timestamp, ldt, engine, acc, crashed, history, snap, behind>>
  BY DEF DemoteToReplica, files
<1>2. Types'
  BY <1>1 DEF IInv, Types
<1>3. Disciplined'
  <2>1. \A a \in Accessors : /\ acc[a].kind = "unique" => Quiet(Others(a))'
                             /\ acc[a].phase = "recovered" => acc[a].kind = "unique"
                             /\ acc[a].phase = "prepared" => acc[a].kind = "repl"
                             /\ acc[a].phase = "active" => acc[a].start < timestamp
    BY <1>1 DEF IInv, Disciplined, Replicating, Quiet, Others
  <2> QED BY <1>1, <2>1 DEF Disciplined, Replicating
<1>4. Exact' => Good(log', timestamp', acc')
  BY <1>1 DEF IInv, Exact
<1> QED BY <1>2, <1>3, <1>4 DEF IInv

-----------------------------------------------------------------------------
(* The recoveries.  Clear leaves an empty log; the range then finishes       *)
(* everything below the clock of the snapshot.                             *)
LEMMA LoadGood ==
  ASSUME NEW past, NEW next \in Nat \ {0}, NEW durable, LoadIntoCleared(past, next, durable), Exact',
         \A a \in Accessors : acc'[a].phase \in {"none", "recovered"}
  PROVE  Good(log', timestamp', acc')
<1>1. timestamp' = next /\ ReportRange(EmptyLog, past, 0, next - 1) /\ next - 1 \in Nat
  BY DEF LoadIntoCleared
<1>2. /\ WellFormed(log') /\ OldestIsLeast(log')
      /\ \A j \in Nat : Finished(log', j) <=> Finished(EmptyLog, j) \/ (0 <= j /\ j <= next - 1)
  BY <1>1, EmptyLogCorrect, ReportRangeLog
<1>3. \A j \in Nat : Finished(log', j) <=> j < next
  BY <1>2, EmptyLogCorrect
<1> QED BY <1>1, <1>2, <1>3, AllQuiet

(* RECOVER SNAPSHOT of the main, onto an old clock or onto a new one.       *)
LEMMA RecoverStep ==
  ASSUME IInv, NEW next \in 1 .. MaxId + 1, NEW durable \in 0 .. MaxId, NEW a \in Accessors,
         RecoverSnapshot(a, next, durable)
  PROVE  IInv'
<1> DEFINE new == [acc[a] EXCEPT !.phase = "recovered"]
           Onto == /\ timestamp' = IF next > timestamp THEN next ELSE timestamp
                   /\ ldt' = durable
                   /\ ReportRange(log, history \cup {"recovery"}, 0, timestamp' - 1)
<1>1. /\ acc[a].phase = "active" /\ acc[a].kind = "unique" /\ role = "main" /\ ~crashed
      /\ LoadIntoCleared({"recovery"}, next, durable) \/ Onto
      /\ Step(a, "recovered") /\ UNCHANGED <<role, engine>>
      /\ snap' = [next |-> next, durable |-> durable] /\ behind' = (timestamp' <= ldt')
  BY DEF RecoverSnapshot, At, Up
<1>2. /\ Types /\ Disciplined /\ acc \in [Accessors -> Records] /\ timestamp \in Nat
      /\ "recovered" \in Phases /\ next \in Nat \ {0} /\ durable \in Nat
  BY CommitLogConstants DEF IInv, Types, Phases
<1>3. /\ new.phase = "recovered" /\ new.kind = acc[a].kind
      /\ acc' \in [Accessors -> Records]
      /\ \A b \in Accessors : acc'[b] = IF b = a THEN new ELSE acc[b]
  BY <1>1, <1>2, PhaseStep DEF Step
<1> HIDE DEF new
<1>4. timestamp' \in Nat \ {0} /\ ldt' = durable
  <2>1. CASE LoadIntoCleared({"recovery"}, next, durable)
    BY <1>2, <2>1 DEF LoadIntoCleared
  <2>2. CASE Onto
    BY <1>2, <2>2
  <2> QED BY <1>1, <2>1, <2>2
<1>5. Types'
  BY <1>1, <1>2, <1>3, <1>4 DEF Types
<1>6. \A b \in Accessors : b # a => acc[b].phase = "none" /\ acc[b].kind # "unique"
  <2>1. Quiet(Others(a))
    BY <1>1, <1>2 DEF Disciplined
  <2>2. \A b \in Accessors : acc[b].kind = "unique" => Quiet(Others(b))
    BY <1>2 DEF Disciplined
  <2> QED BY <1>1, <2>1, <2>2 DEF Quiet, Others
<1>7. Disciplined'
  <2>1. \A b \in Accessors : acc'[b].kind = "unique" => Quiet(Others(b))'
    BY <1>3, <1>6 DEF Quiet, Others
  <2>2. \A b \in Accessors : acc'[b].phase \in {"none", "recovered"} /\ (acc'[b].phase = "recovered" => b = a)
    BY <1>3, <1>6
  <2>3. \A b \in Accessors : acc'[b].kind # "repl"
    BY <1>1, <1>2, <1>3 DEF Disciplined, Replicating
  <2>4. behind' \/ ldt' < timestamp'
    <3>1. timestamp' <= ldt' \/ ldt' < timestamp'
      BY <1>2, <1>4
    <3> QED BY <1>1, <3>1, Zenon
  <2> QED BY <1>1, <1>3, <2>1, <2>2, <2>3, <2>4 DEF Disciplined, Replicating
<1>8. ASSUME Exact' PROVE Good(log', timestamp', acc')
  <2>1. \A b \in Accessors : acc'[b].phase \in {"none", "recovered"}
    BY <1>3, <1>6
  <2>2. CASE LoadIntoCleared({"recovery"}, next, durable)
    BY <1>2, <1>8, <2>1, <2>2, LoadGood
  <2>3. CASE Onto
    <3> DEFINE past == history \cup {"recovery"}
               to == timestamp' - 1
    <3>1. ReportRange(log, past, 0, to) /\ to \in Nat
      BY <1>4, <2>3
    <3>2. Good(log, timestamp, acc)
      <4>1. history \subseteq history'
        BY <3>1 DEF ReportRange
      <4> QED BY <1>1, <1>8, <4>1 DEF IInv, Exact
    <3> HIDE DEF past, to
    <3>3. /\ WellFormed(log') /\ OldestIsLeast(log')
          /\ \A j \in Nat : Finished(log', j) <=> Finished(log, j) \/ (0 <= j /\ j <= to)
      BY <1>8, <3>1, <3>2, ReportRangeLog DEF Good
    <3>4. \A j \in Nat : Finished(log', j) <=> j < timestamp'
      <4>1. \A j \in Nat : Finished(log, j) => j < timestamp
        BY <3>2 DEF Good
      <4>2. timestamp' >= timestamp
        BY <1>2, <2>3
      <4>3. \A j \in Nat : j <= to <=> j < timestamp'
        <5> DEFINE later == timestamp'
        <5>1. later \in Nat \ {0} /\ to = later - 1
          BY <1>4 DEF to
        <5> HIDE DEF later
        <5>2. \A j \in Nat : j <= to <=> j < later
          BY <5>1
        <5> QED BY <5>2 DEF later
      <4>4. \A j \in Nat : j < timestamp => j < timestamp'
        BY <1>2, <1>4, <4>2
      <4> QED BY <3>3, <4>1, <4>3, <4>4
    <3> QED BY <1>4, <2>1, <3>3, <3>4, AllQuiet
  <2> QED BY <1>1, <2>2, <2>3
<1> QED BY <1>5, <1>7, <1>8 DEF IInv

(* SnapshotHandler of the replica clears the storage first.                 *)
LEMMA SnapshotStep ==
  ASSUME IInv, NEW next \in 1 .. MaxId + 1, NEW durable \in 0 .. MaxId,
         SnapshotHandler(next, durable)
  PROVE  IInv'
<1>1. /\ role = "replica" /\ Quiet(Accessors) /\ LoadIntoCleared({}, next, durable)
      /\ UNCHANGED <<role, engine, acc>>
      /\ snap' = [next |-> next, durable |-> durable] /\ behind' = FALSE
  BY DEF SnapshotHandler
<1>2. next \in Nat \ {0} /\ durable \in Nat /\ timestamp' = next /\ ldt' = durable
  BY <1>1, CommitLogConstants DEF LoadIntoCleared
<1>3. Types'
  BY <1>1, <1>2 DEF IInv, Types
<1>4. Disciplined'
  <2>1. \A a \in Accessors : acc[a].phase = "none"
    BY <1>1 DEF Quiet
  <2>2. \A a \in Accessors : Quiet(Others(a))'
    BY <1>1, <2>1 DEF Quiet, Others
  <2> QED BY <1>1, <2>1, <2>2 DEF Disciplined, Replicating
<1>5. ASSUME Exact' PROVE Good(log', timestamp', acc')
  <2>1. \A a \in Accessors : acc'[a].phase \in {"none", "recovered"}
    BY <1>1 DEF Quiet
  <2> QED BY <1>1, <1>2, <1>5, <2>1, LoadGood
<1> QED BY <1>3, <1>4, <1>5 DEF IInv

(* A restart rebuilds the log from the recovered clock.                     *)
LEMMA RestartStep ==
  ASSUME IInv, Restart
  PROVE  IInv'
<1> DEFINE n == RecoveredClock
<1>1. /\ timestamp' = n /\ log' = (IF n = 0 THEN EmptyLog ELSE NewLog(n))
      /\ acc' = [a \in Accessors |-> Ended] /\ UNCHANGED <<ldt, role, snap>>
      /\ behind' = (role = "main" /\ ldt # 0 /\ n <= ldt)
  BY DEF Restart
<1>2. /\ ldt \in Nat /\ role \in {"main", "replica"}
      /\ snap \in [next : Nat, durable : Nat] /\ snap.next \in Nat
  BY DEF IInv, Types
<1>3. n \in Nat
  BY <1>2 DEF RecoveredClock
<1> HIDE DEF n
<1>4. /\ Ended \in Records
      /\ \A a \in Accessors : acc'[a] = Ended /\ acc'[a].phase = "none" /\ acc'[a].kind = "user"
  BY <1>1 DEF Ended, Records, Phases, Kinds
<1>5. Types'
  <2>1. behind' \in BOOLEAN
    BY <1>1
  <2>2. timestamp' \in Nat /\ ldt' \in Nat /\ role' \in {"main", "replica"}
    BY <1>1, <1>2, <1>3
  <2>3. acc' \in [Accessors -> Records] /\ snap' \in [next : Nat, durable : Nat]
    BY <1>1, <1>2, <1>4
  <2> QED BY <2>1, <2>2, <2>3 DEF Types
<1>6. role' = "main" => behind' \/ ldt' < timestamp' \/ (ldt' = 0 /\ timestamp' = 0)
  <2>1. (ldt # 0 /\ n <= ldt) \/ ldt < n \/ (ldt = 0 /\ n = 0)
    BY <1>2, <1>3
  <2> QED BY <1>1, <2>1, Zenon
<1>7. Disciplined'
  BY <1>4, <1>6 DEF Disciplined, Replicating, Quiet, Others
<1>8. Good(log', timestamp', acc')
  <2>1. WellFormed(log') /\ OldestIsLeast(log') /\ \A j \in Nat : Finished(log', j) <=> j < n
    BY <1>1, <1>3, EmptyLogCorrect, NewLogCorrect
  <2> QED BY <1>1, <1>3, <1>4, <2>1, AllQuiet
<1> QED BY <1>5, <1>7, <1>8 DEF IInv

-----------------------------------------------------------------------------
(* A storage that was just opened.                                          *)
LEMMA InitIInv == Init => IInv
<1> SUFFICES ASSUME Init PROVE IInv
  OBVIOUS
<1>1. /\ Ended \in Records
      /\ \A a \in Accessors : acc[a] = Ended /\ acc[a].phase = "none" /\ acc[a].kind = "user"
  BY DEF Init, Ended, Records, Phases, Kinds
<1>2. Types
  BY <1>1 DEF Init, Types, NoSnapshot
<1>3. Disciplined
  BY <1>1 DEF Init, Disciplined, Replicating, Quiet, Others
<1>4. Good(log, timestamp, acc)
  <2>1. WellFormed(log) /\ OldestIsLeast(log) /\ timestamp \in Nat
    BY EmptyLogCorrect DEF Init
  <2>2. \A j \in Nat : Finished(log, j) <=> j < timestamp
    BY EmptyLogCorrect DEF Init
  <2> QED BY <1>1, <2>1, <2>2, AllQuiet
<1> QED BY <1>2, <1>3, <1>4 DEF IInv

(* Every step keeps the invariant.                                          *)
LEMMA NextIInv == IInv /\ [Next]_vars => IInv'
<1> SUFFICES ASSUME IInv, [Next]_vars PROVE IInv'
  OBVIOUS
<1>1. CASE UNCHANGED vars
  BY <1>1 DEF vars, IInv, Types, Disciplined, Exact, Quiet, Others, Replicating
<1>2. ASSUME NEW a \in Accessors, AccessorStep(a), UNCHANGED files PROVE IInv'
  <2>1. ASSUME NEW kind \in Kinds, Begin(a, kind) PROVE IInv'
    BY <1>2, <2>1, BeginStep
  <2>2. CASE CommitNothing(a)
    BY <1>2, <2>2, CommitNothingStep
  <2>3. CASE Abort(a)
    BY <1>2, <2>3, AbortStep
  <2>4. CASE TakeCommitTimestamp(a)
    BY <1>2, <2>4, TakeCommitStep
  <2>5. CASE RefuseCommit(a)
    <3>1. /\ Step(a, "undo") /\ acc[a].phase = "committing" /\ engine = a
          /\ UNCHANGED <<log, timestamp, ldt, role, crashed, history, snap, behind>>
      BY <1>2, <2>5 DEF RefuseCommit, At, files
    <3> QED BY <3>1, MoveStep
  <2>6. CASE AbortCommit(a)
    BY <1>2, <2>6, AbortCommitStep
  <2>7. CASE ResetCommitTimestamp(a)
    <3>1. /\ acc[a].phase = "undone" /\ Report(acc[a].commit) /\ acc' = [acc EXCEPT ![a] = Ended]
          /\ UNCHANGED <<timestamp, ldt, role, engine, crashed, snap, behind>>
      BY <1>2, <2>7 DEF ResetCommitTimestamp, At, files
    <3> QED BY <3>1, LastReportStep
  <2>8. CASE FinalizeCommitPhase(a)
    BY <1>2, <2>8, FinalizeCommitStep
  <2>9. CASE FinalizeTransaction(a)
    <3>1. /\ acc[a].phase = "committed" /\ Report(acc[a].commit) /\ acc' = [acc EXCEPT ![a] = Ended]
          /\ UNCHANGED <<timestamp, ldt, role, engine, crashed, snap, behind>>
      BY <1>2, <2>9 DEF FinalizeTransaction, At, files
    <3> QED BY <3>1, LastReportStep
  <2>10. CASE VoteYes(a)
    <3>1. /\ Step(a, "prepared") /\ acc[a].phase = "committing" /\ engine = a /\ acc[a].kind = "repl"
          /\ UNCHANGED <<log, timestamp, ldt, role, crashed, history, snap, behind>>
      BY <1>2, <2>10 DEF VoteYes, At, Replicating, files
    <3> QED BY <3>1, MoveStep
  <2>11. CASE FinalizeCommitHandler(a)
    BY <1>2, <2>11, FinalizeHandlerStep
  <2>12. CASE DestroyReplAccessor(a)
    <3>1. /\ Step(a, "undo") /\ acc[a].phase = "prepared" /\ engine' = engine
          /\ UNCHANGED <<log, timestamp, ldt, role, crashed, history, snap, behind>>
      BY <1>2, <2>12 DEF DestroyReplAccessor, At, files
    <3> QED BY <3>1, MoveStep
  <2>13. CASE FailLdtAssertion(a)
    BY <1>2, <2>13, FailAssertionStep
  <2> QED BY <1>2, <2>1, <2>2, <2>3, <2>4, <2>5, <2>6, <2>7, <2>8, <2>9, <2>10, <2>11, <2>12, <2>13 DEF AccessorStep
<1>3. CASE PromoteToMain /\ UNCHANGED files
  BY <1>3, PromoteStep
<1>4. CASE DemoteToReplica /\ UNCHANGED files
  BY <1>4, DemoteStep
<1>5. CASE Restart
  BY <1>5, RestartStep
<1>6. ASSUME NEW next \in 1 .. MaxId + 1, NEW durable \in 0 .. MaxId,
             NEW a \in Accessors, RecoverSnapshot(a, next, durable)
      PROVE  IInv'
  BY <1>6, RecoverStep
<1>7. ASSUME NEW next \in 1 .. MaxId + 1, NEW durable \in 0 .. MaxId,
             SnapshotHandler(next, durable)
      PROVE  IInv'
  BY <1>7, SnapshotStep
<1>8. ASSUME NEW a \in Accessors, WriteSnapshot(a) PROVE IInv'
  BY <1>8, WriteSnapshotStep
<1> QED BY <1>1, <1>2, <1>3, <1>4, <1>5, <1>6, <1>7, <1>8 DEF Next

(* Hence it always holds.                                                   *)
LEMMA Inductive == Spec => []IInv
BY InitIInv, NextIInv, PTL DEF Spec

(* The ids in use are those of the records.                                *)
LEMMA OpenIdsAre ==
  ASSUME NEW id
  PROVE  id \in OpenIds <=> \E a \in Accessors : id \in OpenOf(acc[a])
<1>1. \A a \in Accessors : (OpenStart(a) <=> UsesStart(acc[a])) /\ (OpenCommit(a) <=> UsesCommit(acc[a]))
  BY DEF OpenStart, OpenCommit, UsesStart, UsesCommit
<1>2. ASSUME id \in OpenIds PROVE \E a \in Accessors : id \in OpenOf(acc[a])
  <2>1. PICK a \in Accessors : (OpenStart(a) /\ id = acc[a].start) \/ (OpenCommit(a) /\ id = acc[a].commit)
    BY <1>2, Zenon DEF OpenIds
  <2>2. id \in OpenOf(acc[a])
    BY <1>1, <2>1, Zenon DEF OpenOf
  <2> QED BY <2>2
<1>3. ASSUME NEW a \in Accessors, id \in OpenOf(acc[a]) PROVE id \in OpenIds
  <2>1. (OpenStart(a) /\ id = acc[a].start) \/ (OpenCommit(a) /\ id = acc[a].commit)
    BY <1>1, <1>3, Zenon DEF OpenOf
  <2> QED BY <2>1, Zenon DEF OpenIds
<1> QED BY <1>2, <1>3

-----------------------------------------------------------------------------
(* OldestActive never passes an id in use, whatever the accessors, two-phase   *)
(* commit, promotions, recoveries and restarts do between each other.       *)
THEOREM ActiveIdsAreProtected == Spec => []ProtectedWhileExact
<1>1. IInv => ProtectedWhileExact
  <2> SUFFICES ASSUME IInv, Exact, NEW id \in OpenIds PROVE log.oldestActive <= id
    BY DEF ProtectedWhileExact, ActiveIdsProtected
  <2>1. Good(log, timestamp, acc) /\ timestamp \in Nat
    BY DEF IInv, Types
  <2>2. PICK a \in Accessors : id \in OpenOf(acc[a])
    BY OpenIdsAre
  <2>3. id \in 0 .. timestamp - 1
    BY <2>1, <2>2 DEF Good, KeptOf
  <2>4. id \in Nat /\ ~Finished(log, id)
    BY <2>1, <2>2, <2>3 DEF Good
  <2>5. log.oldestActive \in Nat
    BY <2>1, LogTypes DEF Good
  <2>6. ~(id < log.oldestActive)
    BY <2>1, <2>4 DEF Good, OldestIsLeast, NoneBelow
  <2> QED BY <2>4, <2>5, <2>6
<1> QED BY <1>1, Inductive, PTL

(* OldestActive is an id in use or has reached the clock: no id is left       *)
(* that nobody will report.                                                *)
THEOREM NothingIsHeldBack == Spec => []NothingHeldBack
<1>1. IInv => NothingHeldBack
  <2> SUFFICES ASSUME IInv, Exact, ~(log.oldestActive >= timestamp) PROVE log.oldestActive \in OpenIds
    BY DEF NothingHeldBack
  <2>1. Good(log, timestamp, acc) /\ timestamp \in Nat
    BY DEF IInv, Types
  <2>2. log.oldestActive \in Nat /\ ~Finished(log, log.oldestActive)
    BY <2>1, LogTypes DEF Good, OldestIsLeast
  <2>3. log.oldestActive < timestamp
    BY <2>1, <2>2
  <2>4. \E a \in Accessors : log.oldestActive \in OpenOf(acc[a])
    BY <2>1, <2>2, <2>3 DEF Good
  <2> QED BY <2>4, OpenIdsAre
<1> QED BY <1>1, Inductive, PTL

(* No main commits at or below the last durable timestamp                   *)
(* (storage.cpp:1206), across demotions, promotions and restarts, unless   *)
(* the snapshot it was last recovered from left its clock behind.          *)
THEOREM DurableTimestampGrows == Spec => []DurableGrows
<1>1. IInv => DurableGrows
  <2> SUFFICES ASSUME IInv, ~behind, NEW a \in Accessors, CommitsBelow(a) PROVE FALSE
    BY DEF DurableGrows
  <2>1. acc[a].phase = "committing" /\ ~Replicating(a) /\ acc[a].commit <= ldt
    BY DEF CommitsBelow, At
  <2>2. ldt < acc[a].commit
    BY <2>1 DEF IInv, Disciplined
  <2>3. ldt \in Nat /\ acc[a].commit \in Nat
    BY RecordTypes DEF IInv, Types
  <2> QED BY <2>1, <2>2, <2>3
<1> QED BY <1>1, Inductive, PTL

=============================================================================

-------------------------- MODULE LedgerRunsProofs --------------------------
(***************************************************************************)
(* Proofs about LedgerRuns, for any number of runs, units, versions and    *)
(* ingests: its types; when every unit has a key of its own, that done     *)
(* rows name extracted inputs and that settled units rest; and when, and   *)
(* how long, the database is a UnitLedger.                                 *)
(***************************************************************************)
EXTENDS LedgerRuns, FiniteSetTheorems, TLAPS

-----------------------------------------------------------------------------
(* Types.                                                                  *)

\* The row that is not there has the type of a row.
LEMMA NoRowType == NoRow \in Rows
BY DEF NoRow, Rows

\* The types hold at the start.
LEMMA TypeInit == Init => TypeOK
<1>. SUFFICES ASSUME Init PROVE TypeOK
  OBVIOUS
<1>1. overlapped \in BOOLEAN
  BY Zenon DEF Init
<1>. QED
  BY <1>1, NoRowType DEF Init, TypeOK

\* Every step keeps the types.
LEMMA TypeStep == TypeOK /\ [Next]_vars => TypeOK'
<1>. SUFFICES ASSUME TypeOK, [Next]_vars PROVE TypeOK'
  OBVIOUS
<1>. USE RunsAssumption
<1>1. ASSUME NEW r \in Runs, ReadUnits(r) PROVE TypeOK'
  <2>1. overlapped' \in BOOLEAN
    BY <1>1, Zenon DEF TypeOK, ReadUnits
  <2>. QED
    BY <1>1, <2>1 DEF TypeOK, ReadUnits
<1>2. ASSUME NEW r \in Runs, ReadLedger(r) PROVE TypeOK'
  BY <1>2 DEF TypeOK, ReadLedger
<1>3. ASSUME NEW r \in Runs, Stop(r) PROVE TypeOK'
  BY <1>3 DEF TypeOK, Stop
<1>4. ASSUME NEW r \in Runs, NEW u \in Units, Pend(r, u) PROVE TypeOK'
  <2>1. [status |-> "pending", hash |-> HashIn(r, u)] \in Rows
    BY DEF TypeOK, Rows, HashIn, Hashes
  <2>2. ledger' \in [Keys -> Rows]
    BY <1>4, <2>1 DEF TypeOK, Pend
  <2>. QED
    BY <1>4, <2>2 DEF TypeOK, Pend
<1>5. ASSUME NEW k \in Keys, NEW s \in {"done", "failed"}
      PROVE  FinishLedgerRow(k, s) \in [Keys -> Rows]
  BY DEF TypeOK, FinishLedgerRow, Rows
<1>6. ASSUME NEW r \in Runs, NEW u \in Units, PersistDone(r, u) PROVE TypeOK'
  <2>1. ledger' \in [Keys -> Rows] /\ HashIn(r, u) \in Hashes
    BY <1>5, <1>6 DEF TypeOK, PersistDone, HashIn, Hashes
  <2>. QED
    BY <1>6, <2>1 DEF TypeOK, PersistDone
<1>7. ASSUME NEW r \in Runs, NEW u \in Units, PersistFailed(r, u) PROVE TypeOK'
  <2>1. ledger' \in [Keys -> Rows]
    BY <1>5, <1>7 DEF TypeOK, PersistFailed
  <2>. QED
    BY <1>7, <2>1 DEF TypeOK, PersistFailed
<1>8. ASSUME NEW u \in Units, Drift(u) PROVE TypeOK'
  BY <1>8 DEF TypeOK, Drift
<1>9. CASE UNCHANGED vars
  BY <1>9 DEF TypeOK, vars
<1>. QED
  BY <1>1, <1>2, <1>3, <1>4, <1>6, <1>7, <1>8, <1>9 DEF Next

\* The variables have the types TypeOK gives them; above all, a row is never
\* given a status or a hash that is not one.
THEOREM TypeCorrect == Spec => []TypeOK
<1>. QED
  BY TypeInit, TypeStep, PTL DEF Spec

-----------------------------------------------------------------------------
(* The inductive invariant.                                                *)

Orderly == drifts = 0 \/ ~overlapped

\* Only a run that is under way has units to submit or in flight, and no
\* unit is both.
RunsInv ==
  /\ \A r \in Runs : pc[r] # "running" => todo[r] = {} /\ flying[r] = {}
  /\ \A r \in Runs : todo[r] \cap flying[r] = {}
  /\ ~overlapped => \A q, r \in Runs : pc[q] # "off" /\ pc[r] # "off" => q = r

\* Before the first ingest every run sees the inputs there are.
WorkInv == drifts = 0 => \A r \in Runs : work[r] = input

\* The row of a unit in flight has the hash the unit was submitted under.
RowInv == Orderly => \A r \in Runs : \A u \in flying[r] :
                       ledger[KeyOf[u]].hash = HashIn(r, u)

\* A settled unit is done under its input, and the run under way saw that
\* input and has nothing more to do with the unit.
SettledInv ==
  ~overlapped => \A u \in settled :
    /\ ledger[KeyOf[u]] = [status |-> "done", hash |-> <<u, input[u]>>]
    /\ \A r \in Runs : u \notin todo[r] \cup flying[r]
    /\ \A r \in Runs : pc[r] # "off" => work[r][u] = input[u]

IInv == TypeOK /\ RunsInv /\ WorkInv /\ RowInv /\ SettledInv /\ DoneIsExtracted

\* Runs stay apart from what is not theirs, however units share keys.
LEMMA RunsStep ==
  ASSUME TypeOK, RunsInv, WorkInv, TypeOK', [Next]_vars
  PROVE  RunsInv' /\ WorkInv'
<1>1. ASSUME NEW r \in Runs, ReadUnits(r) PROVE RunsInv' /\ WorkInv'
  BY <1>1 DEF TypeOK, RunsInv, WorkInv, ReadUnits
<1>2. ASSUME NEW r \in Runs, ReadLedger(r) PROVE RunsInv' /\ WorkInv'
  BY <1>2 DEF TypeOK, RunsInv, WorkInv, ReadLedger
<1>3. ASSUME NEW r \in Runs, Stop(r) PROVE RunsInv' /\ WorkInv'
  BY <1>3 DEF TypeOK, RunsInv, WorkInv, Stop
<1>4. ASSUME NEW r \in Runs, NEW u \in Units, Pend(r, u) PROVE RunsInv' /\ WorkInv'
  BY <1>4 DEF TypeOK, RunsInv, WorkInv, Pend
<1>5. ASSUME NEW r \in Runs, NEW u \in Units, PersistDone(r, u) \/ PersistFailed(r, u)
      PROVE RunsInv' /\ WorkInv'
  <2>1. /\ flying' = [flying EXCEPT ![r] = @ \ {u}]
        /\ UNCHANGED <<input, pc, work, todo, overlapped, drifts>>
    BY <1>5 DEF PersistDone, PersistFailed
  <2>2. \A q \in Runs : flying'[q] \subseteq flying[q]
    BY <2>1 DEF TypeOK
  <2>3. RunsInv'
    BY <2>1, <2>2 DEF RunsInv
  <2>4. WorkInv'
    BY <2>1 DEF WorkInv
  <2>. QED
    BY <2>3, <2>4
<1>6. ASSUME NEW u \in Units, Drift(u) PROVE RunsInv' /\ WorkInv'
  <2>1. drifts' # 0
    BY <1>6 DEF TypeOK, Drift
  <2>. QED
    BY <1>6, <2>1 DEF RunsInv, WorkInv, Drift
<1>7. CASE UNCHANGED vars
  BY <1>7 DEF RunsInv, WorkInv, vars
<1>. QED
  BY <1>1, <1>2, <1>3, <1>4, <1>5, <1>6, <1>7 DEF Next

\* A unit two runs have in flight at once is in flight under one hash.
LEMMA SameHash ==
  ASSUME RunsInv, WorkInv, TypeOK, Orderly, NEW q \in Runs, NEW r \in Runs,
         pc[q] = "running", pc[r] = "running", NEW u \in Units
  PROVE  HashIn(q, u) = HashIn(r, u)
BY DEF RunsInv, WorkInv, Orderly, HashIn

\* Rows in flight keep their hash, and a row is done only when its input is
\* extracted.
LEMMA RowStep ==
  ASSUME DistinctKeys, IInv, TypeOK', [Next]_vars
  PROVE  RowInv' /\ DoneIsExtracted'
<1>. SUFFICES ASSUME Orderly' PROVE (RowInv /\ DoneIsExtracted)'
  BY DEF RowInv, DoneIsExtracted, Orderly
<1>1. Orderly
  <2>1. drifts' = 0 => drifts = 0
    <3>1. drifts' = drifts \/ drifts' = drifts + 1
      BY DEF Next, ReadUnits, ReadLedger, Stop, Pend, PersistDone, PersistFailed, Drift, vars
    <3>. QED
      BY <3>1 DEF IInv, TypeOK
  <2>2. ~overlapped' => ~overlapped
    BY DEF Next, ReadUnits, ReadLedger, Stop, Pend, PersistDone, PersistFailed, Drift, vars
  <2>. QED
    BY <2>1, <2>2 DEF Orderly
<1>2. /\ \A r \in Runs : \A u \in flying[r] : ledger[KeyOf[u]].hash = HashIn(r, u)
      /\ \A k \in Keys : ledger[k].status = "done" => ledger[k].hash \in extracted
  BY <1>1 DEF IInv, RowInv, DoneIsExtracted, Orderly
<1>3. ASSUME NEW r \in Runs, ReadUnits(r) PROVE (RowInv /\ DoneIsExtracted)'
  BY <1>2, <1>3 DEF IInv, TypeOK, RunsInv, RowInv, DoneIsExtracted, ReadUnits, HashIn
<1>4. ASSUME NEW r \in Runs, ReadLedger(r) \/ Stop(r) PROVE (RowInv /\ DoneIsExtracted)'
  BY <1>2, <1>4 DEF IInv, TypeOK, RowInv, DoneIsExtracted, ReadLedger, Stop, HashIn
<1>5. ASSUME NEW r \in Runs, NEW u \in Units, Pend(r, u)
      PROVE  (RowInv /\ DoneIsExtracted)'
  <2>1. ledger'[KeyOf[u]] = [status |-> "pending", hash |-> HashIn(r, u)]
        /\ \A k \in Keys \ {KeyOf[u]} : ledger'[k] = ledger[k]
    BY <1>5, RunsAssumption DEF IInv, TypeOK, Pend
  <2>2. work' = work /\ extracted' = extracted
    BY <1>5 DEF Pend
  <2>3. ASSUME NEW q \in Runs, NEW v \in flying'[q]
        PROVE  ledger'[KeyOf[v]].hash = HashIn(q, v)
    <3>1. v \in Units /\ KeyOf[v] \in Keys
      BY <2>3, RunsAssumption DEF TypeOK
    <3>2. pc[q] = "running"
      BY <1>5, <2>3 DEF IInv, TypeOK, RunsInv, Pend
    <3>3. CASE v = u
      <4>1. HashIn(q, u) = HashIn(r, u)
        BY <1>1, <1>5, <3>2, SameHash DEF IInv, Pend
      <4>. QED
        BY <2>1, <3>3, <4>1
    <3>4. CASE v # u
      <4>1. KeyOf[v] # KeyOf[u] /\ v \in flying[q]
        BY <1>5, <2>3, <3>1, <3>4 DEF DistinctKeys, IInv, TypeOK, Pend
      <4>. QED
        BY <1>2, <2>1, <3>1, <4>1
    <3>. QED
      BY <3>3, <3>4
  <2>4. DoneIsExtracted'
    BY <1>2, <2>1, <2>2 DEF DoneIsExtracted
  <2>. QED
    BY <2>2, <2>3, <2>4 DEF RowInv, HashIn
<1>6. ASSUME NEW r \in Runs, NEW u \in Units, NEW s, u \in flying[r],
             ledger' = FinishLedgerRow(KeyOf[u], s), work' = work,
             flying' = [flying EXCEPT ![r] = @ \ {u}],
             s = "done" => HashIn(r, u) \in extracted',
             extracted \subseteq extracted'
      PROVE  (RowInv /\ DoneIsExtracted)'
  <2>1. ledger'[KeyOf[u]].hash = HashIn(r, u) /\ ledger'[KeyOf[u]].status = s
        /\ \A k \in Keys \ {KeyOf[u]} : ledger'[k] = ledger[k]
    BY <1>2, <1>6, RunsAssumption DEF IInv, TypeOK, FinishLedgerRow, Rows
  <2>2. \A k \in Keys : ledger'[k].hash = ledger[k].hash
    BY <1>2, <1>6, <2>1
  <2>3. \A q \in Runs : flying'[q] \subseteq flying[q] /\ flying[q] \subseteq Units
    BY <1>6 DEF IInv, TypeOK
  <2>4. RowInv'
    BY <1>2, <1>6, <2>2, <2>3, RunsAssumption DEF RowInv, HashIn
  <2>5. DoneIsExtracted'
    BY <1>2, <1>6, <2>1 DEF DoneIsExtracted
  <2>. QED
    BY <2>4, <2>5
<1>7. ASSUME NEW r \in Runs, NEW u \in Units, PersistDone(r, u) \/ PersistFailed(r, u)
      PROVE  (RowInv /\ DoneIsExtracted)'
  BY <1>6, <1>7 DEF PersistDone, PersistFailed
<1>8. ASSUME NEW u \in Units, Drift(u) PROVE (RowInv /\ DoneIsExtracted)'
  BY <1>2, <1>8 DEF RowInv, DoneIsExtracted, Drift, HashIn
<1>9. CASE UNCHANGED vars
  BY <1>2, <1>9 DEF RowInv, DoneIsExtracted, vars, HashIn
<1>. QED
  BY <1>3, <1>4, <1>5, <1>7, <1>8, <1>9 DEF Next

\* A settled unit stays settled and is not submitted while runs do not overlap.
LEMMA SettledStep ==
  ASSUME DistinctKeys, IInv, TypeOK', [Next]_vars
  PROVE  SettledInv'
<1>. SUFFICES ASSUME ~overlapped' PROVE SettledInv'
  BY DEF SettledInv
<1>. USE RunsAssumption
<1>1. ~overlapped
  BY DEF Next, ReadUnits, ReadLedger, Stop, Pend, PersistDone, PersistFailed, Drift, vars
<1>2. \A u \in settled :
        /\ ledger[KeyOf[u]] = [status |-> "done", hash |-> <<u, input[u]>>]
        /\ \A r \in Runs : u \notin todo[r] \cup flying[r]
        /\ \A r \in Runs : pc[r] # "off" => work[r][u] = input[u]
  BY <1>1 DEF IInv, SettledInv
<1>3. ASSUME NEW r \in Runs, ReadUnits(r) PROVE SettledInv'
  BY <1>2, <1>3 DEF IInv, TypeOK, SettledInv, ReadUnits
<1>4. ASSUME NEW r \in Runs, ReadLedger(r) PROVE SettledInv'
  <2>1. \A u \in settled : IsDone(r, u)
    BY <1>2, <1>4 DEF IsDone, HashIn, ReadLedger
  <2>. QED
    BY <1>2, <1>4, <2>1 DEF IInv, TypeOK, SettledInv, ReadLedger
<1>5. ASSUME NEW r \in Runs, Stop(r) PROVE SettledInv'
  BY <1>2, <1>5 DEF IInv, TypeOK, SettledInv, Stop
<1>6. ASSUME NEW r \in Runs, NEW u \in Units, Pend(r, u) PROVE SettledInv'
  <2>1. u \notin settled
    BY <1>2, <1>6 DEF Pend, IsFirst
  <2>2. \A v \in settled : KeyOf[v] # KeyOf[u] /\ KeyOf[v] \in Keys
    BY <2>1 DEF DistinctKeys, IInv, TypeOK
  <2>3. \A v \in settled : ledger'[KeyOf[v]] = ledger[KeyOf[v]]
    BY <1>6, <2>2 DEF IInv, TypeOK, Pend
  <2>. QED
    BY <1>2, <1>6, <2>1, <2>3 DEF IInv, TypeOK, SettledInv, Pend
<1>7. ASSUME NEW r \in Runs, NEW u \in Units, u \in flying[r], NEW s,
             ledger' = FinishLedgerRow(KeyOf[u], s)
      PROVE  \A v \in settled : ledger'[KeyOf[v]] = ledger[KeyOf[v]]
  <2>1. \A v \in settled : KeyOf[v] # KeyOf[u] /\ KeyOf[v] \in Keys
    BY <1>2, <1>7 DEF DistinctKeys, IInv, TypeOK
  <2>. QED
    BY <1>7, <2>1 DEF IInv, TypeOK, FinishLedgerRow
<1>8. ASSUME NEW r \in Runs, NEW u \in Units, PersistFailed(r, u) PROVE SettledInv'
  <2>1. \A v \in settled : ledger'[KeyOf[v]] = ledger[KeyOf[v]]
    BY <1>7, <1>8 DEF PersistFailed
  <2>. QED
    BY <1>2, <1>8, <2>1 DEF IInv, TypeOK, SettledInv, PersistFailed
<1>9. ASSUME NEW r \in Runs, NEW u \in Units, PersistDone(r, u) PROVE SettledInv'
  <2>1. \A v \in settled : ledger'[KeyOf[v]] = ledger[KeyOf[v]]
    BY <1>7, <1>9 DEF PersistDone
  <2>2. /\ ledger'[KeyOf[u]] = [status |-> "done", hash |-> HashIn(r, u)]
        /\ pc[r] = "running" /\ u \notin todo[r]
    <3>1. ledger[KeyOf[u]].hash = HashIn(r, u)
      BY <1>1, <1>9 DEF IInv, RowInv, Orderly, PersistDone
    <3>2. ledger[KeyOf[u]] \in Rows /\ KeyOf[u] \in Keys
      BY DEF IInv, TypeOK
    <3>3. ledger'[KeyOf[u]] = [ledger[KeyOf[u]] EXCEPT !.status = "done"]
      BY <1>9, <3>2 DEF IInv, TypeOK, PersistDone, FinishLedgerRow
    <3>. QED
      BY <1>9, <3>1, <3>2, <3>3 DEF IInv, TypeOK, RunsInv, PersistDone, Rows
  <2>3. \A q \in Runs \ {r} : pc[q] = "off" /\ todo[q] = {} /\ flying[q] = {}
    BY <1>1, <2>2 DEF IInv, RunsInv
  <2>4. ASSUME NEW v \in settled', v \notin settled
        PROVE  v = u /\ work[r][u] = input[u]
    BY <1>9, <2>4 DEF PersistDone
  <2>5. \A q \in Runs : flying'[q] = IF q = r THEN flying[r] \ {u} ELSE flying[q]
    BY <1>9 DEF IInv, TypeOK, PersistDone
  <2>6. UNCHANGED <<input, pc, work, todo>>
    BY <1>9 DEF PersistDone
  <2>. SUFFICES ASSUME NEW v \in settled'
       PROVE  /\ ledger'[KeyOf[v]] = [status |-> "done", hash |-> <<v, input'[v]>>]
              /\ \A q \in Runs : v \notin todo'[q] \cup flying'[q]
              /\ \A q \in Runs : pc'[q] # "off" => work'[q][v] = input'[v]
    BY DEF SettledInv
  <2>7. CASE v \in settled
    BY <1>2, <2>1, <2>5, <2>6, <2>7
  <2>8. CASE v \notin settled
    BY <2>2, <2>3, <2>4, <2>5, <2>6, <2>8 DEF HashIn
  <2>. QED
    BY <2>7, <2>8
<1>10. ASSUME NEW u \in Units, Drift(u) PROVE SettledInv'
  BY <1>2, <1>10 DEF IInv, TypeOK, SettledInv, Drift
<1>11. CASE UNCHANGED vars
  BY <1>2, <1>11 DEF SettledInv, vars
<1>. QED
  BY <1>3, <1>4, <1>5, <1>6, <1>8, <1>9, <1>10, <1>11 DEF Next

\* The invariant holds of every behaviour.
LEMMA Inductive == ASSUME DistinctKeys PROVE Spec => []IInv
<1>1. Init => IInv
  <2>. SUFFICES ASSUME Init PROVE IInv
    OBVIOUS
  <2>1. TypeOK
    BY TypeInit
  <2>. QED
    BY <2>1 DEF Init, IInv, RunsInv, WorkInv, RowInv, SettledInv, DoneIsExtracted, NoRow
<1>2. IInv /\ [Next]_vars => IInv'
  <2>. SUFFICES ASSUME IInv, [Next]_vars PROVE IInv'
    OBVIOUS
  <2>1. TypeOK'
    BY TypeStep DEF IInv
  <2>. QED
    BY <2>1, RunsStep, RowStep, SettledStep DEF IInv
<1>. QED
  BY <1>1, <1>2, PTL DEF Spec

-----------------------------------------------------------------------------
(* Theorems.                                                               *)

\* When every unit has a key of its own, a done row names an extracted input,
\* for runs one after another under any ingests, and for any number of runs
\* at once while there is no ingest.
THEOREM DoneMeansExtracted == ASSUME DistinctKeys PROVE Spec => []DoneIsExtracted
<1>1. IInv => DoneIsExtracted
  BY DEF IInv
<1>. QED
  BY <1>1, Inductive, PTL

\* When every unit has a key of its own, runs one after another leave a unit
\* alone that was extracted since its input last changed.
THEOREM SettledUnitsRest == ASSUME DistinctKeys PROVE Spec => SettledUnitRests
<1>1. IInv /\ IInv' /\ [Next]_vars =>
        [~overlapped' => \A r \in Runs : flying'[r] \cap settled \subseteq flying[r]]_vars
  <2>. SUFFICES ASSUME IInv, [Next]_vars, ~overlapped', NEW r \in Runs,
                       NEW u \in flying'[r], u \in settled
                PROVE  u \in flying[r]
    OBVIOUS
  <2>1. ~overlapped
    BY DEF Next, ReadUnits, ReadLedger, Stop, Pend, PersistDone, PersistFailed, Drift, vars
  <2>2. \A q \in Runs : u \notin todo[q]
    BY <2>1 DEF IInv, SettledInv
  <2>3. ASSUME NEW q \in Runs, NEW v \in Units, Pend(q, v) PROVE u \in flying[r]
    BY <2>2, <2>3 DEF IInv, TypeOK, Pend, IsFirst
  <2>4. ASSUME NEW q \in Runs, NEW v \in Units, PersistDone(q, v) \/ PersistFailed(q, v)
        PROVE  u \in flying[r]
    BY <2>4 DEF IInv, TypeOK, PersistDone, PersistFailed
  <2>5. ASSUME NEW q \in Runs, ReadUnits(q) \/ ReadLedger(q) \/ Stop(q)
        PROVE  u \in flying[r]
    BY <2>5 DEF IInv, TypeOK, ReadUnits, ReadLedger, Stop
  <2>6. CASE (\E v \in Units : Drift(v)) \/ UNCHANGED vars
    BY <2>6 DEF Drift, vars
  <2>. QED
    BY <2>3, <2>4, <2>5, <2>6 DEF Next
<1>. QED
  BY <1>1, Inductive, PTL DEF Spec, SettledUnitRests

-----------------------------------------------------------------------------
(* What UnitLedger promises of each key, as long as runs follow one        *)
(* another.                                                                *)

UL == INSTANCE UnitLedger WITH Units <- Keys,
                               extracted <- {<<KeyOf[h[1]], h>> : h \in extracted}

AloneImplementsUnitLedger ==
  UL!Init /\ [][~overlapped' => [UL!Next]_(UL!vars)]_vars

AloneDoneIsExtracted ==
  ~overlapped => \A k \in Keys : ledger[k].status = "done" => ledger[k].hash \in extracted

\* No two units in flight share a row: units have keys of their own, or a run
\* extracts one unit after another.
OwnRows == DistinctKeys \/ Concurrency =< 1

\* The row of a unit in flight is open under the hash it was submitted under
\* and belongs to no other unit in flight, and none that is still to be
\* submitted is settled.
OpenInv ==
  ~overlapped => \A r \in Runs :
    /\ \A u \in flying[r] :
         ledger[KeyOf[u]] = [status |-> "pending", hash |-> HashIn(r, u)]
    /\ \A u, v \in flying[r] : KeyOf[u] = KeyOf[v] => u = v
    /\ \A u \in todo[r] : ~IsDone(r, u)

AloneInv == OpenInv /\ AloneDoneIsExtracted

\* Runs that do not overlap now never did.
LEMMA AloneBefore == [Next]_vars /\ ~overlapped' => ~overlapped
BY DEF Next, ReadUnits, ReadLedger, Stop, Pend, PersistDone, PersistFailed, Drift, vars

\* A unit that is pended shares its row with none in flight.
LEMMA PendedAlone ==
  ASSUME OwnRows, TypeOK, RunsInv, NEW r \in Runs, NEW u \in Units, Pend(r, u),
         NEW v \in flying[r]
  PROVE  KeyOf[v] # KeyOf[u]
<1>1. u \in todo[r] /\ u \notin flying[r] /\ v \in Units
  BY DEF Pend, IsFirst, RunsInv, TypeOK
<1>2. CASE DistinctKeys
  BY <1>1, <1>2 DEF DistinctKeys
<1>3. CASE Concurrency =< 1
  <2>1. flying[r] \subseteq 1..NumUnits /\ NumUnits \in Nat /\ Concurrency \in Nat
    BY RunsAssumption DEF TypeOK, Units
  <2>2. IsFiniteSet(flying[r])
    BY <2>1, FS_Interval, FS_Subset
  <2>3. Cardinality(flying[r]) \in Nat /\ Cardinality(flying[r]) < Concurrency
    BY <2>2, FS_CardinalityType DEF Pend
  <2>4. Cardinality(flying[r]) = 0
    BY <1>3, <2>1, <2>3
  <2>5. flying[r] = {}
    BY <2>2, <2>4, FS_EmptySet
  <2> QED
    BY <2>5
<1> QED
  BY <1>2, <1>3 DEF OwnRows

\* While runs do not overlap only one has anything to do.
LEMMA OnlyOneWorks ==
  ASSUME RunsInv, ~overlapped, NEW r \in Runs, pc[r] = "running",
         NEW q \in Runs, q # r
  PROVE  todo[q] = {} /\ flying[q] = {}
BY DEF RunsInv

\* Every step of runs that do not overlap preserves what is said of open rows.
LEMMA AloneStep ==
  ASSUME OwnRows, TypeOK, RunsInv, AloneInv, [Next]_vars
  PROVE  AloneInv'
<1> SUFFICES ASSUME ~overlapped' PROVE AloneInv'
  BY DEF AloneInv, OpenInv, AloneDoneIsExtracted
<1> USE RunsAssumption
<1>1. ~overlapped
  BY AloneBefore
<1>2. /\ \A r \in Runs : \A u \in flying[r] :
           ledger[KeyOf[u]] = [status |-> "pending", hash |-> HashIn(r, u)]
      /\ \A r \in Runs : \A u, v \in flying[r] : KeyOf[u] = KeyOf[v] => u = v
      /\ \A r \in Runs : \A u \in todo[r] : ~IsDone(r, u)
      /\ \A k \in Keys : ledger[k].status = "done" => ledger[k].hash \in extracted
  BY <1>1 DEF AloneInv, OpenInv, AloneDoneIsExtracted
<1>3. ASSUME UNCHANGED <<ledger, extracted>>,
             \A q \in Runs : \/ todo'[q] = {} /\ flying'[q] = {}
                             \/ UNCHANGED <<todo[q], flying[q], work[q]>>
      PROVE  AloneInv'
  BY <1>2, <1>3 DEF AloneInv, OpenInv, AloneDoneIsExtracted, IsDone, HashIn
<1>4. ASSUME NEW r \in Runs, ReadUnits(r) PROVE AloneInv'
  <2>1. todo[r] = {} /\ flying[r] = {} /\ \A q \in Runs \ {r} : work'[q] = work[q]
    BY <1>4 DEF TypeOK, RunsInv, ReadUnits
  <2> QED
    BY <1>3, <1>4, <2>1 DEF ReadUnits
<1>5. ASSUME NEW r \in Runs, ReadLedger(r) PROVE AloneInv'
  BY <1>2, <1>5 DEF TypeOK, RunsInv, AloneInv, OpenInv, AloneDoneIsExtracted, ReadLedger,
                    IsDone, HashIn
<1>6. ASSUME NEW r \in Runs, Stop(r) PROVE AloneInv'
  BY <1>3, <1>6 DEF TypeOK, Stop
<1>7. ASSUME NEW r \in Runs, NEW u \in Units, Pend(r, u) PROVE AloneInv'
  <2>1. /\ ledger'[KeyOf[u]] = [status |-> "pending", hash |-> HashIn(r, u)]
        /\ \A k \in Keys \ {KeyOf[u]} : ledger'[k] = ledger[k]
        /\ UNCHANGED <<work, extracted>>
        /\ flying'[r] = flying[r] \cup {u} /\ todo'[r] = todo[r] \ {u}
        /\ flying[r] \subseteq Units /\ todo[r] \subseteq Units
        /\ pc[r] = "running"
    BY <1>7 DEF TypeOK, Pend
  <2>2. ASSUME NEW q \in Runs, q # r
        PROVE  todo'[q] = {} /\ flying'[q] = {}
    BY <1>1, <1>7, <2>1, <2>2, OnlyOneWorks DEF TypeOK, Pend
  <2>3. \A v \in flying[r] : KeyOf[v] # KeyOf[u]
    BY <1>7, PendedAlone
  <2>4. \A v \in flying'[r] :
          ledger'[KeyOf[v]] = [status |-> "pending", hash |-> HashIn(r, v)]
    BY <1>2, <2>1, <2>3
  <2>5. \A v, w \in flying'[r] : KeyOf[v] = KeyOf[w] => v = w
    BY <1>2, <2>1, <2>3
  <2>6. \A v \in todo'[r] : ~IsDone(r, v)'
    BY <1>2, <2>1 DEF IsDone, HashIn
  <2>7. AloneDoneIsExtracted'
    BY <1>2, <2>1 DEF AloneDoneIsExtracted
  <2> QED
    BY <2>1, <2>2, <2>4, <2>5, <2>6, <2>7 DEF AloneInv, OpenInv, HashIn
<1>8. ASSUME NEW r \in Runs, NEW u \in Units, NEW status,
             u \in flying[r], ledger' = FinishLedgerRow(KeyOf[u], status),
             flying' = [flying EXCEPT ![r] = @ \ {u}], UNCHANGED <<work, todo>>,
             extracted \subseteq extracted',
             status = "done" => HashIn(r, u) \in extracted'
      PROVE  AloneInv'
  <2>1. /\ ledger'[KeyOf[u]] = [status |-> status, hash |-> HashIn(r, u)]
        /\ \A k \in Keys \ {KeyOf[u]} : ledger'[k] = ledger[k]
        /\ flying'[r] = flying[r] \ {u}
        /\ flying[r] \subseteq Units /\ todo[r] \subseteq Units
        /\ pc[r] = "running" /\ u \notin todo[r]
    <3>1. ledger[KeyOf[u]] = [status |-> "pending", hash |-> HashIn(r, u)]
      BY <1>2, <1>8
    <3>2. ledger' = [ledger EXCEPT ![KeyOf[u]] = [ledger[KeyOf[u]] EXCEPT !.status = status]]
      BY <1>8 DEF FinishLedgerRow
    <3>3. [ledger[KeyOf[u]] EXCEPT !.status = status]
            = [status |-> status, hash |-> HashIn(r, u)]
      BY <3>1
    <3>4. /\ ledger'[KeyOf[u]] = [status |-> status, hash |-> HashIn(r, u)]
          /\ \A k \in Keys \ {KeyOf[u]} : ledger'[k] = ledger[k]
      BY <3>2, <3>3 DEF TypeOK
    <3> QED
      BY <1>8, <3>4 DEF TypeOK, RunsInv
  <2>2. ASSUME NEW q \in Runs, q # r
        PROVE  todo'[q] = {} /\ flying'[q] = {}
    BY <1>1, <1>8, <2>1, <2>2, OnlyOneWorks DEF TypeOK
  <2>3. \A v \in flying'[r] :
          ledger'[KeyOf[v]] = [status |-> "pending", hash |-> HashIn(r, v)]
    BY <1>2, <1>8, <2>1
  <2>4. \A v \in todo[r] : ~IsDone(r, v)'
    BY <1>2, <1>8, <2>1 DEF IsDone, HashIn
  <2>5. AloneDoneIsExtracted'
    BY <1>2, <1>8, <2>1 DEF AloneDoneIsExtracted
  <2> QED
    BY <1>2, <1>8, <2>1, <2>2, <2>3, <2>4, <2>5 DEF AloneInv, OpenInv, HashIn
<1>9. ASSUME NEW r \in Runs, NEW u \in Units, PersistDone(r, u) \/ PersistFailed(r, u)
      PROVE  AloneInv'
  BY <1>8, <1>9 DEF PersistDone, PersistFailed
<1>10. CASE (\E u \in Units : Drift(u)) \/ UNCHANGED vars
  BY <1>3, <1>10 DEF Drift, vars
<1> QED
  BY <1>4, <1>5, <1>6, <1>7, <1>9, <1>10 DEF Next

\* However units share keys, runs are as RunsInv says.
LEMMA RunsInvariant == Spec => [](TypeOK /\ RunsInv /\ WorkInv)
<1>1. Init => TypeOK /\ RunsInv /\ WorkInv
  <2> SUFFICES ASSUME Init PROVE TypeOK /\ RunsInv /\ WorkInv
    OBVIOUS
  <2>1. TypeOK
    BY TypeInit
  <2> QED
    BY <2>1 DEF Init, RunsInv, WorkInv
<1>2. TypeOK /\ RunsInv /\ WorkInv /\ [Next]_vars => (TypeOK /\ RunsInv /\ WorkInv)'
  BY TypeStep, RunsStep
<1> QED
  BY <1>1, <1>2, PTL DEF Spec

\* So it holds of every behaviour.
LEMMA AloneInvariant == ASSUME OwnRows PROVE Spec => []AloneInv
<1>1. Init => AloneInv
  BY DEF Init, AloneInv, OpenInv, AloneDoneIsExtracted, NoRow
<1>2. TypeOK /\ RunsInv /\ AloneInv /\ [Next]_vars => AloneInv'
  BY AloneStep
<1> QED
  BY <1>1, <1>2, RunsInvariant, PTL DEF Spec

\* Where units share keys, a done row still names an extracted input if runs
\* follow one another and extract one unit after another.
THEOREM LoneDoneMeansExtracted == ASSUME OwnRows PROVE Spec => []AloneDoneIsExtracted
<1>1. AloneInv => AloneDoneIsExtracted
  BY DEF AloneInv
<1> QED
  BY <1>1, AloneInvariant, PTL

\* When every unit has a key of its own, or a run extracts one unit after
\* another, the database is a UnitLedger for as long as runs follow one another,
\* whatever is ingested before, between and during them and wherever they stop: a
\* row is opened, settled or failed, never opened again under the hash it is
\* settled under, and settled only together with the records of the input it
\* names.
THEOREM LoneRunsKeepTheLedger ==
  ASSUME OwnRows PROVE Spec => AloneImplementsUnitLedger
<1>1. Init => UL!Init
  BY DEF Init, UL!Init, NoRow, UL!NoRow
<1>2. TypeOK /\ RunsInv /\ AloneInv /\ [Next]_vars
        => [~overlapped' => [UL!Next]_(UL!vars)]_vars
  <2> SUFFICES ASSUME TypeOK, RunsInv, AloneInv, Next, ~overlapped'
               PROVE  UL!Next \/ UNCHANGED <<ledger, extracted>>
    BY DEF UL!vars
  <2> USE RunsAssumption
  <2>1. ~overlapped
    BY AloneBefore
  <2>2. ASSUME NEW r \in Runs, NEW u \in Units, Pend(r, u)
        PROVE  UL!Next
    <3>1. KeyOf[u] \in Keys /\ HashIn(r, u) \in Hashes
      BY DEF TypeOK, HashIn, Hashes
    <3>2. ~IsDone(r, u)
      BY <2>1, <2>2 DEF AloneInv, OpenInv, Pend, IsFirst
    <3>3. UL!Open(KeyOf[u], HashIn(r, u))
      BY <2>2, <3>2 DEF UL!Open, UL!Settled, Pend, IsDone
    <3> QED
      BY <3>1, <3>3 DEF UL!Next
  <2>3. ASSUME NEW r \in Runs, NEW u \in Units, u \in flying[r]
        PROVE  /\ KeyOf[u] \in Keys /\ ledger[KeyOf[u]].status = "pending"
               /\ ledger[KeyOf[u]].hash = HashIn(r, u)
    <3>1. ledger[KeyOf[u]] = [status |-> "pending", hash |-> HashIn(r, u)]
      BY <2>1, <2>3 DEF AloneInv, OpenInv
    <3> QED
      BY <3>1 DEF TypeOK
  <2>4. ASSUME NEW r \in Runs, NEW u \in Units, PersistDone(r, u)
        PROVE  UL!Next
    <3>1. /\ u \in flying[r] /\ ledger' = FinishLedgerRow(KeyOf[u], "done")
          /\ extracted' = extracted \cup {HashIn(r, u)}
      BY <2>4 DEF PersistDone
    <3>2. HashIn(r, u)[1] = u
      BY DEF HashIn
    <3>3. {<<KeyOf[h[1]], h>> : h \in extracted'}
            = {<<KeyOf[h[1]], h>> : h \in extracted}
                \cup {<<KeyOf[u], ledger[KeyOf[u]].hash>>}
      BY <2>3, <3>1, <3>2
    <3>4. UL!Settle(KeyOf[u])
      BY <2>3, <3>1, <3>3 DEF UL!Settle, FinishLedgerRow
    <3> QED
      BY <2>3, <3>1, <3>4 DEF UL!Next
  <2>5. ASSUME NEW r \in Runs, NEW u \in Units, PersistFailed(r, u)
        PROVE  UL!Next
    <3>1. /\ u \in flying[r] /\ ledger' = FinishLedgerRow(KeyOf[u], "failed")
          /\ extracted' = extracted
      BY <2>5 DEF PersistFailed
    <3>2. UL!Fail(KeyOf[u])
      BY <2>3, <3>1 DEF UL!Fail, FinishLedgerRow
    <3> QED
      BY <2>3, <3>1, <3>2 DEF UL!Next
  <2>6. ASSUME NEW r \in Runs, ReadUnits(r) \/ ReadLedger(r) \/ Stop(r)
        PROVE  UNCHANGED <<ledger, extracted>>
    BY <2>6 DEF ReadUnits, ReadLedger, Stop
  <2>7. ASSUME NEW u \in Units, Drift(u)
        PROVE  UNCHANGED <<ledger, extracted>>
    BY <2>7 DEF Drift
  <2> QED
    BY <2>2, <2>4, <2>5, <2>6, <2>7 DEF Next
<1> QED
  BY <1>1, <1>2, RunsInvariant, AloneInvariant, PTL DEF Spec, AloneImplementsUnitLedger
=============================================================================

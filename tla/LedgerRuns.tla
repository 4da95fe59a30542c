----------------------------- MODULE LedgerRuns -----------------------------
(***************************************************************************)
(* Several extraction runs against one database, seen from the ledger: the *)
(* reads and transactions of each run, interleaved with those of the       *)
(* others and with ingests (extract/runner.go, the ledger statements of    *)
(* extract/loader.go, and the keys adapters/arda gives its units).         *)
(*                                                                         *)
(* Nothing in the code keeps a second run out, and two units have the same *)
(* key when their titles make the same slug.  The model says how much of   *)
(* what ExtractRun promises survives each of the two.                      *)
(***************************************************************************)
EXTENDS Integers, FiniteSets

CONSTANTS
  NumUnits,       \* units 1..NumUnits, in the order BuildUnits returns them
  Keys,           \* unit keys
  KeyOf,          \* the key of each unit
  Versions,       \* versions of a unit's input
  Runs,           \* the processes
  Concurrency,    \* the window of each run
  NoHash,         \* the hash of a ledger row that does not exist
  MaxDrifts       \* bound on the number of ingests

Units == 1..NumUnits

\* InputHash covers the document's id, so two units never share a hash.
Hashes == Units \X Versions

ASSUME RunsAssumption ==
  /\ NumUnits \in Nat
  /\ KeyOf \in [Units -> Keys]
  /\ NoHash \notin Hashes
  /\ Concurrency \in Nat
  /\ MaxDrifts \in Nat

\* The adapter gave every unit a key of its own.
DistinctKeys == \A u, v \in Units : KeyOf[u] = KeyOf[v] => u = v

VARIABLES
  input,          \* the version of each unit's input now
  ledger,         \* extraction_units: status and input hash, by unit key
  extracted,      \* the hashes of the inputs whose records are committed
  pc,             \* where each run is
  work,           \* the version of each unit as the run's BuildUnits saw it
  todo,           \* the units the run has still to submit
  flying,         \* the units it has submitted and not persisted
  \* Bookkeeping of the model.
  settled,        \* units extracted since their input last changed
  overlapped,     \* two runs were under way at once
  drifts          \* ingests so far

vars == <<input, ledger, extracted, pc, work, todo, flying, settled, overlapped,
          drifts>>

NoRow == [status |-> "none", hash |-> NoHash]

Init ==
  /\ input \in [Units -> Versions]
  /\ ledger = [k \in Keys |-> NoRow]
  /\ extracted = {}
  /\ pc = [r \in Runs |-> "off"]
  /\ work = [r \in Runs |-> input]
  /\ todo = [r \in Runs |-> {}]
  /\ flying = [r \in Runs |-> {}]
  /\ settled = {}
  /\ overlapped = FALSE
  /\ drifts = 0

\* The hash under which run r submits u.
HashIn(r, u) == <<u, work[r][u]>>

IsFirst(u, S) == u \in S /\ \A v \in S : u =< v

\* Mistake: the word for a run that succeeded is compared with.
IsDoneNever(r, u) == ledger[KeyOf[u]] = [status |-> "ok", hash |-> HashIn(r, u)]

IsDone(r, u) == ledger[KeyOf[u]] = [status |-> "done", hash |-> HashIn(r, u)]

\* BuildUnits.  The ledger is read later, by another statement.
ReadUnits(r) ==
  /\ pc[r] = "off"
  /\ pc' = [pc EXCEPT ![r] = "planning"]
  /\ work' = [work EXCEPT ![r] = input]
  /\ overlapped' = (overlapped \/ \E q \in Runs \ {r} : pc[q] # "off")
  /\ UNCHANGED <<input, ledger, extracted, todo, flying, settled, drifts>>

\* LedgerState, and the plan made from it.
ReadLedger(r) ==
  /\ pc[r] = "planning"
  /\ pc' = [pc EXCEPT ![r] = "running"]
  /\ todo' = [todo EXCEPT ![r] = {u \in Units : ~IsDone(r, u)}]
  /\ UNCHANGED <<input, ledger, extracted, work, flying, settled, overlapped, drifts>>

\* ledgerPend: the upsert takes over whatever row has the key.
Pend(r, u) ==
  /\ pc[r] = "running"
  /\ IsFirst(u, todo[r])
  /\ Cardinality(flying[r]) < Concurrency
  /\ ledger' = [ledger EXCEPT ![KeyOf[u]] =
                  [status |-> "pending", hash |-> HashIn(r, u)]]
  /\ todo' = [todo EXCEPT ![r] = @ \ {u}]
  /\ flying' = [flying EXCEPT ![r] = @ \cup {u}]
  /\ UNCHANGED <<input, extracted, pc, work, settled, overlapped, drifts>>

\* Mistakes: a failed unit is recorded as done; a row is given the word for
\* a run that succeeded.
FinishAlwaysDone(k, status) == [ledger EXCEPT ![k].status = "done"]
FinishAsRun(k, status) ==
  [ledger EXCEPT ![k].status = IF status = "done" THEN "ok" ELSE status]

\* FinishLedgerRow: the update finds the row by its key, and looks neither
\* at the hash nor at the run it was pended under.
FinishLedgerRow(k, status) == [ledger EXCEPT ![k].status = status]

\* persistOutcome, of a unit with records.
PersistDone(r, u) ==
  /\ u \in flying[r]
  /\ ledger' = FinishLedgerRow(KeyOf[u], "done")
  /\ extracted' = extracted \cup {HashIn(r, u)}
  /\ settled' = IF work[r][u] = input[u] THEN settled \cup {u} ELSE settled
  /\ flying' = [flying EXCEPT ![r] = @ \ {u}]
  /\ UNCHANGED <<input, pc, work, todo, overlapped, drifts>>

PersistFailed(r, u) ==
  /\ u \in flying[r]
  /\ ledger' = FinishLedgerRow(KeyOf[u], "failed")
  /\ flying' = [flying EXCEPT ![r] = @ \ {u}]
  /\ UNCHANGED <<input, extracted, pc, work, todo, settled, overlapped, drifts>>

\* The run returns, stops early, or is killed.
Stop(r) ==
  /\ pc[r] # "off"
  /\ pc' = [pc EXCEPT ![r] = "off"]
  /\ todo' = [todo EXCEPT ![r] = {}]
  /\ flying' = [flying EXCEPT ![r] = {}]
  /\ UNCHANGED <<input, ledger, extracted, work, settled, overlapped, drifts>>

\* An ingest changes the text or the candidates of a unit.
Drift(u) ==
  /\ drifts < MaxDrifts
  /\ drifts' = drifts + 1
  /\ \E v \in Versions \ {input[u]} : input' = [input EXCEPT ![u] = v]
  /\ settled' = settled \ {u}
  /\ UNCHANGED <<ledger, extracted, pc, work, todo, flying, overlapped>>

Next ==
  \/ \E r \in Runs : ReadUnits(r) \/ ReadLedger(r) \/ Stop(r)
  \/ \E r \in Runs, u \in Units :
       Pend(r, u) \/ PersistDone(r, u) \/ PersistFailed(r, u)
  \/ \E u \in Units : Drift(u)

Spec == Init /\ [][Next]_vars

-----------------------------------------------------------------------------
Rows == [status : {"none", "pending", "done", "failed"}, hash : Hashes \cup {NoHash}]

TypeOK ==
  /\ input \in [Units -> Versions]
  /\ ledger \in [Keys -> Rows]
  /\ extracted \subseteq Hashes
  /\ pc \in [Runs -> {"off", "planning", "running"}]
  /\ work \in [Runs -> [Units -> Versions]]
  /\ todo \in [Runs -> SUBSET Units]
  /\ flying \in [Runs -> SUBSET Units]
  /\ settled \subseteq Units
  /\ overlapped \in BOOLEAN
  /\ drifts \in Nat

\* "a done unit is re-extracted rather than silently stale": the records of
\* the input a done row names are in the graph.  Runs one after another keep
\* this whatever the ingests do, and so do runs at the same time while no
\* ingest comes between them; with both, a run marks as done what another
\* one has just pended under a newer input.
DoneIsExtracted ==
  (drifts = 0 \/ ~overlapped) =>
    \A k \in Keys : ledger[k].status = "done" => ledger[k].hash \in extracted

\* "re-running a settled unit is a no-op": runs one after another submit no
\* unit again that was extracted since its input last changed.
SettledUnitRests ==
  [][~overlapped' => \A r \in Runs : flying'[r] \cap settled \subseteq flying[r]]_vars
=============================================================================

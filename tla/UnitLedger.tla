----------------------------- MODULE UnitLedger -----------------------------
(***************************************************************************)
(* What the extraction ledger promises, whoever writes it.  A ledger row   *)
(* says how far one extraction unit has come and under which input hash.   *)
(* A unit is opened under a hash, then settles (its records are in the     *)
(* graph) or fails; a unit settled under a hash is never opened again      *)
(* under that same hash.  ExtractRun implements this specification, and so *)
(* do the runs of LedgerRuns while they follow one another.                *)
(***************************************************************************)

CONSTANTS Units,    \* the extraction units
          Hashes,   \* the input hashes a unit may have
          NoHash    \* the hash of a row that does not exist

VARIABLES ledger,    \* the extraction_units row of each unit
          extracted  \* <<u, h>>: the records of u, extracted from its input
                     \* h, are committed

vars == <<ledger, extracted>>

NoRow == [status |-> "none", hash |-> NoHash]

Init == /\ ledger = [u \in Units |-> NoRow]
        /\ extracted = {}

Settled(u, h) == ledger[u] = [status |-> "done", hash |-> h]

Open(u, h) == /\ ~Settled(u, h)
              /\ ledger' = [ledger EXCEPT ![u] = [status |-> "pending", hash |-> h]]
              /\ UNCHANGED extracted

Settle(u) == /\ ledger[u].status = "pending"
             /\ ledger' = [ledger EXCEPT ![u].status = "done"]
             /\ extracted' = extracted \cup {<<u, ledger[u].hash>>}

Fail(u) == /\ ledger[u].status = "pending"
           /\ ledger' = [ledger EXCEPT ![u].status = "failed"]
           /\ UNCHANGED extracted

Next == \E u \in Units : \/ \E h \in Hashes : Open(u, h)
                         \/ Settle(u)
                         \/ Fail(u)

Spec == Init /\ [][Next]_vars
=============================================================================

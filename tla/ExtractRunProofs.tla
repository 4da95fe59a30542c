-------------------------- MODULE ExtractRunProofs --------------------------
(***************************************************************************)
(* Theorems about ExtractRun, for any number of units, workers, attempts   *)
(* and interruptions and whatever the limits, caps and costs.              *)
(***************************************************************************)
EXTENDS ExtractRun, FiniteSetTheorems, TLAPS

USE ConstantsAssumption

-----------------------------------------------------------------------------
(* Types.                                                                  *)

\* The runner clamps its settings to usable numbers.
LEMMA SettingsType == Workers \in Nat \ {0} /\ Attempts \in Nat \ {0} /\ ChanCap = Workers
  BY DEF Workers, Attempts, ChanCap

\* There are finitely many units, so that sets of them have a size.
LEMMA FiniteUnits == IsFiniteSet(Units) /\ \A S : S \subseteq Units => /\ IsFiniteSet(S)
                                                           /\ Cardinality(S) \in Nat
<1>1. IsFiniteSet(Units)
  BY FS_Interval DEF Units
<1>. QED
  BY <1>1, FS_Subset, FS_CardinalityType

\* The first so many units of a set are units of the set.
LEMMA FirstsSubset == \A S, n : Firsts(S, n) \subseteq S
  BY DEF Firsts

\* What is planned is pending, and what is pending are units.
LEMMA PlannedSubset == Planned \subseteq Pending /\ Pending \subseteq Units
  BY FirstsSubset DEF Planned, Pending

\* The job that is none has the type of a job.
LEMMA NoJobType == NoJob \in JobSet
  BY SettingsType DEF NoJob, JobSet

\* So have the row, the options and the statistics that are none.
LEMMA NoneType == /\ NoRow \in [status : {"none", "pending", "done", "failed"},
                                hash : Hashes \cup {NoHash}]
                  /\ NoOpts \in [limit : Nat, dryRun : BOOLEAN]
                  /\ NoStats \in [skipped : Nat, done : Nat, failed : Nat, deferred : Nat]
  BY DEF NoRow, NoOpts, NoStats

\* What is left when a run is forgotten has its types.
LEMMA ForgetRunType == ForgetRun =>
  /\ pc' = "off" /\ ctxDone' \in BOOLEAN /\ opts' \in [limit : Nat, dryRun : BOOLEAN]
  /\ work' \in [Units -> Hashes \cup {NoHash}] /\ todo' \subseteq Units
  /\ job' \in [Units -> JobSet] /\ inflight' \in Int /\ stopSubmitting' \in BOOLEAN
  /\ runErr' \in BOOLEAN /\ spent' \in Nat /\ billed' \in Nat
  /\ stats' \in [skipped : Nat, done : Nat, failed : Nat, deferred : Nat]
<1>. SUFFICES ASSUME ForgetRun
     PROVE  /\ job' \in [Units -> JobSet]
            /\ work' \in [Units -> Hashes \cup {NoHash}]
            /\ spent' \in Nat /\ billed' \in Nat /\ inflight' \in Int
  BY NoneType DEF ForgetRun
<1>1. job' \in [Units -> JobSet]
  BY NoJobType DEF ForgetRun
<1>2. work' \in [Units -> Hashes \cup {NoHash}]
  BY DEF ForgetRun
<1>. QED
  BY <1>1, <1>2 DEF ForgetRun

\* A call that ends leaves a job of the right type, at whatever cost.
LEMMA EndedJobType ==
  ASSUME TypeOK, NEW u \in Units, NEW cost \in Nat, job[u].stage = "calling"
  PROVE  /\ TriedAgain(u, cost) \in JobSet
         /\ \A w \in {"nil", "loadable", "rejected"} : Answered(u, w, cost) \in JobSet
<1>1. /\ job[u] \in JobSet
      /\ job[u].attempt \in 0..Attempts
      /\ job[u].cost + cost \in Nat
      /\ ctxDone \in BOOLEAN
  BY DEF TypeOK, JobSet
<1>2. \A w \in {"nil", "loadable", "rejected"} : Answered(u, w, cost) \in JobSet
  BY <1>1 DEF Answered, JobSet
<1>3. CASE job[u].attempt < Attempts
  <2>1. job[u].attempt + 1 \in 0..Attempts
    BY <1>1, <1>3, SettingsType
  <2>. QED
    BY <1>1, <1>2, <1>3, <2>1 DEF TriedAgain, JobSet
<1>4. CASE ~(job[u].attempt < Attempts)
  BY <1>2, <1>4 DEF TriedAgain
<1>. QED
  BY <1>2, <1>3, <1>4

\* The end of a call keeps the types.
LEMMA EndCallType ==
  ASSUME TypeOK, NEW u \in Units, NEW cost \in Nat, NEW j \in JobSet, EndCall(u, j, cost)
  PROVE  TypeOK'
  BY DEF TypeOK, EndCall, durable, plan, loop

\* The types hold at the start.
LEMMA TypeInit == Init => TypeOK
<1>. SUFFICES ASSUME Init PROVE TypeOK
  OBVIOUS
<1>1. ledger \in [Units -> [status : {"none", "pending", "done", "failed"},
                           hash : Hashes \cup {NoHash}]]
  BY NoneType DEF Init
<1>2. job \in [Units -> JobSet]
  BY NoJobType DEF Init
<1>3. ctxDone \in BOOLEAN /\ stopSubmitting \in BOOLEAN /\ runErr \in BOOLEAN
  BY Zenon DEF Init
<1>. QED
  BY <1>1, <1>2, <1>3, NoneType DEF Init, TypeOK

\* Every step keeps the types.
LEMMA TypeStep == TypeOK /\ [Next]_vars => TypeOK'
<1>. SUFFICES ASSUME TypeOK, [Next]_vars PROVE TypeOK'
  OBVIOUS
<1>1. CASE Start
  BY <1>1 DEF TypeOK, Start, durable, plan, loop
<1>2. CASE Begin
  BY <1>2 DEF TypeOK, Begin, durable, plan, loop, Accepted
<1>3. CASE BeginFails
  BY <1>3, ForgetRunType DEF TypeOK, BeginFails, durable, Refused, Interrupt
<1>4. CASE Plan
  <2>1. Cardinality(Units \ Pending) \in Nat
    BY FiniteUnits
  <2>2. Cardinality(Pending) - Cardinality(Planned) \in Nat
    BY FiniteUnits, PlannedSubset, FS_Subset
  <2>3. stats' \in [skipped : Nat, done : Nat, failed : Nat, deferred : Nat]
    BY <1>4, <2>1, <2>2 DEF TypeOK, Plan
  <2>4. todo' \subseteq Units
    BY <1>4, PlannedSubset DEF Plan
  <2>. QED
    BY <1>4, <2>3, <2>4 DEF TypeOK, Plan, durable, Accepted
<1>5. CASE PlanFails
  BY <1>5 DEF TypeOK, PlanFails, durable, plan, loop, Refused, Interrupt
<1>6. CASE StopFilling \/ ChooseNext \/ LeaveLoop \/ SeeCancellation
  BY <1>6 DEF TypeOK, StopFilling, ChooseNext, LeaveLoop, SeeCancellation,
              durable, plan, loop
<1>7. ASSUME NEW u \in Units, Submit(u) PROVE TypeOK'
  <2>1. [NoJob EXCEPT !.stage = "queued"] \in JobSet
    BY NoJobType DEF JobSet
  <2>2. job' \in [Units -> JobSet]
    BY <1>7, <2>1 DEF TypeOK, Submit
  <2>. QED
    BY <1>7, <2>2 DEF TypeOK, Submit, PendRow, Accepted, plan
<1>8. ASSUME NEW u \in Units, SubmitFails(u) PROVE TypeOK'
  BY <1>8 DEF TypeOK, SubmitFails, PendRow, Refused, InDoubt, Interrupt, plan, loop
<1>9. ASSUME NEW u \in Units, WriteOutcome(u)
      PROVE  /\ ledger' \in [Units -> [status : {"none", "pending", "done", "failed"},
                                       hash : Hashes \cup {NoHash}]]
             /\ extracted' \subseteq Units \X (Hashes \cup {NoHash})
  BY <1>9 DEF TypeOK, WriteOutcome, FinishRow
<1>10. ASSUME NEW u \in Units, PersistOutcome(u) PROVE TypeOK'
  <2>1. stats' \in [skipped : Nat, done : Nat, failed : Nat, deferred : Nat]
    BY <1>10 DEF TypeOK, PersistOutcome
  <2>2. spent' \in Nat
    BY <1>10 DEF TypeOK, PersistOutcome, JobSet
  <2>3. job' \in [Units -> JobSet] /\ inflight' \in Int
    BY <1>10, NoJobType DEF TypeOK, PersistOutcome, Receive
  <2>. QED
    BY <1>10, <1>9, <2>1, <2>2, <2>3 DEF TypeOK, PersistOutcome, Accepted, plan
<1>11. ASSUME NEW u \in Units, PersistFails(u) PROVE TypeOK'
  <2>1. spent' \in Nat
    BY <1>11 DEF TypeOK, PersistFails, JobSet
  <2>2. job' \in [Units -> JobSet] /\ inflight' \in Int
    BY <1>11, NoJobType DEF TypeOK, PersistFails, Receive
  <2>3. interrupts' \in Nat
    BY <1>11 DEF TypeOK, PersistFails, Refused, Accepted, Interrupt
  <2>. QED
    BY <1>11, <2>1, <2>2, <2>3 DEF TypeOK, PersistFails, durable, plan
<1>12. ASSUME NEW u \in Units, PersistInDoubt(u) PROVE TypeOK'
  <2>1. spent' \in Nat
    BY <1>12 DEF TypeOK, PersistInDoubt, JobSet
  <2>2. job' \in [Units -> JobSet] /\ inflight' \in Int
    BY <1>12, NoJobType DEF TypeOK, PersistInDoubt, Receive
  <2>. QED
    BY <1>12, <1>9, <2>1, <2>2 DEF TypeOK, PersistInDoubt, InDoubt, Interrupt, plan
<1>13. CASE Drain
  <2>1. Cardinality(Active) + Leftover \in Nat
    BY FiniteUnits DEF TypeOK, Active, Leftover
  <2>2. stats' \in [skipped : Nat, done : Nat, failed : Nat, deferred : Nat]
    BY <1>13, <2>1, FiniteUnits DEF TypeOK, Drain, Active, Leftover
  <2>. QED
    BY <1>13, <2>2, NoJobType DEF TypeOK, Drain, durable, plan, loop
<1>14. CASE Finish \/ FinishFails
  BY <1>14, ForgetRunType DEF TypeOK, Finish, FinishFails, durable, Accepted, Refused,
                              InDoubt, Interrupt
<1>15. ASSUME NEW u \in Units, Take(u) PROVE TypeOK'
  <2>1. [stage |-> "calling", attempt |-> 1, live |-> ~ctxDone, cost |-> 0,
         wire |-> "nil"] \in JobSet
    BY SettingsType DEF TypeOK, JobSet
  <2>. QED
    BY <1>15, <2>1 DEF TypeOK, Take, durable, plan, loop
<1>16. ASSUME NEW u \in Units, CallStep(u) PROVE TypeOK'
  <2>1. Costs \subseteq Nat
    OBVIOUS
  <2>2. CASE Parsed(u)
    BY <2>1, <2>2, EndedJobType, EndCallType DEF Parsed, EndCall
  <2>3. CASE Unparseable(u)
    BY <2>1, <2>3, EndedJobType, EndCallType DEF Unparseable, EndCall
  <2>4. CASE CallFails(u)
    BY <2>4, EndedJobType, EndCallType DEF CallFails, EndCall
  <2>5. CASE Overload(u)
    BY <2>5, EndedJobType, EndCallType DEF Overload, EndCall
  <2>. QED
    BY <1>16, <2>2, <2>3, <2>4, <2>5 DEF CallStep
<1>17. CASE Cancel
  BY <1>17 DEF TypeOK, Cancel, Interrupt, durable, plan, loop
<1>18. CASE Crash
  BY <1>18, ForgetRunType DEF TypeOK, Crash, Interrupt, durable
<1>19. ASSUME NEW u \in Units, Drift(u) PROVE TypeOK'
  BY <1>19 DEF TypeOK, Drift, Interrupt, plan, loop
<1>20. CASE UNCHANGED vars
  BY <1>20 DEF TypeOK, vars, durable, plan, loop
<1>. QED
  BY <1>1, <1>2, <1>3, <1>4, <1>5, <1>6, <1>7, <1>8, <1>10, <1>11, <1>12, <1>13,
     <1>14, <1>15, <1>16, <1>17, <1>18, <1>19, <1>20 DEF Next, MainStep, Environment

\* Every variable keeps its type: in particular no attempt is made beyond
\* the configured number, and no count of the run becomes negative.
THEOREM TypeCorrect == Spec => []TypeOK
  BY TypeInit, TypeStep, PTL DEF Spec

-----------------------------------------------------------------------------
(* The inductive invariant.  DoneIsExtracted is not inductive by itself: a *)
(* unit is marked done under whatever hash its row carries by then, so the *)
(* row of every unit in flight must still carry the hash the run read.     *)

RowsOfActive ==
  \A u \in Units : job[u].stage # "idle" =>
    ledger[u] = [status |-> "pending", hash |-> work[u]]

TodoIsOpen ==
  \A u \in todo : /\ job[u].stage = "idle"
                  /\ work[u] \in Hashes
                  /\ ~Settled(u, work[u])

Window ==
  /\ pc \in {"off", "begin", "plan"} => todo = {} /\ Active = {} /\ inflight = 0
  /\ pc = "finish" => Active = {}
  /\ pc \in {"loop", "pend"} => inflight = Cardinality(Active)
  /\ pc = "pend" => inflight < Workers /\ todo # {}
  /\ Cardinality(Active) =< Workers

IInv == TypeOK /\ DoneIsExtracted /\ RowsOfActive /\ TodoIsOpen /\ Window

-----------------------------------------------------------------------------
(* How a step changes the set of active units.                             *)

\* The units in flight have a size.
LEMMA ActiveFinite == IsFiniteSet(Active) /\ Cardinality(Active) \in Nat
  BY FiniteUnits DEF Active

\* No job is an idle one.
LEMMA NoJobIdle == NoJob.stage = "idle"
  BY DEF NoJob

\* A job enters the window.
LEMMA ActiveGrows ==
  ASSUME TypeOK, NEW u \in Units, NEW j, j.stage # "idle",
         job[u].stage = "idle", job' = [job EXCEPT ![u] = j]
  PROVE  Active' = Active \cup {u} /\ Cardinality(Active') = Cardinality(Active) + 1
<1>1. Active' = Active \cup {u}
  BY DEF Active, TypeOK
<1>2. u \notin Active
  BY DEF Active
<1>. QED
  BY <1>1, <1>2, ActiveFinite, FS_AddElement

\* A job leaves the window.
LEMMA ActiveShrinks ==
  ASSUME TypeOK, NEW u \in Units, job[u].stage # "idle", job' = [job EXCEPT ![u] = NoJob]
  PROVE  Active' = Active \ {u} /\ Cardinality(Active') = Cardinality(Active) - 1
<1>1. Active' = Active \ {u}
  BY NoJobIdle DEF Active, TypeOK
<1>2. u \in Active
  BY DEF Active
<1>. QED
  BY <1>1, <1>2, ActiveFinite, FS_RemoveElement

\* A job stays in the window.
LEMMA ActiveStays ==
  ASSUME TypeOK, NEW u \in Units, NEW j, j.stage # "idle",
         job[u].stage # "idle", job' = [job EXCEPT ![u] = j]
  PROVE  Active' = Active
  BY DEF Active, TypeOK

\* Without jobs nothing is in flight.
LEMMA NoneActive ==
  ASSUME job' = [u \in Units |-> NoJob]
  PROVE  Active' = {} /\ Cardinality(Active') = 0
<1>1. Active' = {}
  BY NoJobIdle DEF Active
<1>. QED
  BY <1>1, FS_EmptySet

-----------------------------------------------------------------------------
(* Steps that end the process, and steps that only move a job.             *)

\* To forget the run preserves the invariant.
LEMMA ForgetRunInv ==
  ASSUME IInv, TypeOK', ForgetRun, UNCHANGED <<ledger, extracted>>
  PROVE  IInv'
<1>1. Active' = {} /\ Cardinality(Active') = 0
  BY NoneActive DEF ForgetRun
<1>2. RowsOfActive'
  BY NoJobIdle DEF ForgetRun, RowsOfActive
<1>3. TodoIsOpen'
  BY DEF ForgetRun, TodoIsOpen
<1>4. Window'
  BY <1>1, SettingsType DEF ForgetRun, Window
<1>. QED
  BY <1>2, <1>3, <1>4 DEF IInv, DoneIsExtracted

\* So does a job that moves on, while it stays in flight.
LEMMA MovedJobInv ==
  ASSUME IInv, TypeOK', NEW u \in Units, NEW j, j.stage # "idle", job[u].stage # "idle",
         job' = [job EXCEPT ![u] = j],
         UNCHANGED <<ledger, extracted, pc, work, todo, inflight>>
  PROVE  IInv'
<1>1. Active' = Active
  BY ActiveStays DEF IInv
<1>2. RowsOfActive'
  BY DEF IInv, TypeOK, RowsOfActive
<1>3. TodoIsOpen'
  BY DEF IInv, TypeOK, TodoIsOpen, Settled
<1>4. Window'
  BY <1>1 DEF IInv, Window
<1>. QED
  BY <1>2, <1>3, <1>4 DEF IInv, DoneIsExtracted

\* A step that touches neither the jobs nor the rows, and moves the main
\* goroutine without entering the window by another door.
LEMMA QuietInv ==
  ASSUME IInv, TypeOK', UNCHANGED <<ledger, extracted, work, todo, job, inflight>>,
         \/ pc' = pc
         \/ pc = "off" /\ pc' = "begin"
         \/ pc = "begin" /\ pc' = "plan"
         \/ pc = "plan" /\ pc' = "finish"
         \/ pc = "loop" /\ pc' = "pend" /\ inflight < Workers /\ todo # {}
         \/ pc \in {"loop", "pend"} /\ pc' = "drain"
  PROVE  IInv'
<1>1. Active' = Active
  BY DEF Active
<1>2. RowsOfActive' /\ TodoIsOpen'
  BY DEF IInv, RowsOfActive, TodoIsOpen, Settled
<1>3. Window'
  BY <1>1 DEF IInv, Window
<1>. QED
  BY <1>2, <1>3 DEF IInv, DoneIsExtracted

\* The transaction of an outcome ends the job it belongs to.
LEMMA WrittenInv ==
  ASSUME IInv, TypeOK', NEW u \in Units, Receive(u), UNCHANGED <<work, todo>>,
         \/ UNCHANGED <<ledger, extracted>>
         \/ WriteOutcome(u),
         pc' \in {"loop", "drain"}
  PROVE  IInv'
<1>1. job[u].stage # "idle" /\ pc = "loop"
  BY DEF Receive
<1>2. Active' = Active \ {u} /\ Cardinality(Active') = Cardinality(Active) - 1
  BY <1>1, ActiveShrinks DEF IInv, Receive
<1>3. ledger[u] = [status |-> "pending", hash |-> work[u]]
  BY <1>1 DEF IInv, RowsOfActive
<1>4. \A v \in Units : v # u => ledger'[v] = ledger[v]
  BY DEF IInv, TypeOK, WriteOutcome, FinishRow
<1>5. RowsOfActive'
  BY <1>4, NoJobIdle DEF IInv, TypeOK, RowsOfActive, Receive
<1>6. TodoIsOpen'
  <2>1. u \notin todo
    BY <1>1 DEF IInv, TodoIsOpen
  <2>. QED
    BY <2>1, <1>4 DEF IInv, TypeOK, TodoIsOpen, Receive, Settled
<1>7. Window'
  BY <1>1, <1>2, ActiveFinite, SettingsType DEF IInv, TypeOK, Window, Receive
<1>8. DoneIsExtracted'
  BY <1>3, <1>4 DEF IInv, TypeOK, DoneIsExtracted, WriteOutcome, FinishRow
<1>. QED
  BY <1>5, <1>6, <1>7, <1>8 DEF IInv

-----------------------------------------------------------------------------

\* The invariant holds of every behaviour: runs that are cancelled, crash or fail
\* at any point, under inputs that change.
THEOREM Inductive == Spec => []IInv
<1>1. Init => IInv
  <2>. SUFFICES ASSUME Init PROVE RowsOfActive /\ TodoIsOpen /\ Window /\ DoneIsExtracted
    BY TypeInit DEF IInv
  <2>1. Active = {} /\ Cardinality(Active) = 0
    BY NoJobIdle, FS_EmptySet DEF Init, Active
  <2>2. RowsOfActive /\ TodoIsOpen
    BY NoJobIdle DEF Init, RowsOfActive, TodoIsOpen
  <2>3. Window
    BY <2>1, SettingsType DEF Init, Window
  <2>4. DoneIsExtracted
    BY DEF Init, DoneIsExtracted, NoRow
  <2>. QED
    BY <2>2, <2>3, <2>4
<1>2. IInv /\ [Next]_vars => IInv'
  <2>. SUFFICES ASSUME IInv, [Next]_vars PROVE IInv'
    OBVIOUS
  <2>. USE TypeStep DEF IInv
  <2>1. CASE Start \/ Begin \/ PlanFails \/ StopFilling \/ LeaveLoop \/ SeeCancellation
    BY <2>1, QuietInv DEF Start, Begin, PlanFails, StopFilling, LeaveLoop, SeeCancellation,
                          durable, plan, loop
  <2>2. CASE BeginFails \/ Finish \/ FinishFails \/ Crash
    BY <2>2, ForgetRunInv DEF BeginFails, Finish, FinishFails, Crash, durable
  <2>3. CASE ChooseNext
    BY <2>3, QuietInv DEF ChooseNext, CanFill, durable, plan, loop
  <2>4. CASE Plan
    <3>1. pc = "plan" /\ Active = {} /\ inflight = 0
      BY <2>4 DEF Plan, Window
    <3>2. Active' = {} /\ Cardinality(Active) = 0
      BY <3>1, <2>4, FS_EmptySet DEF Plan, Active
    <3>3. RowsOfActive'
      BY <3>1, <2>4 DEF Plan, RowsOfActive, Active
    <3>4. TodoIsOpen'
      BY <3>1, <2>4, PlannedSubset DEF Plan, TodoIsOpen, Pending, Settled, TypeOK, Active,
                                       durable
    <3>5. Window'
      BY <3>1, <3>2, <2>4, SettingsType DEF Plan, Window
    <3>. QED
      BY <2>4, <3>3, <3>4, <3>5 DEF Plan, durable, DoneIsExtracted
  <2>5. ASSUME NEW u \in Units, Submit(u) PROVE IInv'
    <3>1. u \in todo /\ job[u].stage = "idle"
      BY <2>5 DEF Submit, IsFirst, TodoIsOpen
    <3>2. job' = [job EXCEPT ![u] = [NoJob EXCEPT !.stage = "queued"]]
          /\ [NoJob EXCEPT !.stage = "queued"].stage = "queued"
      BY <2>5 DEF Submit, NoJob
    <3>3. Cardinality(Active') = Cardinality(Active) + 1
      BY <3>1, <3>2, ActiveGrows
    <3>4. \A v \in Units : v # u => ledger'[v] = ledger[v] /\ job'[v] = job[v]
      BY <2>5 DEF Submit, PendRow, TypeOK
    <3>5. ledger'[u] = [status |-> "pending", hash |-> work[u]] /\ work' = work
      BY <2>5 DEF Submit, PendRow, TypeOK, plan
    <3>6. RowsOfActive'
      BY <3>4, <3>5 DEF RowsOfActive
    <3>7. TodoIsOpen'
      BY <2>5, <3>4, <3>5 DEF Submit, TodoIsOpen, Settled, TypeOK
    <3>8. Window'
      BY <2>5, <3>3, ActiveFinite, SettingsType DEF Submit, Window, TypeOK
    <3>9. DoneIsExtracted'
      BY <2>5, <3>4, <3>5 DEF Submit, DoneIsExtracted
    <3>. QED
      BY <3>6, <3>7, <3>8, <3>9
  <2>6. ASSUME NEW u \in Units, SubmitFails(u) PROVE IInv'
    <3>1. UNCHANGED <<job, work, todo, inflight, extracted>> /\ pc = "pend" /\ pc' = "drain"
      BY <2>6 DEF SubmitFails, plan, loop
    <3>2. CASE UNCHANGED ledger
      BY <3>1, <3>2, QuietInv
    <3>3. CASE PendRow(u)
      <4>1. u \in todo /\ job[u].stage = "idle"
        BY <2>6 DEF SubmitFails, IsFirst, TodoIsOpen
      <4>2. \A v \in Units : v # u => ledger'[v] = ledger[v]
        BY <3>3 DEF PendRow, TypeOK
      <4>3. ledger'[u] = [status |-> "pending", hash |-> work[u]]
        BY <3>3 DEF PendRow, TypeOK
      <4>4. RowsOfActive'
        BY <3>1, <4>1, <4>2 DEF RowsOfActive
      <4>5. TodoIsOpen'
        BY <3>1, <4>2, <4>3 DEF TodoIsOpen, Settled, TypeOK
      <4>6. Window'
        BY <3>1 DEF Window, Active
      <4>7. DoneIsExtracted'
        BY <3>1, <4>2, <4>3 DEF DoneIsExtracted
      <4>. QED
        BY <4>4, <4>5, <4>6, <4>7
    <3>. QED
      BY <2>6, <3>2, <3>3 DEF SubmitFails
  <2>7. ASSUME NEW u \in Units, PersistOutcome(u) \/ PersistFails(u) \/ PersistInDoubt(u)
        PROVE  IInv'
    <3>1. /\ Receive(u)
          /\ UNCHANGED <<work, todo>>
          /\ UNCHANGED <<ledger, extracted>> \/ WriteOutcome(u)
          /\ pc' \in {"loop", "drain"}
      BY <2>7 DEF PersistOutcome, PersistFails, PersistInDoubt, Receive, plan, durable
    <3>. QED
      BY <3>1, WrittenInv
  <2>8. CASE Drain
    <3>1. Active' = {} /\ Cardinality(Active') = 0
      BY <2>8, NoneActive DEF Drain
    <3>2. UNCHANGED <<ledger, extracted, work, todo, inflight>> /\ pc' = "finish"
      BY <2>8 DEF Drain, durable, plan, loop
    <3>3. RowsOfActive' /\ TodoIsOpen'
      BY <2>8, <3>2, NoJobIdle DEF Drain, RowsOfActive, TodoIsOpen, Settled, TypeOK
    <3>4. Window'
      BY <3>1, <3>2, SettingsType DEF Window
    <3>. QED
      BY <3>2, <3>3, <3>4 DEF DoneIsExtracted
  <2>9. ASSUME NEW u \in Units, Take(u) PROVE IInv'
    <3>1. job[u].stage = "queued"
      BY <2>9 DEF Take, IsFirst, InStage
    <3>. QED
      BY <2>9, <3>1, MovedJobInv DEF Take, durable, plan, loop
  <2>10. ASSUME NEW u \in Units, CallStep(u) PROVE IInv'
    <3>1. \A w, cost : Answered(u, w, cost).stage # "idle"
      BY DEF Answered
    <3>2. \A cost : TriedAgain(u, cost).stage # "idle"
      BY <3>1 DEF TriedAgain
    <3>3. PICK j, cost : EndCall(u, j, cost) /\ j.stage # "idle"
      BY <2>10, <3>1, <3>2 DEF CallStep, Parsed, Unparseable, CallFails, Overload
    <3>. QED
      BY <3>3, MovedJobInv DEF EndCall, durable, plan, loop
  <2>11. CASE Cancel \/ (\E u \in Units : Drift(u)) \/ UNCHANGED vars
    BY <2>11, QuietInv DEF Cancel, Drift, vars, durable, plan, loop
  <2>. QED
    BY <2>1, <2>2, <2>3, <2>4, <2>5, <2>6, <2>7, <2>8, <2>9, <2>10, <2>11
       DEF Next, MainStep, Environment
<1>. QED
  BY <1>1, <1>2, PTL DEF Spec

-----------------------------------------------------------------------------
(* What the invariant gives.                                               *)

\* A unit done under a hash had its records extracted from that input and
\* committed, through every crash, refusal, commit in doubt, cancellation
\* and input change: the ledger a later run skips by can be trusted.
THEOREM DoneMeansExtracted == Spec => []DoneIsExtracted
  BY Inductive, PTL DEF IInv

\* Every unit in the workers' hands has a pending row under the hash the
\* run read, and the window counts exactly those units.
THEOREM InFlightStaysPending == Spec => []InFlightIsPending
<1>1. IInv => InFlightIsPending
  BY DEF IInv, RowsOfActive, TodoIsOpen, Window, InFlightIsPending, Active
<1>. QED
  BY <1>1, Inductive, PTL

\* Neither channel can fill up, for any concurrency.
THEOREM NoSendBlocks == Spec => []SendsNeverBlock
<1>1. IInv => SendsNeverBlock
  BY SettingsType DEF IInv, Window, SendsNeverBlock
<1>. QED
  BY <1>1, Inductive, PTL

\* A run whose context is done changes neither the ledger nor the graph.
THEOREM CancelledRunJudgesNothing == Spec => CancelJudgesNothing
<1>1. [Next]_vars => [ctxDone => UNCHANGED <<ledger, extracted>>]_vars
  BY DEF Next, MainStep, Environment, vars, Start, Begin, BeginFails, Plan, PlanFails,
         StopFilling, ChooseNext, LeaveLoop, SeeCancellation, Submit, SubmitFails,
         PersistOutcome, PersistFails, PersistInDoubt, Drain, Finish, FinishFails, Take,
         CallStep, Parsed, Unparseable, CallFails, Overload, EndCall, Cancel, Crash, Drift,
         Accepted, Refused, InDoubt, durable, plan, loop
<1>. QED
  BY <1>1, PTL DEF Spec, CancelJudgesNothing

-----------------------------------------------------------------------------
(* Refinement of the abstract ledger.                                      *)

\* The upsert of a planned unit opens it, which it may since it is not done
\* under the hash the run read.
LEMMA PendOpens ==
  ASSUME IInv, NEW u \in Units, u \in todo, PendRow(u), UNCHANGED extracted
  PROVE  UL!Next
<1>1. work[u] \in Hashes /\ ~Settled(u, work[u])
  BY DEF IInv, TodoIsOpen
<1>2. UL!Open(u, work[u])
  BY <1>1 DEF UL!Open, UL!Settled, Settled, PendRow
<1>. QED
  BY <1>1, <1>2 DEF UL!Next

\* The transaction of an outcome settles or fails a pending unit.
LEMMA WriteSettles ==
  ASSUME IInv, NEW u \in Units, Receive(u), WriteOutcome(u)
  PROVE  UL!Next
<1>1. job[u].stage # "idle"
  BY DEF Receive
<1>2. ledger[u] = [status |-> "pending", hash |-> work[u]]
  BY <1>1 DEF IInv, RowsOfActive
<1>3. ledger[u].status = "pending" /\ ledger[u].hash = work[u]
  BY <1>2
<1>4. UL!Fail(u) \/ UL!Settle(u)
  BY <1>3 DEF WriteOutcome, FinishRow, UL!Fail, UL!Settle
<1>. QED
  BY <1>4 DEF UL!Next

\* Every step of a run is a step of the abstract ledger or leaves it alone:
\* no unit is reopened while done under its input, none is settled without
\* having been opened, and none without its records.
THEOREM Refinement == Spec => ImplementsUnitLedger
<1>1. Init => UL!Init
  BY DEF Init, UL!Init, NoRow, UL!NoRow
<1>2. IInv /\ [Next]_vars => [UL!Next]_UL!vars
  <2>. SUFFICES ASSUME IInv, [Next]_vars PROVE UL!Next \/ UNCHANGED <<ledger, extracted>>
    BY DEF UL!vars
  <2>1. ASSUME NEW u \in Units, Submit(u) \/ SubmitFails(u)
        PROVE  UL!Next \/ UNCHANGED <<ledger, extracted>>
    BY <2>1, PendOpens DEF Submit, SubmitFails, IsFirst
  <2>2. ASSUME NEW u \in Units, PersistOutcome(u) \/ PersistFails(u) \/ PersistInDoubt(u)
        PROVE  UL!Next \/ UNCHANGED <<ledger, extracted>>
    BY <2>2, WriteSettles DEF PersistOutcome, PersistFails, PersistInDoubt, durable
  <2>. QED
    BY <2>1, <2>2 DEF Next, MainStep, Environment, vars, Start, Begin, BeginFails, Plan,
         PlanFails, StopFilling, ChooseNext, LeaveLoop, SeeCancellation, Drain, Finish,
         FinishFails, Take, CallStep, Parsed, Unparseable, CallFails, Overload, EndCall,
         Cancel, Crash, Drift, durable
<1>. QED
  BY <1>1, <1>2, Inductive, PTL DEF Spec, ImplementsUnitLedger, UL!Spec
-----------------------------------------------------------------------------
(* A run winds down.  Its steps are counted by sets, since a sum over the  *)
(* units is out of the provers' reach: a unit has a step for each number   *)
(* up to Ahead.                                                            *)

\* A unit has at most so many steps ahead of it as there are slots for it.
LEMMA AheadType ==
  ASSUME TypeOK, NEW u \in Units
  PROVE  Ahead(u) \in 0..(Attempts + 3)
  BY SettingsType DEF Ahead, TypeOK, JobSet

\* The steps of the units are finitely many, and no more than the slots.
LEMMA StepsFinite ==
  /\ IsFiniteSet(UnitSteps)
  /\ Cardinality(UnitSteps) \in Nat /\ Cardinality(Slots) \in Nat
  /\ Cardinality(UnitSteps) =< Cardinality(Slots)
<1>1. IsFiniteSet(1..(Attempts + 3))
  BY SettingsType, FS_Interval
<1>2. IsFiniteSet(Slots)
  BY <1>1, FiniteUnits, FS_Product DEF Slots
<1>3. UnitSteps \subseteq Slots
  BY DEF UnitSteps
<1>. QED
  BY <1>2, <1>3, FS_Subset, FS_CardinalityType

\* The same for the state after a step.
LEMMA StepsFiniteNext ==
  Cardinality(UnitSteps') \in Nat /\ Cardinality(UnitSteps') =< Cardinality(Slots)
<1>1. IsFiniteSet(Slots)
  <2>1. IsFiniteSet(1..(Attempts + 3))
    BY SettingsType, FS_Interval
  <2>. QED
    BY <2>1, FiniteUnits, FS_Product DEF Slots
<1>2. UnitSteps' \subseteq Slots
  BY DEF UnitSteps, Slots
<1>. QED
  BY <1>1, <1>2, FS_Subset, FS_CardinalityType

\* A step after which no unit has more ahead of it does not add to the
\* steps of the units, and takes one away when some unit has less.
LEMMA FewerSteps ==
  ASSUME TypeOK, TypeOK', \A v \in Units : Ahead(v)' =< Ahead(v)
  PROVE  /\ Cardinality(UnitSteps') =< Cardinality(UnitSteps)
         /\ (\E u \in Units : Ahead(u)' < Ahead(u))
              => Cardinality(UnitSteps') < Cardinality(UnitSteps)
<1>1. \A v \in Units : Ahead(v) \in 0..(Attempts + 3)
  BY AheadType
<1>2. \A v \in Units : Ahead(v)' \in 0..(Attempts + 3)
  BY SettingsType DEF Ahead, TypeOK, JobSet
<1>3. UnitSteps' \subseteq UnitSteps
  BY <1>1, <1>2, SettingsType DEF UnitSteps, Slots
<1>4. ASSUME NEW u \in Units, Ahead(u)' < Ahead(u)
      PROVE  UnitSteps' # UnitSteps
  <2>1. <<u, Ahead(u)>> \in UnitSteps
    BY <1>1, <1>2, <1>4, SettingsType DEF UnitSteps, Slots
  <2>2. <<u, Ahead(u)>> \notin UnitSteps'
    BY <1>1, <1>2, <1>4, SettingsType DEF UnitSteps, Slots
  <2>. QED
    BY <2>1, <2>2
<1>5. /\ Cardinality(UnitSteps') =< Cardinality(UnitSteps)
      /\ Cardinality(UnitSteps') = Cardinality(UnitSteps) => UnitSteps' = UnitSteps
  BY <1>3, StepsFinite, FS_Subset
<1>. QED
  BY <1>4, <1>5, StepsFinite, StepsFiniteNext

\* A step that moves the job of one unit on.
LEMMA OneUnitMoves ==
  ASSUME TypeOK, TypeOK', NEW u \in Units, Ahead(u)' < Ahead(u),
         \A v \in Units : v # u => job'[v] = job[v] /\ (v \in todo' <=> v \in todo)
  PROVE  Cardinality(UnitSteps') < Cardinality(UnitSteps)
<1>1. \A v \in Units : v # u => Ahead(v)' = Ahead(v)
  BY DEF Ahead
<1>2. \A v \in Units : Ahead(v) \in Int
  BY AheadType
<1>3. Ahead(u)' \in Int
  BY SettingsType DEF Ahead, TypeOK, JobSet
<1>4. \A v \in Units : Ahead(v)' =< Ahead(v)
  BY <1>1, <1>2, <1>3
<1>. QED
  BY <1>4, FewerSteps

\* As long as a run is under way, the main goroutine, a worker or the
\* endpoint can act: what waits in a channel is fewer than it holds.
LEMMA NeverStuck ==
  ASSUME IInv, pc # "off"
  PROVE  MainMayStep \/ WorkerMayStep
<1>. USE SettingsType DEF IInv
<1>1. /\ \A s : InStage(s) \subseteq Units
      /\ \A s : IsFiniteSet(InStage(s)) /\ Cardinality(InStage(s)) \in Nat
  BY FiniteUnits DEF InStage
<1>2. \A s : InStage(s) = {} => Cardinality(InStage(s)) = 0
  BY FS_EmptySet
<1>3. Active \subseteq InStage("queued") \cup InStage("calling") \cup InStage("answered")
  BY DEF Active, InStage, TypeOK, JobSet
<1>4. CASE pc = "loop" /\ ~CanFill /\ inflight # 0
  <2>1. Active # {}
    BY <1>4, FS_EmptySet DEF Window
  <2>2. CASE InStage("answered") # {}
    BY <1>4, <2>2 DEF MainMayStep
  <2>3. CASE InStage("answered") = {} /\ InStage("calling") # {}
    BY <1>2, <2>3 DEF WorkerMayStep
  <2>4. CASE InStage("answered") = {} /\ InStage("calling") = {}
    BY <1>2, <1>3, <2>1, <2>4 DEF WorkerMayStep
  <2>. QED
    BY <2>2, <2>3, <2>4
<1>5. CASE pc = "pend"
  <2>1. InStage("queued") \subseteq Active
    BY DEF InStage, Active
  <2>2. Cardinality(InStage("queued")) =< Cardinality(Active)
    BY <2>1, ActiveFinite, FS_Subset
  <2>3. Cardinality(InStage("queued")) < ChanCap
    BY <1>1, <1>5, <2>2, ActiveFinite DEF Window
  <2>. QED
    BY <1>5, <2>3 DEF Window, MainMayStep
<1>6. CASE pc = "drain" /\ ~(Active \subseteq InStage("answered"))
  <2>1. CASE InStage("calling") # {}
    <3>1. InStage("answered") \subseteq Active /\ InStage("answered") # Active
      BY <2>1 DEF InStage, Active
    <3>2. Cardinality(InStage("answered")) < Cardinality(Active)
      BY <1>1, <3>1, ActiveFinite, FS_Subset
    <3>3. Cardinality(InStage("answered")) < ChanCap
      BY <1>1, <3>2, ActiveFinite DEF Window
    <3>. QED
      BY <2>1, <3>3 DEF WorkerMayStep
  <2>2. CASE InStage("calling") = {}
    BY <1>2, <1>3, <1>6, <2>2 DEF WorkerMayStep
  <2>. QED
    BY <2>1, <2>2
<1>. QED
  BY <1>4, <1>5, <1>6 DEF MainMayStep, TypeOK

\* What a call does to its job leaves the unit with less ahead of it.
LEMMA CallMovesOn ==
  ASSUME IInv, IInv', NEW u \in Units, CallStep(u)
  PROVE  Cardinality(UnitSteps') < Cardinality(UnitSteps)
<1>. USE SettingsType
<1>1. PICK j, cost :
        /\ EndCall(u, j, cost)
        /\ \/ j.stage = "answered"
           \/ /\ j.stage = "calling" /\ j.attempt = job[u].attempt + 1
              /\ job[u].attempt < Attempts
  <2>1. \A w, cost : Answered(u, w, cost).stage = "answered"
    BY DEF Answered
  <2>2. \A cost : \/ TriedAgain(u, cost).stage = "answered"
                  \/ /\ TriedAgain(u, cost).stage = "calling"
                     /\ TriedAgain(u, cost).attempt = job[u].attempt + 1
                     /\ job[u].attempt < Attempts
    BY <2>1 DEF TriedAgain
  <2>. QED
    BY <2>1, <2>2 DEF CallStep, Parsed, Unparseable, CallFails, Overload
<1>2. /\ job[u].stage = "calling" /\ job[u].attempt \in 0..Attempts
      /\ job'[u] = j /\ UNCHANGED todo /\ u \notin todo
      /\ \A v \in Units : v # u => job'[v] = job[v]
  BY <1>1 DEF EndCall, IInv, TypeOK, JobSet, TodoIsOpen, loop
<1>3. Ahead(u) = (Attempts - job[u].attempt) + 2
  BY <1>2 DEF Ahead
<1>4. Ahead(u)' < Ahead(u)
  BY <1>1, <1>2, <1>3 DEF Ahead
<1>. QED
  BY <1>2, <1>4, OneUnitMoves DEF IInv

\* A step within the loop, or of a worker, that moves a unit on.
LEMMA UnitStepCounts ==
  ASSUME pc \in {"loop", "pend", "drain"}, pc' \in {"loop", "drain"} \/ pc' = pc,
         pc = "drain" => pc' = "drain",
         UNCHANGED stopSubmitting,
         Cardinality(UnitSteps') < Cardinality(UnitSteps)
  PROVE  StepsLeft' < StepsLeft
<1>1. Tries' = Tries /\ Tries \in {0, 1}
  BY DEF Tries
<1>2. /\ Cardinality(UnitSteps) \in Nat /\ Cardinality(UnitSteps') \in Nat
      /\ 2 * Cardinality(UnitSteps') < 2 * Cardinality(UnitSteps)
      /\ 2 * Cardinality(UnitSteps') + 1 < 2 * Cardinality(UnitSteps)
  BY StepsFinite, StepsFiniteNext
<1>3. CASE pc = "drain"
  BY <1>2, <1>3 DEF StepsLeft
<1>4. CASE pc = "pend"
  BY <1>1, <1>2, <1>4 DEF StepsLeft
<1>5. CASE pc = "loop"
  BY <1>1, <1>2, <1>5 DEF StepsLeft
<1>. QED
  BY <1>3, <1>4, <1>5

\* A step that leaves the units where they are and moves the main goroutine
\* on, or takes its one way back.
LEMMA MainStepCounts ==
  ASSUME TypeOK, UNCHANGED <<todo, job>>,
         \/ pc = "loop" /\ pc' = "loop" /\ ~stopSubmitting /\ stopSubmitting'
         \/ pc = "loop" /\ pc' = "pend" /\ UNCHANGED stopSubmitting
         \/ pc \in {"loop", "pend"} /\ pc' = "drain"
  PROVE  StepsLeft' < StepsLeft
<1>. DEFINE S == Cardinality(UnitSteps)
<1>1. UnitSteps' = UnitSteps
  BY DEF UnitSteps, Ahead, Slots
<1>2. S \in Nat /\ S' = S
  BY <1>1, StepsFinite
<1>3. Tries \in {0, 1} /\ Tries' \in {0, 1}
  BY DEF Tries
<1>4. StepsLeft = (IF pc = "drain" THEN 2 + 2 * S
                   ELSE IF pc = "pend" THEN 3 + 2 * S + Tries ELSE 4 + 2 * S + Tries)
  BY DEF StepsLeft
<1>5. StepsLeft' = (IF pc' = "drain" THEN 2 + 2 * S'
                    ELSE IF pc' = "pend" THEN 3 + 2 * S' + Tries' ELSE 4 + 2 * S' + Tries')
  BY DEF StepsLeft
<1>. HIDE DEF S
<1>6. CASE pc = "loop" /\ pc' = "loop" /\ ~stopSubmitting /\ stopSubmitting'
  <2>1. Tries = 1 /\ Tries' = 0
    BY <1>6 DEF Tries
  <2>. QED
    BY <1>2, <1>4, <1>5, <1>6, <2>1
<1>7. CASE pc = "loop" /\ pc' = "pend" /\ UNCHANGED stopSubmitting
  <2>1. Tries' = Tries
    BY <1>7 DEF Tries
  <2>. QED
    BY <1>2, <1>3, <1>4, <1>5, <1>7, <2>1
<1>8. CASE pc \in {"loop", "pend"} /\ pc' = "drain"
  BY <1>2, <1>3, <1>4, <1>5, <1>8
<1>. QED
  BY <1>6, <1>7, <1>8

\* A run is never stuck, and each of its steps, whoever takes it, brings it
\* closer to its end by at least one: with N units and A attempts it returns
\* within 2 * N * (A + 3) + 7 steps of its own, however retries, refusals,
\* errors and a cancellation fall.  Fairness then only has to say that what
\* can be done is done.
THEOREM RunsWindDown == Spec => RunWindsDown
<1>1. IInv => (pc # "off" => MainMayStep \/ WorkerMayStep)
  BY NeverStuck
<1>2. IInv /\ IInv' /\ [Next]_vars
        => [pc # "off" => \/ UNCHANGED <<pc, todo, job, stopSubmitting>>
                         \/ StepsLeft' < StepsLeft]_vars
  <2>. SUFFICES ASSUME IInv, IInv', [Next]_vars, pc # "off",
                       ~UNCHANGED <<pc, todo, job, stopSubmitting>>
                PROVE  StepsLeft' < StepsLeft
    OBVIOUS
  <2>. USE StepsFinite, StepsFiniteNext
  <2>1. CASE Begin \/ BeginFails
    BY <2>1 DEF Begin, BeginFails, ForgetRun, StepsLeft
  <2>2. CASE Plan
    <3>1. Slots' = Slots /\ Tries' \in {0, 1}
      BY DEF Slots, Tries
    <3>. QED
      BY <2>2, <3>1 DEF Plan, StepsLeft
  <2>3. CASE PlanFails
    BY <2>3 DEF PlanFails, StepsLeft
  <2>4. CASE StopFilling \/ ChooseNext \/ LeaveLoop \/ SeeCancellation
    BY <2>4, MainStepCounts
       DEF IInv, TypeOK, StopFilling, ChooseNext, LeaveLoop, SeeCancellation, CanFill, loop
  <2>5. ASSUME NEW u \in Units, Submit(u) PROVE StepsLeft' < StepsLeft
    <3>1. /\ pc = "pend" /\ pc' = "loop" /\ u \in todo /\ u \notin todo'
          /\ UNCHANGED stopSubmitting /\ job'[u].stage = "queued"
          /\ \A v \in Units : v # u => job'[v] = job[v] /\ (v \in todo' <=> v \in todo)
      BY <2>5 DEF Submit, IsFirst, IInv, TypeOK, NoJob
    <3>2. Ahead(u)' < Ahead(u)
      BY <3>1, SettingsType DEF Ahead
    <3>. QED
      BY <3>1, <3>2, OneUnitMoves, UnitStepCounts DEF IInv
  <2>6. ASSUME NEW u \in Units, SubmitFails(u) PROVE StepsLeft' < StepsLeft
    BY <2>6, MainStepCounts DEF IInv, SubmitFails, loop
  <2>7. ASSUME NEW u \in Units, PersistOutcome(u) \/ PersistFails(u) \/ PersistInDoubt(u)
        PROVE  StepsLeft' < StepsLeft
    <3>1. /\ Receive(u) /\ pc' \in {"loop", "drain"} /\ pc = "loop"
          /\ UNCHANGED <<todo, stopSubmitting>>
      BY <2>7 DEF PersistOutcome, PersistFails, PersistInDoubt, Receive
    <3>2. /\ job[u].stage = "answered" /\ job'[u].stage = "idle" /\ u \notin todo
          /\ \A v \in Units : v # u => job'[v] = job[v]
      BY <3>1, NoJobIdle DEF Receive, IInv, TypeOK, TodoIsOpen
    <3>3. Ahead(u)' < Ahead(u)
      BY <3>1, <3>2 DEF Ahead
    <3>. QED
      BY <3>1, <3>2, <3>3, OneUnitMoves, UnitStepCounts DEF IInv
  <2>8. CASE Drain
    BY <2>8 DEF Drain, StepsLeft
  <2>9. CASE Finish \/ FinishFails
    BY <2>9 DEF Finish, FinishFails, ForgetRun, StepsLeft
  <2>10. CASE Crash
    <3>1. StepsLeft' = 0
      BY <2>10 DEF Crash, ForgetRun, StepsLeft
    <3>2. Tries \in {0, 1} /\ pc \in {"begin", "plan", "loop", "pend", "drain", "finish"}
      BY DEF IInv, TypeOK, Tries
    <3>3. StepsLeft > 0
      BY <3>2 DEF StepsLeft
    <3>. QED
      BY <3>1, <3>3
  <2>11. ASSUME NEW u \in Units, Take(u) \/ CallStep(u) PROVE StepsLeft' < StepsLeft
    <3>1. job[u].stage # "idle" /\ UNCHANGED <<pc, todo, stopSubmitting>>
      BY <2>11 DEF Take, IsFirst, InStage, CallStep, Parsed, Unparseable, CallFails, Overload,
                   EndCall, loop
    <3>2. pc \in {"loop", "pend", "drain"}
      BY <3>1 DEF IInv, Window, TypeOK, Active
    <3>3. CASE Take(u)
      <4>1. /\ job[u].stage = "queued" /\ job'[u].stage = "calling" /\ job'[u].attempt = 1
            /\ u \notin todo
            /\ \A v \in Units : v # u => job'[v] = job[v]
        BY <3>3 DEF Take, IsFirst, InStage, IInv, TypeOK, TodoIsOpen
      <4>2. Ahead(u)' < Ahead(u)
        BY <3>1, <4>1, SettingsType DEF Ahead
      <4>3. Cardinality(UnitSteps') < Cardinality(UnitSteps)
        BY <3>1, <4>1, <4>2, OneUnitMoves DEF IInv
      <4>. QED
        BY <3>1, <3>2, <4>3, UnitStepCounts
    <3>4. CASE CallStep(u)
      BY <3>1, <3>2, <3>4, CallMovesOn, UnitStepCounts
    <3>. QED
      BY <2>11, <3>3, <3>4
  <2>12. CASE Start \/ Cancel \/ (\E u \in Units : Drift(u)) \/ UNCHANGED vars
    BY <2>12 DEF Start, Cancel, Drift, vars, loop
  <2>. QED
    BY <2>1, <2>2, <2>3, <2>4, <2>5, <2>6, <2>7, <2>8, <2>9, <2>10, <2>11, <2>12
       DEF Next, MainStep, Environment
<1>. QED
  BY <1>1, <1>2, Inductive, PTL DEF Spec, RunWindsDown

\* A run that has just started has no more steps ahead of it than that.
THEOREM StepsAreBounded ==
  Spec => []( /\ StepsLeft \in Nat
              /\ StepsLeft =< 2 * (NumUnits * (Attempts + 3)) + 7
              /\ (StepsLeft = 0) <=> (pc = "off"))
<1>1. IInv => /\ StepsLeft \in Nat
              /\ StepsLeft =< 2 * (NumUnits * (Attempts + 3)) + 7
              /\ (StepsLeft = 0) <=> (pc = "off")
  <2>. SUFFICES ASSUME IInv
                PROVE  /\ StepsLeft \in Nat
                       /\ StepsLeft =< 2 * (NumUnits * (Attempts + 3)) + 7
                       /\ (StepsLeft = 0) <=> (pc = "off")
    OBVIOUS
  <2>1. Cardinality(Slots) = NumUnits * (Attempts + 3)
    <3>1. IsFiniteSet(1..(Attempts + 3)) /\ Cardinality(1..(Attempts + 3)) = Attempts + 3
      BY SettingsType, FS_Interval
    <3>2. Cardinality(Units) = NumUnits
      BY FS_Interval DEF Units
    <3>. QED
      BY <3>1, <3>2, FiniteUnits, FS_Product DEF Slots
  <2>2. Tries \in {0, 1}
    BY DEF Tries
  <2>3. pc \in {"off", "begin", "plan", "loop", "pend", "drain", "finish"}
    BY DEF IInv, TypeOK
  <2>4. /\ StepsLeft \in Nat
        /\ StepsLeft =< 2 * Cardinality(Slots) + 7
        /\ (StepsLeft = 0) <=> (pc = "off")
    BY <2>2, <2>3, StepsFinite DEF StepsLeft
  <2>. QED
    BY <2>1, <2>4
<1>. QED
  BY <1>1, Inductive, PTL

=============================================================================

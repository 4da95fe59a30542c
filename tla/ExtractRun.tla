----------------------------- MODULE ExtractRun -----------------------------
(***************************************************************************)
(* One extraction run after another against one database: extract.Run with *)
(* its main goroutine, its worker goroutines and the model calls, and what *)
(* the database keeps between runs (extract/runner.go, and the ledger      *)
(* statements of extract/loader.go).  A run may be cancelled or killed at  *)
(* any point, the database may refuse a transaction or leave its outcome   *)
(* in doubt, the model may answer, answer nonsense or fail, and the input  *)
(* of a unit may change under a run.                                       *)
(*                                                                         *)
(* One process runs at a time; concurrent runs are the subject of          *)
(* LedgerRuns.                                                             *)
(***************************************************************************)
EXTENDS Integers, FiniteSets

CONSTANTS
  NumUnits,       \* units 1..NumUnits, in the order BuildUnits returns them
  Hashes,         \* input hashes; two hashes are an input and its revision
  NoHash,         \* the hash of a ledger row that does not exist
  Limits,         \* values of --limit the operator uses; 0 is "no limit"
  DryRuns,        \* values of --dry-run the operator uses
  MaxUnits,       \* the hard unit cap
  Concurrency,    \* as configured
  MaxAttempts,    \* as configured
  Priced,         \* whether prices are configured
  Budget,         \* the soft spend cap
  Estimate,       \* the pre-call estimate of one unit's cost
  Costs,          \* what one answered call may cost
  MaxCost,        \* the most any of them costs
  Oversized,      \* units the endpoint always refuses as too large
  Unloadable,     \* units whose validated records the database may refuse
  Interrupts,     \* kinds of interruption: "cancel", "crash", "drift", "db"
  MaxInterrupts   \* bound on the number of interruptions

Units == 1..NumUnits

\* Run normalises the two settings it divides the work by.
Workers == IF Concurrency < 1 THEN 1 ELSE Concurrency
Attempts == IF MaxAttempts < 1 THEN 1 ELSE MaxAttempts

\* The buffer of the jobs and of the outcomes channel.
ChanCap == Workers

ASSUME ConstantsAssumption ==
  /\ NumUnits \in Nat
  /\ NoHash \notin Hashes
  /\ Limits \subseteq Nat /\ DryRuns \subseteq BOOLEAN
  /\ MaxUnits \in Nat
  /\ Concurrency \in Int /\ MaxAttempts \in Int
  /\ Priced \in BOOLEAN
  /\ Budget \in Nat /\ Estimate \in Nat
  /\ MaxCost \in Nat /\ Costs \subseteq 0..MaxCost
  /\ Oversized \subseteq Units /\ Unloadable \subseteq Units
  /\ MaxInterrupts \in Nat

VARIABLES
  \* The database, and the inputs it is fed with.
  input,          \* the hash BuildUnits would give each unit now
  ledger,         \* extraction_units: status and input hash of each unit
  extracted,      \* <<u, h>>: records of u extracted from input h committed
  row,            \* pipeline_runs.status of the latest run
  \* The process.
  pc,             \* where the main goroutine is
  ctxDone,        \* the run's context is cancelled
  opts,           \* the options of the run
  work,           \* the input hash of each unit as BuildUnits returned it
  todo,           \* pending[next:], the planned units not yet submitted
  job,            \* each unit's way through the workers
  inflight,
  stopSubmitting,
  runErr,         \* persistErr, or the error execute returns early with
  spent,          \* CostTracker.CostUSD
  stats,
  \* Bookkeeping of the model.
  billed,         \* what the endpoint charged for this run's answered calls
  exit,           \* how the latest process ended
  interrupts      \* interruptions so far

durable  == <<input, ledger, extracted, row>>
plan     == <<opts, work>>
loop     == <<todo, inflight, stopSubmitting>>
vars == <<durable, pc, ctxDone, plan, loop, job, runErr, spent, stats,
          billed, exit, interrupts>>

NoRow == [status |-> "none", hash |-> NoHash]
NoJob == [stage |-> "idle", attempt |-> 0, live |-> FALSE,
          cost |-> 0, wire |-> "nil"]
NoStats == [skipped |-> 0, done |-> 0, failed |-> 0, deferred |-> 0]
NoOpts == [limit |-> 0, dryRun |-> FALSE]

Init ==
  /\ input \in [Units -> Hashes]
  /\ ledger = [u \in Units |-> NoRow]
  /\ extracted = {}
  /\ row = "none"
  /\ pc = "off"
  /\ ctxDone = FALSE
  /\ opts = NoOpts
  /\ work = [u \in Units |-> NoHash]
  /\ todo = {}
  /\ job = [u \in Units |-> NoJob]
  /\ inflight = 0
  /\ stopSubmitting = FALSE
  /\ runErr = FALSE
  /\ spent = 0
  /\ stats = NoStats
  /\ billed = 0
  /\ exit = "none"
  /\ interrupts = 0

-----------------------------------------------------------------------------
(* Sets of units, by where their jobs are.                                 *)

InStage(s) == {u \in Units : job[u].stage = s}
Active == {u \in Units : job[u].stage # "idle"}

IsFirst(u, S) == u \in S /\ \A v \in S : u =< v

\* The n first units of S, in the order BuildUnits returned them.
Firsts(S, n) == {u \in S : Cardinality({v \in S : v < u}) < n}

\* Mistakes: the run's word for success is compared with, not the row's;
\* the hash is not compared.
SettledNever(u, h) == ledger[u] = [status |-> "ok", hash |-> h]
SettledOnce(u, h) == ledger[u].status = "done"

\* A row done under the hash the unit has now makes the unit skippable.
Settled(u, h) == ledger[u] = [status |-> "done", hash |-> h]

-----------------------------------------------------------------------------
(* Interruptions.                                                          *)

MayInterrupt(kind) == kind \in Interrupts /\ interrupts < MaxInterrupts
Interrupt(kind) == MayInterrupt(kind) /\ interrupts' = interrupts + 1

\* A database call returns an error and changed nothing: its context was
\* already cancelled, or the database failed.
Refused == \/ ctxDone /\ UNCHANGED interrupts
           \/ ~ctxDone /\ Interrupt("db")

\* Mistake: the database is called under a context of its own.
AcceptedDetached == UNCHANGED interrupts

\* A database call took effect.
Accepted == ~ctxDone /\ UNCHANGED interrupts

\* A commit took effect, and the caller was told that it failed, for one
\* because its context was cancelled while it was under way.
InDoubt == ~ctxDone /\ Interrupt("db")

-----------------------------------------------------------------------------
(* The process starts and ends.  What it keeps in memory is set anew by    *)
(* the start of the next one.                                              *)

ForgetRun ==
  /\ pc' = "off"
  /\ ctxDone' = FALSE
  /\ opts' = NoOpts
  /\ work' = [u \in Units |-> NoHash]
  /\ todo' = {}
  /\ job' = [u \in Units |-> NoJob]
  /\ inflight' = 0
  /\ stopSubmitting' = FALSE
  /\ runErr' = FALSE
  /\ spent' = 0
  /\ stats' = NoStats
  /\ billed' = 0

Start ==
  /\ pc = "off"
  /\ \E limit \in Limits, dryRun \in DryRuns :
       opts' = [limit |-> limit, dryRun |-> dryRun]
  /\ pc' = "begin"
  /\ row' = "none"
  /\ exit' = "none"
  /\ UNCHANGED <<input, ledger, extracted, ctxDone, work, loop, job, runErr,
                 spent, stats, billed, interrupts>>

\* beginRun inserts the pipeline_runs row; without it Run returns at once.
Begin ==
  /\ pc = "begin"
  /\ Accepted
  /\ row' = "running"
  /\ pc' = "plan"
  /\ UNCHANGED <<input, ledger, extracted, ctxDone, plan, loop, job, runErr,
                 spent, stats, billed, exit>>

BeginFails ==
  /\ pc = "begin"
  /\ Refused
  /\ ForgetRun
  /\ exit' = "error"
  /\ UNCHANGED durable

\* finishRun records the run's status, under the context of the run.
Finish ==
  /\ pc = "finish"
  /\ \/ Accepted /\ exit' = IF runErr THEN "error" ELSE "ok"
     \/ InDoubt /\ exit' = "error"
  /\ row' = IF runErr THEN "failed" ELSE "ok"
  /\ ForgetRun
  /\ UNCHANGED <<input, ledger, extracted>>

FinishFails ==
  /\ pc = "finish"
  /\ Refused
  /\ exit' = "error"
  /\ ForgetRun
  /\ UNCHANGED durable

-----------------------------------------------------------------------------
(* execute: planning.                                                      *)

\* What is done under its current hash is skipped, and the rest is cut by
\* the limit and then by the unit cap.
Pending == {u \in Units : ~Settled(u, input[u])}
Planned == Firsts(IF opts.limit > 0 THEN Firsts(Pending, opts.limit) ELSE Pending,
                  MaxUnits)

\* BuildUnits and LedgerState are read.
Plan ==
  /\ pc = "plan"
  /\ Accepted
  /\ work' = input
  /\ todo' = Planned
  /\ stats' = [stats EXCEPT !.skipped = Cardinality(Units \ Pending),
                            !.deferred = Cardinality(Pending) - Cardinality(Planned)]
  /\ pc' = IF opts.dryRun THEN "finish" ELSE "loop"
  /\ UNCHANGED <<durable, ctxDone, opts, inflight, stopSubmitting, job, runErr,
                 spent, billed, exit>>

\* One of the reads fails: the units, the ledger, or the id snapshots.
PlanFails ==
  /\ pc = "plan"
  /\ Refused
  /\ runErr' = TRUE
  /\ pc' = "finish"
  /\ UNCHANGED <<durable, ctxDone, plan, loop, job, spent, stats, billed, exit>>

-----------------------------------------------------------------------------
(* execute: the run loop.  The main goroutine fills the window one unit at *)
(* a time, and then takes one outcome.                                     *)

\* Mistake: the estimate of the next unit is left out.
BudgetNotExceeded == Priced => spent =< Budget

BudgetAllows == Priced => spent + Estimate =< Budget

\* Mistake: one unit more than the window holds.
CanOverfill == ~stopSubmitting /\ inflight =< Workers /\ todo # {}

CanFill == ~stopSubmitting /\ inflight < Workers /\ todo # {}

StopFilling ==
  /\ pc = "loop"
  /\ CanFill
  /\ ctxDone \/ ~BudgetAllows
  /\ stopSubmitting' = TRUE
  /\ UNCHANGED <<durable, pc, ctxDone, plan, todo, inflight, job, runErr,
                 spent, stats, billed, exit, interrupts>>

\* The checks passed; the unit's row is still to be written.
ChooseNext ==
  /\ pc = "loop"
  /\ CanFill
  /\ ~ctxDone /\ BudgetAllows
  /\ pc' = "pend"
  /\ UNCHANGED <<durable, ctxDone, plan, loop, job, runErr, spent, stats,
                 billed, exit, interrupts>>

\* Mistakes: the upsert leaves the status, or the whole row, of an earlier
\* run in place.
PendRowKeepsStatus(u) ==
  ledger' = [ledger EXCEPT ![u] =
    [status |-> IF @ = NoRow THEN "pending" ELSE @.status, hash |-> work[u]]]
PendRowDoesNothing(u) ==
  ledger' = [ledger EXCEPT ![u] =
    IF @ = NoRow THEN [status |-> "pending", hash |-> work[u]] ELSE @]

\* The upsert of the unit's row, whatever an earlier run left in it.
PendRow(u) ==
  ledger' = [ledger EXCEPT ![u] = [status |-> "pending", hash |-> work[u]]]

\* ledgerPend commits and the job is sent.  The send must find a free place
\* in the buffer.
Submit(u) ==
  /\ pc = "pend"
  /\ IsFirst(u, todo)
  /\ Accepted
  /\ Cardinality(InStage("queued")) < ChanCap
  /\ PendRow(u)
  /\ job' = [job EXCEPT ![u] = [NoJob EXCEPT !.stage = "queued"]]
  /\ todo' = todo \ {u}
  /\ inflight' = inflight + 1
  /\ pc' = "loop"
  /\ UNCHANGED <<input, extracted, row, ctxDone, plan, stopSubmitting, runErr,
                 spent, stats, billed, exit>>

SubmitFails(u) ==
  /\ pc = "pend"
  /\ IsFirst(u, todo)
  /\ \/ Refused /\ UNCHANGED ledger
     \/ InDoubt /\ PendRow(u)
  /\ runErr' = TRUE
  /\ pc' = "drain"
  /\ UNCHANGED <<input, extracted, row, ctxDone, plan, loop, job, spent, stats,
                 billed, exit>>

\* Nothing to submit and nothing in flight: the loop ends.
LeaveLoop ==
  /\ pc = "loop"
  /\ ~CanFill
  /\ inflight = 0
  /\ pc' = "drain"
  /\ UNCHANGED <<durable, ctxDone, plan, loop, job, runErr, spent, stats,
                 billed, exit, interrupts>>

\* The select takes the cancellation rather than an outcome.
SeeCancellation ==
  /\ pc = "loop"
  /\ ~CanFill
  /\ inflight > 0
  /\ ctxDone
  /\ stopSubmitting' = TRUE
  /\ UNCHANGED <<durable, pc, ctxDone, plan, todo, inflight, job, runErr,
                 spent, stats, billed, exit, interrupts>>

\* The select takes the outcome of u.  The channel hands outcomes over in
\* the order the calls ended in, and that order is arbitrary.
Receive(u) ==
  /\ pc = "loop"
  /\ ~CanFill
  /\ inflight > 0
  /\ job[u].stage = "answered"
  /\ inflight' = inflight - 1
  /\ job' = [job EXCEPT ![u] = NoJob]

FinishRow(u, status) == ledger' = [ledger EXCEPT ![u].status = status]

\* The unit's transaction: the raw outputs, the records if there are any,
\* and the row's final status, all or nothing.
WriteOutcome(u) ==
  IF job[u].wire = "nil"
  THEN /\ FinishRow(u, "failed")
       /\ UNCHANGED extracted
  ELSE /\ job[u].wire = "loadable"
       /\ FinishRow(u, "done")
       /\ extracted' = extracted \cup {<<u, work[u]>>}

PersistOutcome(u) ==
  /\ Receive(u)
  /\ Accepted
  /\ WriteOutcome(u)
  /\ stats' = IF job[u].wire = "nil" THEN [stats EXCEPT !.failed = @ + 1]
                                     ELSE [stats EXCEPT !.done = @ + 1]
  /\ spent' = spent + job[u].cost
  /\ UNCHANGED <<input, row, pc, ctxDone, plan, todo, stopSubmitting, runErr,
                 billed, exit>>

\* The transaction is rolled back, before or after the tracker counted the
\* responses, or the database rejects the records.
PersistFails(u) ==
  /\ Receive(u)
  /\ \/ Refused /\ spent' \in {spent, spent + job[u].cost}
     \/ Accepted /\ job[u].wire = "rejected" /\ spent' = spent + job[u].cost
  /\ runErr' = TRUE
  /\ pc' = "drain"
  /\ UNCHANGED <<durable, ctxDone, plan, todo, stopSubmitting, stats, billed,
                 exit>>

PersistInDoubt(u) ==
  /\ Receive(u)
  /\ InDoubt
  /\ WriteOutcome(u)
  /\ spent' = spent + job[u].cost
  /\ runErr' = TRUE
  /\ pc' = "drain"
  /\ UNCHANGED <<input, row, ctxDone, plan, todo, stopSubmitting, stats,
                 billed, exit>>

\* Mistake: what a stop left unsubmitted is not counted.
LeftoverForgotten == 0

\* The planned units a run that ends cleanly never submitted.
Leftover == IF runErr THEN 0 ELSE Cardinality(todo)

\* The jobs channel is closed, the workers have emptied it and returned, and
\* the outcomes nobody received are counted.
Drain ==
  /\ pc = "drain"
  /\ Active \subseteq InStage("answered")
  /\ job' = [u \in Units |-> NoJob]
  /\ stats' = [stats EXCEPT !.deferred =
                 @ + Cardinality(Active) + Leftover]
  /\ pc' = "finish"
  /\ UNCHANGED <<durable, ctxDone, plan, loop, runErr, spent, billed, exit,
                 interrupts>>

-----------------------------------------------------------------------------
(* callUnit, on a worker.  An attempt that begins under a cancelled        *)
(* context fails at once; one that began before may still be answered.     *)

Take(u) ==
  /\ IsFirst(u, InStage("queued"))
  /\ Cardinality(InStage("calling")) < Workers
  /\ job' = [job EXCEPT ![u] = [stage |-> "calling", attempt |-> 1,
                                live |-> ~ctxDone, cost |-> 0, wire |-> "nil"]]
  /\ UNCHANGED <<durable, pc, ctxDone, plan, loop, runErr, spent, stats, billed,
                 exit, interrupts>>

\* The job of u, answered with w after paying cost.
Answered(u, w, cost) ==
  [stage |-> "answered", attempt |-> job[u].attempt, live |-> FALSE,
   cost |-> job[u].cost + cost, wire |-> w]

\* Mistakes: one attempt more than allowed; an attempt without a response
\* is not counted.
TriedTooOften(u, cost) ==
  IF job[u].attempt =< Attempts
  THEN [job[u] EXCEPT !.attempt = @ + 1, !.live = ~ctxDone, !.cost = @ + cost]
  ELSE Answered(u, "nil", cost)
TriedUncounted(u, cost) ==
  IF job[u].attempt < Attempts
  THEN [job[u] EXCEPT !.attempt = @ + (IF cost = 0 THEN 0 ELSE 1),
                      !.live = ~ctxDone, !.cost = @ + cost]
  ELSE Answered(u, "nil", cost)

\* The job of u after an attempt that produced nothing usable.
TriedAgain(u, cost) ==
  IF job[u].attempt < Attempts
  THEN [stage |-> "calling", attempt |-> job[u].attempt + 1, live |-> ~ctxDone,
        cost |-> job[u].cost + cost, wire |-> "nil"]
  ELSE Answered(u, "nil", cost)

\* The call on u ends, and the job is then j; an outcome needs a free place
\* in the outcomes channel.
EndCall(u, j, cost) ==
  /\ job[u].stage = "calling"
  /\ j.stage = "answered" => Cardinality(InStage("answered")) < ChanCap
  /\ job' = [job EXCEPT ![u] = j]
  /\ billed' = billed + cost
  /\ UNCHANGED <<durable, pc, ctxDone, plan, loop, runErr, spent, stats, exit,
                 interrupts>>

Parsed(u) ==
  /\ job[u].live
  /\ u \notin Oversized
  /\ \E cost \in Costs, w \in {"loadable"} \cup
                              (IF u \in Unloadable THEN {"rejected"} ELSE {}) :
       EndCall(u, Answered(u, w, cost), cost)

Unparseable(u) ==
  /\ job[u].live
  /\ u \notin Oversized
  /\ \E cost \in Costs : EndCall(u, TriedAgain(u, cost), cost)

CallFails(u) == EndCall(u, TriedAgain(u, 0), 0)

Overload(u) ==
  /\ job[u].live
  /\ u \in Oversized
  /\ EndCall(u, Answered(u, "nil", 0), 0)

-----------------------------------------------------------------------------
(* The environment.                                                        *)

\* SIGINT or SIGTERM.
Cancel ==
  /\ pc # "off"
  /\ ~ctxDone
  /\ Interrupt("cancel")
  /\ ctxDone' = TRUE
  /\ UNCHANGED <<durable, pc, plan, loop, job, runErr, spent, stats, billed, exit>>

Crash ==
  /\ pc # "off"
  /\ Interrupt("crash")
  /\ ForgetRun
  /\ exit' = "killed"
  /\ UNCHANGED durable

\* An ingest gives a unit another text or candidate set.
Drift(u) ==
  /\ Interrupt("drift")
  /\ \E h \in Hashes \ {input[u]} : input' = [input EXCEPT ![u] = h]
  /\ UNCHANGED <<ledger, extracted, row, pc, ctxDone, plan, loop, job, runErr,
                 spent, stats, billed, exit>>

-----------------------------------------------------------------------------
MainStep ==
  \/ Begin \/ BeginFails \/ Plan \/ PlanFails
  \/ StopFilling \/ ChooseNext \/ LeaveLoop \/ SeeCancellation
  \/ \E u \in Units : Submit(u) \/ SubmitFails(u)
  \/ \E u \in Units : PersistOutcome(u) \/ PersistFails(u) \/ PersistInDoubt(u)
  \/ Drain \/ Finish \/ FinishFails

CallStep(u) == Parsed(u) \/ Unparseable(u) \/ CallFails(u) \/ Overload(u)

Environment == Cancel \/ Crash \/ \E u \in Units : Drift(u)

Next ==
  \/ Start \/ MainStep \/ Environment
  \/ \E u \in Units : Take(u) \/ CallStep(u)

Spec == Init /\ [][Next]_vars

(***************************************************************************)
(* Fairness.  The goroutines are scheduled, and a call whose context is    *)
(* cancelled returns: net/http watches the context.  Nothing makes the     *)
(* endpoint answer a call that is not cancelled.                           *)
(***************************************************************************)
Scheduling ==
  /\ WF_vars(MainStep)
  /\ WF_vars(\E u \in Units : Take(u))
  /\ \A u \in Units : WF_vars(ctxDone /\ CallStep(u))

FairSpec == Spec /\ Scheduling

\* The endpoint ends every call, and one that is not too large is, when
\* tried again and again, once answered with a usable reply; the operator
\* runs the extraction again.
Operation ==
  /\ WF_vars(Start)
  /\ \A u \in Units : WF_vars(CallStep(u)) /\ SF_vars(Parsed(u))

LiveSpec == FairSpec /\ Operation

-----------------------------------------------------------------------------
(* Types.                                                                  *)

JobSet == [stage : {"idle", "queued", "calling", "answered"},
           attempt : 0..Attempts, live : BOOLEAN, cost : Nat,
           wire : {"nil", "loadable", "rejected"}]

TypeOK ==
  /\ input \in [Units -> Hashes]
  /\ ledger \in [Units -> [status : {"none", "pending", "done", "failed"},
                           hash : Hashes \cup {NoHash}]]
  /\ extracted \subseteq Units \X (Hashes \cup {NoHash})
  /\ row \in {"none", "running", "ok", "failed"}
  /\ pc \in {"off", "begin", "plan", "loop", "pend", "drain", "finish"}
  /\ ctxDone \in BOOLEAN
  /\ opts \in [limit : Nat, dryRun : BOOLEAN]
  /\ work \in [Units -> Hashes \cup {NoHash}]
  /\ todo \subseteq Units
  /\ job \in [Units -> JobSet]
  /\ inflight \in Int
  /\ stopSubmitting \in BOOLEAN
  /\ runErr \in BOOLEAN
  /\ spent \in Nat
  /\ stats \in [skipped : Nat, done : Nat, failed : Nat, deferred : Nat]
  /\ billed \in Nat
  /\ exit \in {"none", "ok", "error", "killed"}
  /\ interrupts \in Nat

-----------------------------------------------------------------------------
(* Safety.                                                                 *)

\* A unit that is done under a hash had its records extracted from exactly
\* that input and committed with it: no crash, lost commit or input change
\* leaves a done row that a later run would wrongly skip.
DoneIsExtracted ==
  \A u \in Units :
    ledger[u].status = "done" => <<u, ledger[u].hash>> \in extracted

\* Whatever is queued, called or waiting to be persisted has a pending row
\* under the hash the run read, so that a crash at any point leaves the
\* unit to the next run; and while the run loop turns, inflight counts
\* exactly those units.
InFlightIsPending ==
  /\ \A u \in Active : ledger[u] = [status |-> "pending", hash |-> work[u]]
  /\ Active \cap todo = {}
  /\ pc \in {"loop", "pend"} => inflight = Cardinality(Active)

\* "Both channels buffer a full window so workers never block on a send":
\* everything in flight fits in either buffer, so that close, Wait and the
\* drain end whatever the loop left behind.
SendsNeverBlock == Cardinality(Active) =< ChanCap

\* The budget gate looks only at what has been persisted, so a run may
\* exceed its cap; but by no more than one window of units, each tried as
\* often as it may be, and not at all when the first unit does not fit.
SpendBound ==
  Priced => billed =< IF Estimate =< Budget
                      THEN (Budget - Estimate) + Workers * Attempts * MaxCost
                      ELSE 0

\* A run that ends without an error reports all it was charged, and
\* accounts for every unit exactly once: what it counts as skipped or done
\* is done in the ledger under the input it read, nothing else is, and what
\* it counts as failed has a failed row.
CleanRunAccountsForAll ==
  pc = "finish" /\ ~runErr /\ ~opts.dryRun =>
    /\ spent = billed
    /\ stats.skipped + stats.done = Cardinality({u \in Units : Settled(u, work[u])})
    /\ stats.failed =< Cardinality({u \in Units : ledger[u].status = "failed"})
    /\ stats.skipped + stats.done + stats.failed + stats.deferred = NumUnits

\* Cancellation never turns into a verdict on a unit: once the context is
\* done no row of the ledger changes and no record is written, whatever the
\* calls in flight came back with.  They stay pending and are resumed.
CancelJudgesNothing == [][ctxDone => UNCHANGED <<ledger, extracted>>]_vars

\* A run winds down by itself.  While it is under way something can always
\* be done, if only by the endpoint: no channel is full, no goroutine waits
\* for another in a circle, and no shutdown waits for a worker that cannot
\* hand over its outcome.  And whatever is done leaves less to do: every
\* unit has so many steps ahead of it, every other step of the main
\* goroutine uses up what cannot come back, and no retry, error or
\* cancellation gives any of it back.
Ahead(u) == IF u \in todo THEN Attempts + 3
            ELSE CASE job[u].stage = "queued" -> Attempts + 2
                   [] job[u].stage = "calling" -> (Attempts - job[u].attempt) + 2
                   [] job[u].stage = "answered" -> 1
                   [] OTHER -> 0

Slots == Units \X (1..(Attempts + 3))
UnitSteps == {s \in Slots : s[2] =< Ahead(s[1])}
Tries == IF stopSubmitting THEN 0 ELSE 1

StepsLeft ==
  CASE pc = "off" -> 0
    [] pc = "finish" -> 1
    [] pc = "drain" -> 2 + 2 * Cardinality(UnitSteps)
    [] pc = "pend" -> 3 + 2 * Cardinality(UnitSteps) + Tries
    [] pc = "loop" -> 4 + 2 * Cardinality(UnitSteps) + Tries
    [] pc = "plan" -> 6 + 2 * Cardinality(Slots)
    [] pc = "begin" -> 7 + 2 * Cardinality(Slots)

MainMayStep ==
  \/ pc \in {"begin", "plan", "finish"}
  \/ pc = "loop" /\ (CanFill \/ inflight = 0 \/ InStage("answered") # {})
  \/ pc = "pend" /\ todo # {} /\ (ctxDone \/ Cardinality(InStage("queued")) < ChanCap)
  \/ pc = "drain" /\ Active \subseteq InStage("answered")

WorkerMayStep ==
  \/ InStage("queued") # {} /\ Cardinality(InStage("calling")) < Workers
  \/ InStage("calling") # {} /\ Cardinality(InStage("answered")) < ChanCap

RunWindsDown ==
  /\ [](pc # "off" => MainMayStep \/ WorkerMayStep)
  /\ [][pc # "off" => \/ UNCHANGED <<pc, todo, job, stopSubmitting>>
                     \/ StepsLeft' < StepsLeft]_vars

\* Each step of a run does to the ledger and the graph what the abstract
\* ledger allows; above all, it never reopens a unit that is done under the
\* input the run read.
UL == INSTANCE UnitLedger
ImplementsUnitLedger == UL!Spec

-----------------------------------------------------------------------------
(* What the comments of the code say of it, and the code does not do.      *)

\* "A returned error means the run itself failed (recorded as such in
\* pipeline_runs)": once a run has a row, an error return leaves it failed.
ErrorIsRecorded == exit = "error" /\ row # "none" => row = "failed"

\* "per-unit failures land in the ledger and stats instead": when nothing
\* interrupts it, no reply of the model makes a run return an error.
UnitFailureStaysInUnit == exit = "error" => interrupts > 0

-----------------------------------------------------------------------------
(* Liveness.                                                               *)

\* A cancelled run returns, even when the endpoint never answers, the
\* database fails, or a unit is between two channels.
CancelledRunEnds == ctxDone ~> pc = "off"

\* A run returns once the endpoint ends its calls.
RunEnds == Operation => (pc # "off" ~> pc = "off")

\* When runs are repeated and interruptions cease, every unit whose text
\* the model can take is done under the input it has now: nothing is
\* dropped between a deferral, a failure, a crash and the next run.
EveryUnitSettles ==
  Operation => <>[](\A u \in Units \ Oversized :
                      ledger[u] = [status |-> "done", hash |-> input[u]])
=============================================================================

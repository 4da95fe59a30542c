# Verification of fact-checker

TLA+ models of the fact-checking engine in this repository, the TLC runs that
check them on small instances, and proofs of their main properties for every
instance. Paths are relative to `src/`.

## The system

`fact-checker extract run` turns ingested documents into a graph of cited
claims. It is the one stage that exists; `validate`, `factcheck`, `review` and
`sources` hold only a doc comment.

| Part | State | Operations | Talks to |
| --- | --- | --- | --- |
| Runner (`extract/runner.go`) | a run: plan, window of units in flight, two channels, spend, statistics | `Run`, `execute`, `callUnit`, `persistOutcome`, `ledgerPend` | adapter, client, database |
| Ledger (`extraction_units`, `pipeline_runs`; `extract/loader.go`) | a row per unit and prompt version: status, input hash; a row per run | `UpsertLedgerRow`, `FinishLedgerRow`, `LedgerState` | runner |
| Model client (`internal/llm/llm.go`) | the last request slot; each call's attempt, backoff and timers | `Complete`, `throttle`, `post`, `sleepBackoff` | workers, endpoint |
| Validation (`extract/validate.go`) | none; id sets passed in | `Validate` | runner |
| Graph loader (`extract/loader.go`) | entities, events, claims, versions, citations, contradictions | `LoadRecords`, `WriteModelOutput` | runner, database |
| Wire parsing (`extract/wire.go`) | none | `ParseExtraction`, `JSONBlock`, `salvageList` | workers |
| Adapter (`adapters/arda`) | its manifest | `BuildUnits`, `selectCandidates`, `InputHash` | store, runner |
| Store (`extract/store.go`) | none | reads | adapter |
| Integrity checks, prompts, migrations, health server, configuration, adapter registry | none of their own | reads, text, set-up | database, workers |

How they interact: the main goroutine of a run reads units and ledger, then
keeps up to `Concurrency` units in flight. For each it commits a `pending` row,
sends a job over one channel, and a worker makes the model calls and sends an
outcome back over another; only the main goroutine writes to the database, one
transaction per unit (raw outputs, records, `done` or `failed`). Workers share
one client, and the client one request rate. SIGINT cancels the one context
everything uses. Between runs only the database remembers.

What is hard: a crash, a cancellation, a refused or an in-doubt commit between
any two of these steps; inputs that change under a run; outcomes in any order;
a shutdown with both channels in use; attempts that multiply with retries;
shared slots; and a second run, or a second unit of the same key, at the same
rows. `PROJECT.json` lists the hazards line by line with the properties that
cover them.

What makes each part right:

- runner and ledger: a done row names the input whose records were committed
  with it; nothing is lost between a stop and the next run; no verdict comes
  from a cancellation; a run ends; its spend is bounded and its accounts exact;
- client: slots keep their interval and move up, a Retry-After in seconds is
  honoured, a cancellation ends every call, every call returns;
- validation and loader: every record in the graph is cited as a unit demanded,
  whatever was merged into it; kept records satisfy the constraints of the
  schema; loading twice changes nothing; the register names contested claims;
- adapter and store: every page has a unit about its newest revision, the offers
  are the best that the registry allows, and a skipped unit is one whose inputs
  are word for word those extracted;
- wire parsing: one malformed record costs its siblings nothing, and neither do
  prose and fences around the object.

## Modules

| Module | Models | Rests on |
| --- | --- | --- |
| `UnitLedger` | what the ledger promises of each unit: open under a hash, settle with the records, fail, never reopen what is done under the input one has | |
| `ExtractRun` | one run after another: runner, workers, ledger, database | refines `UnitLedger` |
| `LedgerRuns` | runs at the same time and units of the same key, at the level of statements and transactions | |
| `Completer` | what callers rely on of a model backend | |
| `LlmClient` | the client: retry loop, slots, backoff, classification | refines `Completer` |
| `Validation` | the drop rules of `Validate`, as operators over one reply | |
| `KnowledgeGraph` | what the graph promises its readers: statements and citations are only added | |
| `GraphLoad` | runs that load replies into the tables, units extracted again, overlapping runs | `Validation`; refines `KnowledgeGraph` |
| `Selection` | the newest revisions, the choice of candidates, the units and their hash, as operators | |
| `WireParse` | what the text of a reply is parsed to, as operators | |
| `Intake` | from documents and registry to the graph: adapter, parsing, validation, load and ledger together | `Selection`, `WireParse`, `GraphLoad` |
| `MC*` | instances for TLC | |
| `*Proofs` | theorems | |

### ExtractRun

`pc` is where the main goroutine stands: `begin` (`beginRun`), `plan`
(`BuildUnits`, `LedgerState`, `IDSnapshots`), `loop` (the fill loop and the
select), `pend` (`ledgerPend` and the send), `drain` (close, wait, drain),
`finish` (`finishRun`), `off`. `job[u]` is where a unit is between the two
channels: `queued` in the jobs channel, `calling` on a worker, `answered` on
its way to or in the outcomes channel. A queued job is taken in order; outcomes
arrive in any order, since calls end in any order. `job[u].live` says whether
the attempt under way began before the cancellation: only then may it still be
answered.

Every call of the database takes one of three ways. `Accepted`: it took effect;
this needs a context that is not done. `Refused`: it changed nothing, because
the context is done or the database failed. `InDoubt`: a commit took effect and
the caller was told that it failed. An error ends the run as the code does:
through `drain` with `runErr`, or straight to `finish` from `plan`.

A crash (`Crash`) forgets everything but `input`, `ledger`, `extracted` and
`row`. `Drift` gives a unit another input hash; the run goes on with what it
read. `MaxInterrupts` bounds cancellations, crashes, drifts and database
failures together.

Costs are abstract: one answered call costs a member of `Costs`; `billed` is
what the endpoint charged, `spent` what the tracker knows. Records of a reply
are one element `<<unit, hash>>` of `extracted`; whether the database takes them
is the `wire` of the outcome (`loadable`, `rejected`). Left out: tokens,
latencies, log lines, the record counts of the statistics, raw outputs.

### LedgerRuns

Each run reads the units, then the ledger, then commits one transaction per
step; a stop of any kind forgets what it has in flight. The ledger is indexed
by key, and `KeyOf` says which units share one. `settled` and `overlapped` are
history: which units were extracted since their input last changed, and whether
two runs were ever under way at once.

### LlmClient

Time is relative: `left` is the time until a caller's timer fires, `gate` the
time until `lastSlot + interval`. Claiming a slot is then one step, whatever the
time is: the caller waits for `gate`, and `gate` moves on by the interval, which
is what the three branches of `throttle` come to. `Tick` lets time pass; a
goroutine whose timer fired may be scheduled much later. A reply is a record of
what `post` and `parseChatResponse` look at: the class of the status, whether
the body says "too long", whether it could be read and is well formed, and the
Retry-After. That header is a string (`Headers`): seconds that fit a
`time.Duration`, seconds that do not, or a text that is no number, as a date is
and as no header at all comes to. `Understood` is what `sleepBackoff` makes of
it: a text is passed over, and seconds that overflow become the least or the
greatest duration, as the build converts them; `Retry` takes either. `Abort` is
net/http watching the context of the request.

The calls of `ExtractRun` are calls of `Completer`: an attempt is `live` when it
is `open`, and one that began under a cancelled context can only end in an
error. `LlmClient` is shown to keep that promise.
`requests` is history: how often the endpoint was asked within the call, whether
or not its answer came back.

### Validation and GraphLoad

`Validate` walks each list of a reply once and keeps a record that passes every
rule unless one of its id was kept before. What it keeps is therefore the first
good record of each id (`First`), and one operator per rule says what is good:
`Citeable` and `MeetsPolicy` for citations, `Resolves` for references,
`KeepsEvent`, `KeepsClaim` and `KeepsEdge` for records. The repairs are in the
`Map*` operators: a name kind outside the schema becomes `other`, a dangling
location is emptied, links to events that were not kept are removed, an object
entity displaces an object value, an edge loses a claim that does not resolve.
Replies are what `ParseExtraction` hands on (`RepliesAssumption`).

`GraphLoad` keeps each table as a set of rows, and `Loaded` is `LoadRecords`:
`Insert` is ON CONFLICT DO NOTHING on the key the statement names, `Upsert` the
DO UPDATE of versions. Within one list the code inserts in order, so versions of
one label leave the last statement (`LastOfLabel`) and of their citations of one
source the first (`FirstForLabel`). `ConstraintsHold` are the references and
CHECKs of the migrations, those to `sources` (the domain of `Scheme`) and
`relationship_types` included. A load that breaks one is `Reject`, which ends the
run; so may be any load of a reply in `Unstorable`, whose text the database may
refuse (a NUL, a title cut inside a rune at `extract/validate.go:429`, a key too
long for its index). `known[p]` are the id sets of the runner: read by `Begin`, extended after
each commit by `Learns`.

A load is one step although it is many statements: two transactions that insert
the same key wait for each other at it, and one that the database aborts is a
run that ends. The three queries of `IDSnapshots` are one step as well; the
proofs use no more than that each set is a subset of the ids in its table.
Nothing says which reply a unit gets, or how often a unit is extracted, so that
re-extraction after drift, a repeated failure and two runs at one unit are all
included. `filed` is history: which unit's reply put a record there;
`overlapped` says whether runs were ever under way at once.

`KnowledgeGraph` leaves out the statement of a version, which a later load
replaces (`extract/loader.go:139-142` is DO UPDATE); so two versions of one
label in one reply end as one, the last, with the citations of both.
`TraditionsStaySeparable` is therefore stated of replies without such a pair,
and, like the register, of runs that do not overlap. A participant without an
id resolves (`extract/validate.go:234`); `DanglingReferences` are the other ids
that refer to nothing.

`UnitsAssumption` says that what a unit names has rows: its relationship types,
and the sources it offers, which the tier filter takes from the registry and
nothing deletes. That the locators a unit offers carry the keys that the schemes
of their sources require is `LocatorsFit`, and no assumption: the adapter does
not check it (`adapters/arda/arda.go:93`). The instance satisfies it, and the
theorem about locators has it as hypothesis. Left out: attributes, roles, notes,
kinds, the drop log and raw outputs.

### Selection, WireParse and Intake

A text is a sequence of words, and every length is counted in words: the unit's
text is cut to `TextCap`, and the candidates are scored by the words they share
with the title and the first `ScoredChars` of it. `Outranks` is the stable sort
by score, `Best` the cut, `Defaults` the fallback when nothing matches, and
`Offered` what is left when the tiers of the registry have been looked at and a
place is offered once. The slug of a title and the splitting into words are
constants, as functions of a title. The locator of the reference is its URL and
nothing else (`adapters/arda/arda.go:158`). `InputHash` is injective; the order
of the candidates is left out of it because it follows from the title and the
text.

A reply is `[tokens, open, payload]`: its tokens are what `JSONBlock` and the
decoder tell apart (braces, fences, line breaks, other JSON, prose), and
`payload` is what stands at the brace `open`, each list absent, no list, or a
list in which some items cannot be decoded. `Stripped` takes the first fenced
part and `WithoutTag` its first line for a language, `JSONBlock` what lies
between the first and the last brace, `Readable` says whether the decoder finds
one value there, and `Salvage` keeps the items that decode and are complete, at
the positions they had. The part that is selected may as well be prose between
two fenced blocks, as in the code. Braces and fences inside of strings are left
out.

`Intake` is one run after another, one unit at a time: `Start` reads documents,
registry and ledger, `Submit` pends a row, `CallFails`, `Overload`,
`Unparseable` and `Parsed` are the attempts of `callUnit`, `PersistDone` and
`PersistFailed` its transaction, `Reject` and `Stop` the ends of a run. A text in
`Unstorable` may be refused as a raw output, of a failed unit too, or as what is
parsed from it; the text of an error of the endpoint, which `truncate` cuts for
the row (`internal/llm/llm.go:217`), ends a run by `Stop`. The
graph is `GraphLoad` with one run, its `Units` and `Replies` being whatever
`BuildUnits` and `ParseExtraction` come to; a load is a step of `GraphLoad`
together with the raw outputs and the row. `Ingest` and `Register`
change documents and registry at any time, also while a unit is at the model;
sources are added and change their tier, and no row of them is deleted.
`extractedAs` is history: the unit each done row is about. A document without a
title fails `BuildUnits` and with it every run: `Start` has the guard, and the
instance has no such document. The window of units, the failures of the database
and the budget are `ExtractRun`'s, overlapping runs `GraphLoad`'s.

## Runs

All finish within two minutes.

| Run | Instance | Shows |
| --- | --- | --- |
| `faults` | 3 units, 2 workers, 2 attempts, 2 hashes, limits 0 and 1, dry runs, a budget that admits one window, one unit the database may reject, 2 interruptions of any kind; 1.2 million states | every safety property of `ExtractRun`, that a run is never stuck and each of its steps brings it nearer its end, and the refinement of `UnitLedger` |
| `live` | 2 units, one of which the endpoint never takes, 2 interruptions | a cancelled run ends, a run ends, every other unit settles |
| `cancel_unrecorded` | one cancellation | a cancelled run leaves its row at `running` |
| `rejected_unit` | no interruption at all | one rejected unit fails the run |
| `concurrent_runs` | 2 runs, 2 units with keys of their own, 2 ingests | done rows name extracted inputs unless runs overlap and an ingest comes between; settled units rest while runs do not overlap |
| `same_key` | 1 run after another, 2 units, 1 key | of two settled units every run extracts one again |
| `shared_client` | 2 callers, interval 2, backoff to 3, 2 retries, a Retry-After of up to 4 ticks, of seconds that overflow and of a text | spacing of the slots, the bounds of the queue before and after a cancellation, a Retry-After in seconds, the bound of the requests, the refinement of `Completer`, every call returns |
| `no_timeout` | 1 caller | an unanswered request is waited for without end |
| `graph_load` | 2 runs, 2 units (one demands the reference, both a primary source), 6 replies with duplicate, dangling, uncited and wrongly located records and edges in two spellings, one of which the database may refuse; 6,100 states | every safety property of `GraphLoad` and the refinement of `KnowledgeGraph` |
| `intake` | 3 documents on 2 pages, 4 candidates (a place listed twice, one above the tier, one without the key its source requires), 2 registries, 2 attempts, a cap of 2, 2 runs, replies cut off, in prose and in a fence, of which the database may refuse some; 39,716 states | every page has its unit and the best offers, nothing but the offered is cited, records have their reply on file, nothing complete is lost, what is skipped is unchanged |
| `untagged_fence` | as `intake`, replies in a fence without a language | the first line of the object is taken for the language and its records are lost |
| `verbatim_citation` | two places in one book, one with a page | the other, cited as it was offered, is refused |

Why the bounds are enough. Three units and two workers are the least that has a
unit queued, a unit in flight and a unit not yet submitted at once; two hashes
are an input and its revision; two attempts have a first and a last; two
interruptions give every pair (a cancellation while the database fails, a crash
after a drift, a lost commit and then a crash in the next run), and runs are
repeated without bound. Two callers fill the queue, because a caller that is
done comes back while another still waits; an interval of two ticks lets time
stop inside a slot; hints lie below, at and above the backoff's cap. The replies
of `graph_load` collide in every table: each id that one states another states
differently, refers to, or drops, and each drop rule meets a record it drops and
one it keeps; two runs are a fresh and a stale snapshot. In `intake` the revision
of a page changes what it matches, the registries differ in the tier of a source
that is matched, a text is longer than its cap and longer than what is scored,
and two runs are the first and one that may skip. The theorems below lift every
invariant and action property to every instance.

The six runs that find a violation each state what a comment or a document of
the repository says; `findings` in `PROJECT.json` quotes the lines.

## Fairness

- `ExtractRun`: the main goroutine and the workers are scheduled
  (`WF(MainStep)`, `WF(Take)`), and a call under a cancelled context returns,
  since net/http and the timers of the client watch it. `Operation` is assumed
  where a property names it: the endpoint ends its calls, answers a unit it can
  take when asked again and again (strong fairness of `Parsed`), and the
  operator runs the extraction again. Cancellation, crash, drift and database
  failure are never fair.
- `LlmClient`: time passes and callers are scheduled; that the endpoint ends
  every request is the separate assumption `Endpoint`. `no_timeout` shows that
  it is needed.

## Proofs

For every value of the constants that satisfies the named assumptions
(`ConstantsAssumption`, `RunsAssumption`, `ClientAssumption`: numbers are
numbers, the no-hash is no hash, costs have a bound).

`ExtractRunProofs`: `TypeOK`, `DoneIsExtracted`, `InFlightIsPending`,
`SendsNeverBlock`, `CancelJudgesNothing`, and `ImplementsUnitLedger`. The
invariants are not inductive by themselves. `IInv` adds that a process that is
off, or has not reached its loop, has nothing in flight; that what is still to
be submitted is not settled under the hash the run read; and that what is in
flight is no larger than the window, with room for one more while a unit is
being pended. The bound on the window is what makes the sends safe; the pending
rows are what makes a transaction settle the right hash; and the unsettled
remainder is what makes a step of the run a step of the abstract ledger.

`RunWindsDown` is what can be proved here of a run's end. In every state of a
run the main goroutine or a worker can move (`MainMayStep`, `WorkerMayStep`: what
their guards come to, since the provers have no ENABLED), and a step that the
run takes lowers `StepsLeft`, unless it changes nothing of the run (a drift, or a
select that takes the closed `Done` channel once more). `StepsAreBounded` gives
the bound, `2 * (NumUnits * (Attempts + 3)) + 7`: a unit is pended, tried so
often, answered and persisted, whatever fails on the way. The measure is the
size of a set of stages ahead of each unit, for the same reason that the sums
below are. That a unit is being pended only when there is one and room for it
(`Window`) is what keeps the main goroutine from standing at `pend`.

`LedgerRunsProofs`: types without condition; `DoneIsExtracted` and
`SettledUnitRests` when units have keys of their own (`DistinctKeys`). The
invariant says that rows of units in flight carry the hash they were submitted
under as long as runs do not overlap or inputs do not change, for which two
different arguments meet in one formula: without overlap only the run itself
touches the row, without ingests all runs submit the same hash.

`LoneRunsKeepTheLedger` says how much of `UnitLedger` is left in a database that
nothing locks: all of it, key by key, up to the moment at which two runs overlap,
when no two units in flight share a row (`OwnRows`: units have keys of their own,
or a run extracts one unit after another). The same condition gives
`LoneDoneMeansExtracted` for units that share keys. It is needed: with one key
and two units in flight, the first to be persisted marks the row as done under
the hash of the second, and a run that stops there leaves the second for
extracted.

`LlmClientProofs`: types, `SlotsSpaced`, `RetryAfterHonoured`, and that every
step is one of `Completer` or none. `RetryAfterHonoured` is of seconds that fit a
`time.Duration` and of no other form of the header.
`IInv` adds that a caller backs off only with retries left, sleeps at least as
long as it was told, and that a call that began after the cancellation gets no
further than the head of the loop.

`GraphLoadProofs` (under `ValidationAssumption`, `UnitsAssumption`,
`RepliesAssumption`): `TypeOK`, `CitedAsDemanded`, `KeptIsLoadable`, and of
`IntegrityChecksPass` two parts: whatever the manifest offers, an invalid locator
is all that the checks can find (`OtherChecksPass`), and with `LocatorsFit` there
is none (`ChecksPass`). `IInv` adds that the constraints of the tables hold, that
every locator in the graph satisfies its scheme if those offered do, and that
contested claims are registered. One chain of lemmas says what `Validate` keeps (a kept record is
good, a kept citation citeable); another what `Loaded` does to the tables (rows
stay, ids and labels are covered, citations of a record only grow). A record
that is new in a load has all the citations it was kept with, since the key of a
citation contains the record and no citation of it was there; one that is not
new keeps what it had, and the policy is monotone in the citations. References
resolve because what a run knows are ids of rows, and rows stay.

`KnowledgeGraphProofs`, on top of these: `ImplementsKnowledgeGraph`,
`RegisteredIsContested`, `TraditionsStaySeparable` and `ReloadChangesNothing`.
The refinement rests on
two facts: a record validation keeps is one the run did not know, so that its
citations are not in the tables, and a conflict on insert leaves the row there
was. The last two hold while runs do not overlap, and `Alone` is why: the one run
under way knows every claim in the table, so a claim it keeps is new, and its
row, versions and register entry all come from this load. A load is idempotent
because the ids it kept are known afterwards: no event and no claim is kept again,
references resolve as before, and what is kept again (entities and edges)
conflicts with the rows that are there.

`RunAccountsProofs`, on top of `ExtractRunProofs`: `SpendBound` and
`CleanRunAccountsForAll`. Both are about sums over the units in flight, which a
recursive sum would hide from the provers; they are stated as sizes of sets. Each
unit has a slice of as many tokens as it could cost at most, those up to its
cost are paid, and `SpendInv` says that what is spent, what is paid and what is
still unpaid together stay below the ceiling that the gate enforced when the
window was filled. `CountInv` says that skipped, done, failed, deferred, in
flight and still to be submitted add up to the number of units.

`LlmClientProofs` also has `RequestsBounded` (a request needs an attempt and an
attempt makes at most one) and `QueueBound` (`Compact`: the queue has no gaps,
whatever is waited for is an interval at most or an interval behind another
caller). `CallsTakeBoundedTime` bounds a call in steps (`StagesLeft`, at most six
for each attempt) and in time (`WaitLeft`, at most an interval for each caller
and attempt and `MaxBackoff` for each retry), and says that time and steps only
lower them. After a cancellation the queue has gaps, since who gives up keeps
the slot it claimed, and `Compact` says nothing any more; the bound on time, and
with it `WaitBound`, the bound on the queue at any moment, rests on `Owed`: `gate`, with an interval for each caller still on its way to it, is
never more than an interval for each caller and one more.

`WireParseProofs` (no state, `IsPayload` of the reply): `PlainPayloadSurvives`,
that a payload which is the first object and stands in the first fence, if there
is one that names its language, is read whole and loses no complete record; and
`ParsedRepliesFit`, that what is parsed satisfies the assumption `Validation`
makes of replies. The first brace of the block is the brace of the payload, the
depth counted from it first returns to zero where the payload ends, and nothing
up to there is prose.

`IntakeProofs` (under `SelectionAssumption` and `IntakeAssumption`): all
properties of `Intake`, and `RunsAreGraphLoads`, that the
runs of `Intake` are a behaviour of `GraphLoad`. `IInv` adds that what is at the model was built from a document
under a registry, that what came back is what was parsed from a reply at hand,
that every citation in the graph was offered to some unit, and that a done row
names the unit it is about.

`OffersAreBest` has no invariant behind it: it is a fact about every ranking.
What stands above a candidate is a different number for each, so that a cut of
the ranking has no more members than the cap (`CutSize`, by an injection), and
of several candidates of one place some one is outranked by none (`TopRank`).

The theorems about loads then hold of the whole path, from a page and a text of
the model to the graph, and are stated of `Intake` as they are cited: the module
takes `KnowledgeGraphProofs` as an instance, whose theorems come with the
assumptions of `GraphLoad`, and `AssumptionsMet` proves these. `InputsFit` is all
that is left of them: nothing but what the adapter builds and the parser hands
on is considered, and the lists of a reply are lists. `IntakeCites`,
`IntakeKeepsTheGraph` and `ConstraintsEndFew` follow. The last says which
constraints of the tables end a run over a reply, and names texts as the other
cause; it does not say which texts the database refuses. One process runs
(`RunsNeverOverlap`), and so `IntakeKeepsTraditions` states the register and the
traditions without exception. `IntakeChecksPass` has `ManifestFits` as
hypothesis: `BuiltUnitsFit` shows that it makes the units fit,
`LocatorsComeFromOffers` that no other locator comes into the graph, and
`OtherChecksPass` has the rest. That what is offered has a row in `sources` is
proved of every unit (`AssumptionsMet`), from `IntakeAssumption`: registries hold
rows of `sources`.
`IntakeKeepsTheLedger` is `LoneRunsKeepTheLedger` with the hashes that the
adapter makes: they tell apart all units that can be built (`HashNamesUnit`).

Only model-checked: `RunEnds`, `CancelledRunEnds`, `EveryUnitSettles`,
`CallsReturn` and the fairness part of `ImplementsCompleter`, which rest on
fairness and ENABLED. Of the first two and of `CallsReturn` the part that the
code has to answer for is proved (`RunsWindDown`, `CallsTakeBoundedTime`): what is
left is that a process which can move does.

## Not modelled

Prompts, configuration, the adapter registry, migrations and the health server
are sequential code without state of their own, or wrappers of libraries; the
command line is modelled by the options and the context it passes on. The later
stages are empty packages, and the test database helper is test support. Of the
integrity checks, that of statements belongs to a stage that does not exist yet,
and orphan claims and entities of one name are advice and no promise. The
statistics of a run that returns an error are not stated: on a cancelled run the
units it never submitted are not counted as deferred (`extract/runner.go:360`).

One disagreement with a document has no run of its own: `docs/extraction.md:101`
says that the client "honours `Retry-After` with exponential backoff", and a date,
the header's other form, fails to parse and is passed over without a word
(`internal/llm/llm.go:280`), while seconds too large for a `time.Duration` may
count as none (`:281`). The client then sends again after its backoff alone. The
models have it so (`Understood`), and `RetryAfterHonoured` leaves it out.

Behaviour that the models show and that no document promises or rules out:

- units that always fail come back at the head of the plan, so a limit no larger
  than their number starves every unit behind them (`extract/runner.go:252`);
  `EveryUnitSettles` is stated of runs without a limit;
- a page that is extracted again after a change keeps the records of its earlier
  extraction, whose statements win (`extract/loader.go:128`);
- a row that is pended again keeps the document of its earlier outcome
  (`extract/loader.go:263`);
- two runs that overlap may extract a settled unit twice, and leave a claim of
  one with the register entry of the other (`extract/runner.go:234`,
  `extract/loader.go:128`); the properties that this would break name the
  exception;
- the citation policy is no part of the input hash: a stricter one does not
  cause a page to be extracted again (`extract/extract.go:111`).

## Plan

1. `ExtractRun`, `UnitLedger`, `LedgerRuns`, `LlmClient`, `Completer`,
   `Validation`, `GraphLoad`, `KnowledgeGraph`, `Selection`, `WireParse`,
   `Intake`, and the proofs of all but the properties named above: done.
2. `Intake` under the window of `ExtractRun` (several units in flight, the
   transaction of a unit refused or in doubt); today each has what the other
   leaves out.

-------------------------------- MODULE Intake --------------------------------
(***************************************************************************)
(* From documents to the graph: the composition of Selection (the adapter  *)
(* and the store), WireParse (ParseExtraction) and GraphLoad (Validate and *)
(* LoadRecords) by the runner, with the documents, the registry, the       *)
(* ledger and the raw outputs in the database (extract/runner.go,          *)
(* extract/loader.go).                                                     *)
(*                                                                         *)
(* One run at a time and one unit after another: ExtractRun has the window *)
(* of units in flight, the failures of the database and the budget,        *)
(* GraphLoad the runs that overlap.                                        *)
(***************************************************************************)
EXTENDS Selection, WireParse

CONSTANTS
  Slugs, NameKinds, OtherKind, Contradictory, Scheme,   \* as in GraphLoad
  Documents,      \* the rows raw_documents may come to have
  Registries,     \* what the registry of sources may be
  Texts,          \* replies of the model
  Unstorable,     \* those that have a text the database may refuse
  MaxAttempts,    \* model calls per unit
  MaxRuns,        \* bound on the number of runs
  Units, Replies  \* what GraphLoad takes for units and parsed replies

\* The units that can be built, and what can be parsed from replies.
UnitsEver == UNION {BuildUnits(D, reg) : D \in SUBSET Documents,
                                         reg \in {reg \in Registries : Reference \in DOMAIN reg}}
ParsedFrom(replies) == {ParseExtraction(r) : r \in {r \in replies : Readable(r)}}
RepliesEver == ParsedFrom(Texts)

ASSUME IntakeAssumption ==
  /\ MaxAttempts \in Nat \ {0} /\ MaxRuns \in Nat
  /\ IsFiniteSet(Documents) /\ \A d \in Documents : d.at \in Nat
  /\ \A d, e \in Documents : d.id = e.id => d = e
  /\ \A reg \in Registries : DOMAIN reg \subseteq DOMAIN Scheme
  /\ \A r \in Texts : r.open # 0 => IsPayload(r)
  /\ Unstorable \subseteq Texts
  /\ UnitsEver \subseteq Units
  /\ RepliesEver \subseteq Replies

VARIABLES
  docs, registry,   \* raw_documents and sources
  graph,            \* the tables of the graph
  ledger,           \* extraction_units: key, status and input hash
  outputs,          \* model_outputs: the document asked about, the reply
  running, known,   \* of GraphLoad: whether a run is under way, the ids it knows
  runs,             \* runs so far
  work,             \* the units of the run still to be extracted
  call,             \* the unit at the model
  filed, overlapped,   \* history of GraphLoad
  extractedAs       \* history: the unit that each done row is about

inputs == <<docs, registry>>
graphVars == <<graph, running, known, filed, overlapped>>
vars == <<inputs, graphVars, ledger, outputs, runs, work, call, extractedAs>>

Self == "run"

GL == INSTANCE GraphLoad WITH Runs <- {Self}, RelTypes <- Types,
                              Unstorable <- ParsedFrom(Unstorable)

Idle == [stage |-> "idle"]

Init == /\ docs = {}
        /\ registry \in Registries
        /\ GL!Init
        /\ ledger = {}
        /\ outputs = {}
        /\ runs = 0
        /\ work = {}
        /\ call = Idle
        /\ extractedAs = {}

-----------------------------------------------------------------------------
(* The ledger.                                                             *)

Row(u, status) == [key |-> u.key, status |-> status, hash |-> InputHash(u)]

Settled(u) == Row(u, "done") \in ledger

Record(u, status) == ledger' = GL!Upsert(ledger, {Row(u, status)}, {"key"})

-----------------------------------------------------------------------------
(* The run.                                                                *)

\* Without the reference source, or with a document that has no title, no
\* unit is built and the run fails.
Start ==
  /\ runs < MaxRuns
  /\ runs' = runs + 1
  /\ GL!Begin(Self)
  /\ Reference \in DOMAIN registry
  /\ \A d \in LatestDocuments(docs) : d.title # None
  /\ work' = {u \in BuildUnits(docs, registry) : ~Settled(u)}
  /\ UNCHANGED <<inputs, ledger, outputs, call, extractedAs>>

\* The row is pended and the unit handed to a worker.
Submit(u) ==
  /\ call = Idle
  /\ Record(u, "pending")
  /\ call' = [stage |-> "calling", unit |-> u, attempt |-> 1, replies |-> {},
              wire |-> {}]
  /\ work' = work \ {u}
  /\ UNCHANGED <<inputs, graphVars, outputs, runs, extractedAs>>

\* Mistake: the first attempt is not counted.
TryOnceMore(replies) ==
  call' = IF call.attempt =< MaxAttempts
          THEN [call EXCEPT !.attempt = @ + 1, !.replies = replies]
          ELSE [call EXCEPT !.stage = "answered", !.replies = replies]

\* The attempt failed: the call is made again, or given up.
TryAgain(replies) ==
  call' = IF call.attempt < MaxAttempts
          THEN [call EXCEPT !.attempt = @ + 1, !.replies = replies]
          ELSE [call EXCEPT !.stage = "answered", !.replies = replies]

Calling == /\ call.stage = "calling"
           /\ UNCHANGED <<inputs, graphVars, ledger, outputs, runs, work, extractedAs>>

CallFails == Calling /\ TryAgain(call.replies)

Overload == Calling /\ call' = [call EXCEPT !.stage = "answered"]

\* The model is asked to repair a reply that cannot be read.
Unparseable(r) == Calling /\ ~Readable(r) /\ TryAgain(call.replies \cup {r})

Parsed(r) ==
  /\ Calling
  /\ Readable(r)
  /\ call' = [call EXCEPT !.stage = "answered", !.replies = @ \cup {r},
                          !.wire = {ParseExtraction(r)}]

\* Mistake: only the replies that could not be read are kept on file.
WriteParsedOutput ==
  outputs' = outputs \cup {[document |-> call.unit.document, reply |-> r] :
                             r \in {r \in call.replies : ~Readable(r)}}

WriteModelOutputs ==
  outputs' = outputs \cup {[document |-> call.unit.document, reply |-> r] :
                             r \in call.replies}

\* The transaction of the unit: raw outputs, records and row.
PersistDone ==
  /\ call.stage = "answered"
  /\ \E reply \in call.wire : GL!Persist(Self, call.unit, reply)
  /\ WriteModelOutputs
  /\ Record(call.unit, "done")
  /\ extractedAs' = GL!Upsert(extractedAs, {call.unit}, {"key"})
  /\ call' = Idle
  /\ UNCHANGED <<inputs, runs, work>>

PersistFailed ==
  /\ call.stage = "answered"
  /\ call.wire = {}
  /\ WriteModelOutputs
  /\ Record(call.unit, "failed")
  /\ extractedAs' = {u \in extractedAs : u.key # call.unit.key}
  /\ call' = Idle
  /\ UNCHANGED <<inputs, graphVars, runs, work>>

ForgetRun ==
  /\ work' = {}
  /\ call' = Idle
  /\ UNCHANGED <<inputs, ledger, outputs, runs, extractedAs>>

\* The tables reject a record, or a raw output as a text; the run fails and
\* nothing of the unit stays.
Reject ==
  /\ call.stage = "answered"
  /\ \/ \E reply \in call.wire : GL!Reject(Self, call.unit, reply)
     \/ call.replies \cap Unstorable # {} /\ GL!Forget(Self)
  /\ ForgetRun

\* The run finishes, is cancelled, crashes, or ends over another error.
Stop == GL!End(Self) /\ ForgetRun

-----------------------------------------------------------------------------
(* Ingestion, which appends revisions, and the loading of a registry.      *)

Ingest(d) ==
  /\ d \notin docs
  /\ docs' = docs \cup {d}
  /\ UNCHANGED <<registry, graphVars, ledger, outputs, runs, work, call, extractedAs>>

\* No row of sources is ever deleted.
Register(reg) ==
  /\ DOMAIN registry \subseteq DOMAIN reg
  /\ registry' = reg
  /\ UNCHANGED <<docs, graphVars, ledger, outputs, runs, work, call, extractedAs>>

Next ==
  \/ Start \/ CallFails \/ Overload \/ PersistDone \/ PersistFailed \/ Reject \/ Stop
  \/ \E u \in work : Submit(u)
  \/ \E r \in Texts : Unparseable(r) \/ Parsed(r)
  \/ \E d \in Documents : Ingest(d)
  \/ \E reg \in Registries : Register(reg)

Spec == Init /\ [][Next]_vars

-----------------------------------------------------------------------------
(* Properties.                                                             *)

\* Types, and that a unit is at the model only while a run is under way.
TypeOK ==
  /\ docs \subseteq Documents /\ registry \in Registries
  /\ \A row \in ledger : row.status \in {"pending", "done", "failed"}
  /\ \A o \in outputs : \E d \in Documents : o.document = d.id
  /\ call # Idle => /\ running = {Self}
                    /\ call.stage \in {"calling", "answered"}
                    /\ call.attempt \in 1..MaxAttempts
                    /\ call.replies \subseteq Texts

\* Every page of the reference source has a unit, and no unit is about a
\* revision older than another of its page, so that a page has more than one
\* only when revisions were fetched at the same moment (extract/store.go:20-21,
\* "the newest revision per URL").
OneUnitPerPage ==
  LET units == BuildUnits(docs, registry)
  IN \A d \in docs : d.source = Reference =>
       LET about == {u \in units : u.reference.url = d.url}
       IN /\ about # {}
          /\ \A u \in about : \E e \in docs : e.id = u.document /\ e.at >= d.at

\* A candidate of an allowed tier that matches the document is offered, it or
\* its like, unless as many as the cap allows match better; and never are more
\* offered than the cap allows (adapters/arda/arda.go:170-172).
OffersAreBest ==
  \A d \in LatestDocuments(docs) :
    LET terms == Terms(d)
        offered == UnitOf(d, registry).candidates
    IN /\ Cardinality(offered) =< CandidateCap
       /\ \A i \in Indices :
            \/ ~Allowed(i, registry) \/ Score(i, terms) = 0
            \/ \E c \in offered : /\ c.source = Configured[i].source
                                  /\ c.title = Configured[i].title
            \/ Cardinality({j \in Indices \ {i} : Score(j, terms) >= Score(i, terms)})
                 >= CandidateCap

\* A unit that is skipped is word for word the unit whose records are in the
\* graph, with the same reference and candidates (extract/extract.go:108-110).
SkippedIsUnchanged ==
  [][Start => \A u \in BuildUnits(docs, registry) \ work' :
       \E v \in extractedAs : u.text = v.text /\ u.reference = v.reference
                              /\ u.candidates = v.candidates]_vars

\* No record cites a source that no registry placed in the allowed tiers, its
\* own reference apart, whatever the model cited (adapters/arda/arda.go:50-52).
CitesWithinTier ==
  \A s \in graph.eventSources \cup graph.claimSources :
    \/ s.source = Reference
    \/ \E reg \in Registries : s.source \in DOMAIN reg /\ reg[s.source] =< TierCap

\* A citation in the graph whose locator does not satisfy the scheme of its
\* source is there because a locator that was offered does not: one of the
\* manifest, or the URL of a reference whose scheme asks for more
\* (extract/validate.go:142-169, adapters/arda/arda.go:93 and :158).
InvalidLocatorsAreOffered ==
  \A s \in GL!InvalidLocators(graph) :
    \/ s.source = Reference /\ ~(Scheme[Reference] \subseteq UrlKeys)
    \/ \E i \in Indices : /\ Configured[i].source = s.source
                          /\ ~(Scheme[s.source] \subseteq Configured[i].keys)

\* A unit that was offered nothing to cite beside its reference, when the
\* policy demands a primary source, put neither event nor claim into the
\* graph: that all offers were lost to the tier filter is never a way around
\* the citation contract.
UnmatchedFilesNothing ==
  \A f \in filed : f.unit.requirePrimary =>
    \E c \in f.unit.candidates : c.source # Reference

\* Every record in the graph is stated by a reply on file about the document
\* it was extracted from (docs/extraction.md:65-67).
EveryRecordHasReply ==
  \A f \in filed : \E o \in outputs :
    /\ o.document = f.unit.document
    /\ Readable(o.reply)
    /\ LET wire == ParseExtraction(o.reply)
           list == IF f.record[1] = "event" THEN wire.events ELSE wire.claims
       IN \E i \in DOMAIN list : list[i].id = f.record[2]

\* One malformed record never sinks its valid siblings, nor do prose and fences
\* around the object: of a payload that is the first object of the reply, and
\* in its first fence if there is one, which names its language, every record
\* that is complete is handed on (extract/wire.go:113-114 and :140-143).
SiblingsSurvive ==
  call # Idle => \A r \in call.replies : r.open # 0 /\ Plain(r) => LosesNothing(r)

-----------------------------------------------------------------------------
(* What the comments of the code say of it, and the code does not do.      *)

\* "best-effort strips prose and markdown fences around a JSON object": the
\* same, of any fence.
FencedPayloadSurvives ==
  call # Idle => \A r \in call.replies : r.open # 0 => LosesNothing(r)

\* "Locators are exact: the model is told to cite them verbatim, and
\* validation checks the required keys are present" (extract/extract.go:40-41):
\* the citation of a candidate as it was offered is accepted.
VerbatimCitationAccepted ==
  call # Idle => \A c \in call.unit.candidates : GL!Citeable(call.unit, c)
=============================================================================

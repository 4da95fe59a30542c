----------------------------- MODULE IntakeProofs -----------------------------
(***************************************************************************)
(* Theorems of Intake: what the adapter builds and the parser hands on is  *)
(* what GraphLoad assumes, the runs are runs of GraphLoad, and what is in  *)
(* the graph, skipped or on file is so whatever the model replies; and     *)
(* what the theorems of GraphLoad say of these runs.                       *)
(***************************************************************************)
EXTENDS Intake, WireParseProofs, FiniteSetTheorems

-----------------------------------------------------------------------------
(* Units and replies.                                                      *)

\* A unit cites the reference, and candidates of allowed sources only.
LEMMA UnitSurface ==
  ASSUME NEW d, NEW reg, NEW c \in GL!Surface(UnitOf(d, reg))
  PROVE  \/ c = [source |-> Reference, keys |-> UrlKeys, url |-> d.url]
         \/ \E i \in Indices : /\ Allowed(i, reg)
                               /\ c.source = Configured[i].source
                               /\ c.keys = Configured[i].keys
<1> DEFINE u == UnitOf(d, reg)
<1>1. /\ u.reference = [source |-> Reference, keys |-> UrlKeys, url |-> d.url]
      /\ u.candidates = {Candidate(i) : i \in Offered(Terms(d), reg)}
  BY DEF UnitOf
<1>2. c = u.reference \/ c \in u.candidates
  BY DEF GL!Surface
<1>3. ASSUME c \in u.candidates
      PROVE  \E i \in Indices : /\ Allowed(i, reg)
                                /\ c.source = Configured[i].source
                                /\ c.keys = Configured[i].keys
  <2>1. PICK i \in Offered(Terms(d), reg) : c = Candidate(i)
    BY <1>1, <1>3
  <2>2. i \in Indices /\ Allowed(i, reg)
    BY DEF Offered, Chosen, Best, Defaults
  <2>3. c.source = Configured[i].source /\ c.keys = Configured[i].keys
    BY <2>1 DEF Candidate
  <2> QED
    BY <2>2, <2>3
<1> QED
  BY <1>1, <1>2, <1>3

\* The manifest gives each of its candidates, and URLs give the reference, the
\* keys that the scheme of the source requires.
ManifestFits ==
  /\ Scheme[Reference] \subseteq UrlKeys
  /\ \A i \in Indices : Scheme[Configured[i].source] \subseteq Configured[i].keys

\* Then the locators that are offered fit (LocatorsFit of GraphLoad).
THEOREM BuiltUnitsFit ==
  ASSUME ManifestFits, NEW D, NEW reg, NEW u \in BuildUnits(D, reg)
  PROVE  /\ u.relTypes \subseteq Types
         /\ \A c \in GL!Surface(u) : Scheme[c.source] \subseteq c.keys
<1>1. PICK d \in LatestDocuments(D) : u = UnitOf(d, reg)
  BY DEF BuildUnits
<1>2. u.relTypes \subseteq Types
  BY <1>1 DEF UnitOf
<1>3. ASSUME NEW c \in GL!Surface(u)
      PROVE  Scheme[c.source] \subseteq c.keys
  <2>1. CASE c = [source |-> Reference, keys |-> UrlKeys, url |-> d.url]
    BY <2>1 DEF ManifestFits
  <2>2. CASE \E i \in Indices : /\ Allowed(i, reg)
                                /\ c.source = Configured[i].source
                                /\ c.keys = Configured[i].keys
    BY <2>2 DEF ManifestFits
  <2> QED
    BY <1>1, <1>3, <2>1, <2>2, UnitSurface
<1> QED
  BY <1>2, <1>3

-----------------------------------------------------------------------------
(* What a load adds to the tables.                                         *)

\* What the citation filter keeps is citeable.
LEMMA KeptCitations ==
  ASSUME NEW u, NEW sources, NEW s \in GL!FilterCitations(u, sources)
  PROVE  GL!Citeable(u, s)
BY DEF GL!FilterCitations, GL!First

\* An event that is kept is in the reply, cited as the policy demands.
LEMMA KeptEvent ==
  ASSUME NEW u, NEW reply, NEW k, NEW e \in GL!Validate(u, reply, k).events
  PROVE  \E i \in DOMAIN reply.events :
           /\ e.id = reply.events[i].id
           /\ e.sources = GL!FilterCitations(u, reply.events[i].sources)
           /\ GL!MeetsPolicy(u, e.sources)
<1> DEFINE payload == GL!Ids(GL!MapEntities(reply))
<1>1. e \in GL!MapEvents(u, reply, payload, k)
  BY DEF GL!Validate
<1>2. PICK w \in GL!KeptEvents(u, reply, k) :
        e.id = w.id /\ e.sources = GL!FilterCitations(u, w.sources)
  BY <1>1 DEF GL!MapEvents
<1>3. PICK i \in {i \in DOMAIN reply.events : GL!KeepsEvent(u, reply.events[i], k)} :
        w = reply.events[i]
  BY DEF GL!KeptEvents, GL!First
<1> QED
  BY <1>2, <1>3 DEF GL!KeepsEvent

\* So is a claim; its versions are cited by what the unit offers.
LEMMA KeptClaim ==
  ASSUME NEW u, NEW reply, NEW k, NEW c \in GL!Validate(u, reply, k).claims
  PROVE  \E i \in DOMAIN reply.claims :
           /\ c.id = reply.claims[i].id
           /\ c.sources = GL!FilterCitations(u, reply.claims[i].sources)
           /\ GL!MeetsPolicy(u, c.sources)
           /\ c.versions = GL!MapVersions(u, reply.claims[i])
<1> DEFINE payload == GL!Ids(GL!MapEntities(reply))
<1>1. c \in GL!MapClaims(u, reply, payload, k)
  BY DEF GL!Validate
<1> DEFINE good == {i \in DOMAIN reply.claims :
                      GL!KeepsClaim(u, reply.claims[i], payload, k)}
<1>2. PICK w \in GL!First(reply.claims, good, {"id"}) :
        /\ c.id = w.id
        /\ c.sources = GL!FilterCitations(u, w.sources)
        /\ c.versions = GL!MapVersions(u, w)
  BY <1>1 DEF GL!MapClaims
<1>3. PICK i \in good : w = reply.claims[i]
  BY DEF GL!First
<1> QED
  BY <1>2, <1>3 DEF GL!KeepsClaim

\* A version that is kept has the filtered citations of the one it comes from.
LEMMA KeptVersion ==
  ASSUME NEW u, NEW c, NEW j \in DOMAIN GL!MapVersions(u, c)
  PROVE  GL!MapVersions(u, c)[j].sources = GL!FilterCitations(u, c.versions[j].sources)
BY DEF GL!MapVersions

\* A citation that a load adds cites what the unit offers.
LEMMA NewCitation ==
  ASSUME NEW u, NEW reply, NEW k, NEW g,
         NEW s \in GL!Loaded(g, GL!Validate(u, reply, k)).eventSources
                     \cup GL!Loaded(g, GL!Validate(u, reply, k)).claimSources,
         s \notin g.eventSources \cup g.claimSources
  PROVE  \E c : GL!Citeable(u, c) /\ c.source = s.source /\ c.keys = s.keys
<1> DEFINE v == GL!Validate(u, reply, k)
<1>1. s \in GL!EventSourceRows(v) \cup GL!ClaimSourceRows(v) \cup GL!VersionSourceRows(v)
  BY DEF GL!Loaded, GL!Insert
<1>2. CASE s \in GL!EventSourceRows(v)
  <2>1. PICK e \in v.events :
          s \in {[event |-> e.id, source |-> c.source, keys |-> c.keys] : c \in e.sources}
    BY <1>2 DEF GL!EventSourceRows
  <2>2. PICK c \in e.sources : s.source = c.source /\ s.keys = c.keys
    BY <2>1
  <2> QED
    BY <2>2, KeptEvent, KeptCitations
<1>3. CASE s \in GL!ClaimSourceRows(v)
  <2>1. PICK d \in v.claims :
          s \in {[claim |-> d.id, version |-> None, source |-> c.source,
                  keys |-> c.keys] : c \in d.sources}
    BY <1>3 DEF GL!ClaimSourceRows
  <2>2. PICK c \in d.sources : s.source = c.source /\ s.keys = c.keys
    BY <2>1
  <2> QED
    BY <2>2, KeptClaim, KeptCitations
<1>4. CASE s \in GL!VersionSourceRows(v)
  <2>1. PICK d \in v.claims :
          s \in UNION {GL!SourceRowsOf(d, j) : j \in DOMAIN d.versions}
    BY <1>4 DEF GL!VersionSourceRows
  <2>2. PICK j \in DOMAIN d.versions : s \in GL!SourceRowsOf(d, j)
    BY <2>1
  <2>3. PICK c \in d.versions[j].sources : s.source = c.source /\ s.keys = c.keys
    BY <2>2 DEF GL!SourceRowsOf
  <2>4. PICK i \in DOMAIN reply.claims : d.versions = GL!MapVersions(u, reply.claims[i])
    BY KeptClaim
  <2>5. d.versions[j].sources = GL!FilterCitations(u, reply.claims[i].versions[j].sources)
    BY <2>4, KeptVersion
  <2> QED
    BY <2>3, <2>5, KeptCitations
<1> QED
  BY <1>1, <1>2, <1>3, <1>4

\* A record that a load adds is in the reply, and what it cites is offered and
\* meets the policy.
LEMMA NewRecord ==
  ASSUME NEW u, NEW reply, NEW k, NEW g,
         NEW x \in GL!Records(GL!Loaded(g, GL!Validate(u, reply, k))) \ GL!Records(g)
  PROVE  LET list == IF x[1] = "event" THEN reply.events ELSE reply.claims
         IN \E i \in DOMAIN list :
              /\ list[i].id = x[2]
              /\ GL!MeetsPolicy(u, GL!FilterCitations(u, list[i].sources))
<1> DEFINE v == GL!Validate(u, reply, k)
           h == GL!Loaded(g, v)
<1>1. /\ h.events \subseteq g.events \cup GL!EventRows(v)
      /\ h.claims \subseteq g.claims \cup GL!ClaimRows(v)
      /\ h.versions \subseteq g.versions \cup GL!VersionRows(v)
  BY DEF GL!Loaded, GL!Insert, GL!Upsert
<1>2. CASE \E e \in h.events : x = <<"event", e.id, None>>
  <2>1. PICK e \in h.events : x = <<"event", e.id, None>>
    BY <1>2
  <2>2. e \notin g.events
    BY <2>1 DEF GL!Records
  <2>3. PICK f \in v.events : e.id = f.id
    BY <1>1, <2>2 DEF GL!EventRows
  <2> QED
    BY <2>1, <2>3, KeptEvent
<1>3. ASSUME NEW c \in v.claims, x[1] = "claim", x[2] = c.id
      PROVE  \E i \in DOMAIN reply.claims :
               /\ reply.claims[i].id = x[2]
               /\ GL!MeetsPolicy(u, GL!FilterCitations(u, reply.claims[i].sources))
  BY <1>3, KeptClaim
<1>4. CASE \E c \in h.claims : x = <<"claim", c.id, None>>
  <2>1. PICK c \in h.claims : x = <<"claim", c.id, None>>
    BY <1>4
  <2>2. c \notin g.claims
    BY <2>1 DEF GL!Records
  <2>3. PICK d \in v.claims : c.id = d.id
    BY <1>1, <2>2 DEF GL!ClaimRows
  <2>4. x[1] = "claim" /\ x[2] = d.id
    BY <2>1, <2>3
  <2> QED
    BY <1>3, <2>4
<1>5. CASE \E r \in h.versions : x = <<"claim", r.claim, r.label>>
  <2>1. PICK r \in h.versions : x = <<"claim", r.claim, r.label>>
    BY <1>5
  <2>2. r \notin g.versions
    BY <2>1 DEF GL!Records
  <2>3. PICK d \in v.claims : r.claim = d.id
    <3>1. PICK d \in v.claims :
            r \in {[claim |-> d.id, label |-> d.versions[i].label,
                    statement |-> d.versions[i].statement] : i \in GL!LastOfLabel(d)}
      BY <1>1, <2>2 DEF GL!VersionRows
    <3> QED
      BY <3>1
  <2>4. x[1] = "claim" /\ x[2] = d.id
    BY <2>1, <2>3
  <2> QED
    BY <1>3, <2>4
<1> QED
  BY <1>2, <1>4, <1>5 DEF GL!Records

-----------------------------------------------------------------------------
(* The invariant.                                                          *)

Calls == [stage : {"calling", "answered"}, unit : UnitsEver, attempt : 1..MaxAttempts,
          replies : SUBSET Texts, wire : SUBSET RepliesEver]

\* What is to be extracted, and what is being extracted, are units of a run.
RunHasUnits ==
  /\ running \subseteq {Self}
  /\ work \subseteq UnitsEver
  /\ work # {} => running = {Self}
  /\ call = Idle \/ call \in Calls

WireIsParsed ==
  call # Idle => \A reply \in call.wire :
    \E r \in call.replies : Readable(r) /\ reply = ParseExtraction(r)

\* Every citation is one that was accepted of a unit.
AcceptedOf(u, s) ==
  \E c : GL!Citeable(u, c) /\ c.source = s.source /\ c.keys = s.keys

CitationsOffered ==
  \A s \in graph.eventSources \cup graph.claimSources :
    \E u \in UnitsEver : AcceptedOf(u, s)

\* A done row is about the unit whose records were committed last.
DoneRowsNamed ==
  /\ extractedAs \subseteq UnitsEver
  /\ \A row \in ledger : row.status = "done" =>
       \E v \in extractedAs : v.key = row.key /\ InputHash(v) = row.hash

IInv == /\ TypeOK /\ RunHasUnits /\ WireIsParsed
        /\ CitationsOffered /\ UnmatchedFilesNothing /\ EveryRecordHasReply
        /\ DoneRowsNamed

\* A unit is made of a document under a registry.
LEMMA UnitsAreBuilt ==
  ASSUME NEW u \in UnitsEver
  PROVE  \E d \in Documents, reg \in Registries :
           u = UnitOf(d, reg) /\ Reference \in DOMAIN reg
<1>1. PICK D \in SUBSET Documents, reg \in Registries :
        u \in BuildUnits(D, reg) /\ Reference \in DOMAIN reg
  BY DEF UnitsEver
<1>2. PICK d \in LatestDocuments(D) : u = UnitOf(d, reg)
  BY <1>1 DEF BuildUnits
<1>3. d \in Documents
  BY <1>1 DEF LatestDocuments
<1> QED
  BY <1>1, <1>2, <1>3

\* The invariant holds at the start.
LEMMA InvInit == Init => IInv
<1> SUFFICES ASSUME Init PROVE IInv
  OBVIOUS
<1>1. graph = GL!EmptyGraph /\ running = {} /\ filed = {}
  BY DEF Init, GL!Init
<1>2. TypeOK /\ RunHasUnits /\ WireIsParsed
  BY <1>1 DEF Init, TypeOK, RunHasUnits, WireIsParsed
<1>3. graph.eventSources = {} /\ graph.claimSources = {}
  BY <1>1 DEF GL!EmptyGraph
<1>4. CitationsOffered
  BY <1>3 DEF CitationsOffered
<1>5. UnmatchedFilesNothing /\ EveryRecordHasReply
  BY <1>1 DEF UnmatchedFilesNothing, EveryRecordHasReply
<1>6. DoneRowsNamed
  BY DEF Init, DoneRowsNamed
<1> QED
  BY <1>2, <1>4, <1>5, <1>6 DEF IInv

\* The run, its units and its call.
LEMMA RunNext == IInv /\ [Next]_vars => RunHasUnits' /\ WireIsParsed'
<1> SUFFICES ASSUME IInv, [Next]_vars
             PROVE  RunHasUnits' /\ WireIsParsed'
  OBVIOUS
<1> USE DEF RunHasUnits, WireIsParsed
<1>1. TypeOK /\ RunHasUnits /\ WireIsParsed
  BY DEF IInv
<1>2. /\ docs \subseteq Documents /\ registry \in Registries
      /\ call # Idle => running = {Self}
      /\ MaxAttempts \in Nat \ {0}
  BY <1>1, IntakeAssumption DEF TypeOK
<1>3. CASE Start
  <2>1. running' = {Self} /\ call' = call
    BY <1>1, <1>3 DEF Start, GL!Begin
  <2>2. work' \subseteq UnitsEver
    <3>1. BuildUnits(docs, registry) \subseteq UnitsEver
      BY <1>2, <1>3 DEF Start, UnitsEver
    <3> QED
      BY <1>3, <3>1 DEF Start
  <2> QED
    BY <1>1, <2>1, <2>2
<1>4. ASSUME NEW u \in work, Submit(u)
      PROVE  RunHasUnits' /\ WireIsParsed'
  <2>1. /\ running' = running /\ work' \subseteq work
        /\ call' = [stage |-> "calling", unit |-> u, attempt |-> 1, replies |-> {},
                    wire |-> {}]
    BY <1>4 DEF Submit, graphVars
  <2>2. call' \in Calls
    BY <1>1, <1>2, <2>1 DEF Calls
  <2> QED
    BY <1>1, <2>1, <2>2
<1>5. ASSUME Calling
      PROVE  /\ call \in Calls /\ running' = running /\ work' = work
             /\ running = {Self}
  BY <1>1, <1>2, <1>5 DEF Calling, Idle, graphVars
<1>6. ASSUME NEW replies \in SUBSET Texts, call.replies \subseteq replies,
             Calling, TryAgain(replies)
      PROVE  RunHasUnits' /\ WireIsParsed'
  <2>1. call' \in Calls
    <3>1. call \in Calls /\ call.attempt \in 1..MaxAttempts
      BY <1>5, <1>6 DEF Calls
    <3>2. CASE call.attempt < MaxAttempts
      <4>1. call' = [call EXCEPT !.attempt = call.attempt + 1, !.replies = replies]
        BY <1>6, <3>2 DEF TryAgain
      <4>2. call.attempt + 1 \in 1..MaxAttempts
        BY <1>2, <3>1, <3>2
      <4> QED
        BY <3>1, <4>1, <4>2 DEF Calls
    <3>3. CASE ~(call.attempt < MaxAttempts)
      <4>1. call' = [call EXCEPT !.stage = "answered", !.replies = replies]
        BY <1>6, <3>3 DEF TryAgain
      <4> QED
        BY <3>1, <4>1 DEF Calls
    <3> QED
      BY <3>2, <3>3
  <2>2. call'.replies = replies /\ call'.wire = call.wire /\ call # Idle
    BY <1>5, <1>6 DEF TryAgain, Calls, Idle, Calling
  <2> QED
    BY <1>1, <1>5, <1>6, <2>1, <2>2
<1>7. CASE CallFails
  <2>1. Calling /\ TryAgain(call.replies) /\ call.replies \in SUBSET Texts
    BY <1>5, <1>7 DEF CallFails, Calls
  <2> QED
    BY <1>6, <2>1
<1>8. CASE Overload
  <2>1. /\ call' = [call EXCEPT !.stage = "answered"] /\ call # Idle
        /\ Calling
    BY <1>8 DEF Overload, Calling, Idle
  <2>2. call' \in Calls /\ call'.replies = call.replies /\ call'.wire = call.wire
    BY <1>5, <2>1 DEF Calls
  <2> QED
    BY <1>1, <1>5, <2>1, <2>2
<1>9. ASSUME NEW r \in Texts, Unparseable(r)
      PROVE  RunHasUnits' /\ WireIsParsed'
  <2>1. Calling /\ TryAgain(call.replies \cup {r})
    BY <1>9 DEF Unparseable
  <2>2. call.replies \cup {r} \in SUBSET Texts
    BY <1>5, <2>1 DEF Calls
  <2> QED
    BY <1>6, <2>1, <2>2
<1>10. ASSUME NEW r \in Texts, Parsed(r)
       PROVE  RunHasUnits' /\ WireIsParsed'
  <2>1. /\ Calling /\ Readable(r)
        /\ call' = [call EXCEPT !.stage = "answered", !.replies = call.replies \cup {r},
                                !.wire = {ParseExtraction(r)}]
    BY <1>10 DEF Parsed
  <2>2. ParseExtraction(r) \in RepliesEver
    BY <2>1 DEF RepliesEver, ParsedFrom
  <2>3. /\ call' \in Calls
        /\ r \in call'.replies /\ call'.wire = {ParseExtraction(r)}
    BY <1>5, <2>1, <2>2 DEF Calls
  <2> QED
    BY <1>1, <1>5, <2>1, <2>3
<1>11. CASE PersistDone
  BY <1>1, <1>11 DEF PersistDone, GL!Persist
<1>12. CASE PersistFailed
  BY <1>1, <1>12 DEF PersistFailed, graphVars
<1>13. CASE Reject
  BY <1>1, <1>13 DEF Reject, ForgetRun, GL!Reject, GL!Forget
<1>14. CASE Stop
  BY <1>1, <1>14 DEF Stop, ForgetRun, GL!End, GL!Forget
<1>15. ASSUME NEW d \in Documents, Ingest(d)
       PROVE  RunHasUnits' /\ WireIsParsed'
  BY <1>1, <1>15 DEF Ingest, graphVars
<1>16. ASSUME NEW reg \in Registries, Register(reg)
       PROVE  RunHasUnits' /\ WireIsParsed'
  BY <1>1, <1>16 DEF Register, graphVars
<1>17. CASE UNCHANGED vars
  BY <1>1, <1>17 DEF vars, graphVars
<1> QED
  BY <1>3, <1>4, <1>7, <1>8, <1>9, <1>10, <1>11, <1>12, <1>13, <1>14, <1>15, <1>16,
     <1>17 DEF Next

\* The inputs, the ledger and the outputs.
LEMMA TypesNext == IInv /\ [Next]_vars => TypeOK'
<1> SUFFICES ASSUME IInv, [Next]_vars
             PROVE  TypeOK'
  OBVIOUS
<1>1. /\ docs \subseteq Documents /\ registry \in Registries
      /\ \A row \in ledger : row.status \in {"pending", "done", "failed"}
      /\ \A o \in outputs : \E d \in Documents : o.document = d.id
      /\ call # Idle => running = {Self}
  BY DEF IInv, TypeOK
<1>2. call = Idle \/ call \in Calls
  BY DEF IInv, RunHasUnits
<1>3. RunHasUnits'
  BY RunNext
<1>4. docs' \subseteq Documents /\ registry' \in Registries
  BY <1>1 DEF Next, vars, inputs, graphVars, Start, Submit, CallFails, Overload, Unparseable,
     Parsed, Calling, PersistDone, PersistFailed, Reject, Stop, ForgetRun, Ingest, Register
<1>5. ASSUME NEW u, NEW status \in {"pending", "done", "failed"}, Record(u, status)
      PROVE  \A row \in ledger' : row.status \in {"pending", "done", "failed"}
  BY <1>1, <1>5 DEF Record, Row, GL!Upsert
<1>6. ASSUME call \in Calls, WriteModelOutputs
      PROVE  \A o \in outputs' : \E d \in Documents : o.document = d.id
  <2>1. call.unit \in UnitsEver
    BY <1>6 DEF Calls
  <2>2. \E d \in Documents : call.unit.document = d.id
    BY <2>1, UnitsAreBuilt DEF UnitOf
  <2> QED
    BY <1>1, <1>6, <2>2 DEF WriteModelOutputs
<1>7. /\ \A row \in ledger' : row.status \in {"pending", "done", "failed"}
      /\ \A o \in outputs' : \E d \in Documents : o.document = d.id
      /\ call' # Idle => running' = {Self}
  <2> DEFINE G == /\ \A row \in ledger' : row.status \in {"pending", "done", "failed"}
                  /\ \A o \in outputs' : \E d \in Documents : o.document = d.id
                  /\ call' # Idle => running' = {Self}
  <2>1. ASSUME ledger' = ledger, outputs' = outputs,
               \/ call' = call /\ running' = running
               \/ call' = Idle
               \/ call # Idle /\ running' = running
        PROVE  G
    BY <1>1, <2>1
  <2>2. CASE Start
    BY <1>1, <2>1, <2>2 DEF Start, GL!Begin
  <2>3. ASSUME NEW u \in work, Submit(u)
        PROVE  G
    <3>1. running' = {Self}
      BY <2>3 DEF Submit, graphVars, IInv, RunHasUnits
    <3>2. outputs' = outputs /\ Record(u, "pending")
      BY <2>3 DEF Submit
    <3> QED
      BY <1>1, <1>5, <3>1, <3>2
  <2>4. ASSUME Calling
        PROVE  G
    BY <1>1, <2>1, <2>4 DEF Calling, Idle, graphVars
  <2>5. CASE PersistDone
    <3>1. call \in Calls /\ call' = Idle
      BY <1>2, <2>5 DEF PersistDone, Idle
    <3>2. Record(call.unit, "done") /\ WriteModelOutputs
      BY <2>5 DEF PersistDone
    <3> QED
      BY <1>5, <1>6, <3>1, <3>2
  <2>6. CASE PersistFailed
    <3>1. call \in Calls /\ call' = Idle
      BY <1>2, <2>6 DEF PersistFailed, Idle
    <3>2. Record(call.unit, "failed") /\ WriteModelOutputs
      BY <2>6 DEF PersistFailed
    <3> QED
      BY <1>5, <1>6, <3>1, <3>2
  <2>7. CASE Reject \/ Stop
    BY <2>1, <2>7 DEF Reject, Stop, ForgetRun
  <2>8. ASSUME NEW d \in Documents, Ingest(d)
        PROVE  G
    BY <2>1, <2>8 DEF Ingest, graphVars
  <2>9. ASSUME NEW reg \in Registries, Register(reg)
        PROVE  G
    BY <2>1, <2>9 DEF Register, graphVars
  <2>10. CASE UNCHANGED vars
    BY <2>1, <2>10 DEF vars, graphVars
  <2> QED
    BY <2>2, <2>3, <2>4, <2>5, <2>6, <2>7, <2>8, <2>9, <2>10
    DEF Next, CallFails, Overload, Unparseable, Parsed
<1>8. call' # Idle => /\ call'.stage \in {"calling", "answered"}
                      /\ call'.attempt \in 1..MaxAttempts
                      /\ call'.replies \subseteq Texts
  BY <1>3 DEF RunHasUnits, Calls
<1> QED
  BY <1>4, <1>7, <1>8 DEF TypeOK

\* Only the transaction of a unit adds to the graph and to the files, and what
\* it adds comes from one reply, for a unit of the run.
LEMMA GraphNext ==
  ASSUME IInv, [Next]_vars
  PROVE  \/ UNCHANGED <<graph, filed>> /\ outputs \subseteq outputs'
         \/ /\ PersistDone
            /\ call \in Calls
            /\ \E reply \in call.wire : GL!Persist(Self, call.unit, reply)
<1>1. CASE Start
  BY <1>1 DEF Start, GL!Begin
<1>2. ASSUME NEW u \in work, Submit(u)
      PROVE  UNCHANGED <<graph, filed, outputs>>
  BY <1>2 DEF Submit, graphVars
<1>3. CASE Calling
  BY <1>3 DEF Calling, graphVars
<1>4. CASE PersistDone
  BY <1>4 DEF PersistDone, IInv, RunHasUnits, Idle
<1>5. CASE PersistFailed
  BY <1>5 DEF PersistFailed, graphVars, WriteModelOutputs
<1>6. CASE Reject
  BY <1>6 DEF Reject, ForgetRun, GL!Reject, GL!Forget
<1>7. CASE Stop
  BY <1>7 DEF Stop, ForgetRun, GL!End, GL!Forget
<1>8. ASSUME NEW d \in Documents, Ingest(d)
      PROVE  UNCHANGED <<graph, filed, outputs>>
  BY <1>8 DEF Ingest, graphVars
<1>9. ASSUME NEW reg \in Registries, Register(reg)
      PROVE  UNCHANGED <<graph, filed, outputs>>
  BY <1>9 DEF Register, graphVars
<1>10. CASE UNCHANGED vars
  BY <1>10 DEF vars, graphVars
<1> QED
  BY <1>1, <1>2, <1>3, <1>4, <1>5, <1>6, <1>7, <1>8, <1>9, <1>10
  DEF Next, CallFails, Overload, Unparseable, Parsed

\* What is in the graph: citations that were offered, records on file.
LEMMA RecordsNext ==
  IInv /\ [Next]_vars =>
    CitationsOffered' /\ UnmatchedFilesNothing' /\ EveryRecordHasReply'
<1> SUFFICES ASSUME IInv, [Next]_vars
             PROVE  CitationsOffered' /\ UnmatchedFilesNothing' /\ EveryRecordHasReply'
  OBVIOUS
<1>1. CitationsOffered /\ UnmatchedFilesNothing /\ EveryRecordHasReply
  BY DEF IInv
<1>2. CASE UNCHANGED <<graph, filed>> /\ outputs \subseteq outputs'
  BY <1>1, <1>2 DEF CitationsOffered, UnmatchedFilesNothing, EveryRecordHasReply
<1>3. ASSUME PersistDone, call \in Calls, NEW reply \in call.wire,
             GL!Persist(Self, call.unit, reply)
      PROVE  CitationsOffered' /\ UnmatchedFilesNothing' /\ EveryRecordHasReply'
  <2> DEFINE u == call.unit
             v == GL!Validate(u, reply, known[Self])
             h == GL!Loaded(graph, v)
             new == GL!Records(graph') \ GL!Records(graph)
  <2>1. /\ graph' = h
        /\ filed' = filed \cup {[unit |-> u, record |-> x] : x \in new}
        /\ u \in UnitsEver
    BY <1>3 DEF GL!Persist, Calls
  <2>2. CitationsOffered'
    <3>1. ASSUME NEW s \in h.eventSources \cup h.claimSources
          PROVE  \E w \in UnitsEver : AcceptedOf(w, s)
      <4>1. CASE s \in graph.eventSources \cup graph.claimSources
        BY <1>1, <4>1 DEF CitationsOffered
      <4>2. CASE s \notin graph.eventSources \cup graph.claimSources
        BY <2>1, <4>2, NewCitation DEF AcceptedOf
      <4> QED
        BY <4>1, <4>2
    <3> QED
      BY <2>1, <3>1 DEF CitationsOffered
  <2>3. ASSUME NEW x \in new
        PROVE  \E i \in DOMAIN (IF x[1] = "event" THEN reply.events ELSE reply.claims) :
                 LET list == IF x[1] = "event" THEN reply.events ELSE reply.claims
                 IN /\ list[i].id = x[2]
                    /\ GL!MeetsPolicy(u, GL!FilterCitations(u, list[i].sources))
    BY <2>1, <2>3, NewRecord
  <2>4. ASSUME NEW x \in new, u.requirePrimary
        PROVE  \E c \in u.candidates : c.source # Reference
    <3>1. u.reference.source = Reference
      BY <2>1, UnitsAreBuilt DEF UnitOf
    <3>2. PICK sources : GL!MeetsPolicy(u, GL!FilterCitations(u, sources))
      BY <2>3, <2>4
    <3>3. PICK c \in GL!FilterCitations(u, sources) : c.source # Reference
      BY <2>4, <3>1, <3>2 DEF GL!MeetsPolicy
    <3>4. PICK d \in GL!Surface(u) : d.source = c.source
      BY KeptCitations DEF GL!Citeable
    <3> QED
      BY <3>1, <3>3, <3>4 DEF GL!Surface
  <2>5. UnmatchedFilesNothing'
    BY <1>1, <2>1, <2>4 DEF UnmatchedFilesNothing
  <2>6. PICK r \in call.replies : Readable(r) /\ reply = ParseExtraction(r)
    BY <1>3 DEF IInv, WireIsParsed, Calls, Idle
  <2>7. /\ [document |-> u.document, reply |-> r] \in outputs'
        /\ outputs \subseteq outputs'
    BY <1>3, <2>6 DEF PersistDone, WriteModelOutputs
  <2>8. ASSUME NEW f \in filed'
        PROVE  \E o \in outputs' :
                 /\ o.document = f.unit.document
                 /\ Readable(o.reply)
                 /\ LET wire == ParseExtraction(o.reply)
                        list == IF f.record[1] = "event" THEN wire.events ELSE wire.claims
                    IN \E i \in DOMAIN list : list[i].id = f.record[2]
    <3>1. CASE f \in filed
      BY <1>1, <2>7, <3>1 DEF EveryRecordHasReply
    <3>2. ASSUME NEW x \in new, f = [unit |-> u, record |-> x]
          PROVE  \E o \in outputs' :
                   /\ o.document = f.unit.document
                   /\ Readable(o.reply)
                   /\ LET wire == ParseExtraction(o.reply)
                          list == IF f.record[1] = "event" THEN wire.events ELSE wire.claims
                      IN \E i \in DOMAIN list : list[i].id = f.record[2]
      <4>1. LET list == IF x[1] = "event" THEN reply.events ELSE reply.claims
            IN \E i \in DOMAIN list : list[i].id = x[2]
        BY <2>3
      <4> QED
        BY <2>6, <2>7, <3>2, <4>1
    <3> QED
      BY <2>1, <3>1, <3>2
  <2> QED
    BY <2>2, <2>5, <2>8 DEF EveryRecordHasReply
<1> QED
  BY <1>2, <1>3, GraphNext

\* Done rows and the units they are about.
LEMMA RowsNext == IInv /\ [Next]_vars => DoneRowsNamed'
<1> SUFFICES ASSUME IInv, [Next]_vars
             PROVE  DoneRowsNamed'
  OBVIOUS
<1>1. DoneRowsNamed /\ RunHasUnits
  BY DEF IInv
<1>2. ASSUME UNCHANGED <<ledger, extractedAs>>
      PROVE  DoneRowsNamed'
  BY <1>1, <1>2 DEF DoneRowsNamed
<1>3. ASSUME NEW u \in work, Submit(u)
      PROVE  DoneRowsNamed'
  <2>1. /\ extractedAs' = extractedAs
        /\ \A row \in ledger' : row \in ledger \/ row.status = "pending"
    BY <1>3 DEF Submit, Record, Row, GL!Upsert
  <2> QED
    BY <1>1, <2>1 DEF DoneRowsNamed
<1>4. ASSUME NEW status, Record(call.unit, status)
      PROVE  \A row \in ledger' : \/ row = Row(call.unit, status)
                                  \/ row \in ledger /\ row.key # call.unit.key
  <2>1. Row(call.unit, status).key = call.unit.key
    BY DEF Row
  <2> QED
    BY <1>4, <2>1 DEF Record, GL!Upsert, GL!Conflict
<1>5. CASE PersistDone
  <2> DEFINE u == call.unit
  <2>1. u \in UnitsEver
    BY <1>1, <1>5 DEF PersistDone, RunHasUnits, Calls, Idle
  <2>2. extractedAs' = {v \in extractedAs : v.key # u.key} \cup {u}
    BY <1>5 DEF PersistDone, GL!Upsert, GL!Conflict
  <2>3. Record(u, "done")
    BY <1>5 DEF PersistDone
  <2>4. ASSUME NEW row \in ledger', row.status = "done"
        PROVE  \E v \in extractedAs' : v.key = row.key /\ InputHash(v) = row.hash
    <3>1. CASE row = Row(u, "done")
      BY <2>2, <3>1 DEF Row
    <3>2. CASE row \in ledger /\ row.key # u.key
      BY <1>1, <2>2, <2>4, <3>2 DEF DoneRowsNamed
    <3> QED
      BY <1>4, <2>3, <3>1, <3>2
  <2>5. extractedAs' \subseteq UnitsEver
    BY <1>1, <2>1, <2>2 DEF DoneRowsNamed
  <2> QED
    BY <2>4, <2>5 DEF DoneRowsNamed
<1>6. CASE PersistFailed
  <2>1. extractedAs' = {v \in extractedAs : v.key # call.unit.key}
    BY <1>6 DEF PersistFailed
  <2>2. Record(call.unit, "failed")
    BY <1>6 DEF PersistFailed
  <2>3. ASSUME NEW row \in ledger', row.status = "done"
        PROVE  \E v \in extractedAs' : v.key = row.key /\ InputHash(v) = row.hash
    <3>1. row \in ledger /\ row.key # call.unit.key
      BY <1>4, <2>2, <2>3 DEF Row
    <3> QED
      BY <1>1, <2>1, <2>3, <3>1 DEF DoneRowsNamed
  <2> QED
    BY <1>1, <2>1, <2>3 DEF DoneRowsNamed
<1>7. CASE Start
  BY <1>2, <1>7 DEF Start
<1>8. CASE Calling
  BY <1>2, <1>8 DEF Calling
<1>9. CASE Reject \/ Stop
  BY <1>2, <1>9 DEF Reject, Stop, ForgetRun
<1>10. ASSUME NEW d \in Documents, Ingest(d)
       PROVE  DoneRowsNamed'
  BY <1>2, <1>10 DEF Ingest
<1>11. ASSUME NEW reg \in Registries, Register(reg)
       PROVE  DoneRowsNamed'
  BY <1>2, <1>11 DEF Register
<1>12. CASE UNCHANGED vars
  BY <1>2, <1>12 DEF vars
<1> QED
  BY <1>3, <1>5, <1>6, <1>7, <1>8, <1>9, <1>10, <1>11, <1>12
  DEF Next, CallFails, Overload, Unparseable, Parsed

-----------------------------------------------------------------------------
(* Ranks.                                                                  *)

\* There are finitely many candidates, and the words of one count.
LEMMA ScoreType ==
  ASSUME NEW terms
  PROVE  /\ IsFiniteSet(Indices) /\ Indices \subseteq Nat
         /\ \A i \in Indices : Score(i, terms) \in Nat
<1>1. PICK n \in Nat : Indices = 1..n
  BY SelectionAssumption DEF Indices
<1>2. IsFiniteSet(Indices) /\ Indices \subseteq Nat
  BY <1>1, FS_Interval
<1>3. ASSUME NEW i \in Indices
      PROVE  Score(i, terms) \in Nat
  <2>1. IsFiniteSet(Configured[i].terms)
    BY SelectionAssumption DEF Indices
  <2>2. IsFiniteSet(Configured[i].terms \cap terms)
    BY <2>1, FS_Subset
  <2> QED
    BY <2>2, FS_CardinalityType DEF Score
<1> QED
  BY <1>2, <1>3

\* Candidates are ranked in a strict order in which no two are level.
LEMMA RankingIsTotal ==
  ASSUME NEW terms, NEW i \in Indices, NEW j \in Indices
  PROVE  /\ ~Outranks(i, i, terms)
         /\ i # j => Outranks(i, j, terms) \/ Outranks(j, i, terms)
         /\ \A k \in Indices :
              Outranks(k, i, terms) /\ Outranks(i, j, terms) => Outranks(k, j, terms)
BY ScoreType DEF Outranks

\* A set with an element less is smaller.
LEMMA PartIsSmaller ==
  ASSUME NEW B, IsFiniteSet(B), NEW A, A \subseteq B, NEW x \in B, x \notin A
  PROVE  /\ Cardinality(A) \in Nat /\ Cardinality(B) \in Nat
         /\ Cardinality(A) < Cardinality(B)
<1>1. IsFiniteSet(A) /\ Cardinality(A) =< Cardinality(B)
  BY FS_Subset
<1>2. Cardinality(A) # Cardinality(B)
  BY FS_Subset
<1>3. Cardinality(A) \in Nat /\ Cardinality(B) \in Nat
  BY <1>1, FS_CardinalityType
<1> QED
  BY <1>1, <1>2, <1>3

\* In a total order of a finite set fewer than n stand above no more than n
\* elements.
LEMMA CutSize ==
  ASSUME NEW U, IsFiniteSet(U), NEW n \in Nat, NEW above \in [U -> SUBSET U],
         \A i \in U : i \notin above[i],
         \A i, j \in U : i # j => \/ i \in above[j] /\ above[i] \subseteq above[j]
                                  \/ j \in above[i] /\ above[j] \subseteq above[i],
         NEW S, S \subseteq U, \A i \in S : Cardinality(above[i]) < n
  PROVE  IsFiniteSet(S) /\ Cardinality(S) =< n
<1>1. \A i \in U : IsFiniteSet(above[i]) /\ Cardinality(above[i]) \in Nat
  BY FS_Subset, FS_CardinalityType
<1> DEFINE rank == [i \in S |-> Cardinality(above[i])]
<1>2. \A i \in S : Cardinality(above[i]) \in 0..(n - 1)
  BY <1>1
<1>3. rank \in [S -> 0..(n - 1)]
  BY <1>2
<1>4. ASSUME NEW i \in S, NEW j \in S, i # j
      PROVE  rank[i] # rank[j]
  <2>1. CASE i \in above[j] /\ above[i] \subseteq above[j]
    <3>1. Cardinality(above[i]) < Cardinality(above[j])
      BY <1>1, <2>1, PartIsSmaller
    <3> QED
      BY <1>1, <3>1
  <2>2. CASE j \in above[i] /\ above[j] \subseteq above[i]
    <3>1. Cardinality(above[j]) < Cardinality(above[i])
      BY <1>1, <2>2, PartIsSmaller
    <3> QED
      BY <1>1, <3>1
  <2> QED
    BY <1>4, <2>1, <2>2
<1> HIDE DEF rank
<1>5. rank \in Injection(S, 0..(n - 1))
  BY <1>3, <1>4 DEF Injection, IsInjective
<1>6. IsFiniteSet(0..(n - 1)) /\ Cardinality(0..(n - 1)) = n
  <2>1. PICK m \in Int : m = n - 1
    OBVIOUS
  <2>2. IsFiniteSet(0..m) /\ Cardinality(0..m) = IF 0 > m THEN 0 ELSE m - 0 + 1
    BY FS_Interval
  <2> QED
    BY <2>1, <2>2
<1> QED
  BY <1>5, <1>6, FS_Injection

\* The cap bounds what is chosen, be it the best or the defaults.
LEMMA ChosenFit ==
  ASSUME NEW terms
  PROVE  IsFiniteSet(Chosen(terms)) /\ Cardinality(Chosen(terms)) =< CandidateCap
<1>1. CandidateCap \in Nat
  BY SelectionAssumption DEF CandidateCap, OrDefault
<1>2. IsFiniteSet(Best(terms)) /\ Cardinality(Best(terms)) =< CandidateCap
  <2> DEFINE above == [i \in Indices |-> {j \in Indices : Outranks(j, i, terms)}]
  <2>1. above \in [Indices -> SUBSET Indices]
    OBVIOUS
  <2>2. \A i \in Indices : i \notin above[i]
    BY RankingIsTotal
  <2>3. ASSUME NEW i \in Indices, NEW j \in Indices, i # j
        PROVE  \/ i \in above[j] /\ above[i] \subseteq above[j]
               \/ j \in above[i] /\ above[j] \subseteq above[i]
    <3>1. CASE Outranks(i, j, terms)
      BY <3>1, RankingIsTotal
    <3>2. CASE Outranks(j, i, terms)
      BY <3>2, RankingIsTotal
    <3> QED
      BY <2>3, <3>1, <3>2, RankingIsTotal
  <2>4. /\ Best(terms) \subseteq Indices
        /\ \A i \in Best(terms) : Cardinality(above[i]) < CandidateCap
    BY DEF Best
  <2> HIDE DEF above
  <2> QED
    BY <1>1, <2>1, <2>2, <2>3, <2>4, ScoreType, CutSize
<1>3. IsFiniteSet(Defaults) /\ Cardinality(Defaults) =< CandidateCap
  <2> DEFINE flagged == {i \in Indices : Configured[i].default}
             above == [i \in flagged |-> {j \in flagged : j < i}]
  <2>1. IsFiniteSet(flagged) /\ flagged \subseteq Nat
    BY ScoreType, FS_Subset
  <2>2. above \in [flagged -> SUBSET flagged]
    OBVIOUS
  <2>3. \A i \in flagged : i \notin above[i]
    BY <2>1
  <2>4. ASSUME NEW i \in flagged, NEW j \in flagged, i # j
        PROVE  \/ i \in above[j] /\ above[i] \subseteq above[j]
               \/ j \in above[i] /\ above[j] \subseteq above[i]
    BY <2>1, <2>4
  <2>5. /\ Defaults \subseteq flagged
        /\ \A i \in Defaults : Cardinality(above[i]) < CandidateCap
    BY DEF Defaults
  <2> HIDE DEF above, flagged
  <2> QED
    BY <1>1, <2>1, <2>2, <2>3, <2>4, <2>5, CutSize
<1> QED
  BY <1>2, <1>3 DEF Chosen

\* No more are offered than were chosen.
LEMMA OffersFit ==
  ASSUME NEW terms, NEW reg
  PROVE  Cardinality({Candidate(i) : i \in Offered(terms, reg)}) =< CandidateCap
<1> DEFINE S == Offered(terms, reg)
           T == {Candidate(i) : i \in S}
           f == [i \in S |-> Candidate(i)]
<1>1. IsFiniteSet(S) /\ Cardinality(S) =< Cardinality(Chosen(terms))
  <2>1. S \subseteq Chosen(terms)
    BY DEF Offered
  <2> QED
    BY <2>1, ChosenFit, FS_Subset
<1>2. f \in Surjection(S, T)
  BY DEF Surjection
<1>3. IsFiniteSet(T) /\ Cardinality(T) =< Cardinality(S)
  BY <1>1, <1>2, FS_Surjection
<1>4. /\ Cardinality(T) \in Nat /\ Cardinality(S) \in Nat
      /\ Cardinality(Chosen(terms)) \in Nat /\ CandidateCap \in Nat
  BY <1>1, <1>3, ChosenFit, FS_CardinalityType, SelectionAssumption
     DEF CandidateCap, OrDefault
<1> QED
  BY <1>1, <1>3, <1>4, ChosenFit

\* Of some candidates there is one that none of them outranks.
LEMMA TopRank ==
  ASSUME NEW terms, NEW S, S \subseteq Indices, S # {}
  PROVE  \E i \in S : \A j \in S : ~Outranks(j, i, terms)
<1> DEFINE Above(i) == {j \in S : Outranks(j, i, terms)}
           ranks == {Cardinality(Above(i)) : i \in S}
<1>1. \A i \in S : IsFiniteSet(Above(i)) /\ Cardinality(Above(i)) \in Nat
  <2>1. IsFiniteSet(S)
    BY ScoreType, FS_Subset
  <2> QED
    BY <2>1, FS_Subset, FS_CardinalityType
<1>2. ranks \subseteq Nat /\ ranks # {}
  BY <1>1
<1>3. PICK i \in S : \A j \in S : Cardinality(Above(i)) =< Cardinality(Above(j))
  <2>1. PICK m \in ranks : \A n \in ranks : m =< n
    <3> HIDE DEF ranks
    <3> QED
      BY <1>2, LeastPosition
  <2>2. PICK i \in S : m = Cardinality(Above(i))
    OBVIOUS
  <2>3. \A j \in S : Cardinality(Above(j)) \in ranks
    OBVIOUS
  <2> HIDE DEF Above, ranks
  <2> QED
    BY <2>1, <2>2, <2>3
<1>4. ASSUME NEW j \in S, Outranks(j, i, terms)
      PROVE  FALSE
  <2>1. Above(j) \subseteq Above(i) /\ j \in Above(i) /\ j \notin Above(j)
    BY <1>4, RankingIsTotal
  <2>2. Cardinality(Above(j)) < Cardinality(Above(i))
    BY <1>1, <2>1, PartIsSmaller
  <2> QED
    BY <1>1, <1>3, <2>2
<1> QED
  BY <1>4

\* An allowed candidate that matches is offered, or one of its place, or it is
\* outranked by as many as are offered at most.
LEMMA BestAreOffered ==
  ASSUME NEW terms, NEW reg, NEW i \in Indices, Allowed(i, reg), Score(i, terms) # 0
  PROVE  \/ \E j \in Offered(terms, reg) : SamePlace(j, i)
         \/ Cardinality({j \in Indices \ {i} : Score(j, terms) >= Score(i, terms)})
              >= CandidateCap
<1>1. CASE i \notin Best(terms)
  <2> DEFINE A == {j \in Indices : Outranks(j, i, terms)}
             B == {j \in Indices \ {i} : Score(j, terms) >= Score(i, terms)}
  <2>1. A \subseteq B
    BY ScoreType DEF Outranks
  <2>2. IsFiniteSet(B)
    BY ScoreType, FS_Subset
  <2>3. IsFiniteSet(A) /\ Cardinality(A) =< Cardinality(B)
    BY <2>1, <2>2, FS_Subset
  <2>4. Cardinality(A) \in Nat /\ Cardinality(B) \in Nat /\ CandidateCap \in Nat
    BY <2>2, <2>3, FS_CardinalityType, SelectionAssumption DEF CandidateCap, OrDefault
  <2>5. ~(Cardinality(A) < CandidateCap)
    BY <1>1 DEF Best
  <2> QED
    BY <2>3, <2>4, <2>5
<1>2. CASE i \in Best(terms)
  <2> DEFINE place == {j \in Chosen(terms) : SamePlace(j, i)}
  <2>1. i \in Chosen(terms)
    BY <1>2, ScoreType DEF Chosen
  <2>2. Chosen(terms) \subseteq Indices
    BY DEF Chosen, Best, Defaults
  <2>3. place \subseteq Indices /\ i \in place
    BY <2>1, <2>2 DEF SamePlace
  <2>4. PICK j \in place : \A k \in place : ~Outranks(k, j, terms)
    BY <2>3, TopRank
  <2>5. Allowed(j, reg) /\ SamePlace(j, i)
    BY <2>4 DEF Allowed, SamePlace
  <2>6. \A k \in Chosen(terms) : SamePlace(j, k) => k \in place
    BY <2>5 DEF SamePlace
  <2>7. j \in Offered(terms, reg)
    BY <2>4, <2>5, <2>6 DEF Offered
  <2> QED
    BY <2>5, <2>7
<1> QED
  BY <1>1, <1>2

-----------------------------------------------------------------------------
(* Theorems.                                                               *)

\* The invariant holds of every behaviour, whatever the model replies.
THEOREM IntakeInvariant == Spec => []IInv
<1>1. IInv /\ [Next]_vars => IInv'
  BY TypesNext, RunNext, RecordsNext, RowsNext DEF IInv
<1> QED
  BY InvInit, <1>1, PTL DEF Spec

\* The variables have their types, and a unit is at the model only in a run.
THEOREM TypeCorrect == Spec => []TypeOK
<1>1. IInv => TypeOK
  BY DEF IInv
<1> QED
  BY <1>1, IntakeInvariant, PTL

\* No record cites a source outside of the allowed tiers but its reference.
THEOREM OnlyAllowedTiersCited == Spec => []CitesWithinTier
<1>1. IInv => CitesWithinTier
  <2> SUFFICES ASSUME IInv, NEW s \in graph.eventSources \cup graph.claimSources
               PROVE  \/ s.source = Reference
                      \/ \E reg \in Registries : /\ s.source \in DOMAIN reg
                                                 /\ reg[s.source] =< TierCap
    BY DEF CitesWithinTier
  <2>1. PICK u \in UnitsEver : AcceptedOf(u, s)
    BY DEF IInv, CitationsOffered
  <2>2. PICK d \in Documents, reg \in Registries : u = UnitOf(d, reg)
    BY UnitsAreBuilt
  <2>3. PICK o \in GL!Surface(u) : o.source = s.source
    BY <2>1 DEF AcceptedOf, GL!Citeable
  <2>4. \/ s.source = Reference
        \/ \E i \in Indices : Allowed(i, reg) /\ s.source = Configured[i].source
    BY <2>2, <2>3, UnitSurface
  <2> QED
    BY <2>4 DEF Allowed
<1> QED
  BY <1>1, IntakeInvariant, PTL

\* An invalid locator in the graph was offered by the manifest or is a URL.
THEOREM LocatorsComeFromOffers == Spec => []InvalidLocatorsAreOffered
<1>1. IInv => InvalidLocatorsAreOffered
  <2> SUFFICES ASSUME IInv, NEW s \in GL!InvalidLocators(graph)
               PROVE  \/ s.source = Reference /\ ~(Scheme[Reference] \subseteq UrlKeys)
                      \/ \E i \in Indices :
                           /\ Configured[i].source = s.source
                           /\ ~(Scheme[s.source] \subseteq Configured[i].keys)
    BY DEF InvalidLocatorsAreOffered
  <2>1. /\ s \in graph.eventSources \cup graph.claimSources
        /\ ~(Scheme[s.source] \subseteq s.keys)
    BY DEF GL!InvalidLocators
  <2>2. PICK u \in UnitsEver : AcceptedOf(u, s)
    BY <2>1 DEF IInv, CitationsOffered
  <2>3. PICK d \in Documents, reg \in Registries : u = UnitOf(d, reg)
    BY UnitsAreBuilt
  <2>4. PICK o \in GL!Surface(u) : o.source = s.source
    BY <2>2 DEF AcceptedOf, GL!Citeable
  <2>5. o.keys \subseteq s.keys
    <3>1. o.keys \subseteq GL!RequiredKeys(u, s.source)
      BY <2>4 DEF GL!RequiredKeys
    <3> QED
      BY <2>2, <3>1 DEF AcceptedOf, GL!Citeable
  <2>6. ~(Scheme[s.source] \subseteq o.keys)
    BY <2>1, <2>5
  <2>7. CASE o = [source |-> Reference, keys |-> UrlKeys, url |-> d.url]
    <3>1. s.source = Reference /\ o.keys = UrlKeys
      BY <2>4, <2>7
    <3> QED
      BY <2>6, <3>1
  <2>8. CASE \E i \in Indices : /\ Allowed(i, reg)
                                /\ o.source = Configured[i].source
                                /\ o.keys = Configured[i].keys
    BY <2>4, <2>6, <2>8
  <2> QED
    BY <2>3, <2>7, <2>8, UnitSurface
<1> QED
  BY <1>1, IntakeInvariant, PTL

\* Where a primary source is demanded and none was offered, nothing is filed.
THEOREM NothingOfferedNothingFiled == Spec => []UnmatchedFilesNothing
<1>1. IInv => UnmatchedFilesNothing
  BY DEF IInv
<1> QED
  BY <1>1, IntakeInvariant, PTL

\* Every event and claim in the graph is in a reply on file.
THEOREM RecordsAreOnFile == Spec => []EveryRecordHasReply
<1>1. IInv => EveryRecordHasReply
  BY DEF IInv
<1> QED
  BY <1>1, IntakeInvariant, PTL

\* A page has a newest revision, as there are finitely many.
LEMMA NewestExists ==
  ASSUME NEW P, IsFiniteSet(P), P # {}, \A e \in P : e.at \in Nat
  PROVE  \E m \in P : \A e \in P : e.at =< m.at
<1> DEFINE Later(m) == {e \in P : e.at > m.at}
           counts == {Cardinality(Later(m)) : m \in P}
<1>1. \A m \in P : IsFiniteSet(Later(m)) /\ Cardinality(Later(m)) \in Nat
  BY FS_Subset, FS_CardinalityType
<1>2. counts \subseteq Nat /\ counts # {}
  BY <1>1
<1>3. Least(counts) \in counts /\ \A k \in counts : Least(counts) =< k
  BY <1>2, LeastPosition
<1>4. PICK m \in P : Least(counts) = Cardinality(Later(m))
  BY <1>3
<1>5. ASSUME NEW e \in P, e.at > m.at
      PROVE  FALSE
  <2>1. Later(e) \subseteq Later(m) /\ e \in Later(m) /\ e \notin Later(e)
    BY <1>5
  <2>2. /\ Cardinality(Later(e)) =< Cardinality(Later(m))
        /\ Cardinality(Later(m)) = Cardinality(Later(e)) => Later(m) = Later(e)
    BY <1>1, <2>1, FS_Subset
  <2>3. Cardinality(Later(m)) =< Cardinality(Later(e))
    BY <1>3, <1>4
  <2> QED
    BY <1>1, <2>1, <2>2, <2>3
<1> QED
  BY <1>5

\* Every page has a unit, of its newest revision.
THEOREM PagesHaveUnits == Spec => []OneUnitPerPage
<1>1. IInv => OneUnitPerPage
  <2> SUFFICES ASSUME IInv, NEW d \in docs, d.source = Reference
               PROVE  LET about == {u \in BuildUnits(docs, registry) :
                                      u.reference.url = d.url}
                      IN /\ about # {}
                         /\ \A u \in about : \E e \in docs :
                              e.id = u.document /\ e.at >= d.at
    BY DEF OneUnitPerPage
  <2> DEFINE page == {e \in docs : e.source = Reference /\ e.url = d.url}
  <2>1. docs \subseteq Documents /\ \A e \in docs : e.at \in Nat
    BY IntakeAssumption DEF IInv, TypeOK
  <2>2. IsFiniteSet(page) /\ d \in page
    BY <2>1, IntakeAssumption, FS_Subset
  <2>3. PICK m \in page : \A e \in page : e.at =< m.at
    BY <2>1, <2>2, NewestExists
  <2>4. UnitOf(m, registry) \in BuildUnits(docs, registry)
    BY <2>3 DEF BuildUnits, LatestDocuments
  <2>5. UnitOf(m, registry).reference.url = d.url
    BY <2>3 DEF UnitOf
  <2>6. ASSUME NEW u \in BuildUnits(docs, registry), u.reference.url = d.url
        PROVE  \E e \in docs : e.id = u.document /\ e.at >= d.at
    <3>1. PICK e \in LatestDocuments(docs) : u = UnitOf(e, registry)
      BY DEF BuildUnits
    <3>2. e.id = u.document /\ e.url = d.url
      BY <2>6, <3>1 DEF UnitOf
    <3>3. e \in docs /\ d.at =< e.at
      BY <3>1, <3>2 DEF LatestDocuments
    <3> QED
      BY <2>1, <3>2, <3>3
  <2> QED
    BY <2>4, <2>5, <2>6
<1> QED
  BY <1>1, IntakeInvariant, PTL

\* The best of the allowed candidates are offered, and no more than the cap.
THEOREM BestOffersMade == Spec => []OffersAreBest
<1>1. OffersAreBest
  <2> SUFFICES ASSUME NEW d \in LatestDocuments(docs)
               PROVE  LET terms == Terms(d)
                          offered == UnitOf(d, registry).candidates
                      IN /\ Cardinality(offered) =< CandidateCap
                         /\ \A i \in Indices :
                              \/ ~Allowed(i, registry) \/ Score(i, terms) = 0
                              \/ \E c \in offered : /\ c.source = Configured[i].source
                                                    /\ c.title = Configured[i].title
                              \/ Cardinality({j \in Indices \ {i} :
                                                Score(j, terms) >= Score(i, terms)})
                                   >= CandidateCap
    BY DEF OffersAreBest
  <2>1. PICK terms : terms = Terms(d)
    OBVIOUS
  <2>2. UnitOf(d, registry).candidates = {Candidate(i) : i \in Offered(terms, registry)}
    BY <2>1 DEF UnitOf
  <2>3. ASSUME NEW i \in Indices, NEW j \in Offered(terms, registry), SamePlace(j, i)
        PROVE  \E c \in UnitOf(d, registry).candidates :
                 c.source = Configured[i].source /\ c.title = Configured[i].title
    <3>1. /\ Candidate(j).source = Configured[i].source
          /\ Candidate(j).title = Configured[i].title
      BY <2>3 DEF Candidate, SamePlace
    <3> QED
      BY <2>2, <3>1
  <2>4. Cardinality(UnitOf(d, registry).candidates) =< CandidateCap
    BY <2>2, OffersFit
  <2>5. ASSUME NEW i \in Indices
        PROVE  \/ ~Allowed(i, registry) \/ Score(i, terms) = 0
               \/ \E c \in UnitOf(d, registry).candidates :
                    c.source = Configured[i].source /\ c.title = Configured[i].title
               \/ Cardinality({j \in Indices \ {i} : Score(j, terms) >= Score(i, terms)})
                    >= CandidateCap
    BY <2>3, BestAreOffered
  <2> QED
    BY <2>1, <2>4, <2>5
<1> QED
  BY <1>1, PTL

\* Of a plain reply every complete record is handed on.
THEOREM CompleteRecordsSurvive == Spec => []SiblingsSurvive
<1>1. IInv => SiblingsSurvive
  <2> SUFFICES ASSUME IInv, call # Idle, NEW r \in call.replies, r.open # 0, Plain(r)
               PROVE  LosesNothing(r)
    BY DEF SiblingsSurvive
  <2>1. r \in Texts
    BY DEF IInv, TypeOK
  <2>2. IsPayload(r)
    BY <2>1, IntakeAssumption
  <2> QED
    BY <2>2, PlainPayloadSurvives
<1> QED
  BY <1>1, IntakeInvariant, PTL

\* What is skipped was extracted as it is.
THEOREM SkippedWasExtracted == Spec => SkippedIsUnchanged
<1>1. IInv /\ [Next]_vars =>
        (Start => \A u \in BuildUnits(docs, registry) \ work' :
           \E v \in extractedAs : u.text = v.text /\ u.reference = v.reference
                                  /\ u.candidates = v.candidates)
  <2> SUFFICES ASSUME IInv, Start, NEW u \in BuildUnits(docs, registry) \ work'
               PROVE  \E v \in extractedAs :
                        u.text = v.text /\ u.reference = v.reference
                        /\ u.candidates = v.candidates
    OBVIOUS
  <2>1. Row(u, "done") \in ledger
    BY DEF Start, Settled
  <2>2. PICK v \in extractedAs : InputHash(v) = InputHash(u)
    <3>1. Row(u, "done").status = "done" /\ Row(u, "done").hash = InputHash(u)
      BY DEF Row
    <3> QED
      BY <2>1, <3>1 DEF IInv, DoneRowsNamed
  <2>3. v.document = u.document /\ v.text = u.text /\ v.candidates = u.candidates
    BY <2>2 DEF InputHash
  <2>4. PICK e \in Documents, reg \in Registries : v = UnitOf(e, reg)
    BY UnitsAreBuilt DEF IInv, DoneRowsNamed
  <2>5. PICK d \in Documents : u = UnitOf(d, registry)
    BY DEF BuildUnits, LatestDocuments, IInv, TypeOK
  <2>6. d = e
    BY <2>3, <2>4, <2>5, IntakeAssumption DEF UnitOf
  <2>7. u.reference = v.reference
    BY <2>4, <2>5, <2>6 DEF UnitOf
  <2> QED
    BY <2>3, <2>7
<1> QED
  BY <1>1, IntakeInvariant, PTL DEF Spec, SkippedIsUnchanged

\* The runs are runs of GraphLoad, which loads the units the adapter builds and
\* the replies the parser hands on.
THEOREM RunsAreGraphLoads == Spec => GL!Spec
<1>1. Init => GL!Init
  BY DEF Init
<1>2. IInv /\ [Next]_vars => [GL!Next]_<<graph, running, known, filed, overlapped>>
  <2> SUFFICES ASSUME IInv, [Next]_vars
               PROVE  GL!Next \/ UNCHANGED graphVars
    BY DEF graphVars
  <2>1. CASE Start
    BY <2>1 DEF Start, GL!Next
  <2>2. ASSUME NEW reply \in call.wire, call.unit \in UnitsEver, reply \in RepliesEver,
               GL!Persist(Self, call.unit, reply) \/ GL!Reject(Self, call.unit, reply)
        PROVE  GL!Next
    <3>1. call.unit \in Units /\ reply \in Replies
      BY <2>2, IntakeAssumption
    <3> QED
      BY <2>2, <3>1 DEF GL!Next
  <2>10. ASSUME Reject, ~\E reply \in call.wire : GL!Reject(Self, call.unit, reply)
         PROVE  GL!Next
    <3>1. call # Idle /\ GL!Forget(Self)
      BY <2>10 DEF Reject, Idle
    <3>2. Self \in running
      BY <3>1 DEF IInv, TypeOK
    <3> QED
      BY <3>1, <3>2 DEF GL!Next, GL!End
  <2>3. CASE PersistDone \/ Reject
    <3>1. call \in Calls
      BY <2>3 DEF PersistDone, Reject, IInv, RunHasUnits, Idle
    <3>2. call.unit \in UnitsEver /\ call.wire \subseteq RepliesEver
      BY <3>1 DEF Calls
    <3> QED
      BY <2>2, <2>3, <2>10, <3>2 DEF PersistDone
  <2>4. CASE Stop
    BY <2>4 DEF Stop, GL!Next
  <2>5. ASSUME NEW u \in work, Submit(u)
        PROVE  UNCHANGED graphVars
    BY <2>5 DEF Submit
  <2>6. CASE Calling \/ PersistFailed
    BY <2>6 DEF Calling, PersistFailed
  <2>7. ASSUME NEW d \in Documents, Ingest(d)
        PROVE  UNCHANGED graphVars
    BY <2>7 DEF Ingest
  <2>8. ASSUME NEW reg \in Registries, Register(reg)
        PROVE  UNCHANGED graphVars
    BY <2>8 DEF Register
  <2>9. CASE UNCHANGED vars
    BY <2>9 DEF vars
  <2> QED
    BY <2>1, <2>3, <2>4, <2>5, <2>6, <2>7, <2>8, <2>9
    DEF Next, CallFails, Overload, Unparseable, Parsed
<1> QED
  BY <1>1, <1>2, IntakeInvariant, PTL DEF Spec, GL!Spec, GL!vars

-----------------------------------------------------------------------------
(* The ledger, whose rows the slugs of titles key, which titles may share. *)

\* One row for a key.
OneRowPerKey == \A r, s \in ledger : r.key = s.key => r = s

\* The row of the unit at the model is open under its hash, and nothing that is
\* still to be extracted is settled.
RowsFollowCalls ==
  /\ OneRowPerKey
  /\ call # Idle => Row(call.unit, "pending") \in ledger /\ call.unit \notin work
  /\ \A u \in work : ~Settled(u)

\* A row is opened under a hash that it is not settled under, and is closed
\* under the hash it was opened under; no key loses its row.
LedgerMovesForward ==
  [][/\ \A row \in ledger' \ ledger :
          \/ row.status = "pending" /\ [row EXCEPT !.status = "done"] \notin ledger
          \/ /\ row.status \in {"done", "failed"}
             /\ [row EXCEPT !.status = "pending"] \in ledger
     /\ \A row \in ledger : \E s \in ledger' : s.key = row.key]_vars

\* The input hash tells the units apart that can be built.
LEMMA HashNamesUnit ==
  ASSUME NEW u \in UnitsEver, NEW v \in UnitsEver, InputHash(u) = InputHash(v)
  PROVE  u = v
<1>1. PICK d \in Documents, reg \in Registries : u = UnitOf(d, reg)
  BY UnitsAreBuilt
<1>2. PICK e \in Documents, other \in Registries : v = UnitOf(e, other)
  BY UnitsAreBuilt
<1>3. u.document = v.document /\ u.candidates = v.candidates
  BY DEF InputHash
<1>4. d = e
  BY <1>1, <1>2, <1>3, IntakeAssumption DEF UnitOf
<1>5. {Candidate(i) : i \in Offered(Terms(d), reg)}
        = {Candidate(i) : i \in Offered(Terms(d), other)}
  BY <1>1, <1>2, <1>3, <1>4 DEF UnitOf
<1> QED
  BY <1>1, <1>2, <1>4, <1>5 DEF UnitOf

\* Writing the row of a unit.
LEMMA RecordWrites ==
  ASSUME NEW u, NEW status, OneRowPerKey, Record(u, status)
  PROVE  /\ OneRowPerKey'
         /\ Row(u, status) \in ledger'
         /\ \A row \in ledger' : row = Row(u, status) \/ (row \in ledger /\ row.key # u.key)
         /\ \A row \in ledger : \E s \in ledger' : s.key = row.key
<1>1. ledger' = {t \in ledger : t.key # u.key} \cup {Row(u, status)}
  BY DEF Record, GL!Upsert, GL!Conflict, Row
<1>2. Row(u, status).key = u.key
  BY DEF Row
<1> QED
  BY <1>1, <1>2 DEF OneRowPerKey

\* Every step keeps rows and calls together, and moves rows only forward.
LEMMA RowsStep ==
  ASSUME IInv, RowsFollowCalls, [Next]_vars
  PROVE  /\ RowsFollowCalls'
         /\ \A row \in ledger' \ ledger :
              \/ row.status = "pending" /\ [row EXCEPT !.status = "done"] \notin ledger
              \/ /\ row.status \in {"done", "failed"}
                 /\ [row EXCEPT !.status = "pending"] \in ledger
         /\ \A row \in ledger : \E s \in ledger' : s.key = row.key
<1> DEFINE Forward ==
             /\ \A row \in ledger' \ ledger :
                  \/ row.status = "pending" /\ [row EXCEPT !.status = "done"] \notin ledger
                  \/ /\ row.status \in {"done", "failed"}
                     /\ [row EXCEPT !.status = "pending"] \in ledger
             /\ \A row \in ledger : \E s \in ledger' : s.key = row.key
<1> SUFFICES RowsFollowCalls' /\ Forward
  OBVIOUS
<1>1. /\ work \subseteq UnitsEver
      /\ call # Idle => call \in Calls /\ call.unit \in UnitsEver
  BY DEF IInv, RunHasUnits, Calls
<1>2. ASSUME UNCHANGED <<ledger, work>>, call' = call
      PROVE  RowsFollowCalls' /\ Forward
  BY <1>2 DEF RowsFollowCalls, OneRowPerKey, Settled
<1>3. CASE Start
  <2>1. call' = call /\ call = Idle /\ ledger' = ledger
    BY <1>3 DEF Start, GL!Begin, IInv, TypeOK
  <2>2. \A u \in work' : ~Settled(u)
    BY <1>3 DEF Start
  <2> QED
    BY <2>1, <2>2 DEF RowsFollowCalls, OneRowPerKey, Settled
<1>4. ASSUME NEW u \in work, Submit(u)
      PROVE  RowsFollowCalls' /\ Forward
  <2>1. /\ Record(u, "pending") /\ OneRowPerKey
        /\ call'.unit = u /\ work' = work \ {u}
    BY <1>4 DEF Submit, RowsFollowCalls
  <2>2. /\ Row(u, "pending").status = "pending"
        /\ [Row(u, "pending") EXCEPT !.status = "done"] = Row(u, "done")
    BY DEF Row
  <2>3. Forward
    BY <2>1, <2>2, RecordWrites DEF RowsFollowCalls, Settled
  <2>4. ASSUME NEW v \in work' PROVE ~Settled(v)'
    <3>1. Row(v, "done") # Row(u, "pending") /\ v \in work
      BY <2>1 DEF Row
    <3> QED
      BY <2>1, <3>1, RecordWrites DEF RowsFollowCalls, Settled
  <2> QED
    BY <2>1, <2>3, <2>4, RecordWrites DEF RowsFollowCalls
<1>5. ASSUME NEW status \in {"done", "failed"}, call # Idle, Record(call.unit, status),
             call' = Idle, work' = work
      PROVE  RowsFollowCalls' /\ Forward
  <2>1. OneRowPerKey /\ Row(call.unit, "pending") \in ledger /\ call.unit \notin work
    BY <1>5 DEF RowsFollowCalls
  <2>2. /\ Row(call.unit, status).status = status
        /\ [Row(call.unit, status) EXCEPT !.status = "pending"] = Row(call.unit, "pending")
    BY DEF Row
  <2>3. Forward
    BY <1>5, <2>1, <2>2, RecordWrites
  <2>4. ASSUME NEW v \in work PROVE ~Settled(v)'
    <3>1. Row(v, "done") # Row(call.unit, status)
      <4>1. InputHash(v) # InputHash(call.unit)
        BY <1>1, <1>5, <2>1, HashNamesUnit
      <4> QED
        BY <4>1 DEF Row
    <3> QED
      BY <1>5, <2>1, <3>1, RecordWrites DEF RowsFollowCalls, Settled
  <2> QED
    BY <1>5, <2>1, <2>3, <2>4, RecordWrites DEF RowsFollowCalls
<1>6. CASE PersistDone
  <2>1. call # Idle /\ Record(call.unit, "done") /\ call' = Idle /\ work' = work
    BY <1>6 DEF PersistDone, Idle
  <2> QED
    BY <1>5, <2>1
<1>7. CASE PersistFailed
  <2>1. call # Idle /\ Record(call.unit, "failed") /\ call' = Idle /\ work' = work
    BY <1>7 DEF PersistFailed, Idle
  <2> QED
    BY <1>5, <2>1
<1>8. CASE Reject \/ Stop
  <2>1. work' = {} /\ call' = Idle /\ ledger' = ledger
    BY <1>8 DEF Reject, Stop, ForgetRun
  <2> QED
    BY <2>1 DEF RowsFollowCalls, OneRowPerKey
<1>9. ASSUME Calling, call'.unit = call.unit, call' # Idle
      PROVE  RowsFollowCalls' /\ Forward
  <2>1. UNCHANGED <<ledger, work>> /\ call # Idle
    BY <1>9 DEF Calling, Idle
  <2> QED
    BY <1>9, <2>1 DEF RowsFollowCalls, OneRowPerKey, Settled, Row, InputHash
<1>10. ASSUME Calling, NEW replies, TryAgain(replies)
       PROVE  call'.unit = call.unit /\ call' # Idle
  <2>1. call \in Calls
    BY <1>1, <1>10 DEF Calling, Idle
  <2> QED
    BY <1>10, <2>1 DEF TryAgain, Calls, Idle, Calling
<1>11. ASSUME Overload \/ \E r \in Texts : Parsed(r)
       PROVE  Calling /\ call'.unit = call.unit /\ call' # Idle
  <2>1. Calling /\ call \in Calls
    <3>1. Calling
      BY <1>11 DEF Overload, Parsed
    <3> QED
      BY <1>1, <3>1 DEF Calling, Idle
  <2>2. call'.stage = "answered" /\ call'.unit = call.unit
    BY <1>11, <2>1 DEF Overload, Parsed, Calls
  <2> QED
    BY <2>1, <2>2 DEF Idle
<1>12. CASE CallFails \/ Overload \/ \E r \in Texts : Unparseable(r) \/ Parsed(r)
  BY <1>9, <1>10, <1>11, <1>12 DEF CallFails, Unparseable
<1>13. CASE (\E d \in Documents : Ingest(d)) \/ (\E reg \in Registries : Register(reg))
  BY <1>2, <1>13 DEF Ingest, Register
<1>14. CASE UNCHANGED vars
  BY <1>2, <1>14 DEF vars
<1> QED
  BY <1>3, <1>4, <1>6, <1>7, <1>8, <1>12, <1>13, <1>14 DEF Next

\* A key has one row, which is opened, closed and opened again, under another
\* hash if it was settled, and nothing else happens to it: titles that share a
\* slug write over one another's row, but never close it.
THEOREM IntakeKeepsTheLedger == Spec => []OneRowPerKey /\ LedgerMovesForward
<1>1. Init => RowsFollowCalls
  BY DEF Init, RowsFollowCalls, OneRowPerKey
<1>2. IInv /\ RowsFollowCalls /\ [Next]_vars => RowsFollowCalls'
  BY RowsStep
<1>3. IInv /\ RowsFollowCalls /\ [Next]_vars
        => [/\ \A row \in ledger' \ ledger :
                 \/ row.status = "pending" /\ [row EXCEPT !.status = "done"] \notin ledger
                 \/ /\ row.status \in {"done", "failed"}
                    /\ [row EXCEPT !.status = "pending"] \in ledger
            /\ \A row \in ledger : \E s \in ledger' : s.key = row.key]_vars
  BY RowsStep
<1>4. RowsFollowCalls => OneRowPerKey
  BY DEF RowsFollowCalls
<1> QED
  BY <1>1, <1>2, <1>3, <1>4, IntakeInvariant, PTL DEF Spec, LedgerMovesForward

-----------------------------------------------------------------------------
(* What the theorems of GraphLoad say of these runs.  GraphLoad assumes of *)
(* its constants what is shown here of the units that are built and of the *)
(* replies that are parsed.  Its theorems come as an instance of their     *)
(* module, whose operators are those of GL, as the next lemmas say.        *)

\* Replies decode, and no others and no other units are considered.
InputsFit ==
  /\ Units = UnitsEver /\ Replies = RepliesEver
  /\ \A r \in Texts : DecodesRecords(r)
  /\ None \notin Slugs /\ OtherKind \in NameKinds

GN == INSTANCE KnowledgeGraphProofs WITH Runs <- {Self}, RelTypes <- Types,
                                         Unstorable <- ParsedFrom(Unstorable)

\* What is built and what is parsed is what GraphLoad assumes.
LEMMA AssumptionsMet ==
  ASSUME InputsFit
  PROVE  GN!ValidationAssumption /\ GN!UnitsAssumption /\ GN!RepliesAssumption
<1>1. GN!ValidationAssumption
  BY DEF InputsFit, GN!ValidationAssumption
<1>2. GN!UnitsAssumption
  <2> SUFFICES ASSUME NEW u \in Units
               PROVE  /\ u.relTypes \subseteq Types
                      /\ \A c \in GN!Surface(u) : c.source \in DOMAIN Scheme
    BY DEF GN!UnitsAssumption
  <2>1. PICK d \in Documents, reg \in Registries :
          u = UnitOf(d, reg) /\ Reference \in DOMAIN reg
    BY UnitsAreBuilt DEF InputsFit
  <2>2. u.relTypes \subseteq Types
    BY <2>1 DEF UnitOf
  <2>3. GN!Surface(u) = GL!Surface(u)
    BY DEF GN!Surface, GL!Surface
  <2>4. ASSUME NEW c \in GL!Surface(u)
        PROVE  c.source \in DOMAIN Scheme
    <3>1. \/ c.source = Reference
          \/ \E i \in Indices : Allowed(i, reg) /\ c.source = Configured[i].source
      BY <2>1, <2>4, UnitSurface
    <3>2. c.source \in DOMAIN reg
      BY <2>1, <3>1 DEF Allowed
    <3> QED
      BY <3>2, IntakeAssumption
  <2> QED
    BY <2>2, <2>3, <2>4
<1>3. GN!RepliesAssumption
  <2> SUFFICES ASSUME NEW reply \in Replies
               PROVE
        /\ DOMAIN reply.events \subseteq Nat /\ DOMAIN reply.claims \subseteq Nat
        /\ \A i \in DOMAIN reply.claims :
             LET versions == reply.claims[i].versions
             IN /\ Len(versions) \in Nat /\ DOMAIN versions = 1..Len(versions)
                /\ \A j \in DOMAIN versions : versions[j].label # None
        /\ \A i \in DOMAIN reply.relationships :
             None \notin {reply.relationships[i].from, reply.relationships[i].to}
    BY DEF GN!RepliesAssumption
  <2>1. PICK r \in Texts : reply = ParseExtraction(r)
    BY DEF InputsFit, RepliesEver, ParsedFrom
  <2> QED
    BY <2>1, ParsedRepliesFit DEF InputsFit
<1> QED
  BY <1>1, <1>2, <1>3

\* The two instances have the same validation,
LEMMA SameValidation ==
  ASSUME NEW u, NEW reply, NEW k
  PROVE  GN!Validate(u, reply, k) = GL!Validate(u, reply, k)
BY DEF GN!First, GL!First, GN!Ids, GL!Ids, GN!Surface, GL!Surface,
       GN!RequiredKeys, GL!RequiredKeys, GN!Citeable, GL!Citeable,
       GN!FilterCitations, GL!FilterCitations, GN!MeetsPolicy, GL!MeetsPolicy,
       GN!Resolves, GL!Resolves, GN!MapNames, GL!MapNames, GN!MapEntities,
       GL!MapEntities, GN!KeepsEvent, GL!KeepsEvent, GN!KeptEvents,
       GL!KeptEvents, GN!LinkTargets, GL!LinkTargets, GN!MapEvents,
       GL!MapEvents, GN!MapVersions, GL!MapVersions, GN!KeepsClaim,
       GL!KeepsClaim, GN!MapClaims, GL!MapClaims, GN!Canonical, GL!Canonical,
       GN!Edge, GL!Edge, GN!KeepsEdge, GL!KeepsEdge, GN!MapRelationships,
       GL!MapRelationships, GN!Validate, GL!Validate

\* the same tables after a load,
LEMMA SameLoad == ASSUME NEW g, NEW v PROVE GN!Loaded(g, v) = GL!Loaded(g, v)
BY DEF GN!Ids, GL!Ids, GN!Conflict, GL!Conflict, GN!Insert, GL!Insert,
       GN!Upsert, GL!Upsert, GN!EntityRows, GL!EntityRows, GN!NameRows,
       GL!NameRows, GN!EventRows, GL!EventRows, GN!ParticipantRows,
       GL!ParticipantRows, GN!LinkRows, GL!LinkRows, GN!EventSourceRows,
       GL!EventSourceRows, GN!ClaimRows, GL!ClaimRows, GN!LastOfLabel,
       GL!LastOfLabel, GN!VersionRows, GL!VersionRows, GN!ClaimSourceRows,
       GL!ClaimSourceRows, GN!FirstForLabel, GL!FirstForLabel,
       GN!SourceRowsOf, GL!SourceRowsOf, GN!VersionSourceRows,
       GL!VersionSourceRows, GN!RelationshipRows, GL!RelationshipRows,
       GN!Loaded, GL!Loaded

\* the same constraints,
LEMMA SameConstraints ==
  ASSUME NEW g PROVE GN!ConstraintsHold(g) = GL!ConstraintsHold(g)
BY DEF GN!Ids, GL!Ids, GN!OptionalRef, GL!OptionalRef, GN!ConstraintsHold,
       GL!ConstraintsHold

\* the same ids that a run learns,
LEMMA SameLearning ==
  ASSUME NEW k, NEW v, NEW reply PROVE GN!Learns(k, v, reply) = GL!Learns(k, v, reply)
BY DEF GN!Learns, GL!Learns, GN!Ids, GL!Ids

\* the same records,
LEMMA SameRecords == ASSUME NEW g PROVE GN!Records(g) = GL!Records(g)
BY DEF GN!Records, GL!Records

\* and so the same runs.
LEMMA SameRuns == GL!Spec => GN!Spec
<1>1. GL!Init => GN!Init
  BY DEF GL!Init, GN!Init, GL!EmptyGraph, GN!EmptyGraph, GL!Nothing, GN!Nothing
<1>2. ASSUME NEW p \in {Self}
      PROVE  /\ GL!Begin(p) => GN!Begin(p)
             /\ GL!End(p) => GN!End(p)
             /\ \A u \in Units, reply \in Replies :
                  /\ GL!Persist(p, u, reply) => GN!Persist(p, u, reply)
                  /\ GL!Reject(p, u, reply) => GN!Reject(p, u, reply)
  <2>1. GL!Begin(p) => GN!Begin(p)
    BY DEF GL!Begin, GN!Begin, GL!Ids, GN!Ids
  <2>2. GL!Forget(p) => GN!Forget(p)
    BY DEF GL!Forget, GN!Forget, GL!Nothing, GN!Nothing
  <2>3. ASSUME NEW u \in Units, NEW reply \in Replies
        PROVE  /\ GL!Persist(p, u, reply) => GN!Persist(p, u, reply)
               /\ GL!Reject(p, u, reply) => GN!Reject(p, u, reply)
    <3>1. GL!Persist(p, u, reply) => GN!Persist(p, u, reply)
      BY SameValidation, SameLoad, SameConstraints, SameLearning, SameRecords
      DEF GL!Persist, GN!Persist
    <3>2. GL!Reject(p, u, reply) => GN!Reject(p, u, reply)
      BY <2>2, SameValidation, SameLoad, SameConstraints DEF GL!Reject, GN!Reject
    <3> QED
      BY <3>1, <3>2
  <2> QED
    BY <2>1, <2>2, <2>3 DEF GL!End, GN!End
<1>3. GL!Next => GN!Next
  BY <1>2 DEF GL!Next, GN!Next
<1> QED
  BY <1>1, <1>3, PTL DEF GL!Spec, GN!Spec, GL!vars, GN!vars

\* From a page to the graph, whatever the model replies: every event, claim and
\* version is cited as the policy of the unit that filed it demands.
THEOREM IntakeCites == ASSUME InputsFit PROVE Spec => []GL!CitedAsDemanded
<1>1. GN!ValidationAssumption
  BY AssumptionsMet
<1>2. GN!UnitsAssumption
  BY AssumptionsMet
<1>3. GN!RepliesAssumption
  BY AssumptionsMet
<1>4. GN!CitedAsDemanded => GL!CitedAsDemanded
  BY SameRecords DEF GN!CitedAsDemanded, GL!CitedAsDemanded, GN!MeetsPolicy,
                     GL!MeetsPolicy, GN!Citations, GL!Citations
<1> QED
  BY <1>1, <1>2, <1>3, <1>4, GN!CiteOrDrop, RunsAreGraphLoads, SameRuns, PTL

\* With a manifest that gives what the sources require, the integrity checks
\* find nothing in a graph that only the runs have written.
THEOREM IntakeChecksPass ==
  ASSUME InputsFit, ManifestFits PROVE Spec => []GL!IntegrityChecksPass
<1>1. GN!ValidationAssumption
  BY AssumptionsMet
<1>2. GN!UnitsAssumption
  BY AssumptionsMet
<1>3. GN!RepliesAssumption
  BY AssumptionsMet
<1>4. InvalidLocatorsAreOffered => GL!InvalidLocators(graph) = {}
  BY DEF InvalidLocatorsAreOffered, ManifestFits
<1>5. GN!InvalidLocators(graph) = GL!InvalidLocators(graph)
  BY DEF GN!InvalidLocators, GL!InvalidLocators
<1>6. /\ InvalidLocatorsAreOffered
      /\ GN!InvalidLocators(graph) = {} => GN!IntegrityChecksPass
      => GL!IntegrityChecksPass
  BY <1>4, <1>5
  DEF GN!IntegrityChecksPass, GL!IntegrityChecksPass, GN!ClaimsWithoutSources,
      GL!ClaimsWithoutSources, GN!EventsWithoutSources, GL!EventsWithoutSources,
      GN!DanglingReferences, GL!DanglingReferences, GN!Ids, GL!Ids, GN!OptionalRef,
      GL!OptionalRef, GN!ContestedUnregistered, GL!ContestedUnregistered,
      GN!VersionsWithoutCitations, GL!VersionsWithoutCitations
<1> QED
  BY <1>1, <1>2, <1>3, <1>6, GN!OtherChecksPass, LocatorsComeFromOffers,
     RunsAreGraphLoads, SameRuns, PTL

\* Whatever the model replies, the first statement of a record stays, and its
\* citations stay with it.
THEOREM IntakeKeepsTheGraph ==
  ASSUME InputsFit PROVE Spec => GL!ImplementsKnowledgeGraph
<1>1. GN!ValidationAssumption
  BY AssumptionsMet
<1>2. GN!UnitsAssumption
  BY AssumptionsMet
<1>3. GN!RepliesAssumption
  BY AssumptionsMet
<1>4. GN!ImplementsKnowledgeGraph => GL!ImplementsKnowledgeGraph
  <2>1. /\ GN!KG!Init => GL!KG!Init
        /\ [GN!KG!Load]_<<GN!StatementsOf(graph), GN!CitationsOf(graph)>>
             => [GL!KG!Load]_<<GL!StatementsOf(graph), GL!CitationsOf(graph)>>
    BY DEF GN!KG!Init, GL!KG!Init, GN!KG!Load, GL!KG!Load, GN!StatementsOf,
           GL!StatementsOf, GN!CitationsOf, GL!CitationsOf
  <2> QED
    BY <2>1, PTL DEF GN!ImplementsKnowledgeGraph, GL!ImplementsKnowledgeGraph,
                     GN!KG!Spec, GL!KG!Spec
<1> QED
  BY <1>1, <1>2, <1>3, <1>4, GN!RunsKeepTheGraph, RunsAreGraphLoads, SameRuns, PTL

\* No run begins while another is under way.
LEMMA RunsNeverOverlap == Spec => []~overlapped
<1>1. Init => ~overlapped
  BY DEF Init, GL!Init
<1>2. IInv /\ ~overlapped /\ [Next]_vars => ~overlapped'
  <2> SUFFICES ASSUME IInv, ~overlapped, [Next]_vars PROVE ~overlapped'
    OBVIOUS
  <2>1. CASE Start
    <3>1. Self \notin running /\ (overlapped' <=> (overlapped \/ running # {}))
      BY <2>1 DEF Start, GL!Begin
    <3>2. running \subseteq {Self}
      BY DEF IInv, RunHasUnits
    <3> QED
      BY <3>1, <3>2
  <2>2. ASSUME UNCHANGED overlapped PROVE ~overlapped'
    BY <2>2
  <2>3. CASE PersistDone \/ Reject \/ Stop
    BY <2>3 DEF PersistDone, Reject, Stop, GL!Persist, GL!Reject, GL!End, GL!Forget
  <2>4. CASE CallFails \/ Overload \/ PersistFailed
    BY <2>4 DEF CallFails, Overload, PersistFailed, Calling, graphVars
  <2>5. ASSUME NEW u \in work, Submit(u) PROVE UNCHANGED overlapped
    BY <2>5 DEF Submit, graphVars
  <2>6. ASSUME NEW r \in Texts, Unparseable(r) \/ Parsed(r) PROVE UNCHANGED overlapped
    BY <2>6 DEF Unparseable, Parsed, Calling, graphVars
  <2>7. ASSUME NEW d \in Documents, Ingest(d) PROVE UNCHANGED overlapped
    BY <2>7 DEF Ingest, graphVars
  <2>8. ASSUME NEW reg \in Registries, Register(reg) PROVE UNCHANGED overlapped
    BY <2>8 DEF Register, graphVars
  <2>9. CASE UNCHANGED vars
    BY <2>9 DEF vars, graphVars
  <2> QED
    BY <2>1, <2>3, <2>4, <2>5, <2>6, <2>7, <2>8, <2>9 DEF Next
<1> QED
  BY <1>1, <1>2, IntakeInvariant, PTL DEF Spec

\* Entries of the register are about claims that are contested and have
\* versions, without exception.
RegisterIsContested ==
  \A id \in graph.contradictions :
    /\ \E c \in graph.claims : c.id = id /\ c.confidence \in Contradictory
    /\ \E r \in graph.versions : r.claim = id

\* What is pinned to a version was cited for the statement it has, by a reply of
\* the model, unless that reply gives the claim two versions of one label.
PinnedWasCited ==
  \A r \in graph.versions : \A s \in graph.claimSources :
    s.claim = r.claim /\ s.version = r.label =>
      \E text \in Texts :
        /\ Readable(text)
        /\ LET claims == ParseExtraction(text).claims
           IN \E i \in DOMAIN claims :
                /\ claims[i].id = r.claim
                /\ \/ GL!RepeatsLabel(claims[i])
                   \/ \E j \in DOMAIN claims[i].versions :
                        LET version == claims[i].versions[j]
                        IN /\ version.label = r.label
                           /\ version.statement = r.statement
                           /\ \E k \in DOMAIN version.sources :
                                version.sources[k].source = s.source

\* Runs that follow one another leave no entry of the register behind whose
\* claim is not contested, and no citation pinned to a statement that it was
\* not given for (RegisteredIsContested and TraditionsStaySeparable, of which
\* nothing is left to overlapping runs).
THEOREM IntakeKeepsTraditions ==
  ASSUME InputsFit PROVE Spec => [](RegisterIsContested /\ PinnedWasCited)
<1>1. GN!ValidationAssumption
  BY AssumptionsMet
<1>2. GN!UnitsAssumption
  BY AssumptionsMet
<1>3. GN!RepliesAssumption
  BY AssumptionsMet
<1>4. ~overlapped /\ GN!RegisteredIsContested => RegisterIsContested
  BY DEF GN!RegisteredIsContested, RegisterIsContested
<1>5. ~overlapped /\ GN!TraditionsStaySeparable => PinnedWasCited
  <2> SUFFICES ASSUME ~overlapped, GN!TraditionsStaySeparable,
                      NEW r \in graph.versions, NEW s \in graph.claimSources,
                      s.claim = r.claim, s.version = r.label
               PROVE  \E text \in Texts :
                        /\ Readable(text)
                        /\ LET claims == ParseExtraction(text).claims
                           IN \E i \in DOMAIN claims :
                                /\ claims[i].id = r.claim
                                /\ \/ GL!RepeatsLabel(claims[i])
                                   \/ \E j \in DOMAIN claims[i].versions :
                                        LET version == claims[i].versions[j]
                                        IN /\ version.label = r.label
                                           /\ version.statement = r.statement
                                           /\ \E k \in DOMAIN version.sources :
                                                version.sources[k].source = s.source
    BY DEF PinnedWasCited
  <2>1. PICK reply \in Replies : \E i \in DOMAIN reply.claims :
          /\ reply.claims[i].id = r.claim
          /\ \/ GL!RepeatsLabel(reply.claims[i])
             \/ \E j \in DOMAIN reply.claims[i].versions :
                  /\ reply.claims[i].versions[j].label = r.label
                  /\ reply.claims[i].versions[j].statement = r.statement
                  /\ \E k \in DOMAIN reply.claims[i].versions[j].sources :
                       reply.claims[i].versions[j].sources[k].source = s.source
    BY DEF GN!TraditionsStaySeparable, GN!RepeatsLabel, GL!RepeatsLabel
  <2>2. PICK text \in Texts : Readable(text) /\ reply = ParseExtraction(text)
    BY DEF InputsFit, RepliesEver, ParsedFrom
  <2> QED
    BY <2>1, <2>2
<1> QED
  BY <1>1, <1>2, <1>3, <1>4, <1>5, GN!RegisterIsOfContested, GN!TraditionsSeparable,
     RunsNeverOverlap, RunsAreGraphLoads, SameRuns, PTL

\* When a run ends over a constraint of the tables, the reply has an event that
\* is its own cause or consequence or a participant without id; when over a
\* text they cannot hold, the model was asked and sent one.
RejectionsAreExplained ==
  [][Reject => \/ \E reply \in call.wire : \/ GL!Untakeable(reply)
                                           \/ reply \in ParsedFrom(Unstorable)
               \/ call.replies \cap Unstorable # {}]_vars

\* Of the constraints of the tables no other ends a run: not that of an entity,
\* a version, an edge or a source that is not there, whatever the model
\* replies and the run knows.  What ends one beside constraints is a text:
\* of the reply, or of what an error of the endpoint says, which is cut for
\* the row of the unit and is part of Stop (extract/runner.go:445 and :466,
\* and extract/validate.go:428-430).
THEOREM ConstraintsEndFew == ASSUME InputsFit PROVE Spec => RejectionsAreExplained
<1>1. GN!ValidationAssumption
  BY AssumptionsMet
<1>2. GN!UnitsAssumption
  BY AssumptionsMet
<1>3. GN!RepliesAssumption
  BY AssumptionsMet
<1>4. IInv /\ GN!KeptIsLoadable /\ [Next]_vars
        => [Reject => \/ \E reply \in call.wire : \/ GL!Untakeable(reply)
                                                  \/ reply \in ParsedFrom(Unstorable)
                      \/ call.replies \cap Unstorable # {}]_vars
  <2> SUFFICES ASSUME IInv, GN!KeptIsLoadable, Reject,
                      call.replies \cap Unstorable = {}
               PROVE  \E reply \in call.wire : \/ GL!Untakeable(reply)
                                               \/ reply \in ParsedFrom(Unstorable)
    OBVIOUS
  <2>1. PICK reply \in call.wire : GL!Reject(Self, call.unit, reply)
    BY DEF Reject
  <2>2. call \in Calls
    BY DEF Reject, IInv, RunHasUnits, Idle
  <2>3. call.unit \in Units /\ reply \in Replies
    BY <2>2, IntakeAssumption DEF Calls
  <2>4. CASE ~GL!ConstraintsHold(GL!Loaded(graph, GL!Validate(call.unit, reply, known[Self])))
    <3>1. /\ Self \in running
          /\ ~GN!ConstraintsHold(GN!Loaded(graph, GN!Validate(call.unit, reply, known[Self])))
      BY <2>1, <2>4, SameValidation, SameLoad, SameConstraints DEF GL!Reject
    <3>2. GN!Untakeable(reply)
      BY <2>3, <3>1 DEF GN!KeptIsLoadable
    <3> QED
      BY <3>2 DEF GN!Untakeable, GL!Untakeable
  <2>5. CASE reply \in ParsedFrom(Unstorable)
    BY <2>5
  <2> QED
    BY <2>1, <2>4, <2>5 DEF GL!Reject
<1> QED
  BY <1>1, <1>2, <1>3, <1>4, IntakeInvariant, GN!KeptLoads, RunsAreGraphLoads,
     SameRuns, PTL DEF Spec, RejectionsAreExplained
=============================================================================

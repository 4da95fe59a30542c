------------------------- MODULE KnowledgeGraphProofs -------------------------
(***************************************************************************)
(* Theorems of GraphLoad about what a load leaves of the graph it finds:   *)
(* the runs implement KnowledgeGraph, a run that is alone keeps the        *)
(* register to contested claims and what is pinned to a version with the   *)
(* statement it was cited for, and loading a reply is idempotent.          *)
(***************************************************************************)
EXTENDS GraphLoadProofs

-----------------------------------------------------------------------------
(* The claims that are kept of a reply.                                    *)

\* A claim that is kept is one of the reply that the run did not know.
LEMMA KeptIsNew ==
  ASSUME NEW u, NEW reply, NEW payload, NEW k,
         NEW c \in MapClaims(u, reply, payload, k)
  PROVE  /\ c.id \notin k.claims
         /\ \E i \in DOMAIN reply.claims :
              /\ c.id = reply.claims[i].id
              /\ c.versions = MapVersions(u, reply.claims[i])
<1>1. PICK w \in First(reply.claims, {i \in DOMAIN reply.claims :
                          KeepsClaim(u, reply.claims[i], payload, k)}, {"id"}) :
        c.id = w.id /\ c.versions = MapVersions(u, w)
  BY DEF MapClaims
<1>2. PICK i \in {i \in DOMAIN reply.claims :
                    KeepsClaim(u, reply.claims[i], payload, k)} : w = reply.claims[i]
  BY FirstIsGood
<1> QED
  BY <1>1, <1>2 DEF KeepsClaim

\* One claim is kept of each id.
LEMMA KeptOnce ==
  ASSUME NEW u, NEW reply \in Replies, NEW payload, NEW k,
         NEW c \in MapClaims(u, reply, payload, k),
         NEW d \in MapClaims(u, reply, payload, k), c.id = d.id
  PROVE  c = d
<1> DEFINE list == reply.claims
           good == {i \in DOMAIN list : KeepsClaim(u, list[i], payload, k)}
           Kept(w) == [id |-> w.id, statement |-> w.statement,
                       confidence |-> w.confidence, subject |-> w.subject,
                       object |-> w.object,
                       value |-> IF w.object = None THEN w.value ELSE None,
                       versions |-> MapVersions(u, w),
                       sources |-> FilterCitations(u, w.sources)]
<1>1. MapClaims(u, reply, payload, k) = {Kept(w) : w \in First(list, good, {"id"})}
  BY DEF MapClaims
<1>2. good \subseteq Nat
  BY RepliesAssumption
<1> HIDE DEF good, list
<1>3. PICK w \in First(list, good, {"id"}) : c = Kept(w)
  BY <1>1
<1>4. PICK x \in First(list, good, {"id"}) : d = Kept(x)
  BY <1>1
<1>5. w.id = x.id
  BY <1>3, <1>4
<1> HIDE DEF Kept
<1>6. PICK i \in good : w = list[i] /\ \A j \in good : j < i => list[j].id # list[i].id
  BY DEF First
<1>7. PICK j \in good : x = list[j] /\ \A l \in good : l < j => list[l].id # list[j].id
  BY DEF First
<1>8. i = j
  BY <1>2, <1>5, <1>6, <1>7
<1> QED
  BY <1>3, <1>4, <1>6, <1>7, <1>8

\* A version that is kept has the label and the statement it came with, and
\* cites sources it came with.
LEMMA VersionAsGiven ==
  ASSUME NEW u, NEW w, NEW i \in DOMAIN MapVersions(u, w)
  PROVE  /\ i \in DOMAIN w.versions
         /\ MapVersions(u, w)[i].label = w.versions[i].label
         /\ MapVersions(u, w)[i].statement = w.versions[i].statement
         /\ \A s \in MapVersions(u, w)[i].sources :
              \E j \in DOMAIN w.versions[i].sources :
                w.versions[i].sources[j].source = s.source
<1> DEFINE given == w.versions[i]
           kept == [label |-> given.label, statement |-> given.statement,
                    sources |-> FilterCitations(u, given.sources)]
<1>1. i \in DOMAIN w.versions /\ MapVersions(u, w)[i] = kept
  BY DEF MapVersions
<1>2. \A s \in FilterCitations(u, given.sources) :
        \E j \in DOMAIN given.sources : s = given.sources[j]
  BY FirstIsGood DEF FilterCitations
<1>3. /\ kept.label = given.label /\ kept.statement = given.statement
      /\ kept.sources = FilterCitations(u, given.sources)
  OBVIOUS
<1> HIDE DEF kept, given
<1>4. \A s \in kept.sources : \E j \in DOMAIN given.sources : given.sources[j].source = s.source
  BY <1>2, <1>3
<1> QED
  BY <1>1, <1>3, <1>4 DEF given

\* The versions that are kept have labels.
LEMMA LabelsAreNamed ==
  ASSUME NEW u \in Units, NEW reply \in Replies, NEW k,
         NEW r \in VersionRows(Validate(u, reply, k))
  PROVE  r.label # None
<1> DEFINE v == Validate(u, reply, k)
<1>1. v.claims = MapClaims(u, reply, Ids(v.entities), k)
  BY DEF Validate
<1> HIDE DEF v
<1>2. PICK c \in v.claims : \E i \in LastOfLabel(c) : r.label = c.versions[i].label
  BY DEF VersionRows, v
<1>3. PICK i \in DOMAIN c.versions : r.label = c.versions[i].label
  BY <1>2 DEF LastOfLabel
<1>4. PICK m \in DOMAIN reply.claims : c.versions = MapVersions(u, reply.claims[m])
  BY <1>1, KeptIsNew
<1>5. PICK w : w = reply.claims[m]
  OBVIOUS
<1>6. i \in DOMAIN w.versions /\ r.label = w.versions[i].label
  BY <1>3, <1>4, <1>5, VersionAsGiven
<1>7. \A j \in DOMAIN w.versions : w.versions[j].label # None
  BY <1>5, RepliesAssumption
<1> QED
  BY <1>6, <1>7

-----------------------------------------------------------------------------
(* What a load keeps and adds.                                             *)

\* A version stays under its claim and label, whatever a load brings.
LEMMA VersionsStay ==
  ASSUME NEW g, NEW v, NEW r \in g.versions \cup VersionRows(v)
  PROVE  \E t \in Loaded(g, v).versions : t.claim = r.claim /\ t.label = r.label
<1> DEFINE key == {"claim", "label"}
<1>1. Loaded(g, v).versions = Upsert(g.versions, VersionRows(v), key)
  BY DEF Loaded
<1> HIDE DEF key
<1>2. PICK t \in Upsert(g.versions, VersionRows(v), key) : \A f \in key : t[f] = r[f]
  BY UpsertCovers
<1>3. t.claim = r.claim /\ t.label = r.label
  BY <1>2 DEF key
<1> QED
  BY <1>1, <1>3

\* A load adds no versions but those it brings.
LEMMA VersionsAdded ==
  ASSUME NEW g, NEW v
  PROVE  Loaded(g, v).versions \subseteq g.versions \cup VersionRows(v)
BY DEF Loaded, Upsert

\* A load of validated records leaves all versions labelled.
LEMMA VersionsNamed ==
  ASSUME NEW u \in Units, NEW reply \in Replies, NEW k, NEW g,
         \A r \in g.versions : r.label # None
  PROVE  \A r \in Loaded(g, Validate(u, reply, k)).versions : r.label # None
BY VersionsAdded, LabelsAreNamed

\* A row that is inserted is in conflict with none of those there were.
LEMMA InsertedIsNew ==
  ASSUME NEW table, NEW rows, NEW key, NEW r \in Insert(table, rows, key),
         r \notin table, NEW t \in table
  PROVE  \E f \in key : t[f] # r[f]
BY DEF Insert, Conflict

-----------------------------------------------------------------------------
(* Runs implement KnowledgeGraph.                                          *)

\* A record of the graph is what a statement is about.
LEMMA RecordsAreStated ==
  ASSUME NEW g
  PROVE  \A x : x \in Records(g) <=> \E s \in StatementsOf(g) : s.record = x
<1>1. ASSUME NEW x \in Records(g) PROVE \E s \in StatementsOf(g) : s.record = x
  <2>1. CASE \E e \in g.events : x = <<"event", e.id, None>>
    <3>1. PICK e \in g.events : x = <<"event", e.id, None>>
      BY <2>1
    <3> DEFINE s == [record |-> <<"event", e.id, None>>, content |-> <<e.text, e.location>>]
    <3>2. s \in StatementsOf(g) /\ s.record = x
      BY <3>1 DEF StatementsOf
    <3> QED
      BY <3>2
  <2>2. CASE \E c \in g.claims : x = <<"claim", c.id, None>>
    <3>1. PICK c \in g.claims : x = <<"claim", c.id, None>>
      BY <2>2
    <3> DEFINE s == [record |-> <<"claim", c.id, None>>,
                     content |-> <<c.statement, c.confidence, c.subject, c.object, c.value>>]
    <3>2. s \in StatementsOf(g) /\ s.record = x
      BY <3>1 DEF StatementsOf
    <3> QED
      BY <3>2
  <2>3. CASE \E r \in g.versions : x = <<"claim", r.claim, r.label>>
    <3>1. PICK r \in g.versions : x = <<"claim", r.claim, r.label>>
      BY <2>3
    <3> DEFINE s == [record |-> <<"claim", r.claim, r.label>>, content |-> <<>>]
    <3>2. s \in StatementsOf(g) /\ s.record = x
      BY <3>1 DEF StatementsOf
    <3> QED
      BY <3>2
  <2> QED
    BY <2>1, <2>2, <2>3 DEF Records
<1>2. ASSUME NEW s \in StatementsOf(g) PROVE s.record \in Records(g)
  BY DEF StatementsOf, Records
<1> QED
  BY <1>1, <1>2

\* A citation is one of a record.
LEMMA CitationsAreOfRecords ==
  ASSUME NEW g, ConstraintsHold(g), NEW c \in CitationsOf(g)
  PROVE  c.record \in Records(g)
<1>1. CASE \E s \in g.eventSources : c.record = <<"event", s.event, None>>
  <2>1. PICK s \in g.eventSources : c.record = <<"event", s.event, None>>
    BY <1>1
  <2>2. PICK e \in g.events : s.event = e.id
    BY <2>1 DEF ConstraintsHold, Ids
  <2> QED
    BY <2>1, <2>2 DEF Records
<1>2. CASE \E s \in g.claimSources : c.record = <<"claim", s.claim, s.version>>
  <2>1. PICK s \in g.claimSources : c.record = <<"claim", s.claim, s.version>>
    BY <1>2
  <2>2. s.claim \in Ids(g.claims)
    BY <2>1 DEF ConstraintsHold
  <2>3. CASE s.version = None
    <3>1. PICK d \in g.claims : s.claim = d.id
      BY <2>2 DEF Ids
    <3> QED
      BY <2>1, <2>3, <3>1 DEF Records
  <2>4. CASE s.version # None
    <3>1. PICK r \in g.versions : r.claim = s.claim /\ r.label = s.version
      BY <2>1, <2>4 DEF ConstraintsHold
    <3> QED
      BY <2>1, <3>1 DEF Records
  <2> QED
    BY <2>3, <2>4
<1> QED
  BY <1>1, <1>2 DEF CitationsOf

\* Those of a record are the rows that are pinned to it.
LEMMA CitationsArePinned ==
  ASSUME NEW g, NEW x \in Records(g), Citations(g, x) # {}
  PROVE  \E c \in CitationsOf(g) : c.record = x
<1>1. CASE \E e \in g.events : x = <<"event", e.id, None>>
  <2>1. PICK s \in g.eventSources : s.event = x[2] /\ x = <<"event", s.event, None>>
    BY <1>1 DEF Citations
  <2> DEFINE c == [record |-> <<"event", s.event, None>>, source |-> s.source,
                   keys |-> s.keys]
  <2>2. c \in CitationsOf(g) /\ c.record = x
    BY <2>1 DEF CitationsOf
  <2> QED
    BY <2>2
<1>2. CASE \E id, label : x = <<"claim", id, label>>
  <2>1. PICK s \in g.claimSources : x = <<"claim", s.claim, s.version>>
    BY <1>2 DEF Citations
  <2> DEFINE c == [record |-> <<"claim", s.claim, s.version>>, source |-> s.source,
                   keys |-> s.keys]
  <2>2. c \in CitationsOf(g) /\ c.record = x
    BY <2>1 DEF CitationsOf
  <2> QED
    BY <2>2
<1> QED
  BY <1>1, <1>2 DEF Records

LabelsNamed == \A r \in graph.versions : r.label # None

\* What a record states is kept, and what states a new record is of none there
\* was.
LEMMA StatementsStay ==
  ASSUME NEW g, NEW v
  PROVE  StatementsOf(g) \subseteq StatementsOf(Loaded(g, v))
<1>1. PICK h : h = Loaded(g, v)
  OBVIOUS
<1>2. g.events \subseteq h.events /\ g.claims \subseteq h.claims
  BY <1>1, InsertKeeps DEF Loaded
<1>3. \A r \in g.versions : \E t \in h.versions : t.claim = r.claim /\ t.label = r.label
  BY <1>1, VersionsStay
<1>4. StatementsOf(g) \subseteq StatementsOf(h)
  <2> SUFFICES ASSUME NEW s \in StatementsOf(g) PROVE s \in StatementsOf(h)
    OBVIOUS
  <2>1. CASE \E e \in g.events :
               s = [record |-> <<"event", e.id, None>>, content |-> <<e.text, e.location>>]
    BY <1>2, <2>1, Zenon DEF StatementsOf
  <2>2. CASE \E c \in g.claims :
               s = [record |-> <<"claim", c.id, None>>,
                    content |-> <<c.statement, c.confidence, c.subject, c.object, c.value>>]
    BY <1>2, <2>2, Zenon DEF StatementsOf
  <2>3. CASE \E r \in g.versions :
               s = [record |-> <<"claim", r.claim, r.label>>, content |-> <<>>]
    BY <1>3, <2>3 DEF StatementsOf
  <2> QED
    BY <2>1, <2>2, <2>3, Zenon DEF StatementsOf
<1> QED
  BY <1>1, <1>4

\* A statement is of an event, a claim or a version.
LEMMA StatementOf ==
  ASSUME NEW g, NEW t \in StatementsOf(g)
  PROVE  \/ \E e \in g.events : t.record = <<"event", e.id, None>>
         \/ \E c \in g.claims : t.record = <<"claim", c.id, None>>
         \/ \E r \in g.versions : /\ t.record = <<"claim", r.claim, r.label>>
                                  /\ t = [record |-> t.record, content |-> <<>>]
BY DEF StatementsOf

\* A citation is of an event or of what a claim states.
LEMMA CitationOf ==
  ASSUME NEW g, NEW d \in CitationsOf(g)
  PROVE  \/ \E t \in g.eventSources :
              d.record = <<"event", t.event, None>> /\ d.source = t.source
         \/ \E t \in g.claimSources :
              d.record = <<"claim", t.claim, t.version>> /\ d.source = t.source
BY DEF CitationsOf

\* A statement that a load adds is about a record that had none.
LEMMA NewStatements ==
  ASSUME NEW g, NEW v,
         \A r \in g.versions \cup Loaded(g, v).versions : r.label # None,
         NEW s \in StatementsOf(Loaded(g, v)), s \notin StatementsOf(g),
         NEW t \in StatementsOf(g)
  PROVE  t.record # s.record
<1>1. PICK h : h = Loaded(g, v)
  OBVIOUS
<1>2. /\ \A e \in h.events : e \in g.events \/ \A d \in g.events : d.id # e.id
      /\ \A c \in h.claims : c \in g.claims \/ \A d \in g.claims : d.id # c.id
  BY <1>1, InsertedIsNew DEF Loaded
<1> SUFFICES ASSUME t.record = s.record PROVE FALSE
  OBVIOUS
<1>3. CASE \E e \in h.events :
             s = [record |-> <<"event", e.id, None>>, content |-> <<e.text, e.location>>]
  <2>1. PICK e \in h.events :
          s = [record |-> <<"event", e.id, None>>, content |-> <<e.text, e.location>>]
    BY <1>3
  <2>2. PICK d \in g.events : t.record = <<"event", d.id, None>>
    <3>1. t.record = <<"event", e.id, None>>
      BY <2>1
    <3> QED
      BY <3>1, StatementOf
  <2>3. d.id = e.id
    BY <2>1, <2>2
  <2>4. e \in g.events
    BY <1>2, <2>3
  <2> QED
    BY <2>1, <2>4, Zenon DEF StatementsOf
<1>4. CASE \E c \in h.claims :
             s = [record |-> <<"claim", c.id, None>>,
                  content |-> <<c.statement, c.confidence, c.subject, c.object, c.value>>]
  <2>1. PICK c \in h.claims :
          s = [record |-> <<"claim", c.id, None>>,
               content |-> <<c.statement, c.confidence, c.subject, c.object, c.value>>]
    BY <1>4
  <2>2. PICK d \in g.claims : t.record = <<"claim", d.id, None>>
    <3>1. t.record = <<"claim", c.id, None>>
      BY <2>1
    <3>2. \A r \in g.versions : t.record # <<"claim", r.claim, r.label>>
      BY <3>1
    <3> QED
      BY <3>1, <3>2, StatementOf
  <2>3. d.id = c.id
    BY <2>1, <2>2
  <2>4. c \in g.claims
    BY <1>2, <2>3
  <2> QED
    BY <2>1, <2>4, Zenon DEF StatementsOf
<1>5. CASE \E r \in h.versions :
             s = [record |-> <<"claim", r.claim, r.label>>, content |-> <<>>]
  <2>1. PICK r \in h.versions :
          s = [record |-> <<"claim", r.claim, r.label>>, content |-> <<>>]
    BY <1>5
  <2>2. r.label # None
    BY <1>1
  <2>3. t.record = <<"claim", r.claim, r.label>>
    BY <2>1
  <2>4. t = [record |-> t.record, content |-> <<>>]
    <3>1. /\ \A e \in g.events : t.record # <<"event", e.id, None>>
          /\ \A c \in g.claims : t.record # <<"claim", c.id, None>>
      BY <2>2, <2>3
    <3> QED
      BY <3>1, StatementOf
  <2> QED
    BY <2>1, <2>3, <2>4
<1> QED
  BY <1>1, <1>3, <1>4, <1>5, Zenon DEF StatementsOf

\* Citations stay.
LEMMA CitationsOfStay ==
  ASSUME NEW g, NEW v
  PROVE  CitationsOf(g) \subseteq CitationsOf(Loaded(g, v))
<1>1. /\ g.eventSources \subseteq Loaded(g, v).eventSources
      /\ g.claimSources \subseteq Loaded(g, v).claimSources
  BY InsertKeeps DEF Loaded
<1> QED
  BY <1>1, Zenon DEF CitationsOf

\* A citation that a load adds is of a source its record did not cite.
LEMMA NewCitations ==
  ASSUME NEW g, NEW v, NEW c \in CitationsOf(Loaded(g, v)), c \notin CitationsOf(g),
         NEW d \in CitationsOf(g)
  PROVE  ~(d.record = c.record /\ d.source = c.source)
<1>1. PICK h : h = Loaded(g, v)
  OBVIOUS
<1>2. \A s \in h.eventSources :
        s \in g.eventSources
          \/ \A t \in g.eventSources : t.event # s.event \/ t.source # s.source
  BY <1>1, InsertedIsNew DEF Loaded
<1>3. \A s \in h.claimSources :
        s \in g.claimSources
          \/ \A t \in g.claimSources :
               t.claim # s.claim \/ t.version # s.version \/ t.source # s.source
  <2>1. PICK rows, key : /\ h.claimSources = Insert(g.claimSources, rows, key)
                         /\ key = {"claim", "version", "source"}
    BY <1>1 DEF Loaded
  <2>2. ASSUME NEW s \in h.claimSources, s \notin g.claimSources, NEW t \in g.claimSources
        PROVE  t.claim # s.claim \/ t.version # s.version \/ t.source # s.source
    <3>1. PICK f \in key : t[f] # s[f]
      BY <2>1, <2>2, InsertedIsNew
    <3> QED
      BY <2>1, <3>1
  <2> QED
    BY <2>2
<1> SUFFICES ASSUME d.record = c.record, d.source = c.source PROVE FALSE
  OBVIOUS
<1>4. CASE \E s \in h.eventSources :
             c = [record |-> <<"event", s.event, None>>, source |-> s.source, keys |-> s.keys]
  <2>1. PICK s \in h.eventSources :
          c = [record |-> <<"event", s.event, None>>, source |-> s.source, keys |-> s.keys]
    BY <1>4
  <2>2. PICK t \in g.eventSources :
          d.record = <<"event", t.event, None>> /\ d.source = t.source
    <3>1. d.record = <<"event", s.event, None>>
      BY <2>1
    <3>2. \A t : d.record # <<"claim", t.claim, t.version>>
      BY <3>1
    <3> QED
      BY <3>2, CitationOf
  <2>3. t.event = s.event /\ t.source = s.source
    BY <2>1, <2>2
  <2>4. s \in g.eventSources
    BY <1>2, <2>3
  <2> QED
    BY <2>1, <2>4, Zenon DEF CitationsOf
<1>5. CASE \E s \in h.claimSources :
             c = [record |-> <<"claim", s.claim, s.version>>, source |-> s.source,
                  keys |-> s.keys]
  <2>1. PICK s \in h.claimSources :
          c = [record |-> <<"claim", s.claim, s.version>>, source |-> s.source,
               keys |-> s.keys]
    BY <1>5
  <2>2. PICK t \in g.claimSources :
          d.record = <<"claim", t.claim, t.version>> /\ d.source = t.source
    <3>1. d.record = <<"claim", s.claim, s.version>>
      BY <2>1
    <3>2. \A t : d.record # <<"event", t.event, None>>
      BY <3>1
    <3> QED
      BY <3>2, CitationOf
  <2>3. t.claim = s.claim /\ t.version = s.version /\ t.source = s.source
    BY <2>1, <2>2
  <2>4. s \in g.claimSources
    BY <1>3, <2>3
  <2> QED
    BY <2>1, <2>4, Zenon DEF CitationsOf
<1> QED
  BY <1>1, <1>4, <1>5, Zenon DEF CitationsOf

\* A load of one unit is a load of KnowledgeGraph.
LEMMA PersistImplementsLoad ==
  ASSUME IInv, LabelsNamed, IInv', LabelsNamed',
         NEW p \in Runs, NEW u \in Units, NEW reply \in Replies, Persist(p, u, reply)
  PROVE  KG!Load
<1>1. PICK g, v, k : /\ g = graph /\ k = known[p] /\ v = Validate(u, reply, k)
                     /\ graph' = Loaded(g, v)
  BY DEF Persist
<1>2. PICK h : h = Loaded(g, v)
  OBVIOUS
<1>3. ConstraintsHold(g) /\ ConstraintsHold(h)
  BY <1>1, <1>2 DEF IInv
<1>4. \A r \in g.versions \cup h.versions : r.label # None
  BY <1>1, <1>2 DEF LabelsNamed
<1>5. /\ StatementsOf(g) \subseteq StatementsOf(h)
      /\ CitationsOf(g) \subseteq CitationsOf(h)
  BY <1>2, StatementsStay, CitationsOfStay
<1>6. ASSUME NEW s \in StatementsOf(h) \ StatementsOf(g)
      PROVE  /\ \A t \in StatementsOf(g) : t.record # s.record
             /\ \E c \in CitationsOf(h) \ CitationsOf(g) : c.record = s.record
  <2>1. \A t \in StatementsOf(g) : t.record # s.record
    BY <1>2, <1>4, NewStatements
  <2>2. s.record \in Records(h) \ Records(g)
    BY <2>1, RecordsAreStated
  <2>3. MeetsPolicy(u, Citations(h, s.record))
    BY <1>1, <1>2, <2>2, NewIsCited
  <2>4. PICK c \in CitationsOf(h) : c.record = s.record
    BY <2>2, <2>3, CitationsArePinned DEF MeetsPolicy
  <2>5. c \notin CitationsOf(g)
    BY <1>3, <2>2, <2>4, CitationsAreOfRecords
  <2> QED
    BY <2>1, <2>4, <2>5
<1>7. ASSUME NEW c \in CitationsOf(h) \ CitationsOf(g)
      PROVE  /\ \A d \in CitationsOf(g) : ~(d.record = c.record /\ d.source = c.source)
             /\ \E s \in StatementsOf(h) : s.record = c.record
  BY <1>2, <1>3, NewCitations, CitationsAreOfRecords, RecordsAreStated
<1> QED
  BY <1>1, <1>2, <1>5, <1>6, <1>7 DEF KG!Load

\* Every step leaves all versions labelled.
LEMMA LabelsNamedNext ==
  ASSUME LabelsNamed, [Next]_vars
  PROVE  LabelsNamed'
<1>1. ASSUME NEW p \in Runs, NEW u \in Units, NEW reply \in Replies, Persist(p, u, reply)
      PROVE  LabelsNamed'
  <2>1. PICK g, k : g = graph /\ graph' = Loaded(g, Validate(u, reply, k))
    BY <1>1 DEF Persist
  <2> QED
    BY <2>1, VersionsNamed DEF LabelsNamed
<1>2. CASE graph' = graph
  BY <1>2 DEF LabelsNamed
<1> QED
  BY <1>1, <1>2 DEF Next, Begin, End, Reject, Forget, vars

\* The runs implement KnowledgeGraph: the first statement and the citations of
\* a record stay, and a new record arrives with citations of its own.
THEOREM RunsKeepTheGraph == Spec => ImplementsKnowledgeGraph
<1>1. Init => KG!Init /\ LabelsNamed
  BY DEF Init, EmptyGraph, KG!Init, StatementsOf, CitationsOf, LabelsNamed
<1>2. LabelsNamed /\ [Next]_vars => LabelsNamed'
  BY LabelsNamedNext
<1>3. IInv /\ LabelsNamed /\ IInv' /\ LabelsNamed' /\ [Next]_vars
        => [KG!Load]_<<StatementsOf(graph), CitationsOf(graph)>>
  <2> SUFFICES ASSUME IInv, LabelsNamed, IInv', LabelsNamed', [Next]_vars
               PROVE  [KG!Load]_<<StatementsOf(graph), CitationsOf(graph)>>
    OBVIOUS
  <2>1. ASSUME NEW p \in Runs, NEW u \in Units, NEW reply \in Replies,
               Persist(p, u, reply)
        PROVE  KG!Load
    BY <2>1, PersistImplementsLoad
  <2>2. CASE graph' = graph
    BY <2>2
  <2> QED
    BY <2>1, <2>2 DEF Next, Begin, End, Reject, Forget, vars
<1> QED
  BY <1>1, <1>2, <1>3, GraphInvariant, PTL
     DEF Spec, ImplementsKnowledgeGraph, KG!Spec

-----------------------------------------------------------------------------
(* Runs that are alone.                                                    *)

\* A run that is alone knows every claim there is.
Alone == overlapped \/ \A p \in running :
                         running = {p} /\ Ids(graph.claims) \subseteq known[p].claims

\* Every step leaves a run that is alone with all claims known.
LEMMA AloneNext ==
  ASSUME IInv, Alone, [Next]_vars
  PROVE  Alone'
<1>1. ASSUME NEW p \in Runs, NEW u \in Units, NEW reply \in Replies, Persist(p, u, reply)
      PROVE  Alone'
  <2>1. PICK v : /\ graph' = Loaded(graph, v)
                 /\ known' = [known EXCEPT ![p] = Learns(known[p], v, reply)]
                 /\ running' = running /\ overlapped' = overlapped /\ p \in running
    BY <1>1 DEF Persist
  <2>2. Ids(graph'.claims) = Ids(graph.claims) \cup Ids(v.claims)
    BY <2>1, LoadedIds
  <2>3. known'[p].claims = known[p].claims \cup Ids(v.claims)
    BY <2>1 DEF Learns, IInv, TypeOK
  <2> QED
    BY <2>1, <2>2, <2>3, SMT DEF Alone
<1>2. ASSUME NEW p \in Runs, Begin(p) PROVE Alone'
  <2>1. CASE overlapped'
    BY <2>1 DEF Alone
  <2>2. CASE ~overlapped'
    <3>1. running' = {p} /\ graph' = graph /\ known'[p].claims = Ids(graph.claims)
      BY <1>2, <2>2 DEF Begin, IInv, TypeOK
    <3> QED
      BY <3>1 DEF Alone
  <2> QED
    BY <2>1, <2>2
<1>3. ASSUME NEW p \in running, Forget(p) PROVE Alone'
  <2>1. CASE overlapped
    BY <1>3, <2>1 DEF Alone, Forget
  <2>2. CASE ~overlapped
    <3>1. running' = {}
      BY <1>3, <2>2 DEF Alone, Forget
    <3> QED
      BY <3>1 DEF Alone
  <2> QED
    BY <2>1, <2>2
<1>4. CASE UNCHANGED vars
  BY <1>4 DEF vars, Alone
<1> QED
  BY <1>1, <1>2, <1>3, <1>4 DEF Next, End, Reject

\* A claim loaded against every id there is leaves its row, its versions and
\* no others; those of the claims there were are left alone.
LEMMA ClaimsLand ==
  ASSUME NEW u \in Units, NEW reply \in Replies, NEW g, NEW k, NEW v,
         v = Validate(u, reply, k), Ids(g.claims) \subseteq k.claims,
         NEW c \in v.claims
  PROVE  /\ c.id \notin Ids(g.claims)
         /\ \E d \in Loaded(g, v).claims : d.id = c.id /\ d.confidence = c.confidence
<1>1. PICK payload : v.claims = MapClaims(u, reply, payload, k)
  BY DEF Validate
<1>2. c.id \notin Ids(g.claims)
  BY <1>1, KeptIsNew
<1> DEFINE row == [id |-> c.id, statement |-> c.statement, confidence |-> c.confidence,
                   subject |-> c.subject, object |-> c.object, value |-> c.value]
<1>3. row \in ClaimRows(v)
  BY DEF ClaimRows
<1>4. row.id = c.id /\ row.confidence = c.confidence
  OBVIOUS
<1> HIDE DEF row
<1>5. \A t \in g.claims : ~Conflict(t, row, {"id"})
  BY <1>2, <1>4 DEF Conflict, Ids
<1>6. row \in Loaded(g, v).claims
  BY <1>3, <1>5 DEF Loaded, Insert
<1> QED
  BY <1>2, <1>4, <1>6

Registered(g) ==
  \A id \in g.contradictions :
    /\ \E c \in g.claims : c.id = id /\ c.confidence \in Contradictory
    /\ \E r \in g.versions : r.claim = id

\* A load of a run that is alone leaves every entry of the register about a
\* contested claim with versions.
LEMMA RegisterLands ==
  ASSUME NEW u \in Units, NEW reply \in Replies, NEW g, NEW k, NEW v,
         v = Validate(u, reply, k), Ids(g.claims) \subseteq k.claims,
         Registered(g)
  PROVE  Registered(Loaded(g, v))
<1>1. PICK h : h = Loaded(g, v)
  OBVIOUS
<1>2. /\ h.contradictions = g.contradictions \cup v.contradictions
      /\ g.claims \subseteq h.claims
  BY <1>1, InsertKeeps DEF Loaded
<1>3. v.contradictions = {c.id : c \in {d \in v.claims : d.confidence \in Contradictory}}
  BY DEF Validate
<1>4. \A r \in g.versions \cup VersionRows(v) : \E t \in h.versions : t.claim = r.claim
  BY <1>1, VersionsStay
<1>5. ASSUME NEW id \in g.contradictions
      PROVE  /\ \E c \in h.claims : c.id = id /\ c.confidence \in Contradictory
             /\ \E r \in h.versions : r.claim = id
  BY <1>2, <1>4 DEF Registered
<1>6. ASSUME NEW id \in v.contradictions
      PROVE  /\ \E c \in h.claims : c.id = id /\ c.confidence \in Contradictory
             /\ \E r \in h.versions : r.claim = id
  <2>1. PICK c \in v.claims : c.id = id /\ c.confidence \in Contradictory
    BY <1>3
  <2>2. PICK payload : c \in MapClaims(u, reply, payload, k)
    BY DEF Validate
  <2>3. (\E n \in Nat : DOMAIN c.versions \subseteq 1..n) /\ DOMAIN c.versions # {}
    BY <2>1, <2>2, KeptClaim, Zenon
  <2>4. PICK n \in Nat, i \in DOMAIN c.versions : DOMAIN c.versions \subseteq 1..n
    BY <2>3
  <2>5. PICK r \in VersionRows(v) : r.claim = c.id
    BY <2>4, LabelsHaveRows
  <2>6. \E d \in h.claims : d.id = c.id /\ d.confidence = c.confidence
    BY <1>1, ClaimsLand
  <2> QED
    BY <1>4, <2>1, <2>5, <2>6
<1> QED
  BY <1>1, <1>2, <1>5, <1>6 DEF Registered

\* A reply cites the source for the statement of the version.
CitedFor(r, s) ==
  \E reply \in Replies : \E i \in DOMAIN reply.claims :
    LET c == reply.claims[i]
    IN /\ c.id = r.claim
       /\ \/ RepeatsLabel(c)
          \/ \E j \in DOMAIN c.versions :
               /\ c.versions[j].label = r.label
               /\ c.versions[j].statement = r.statement
               /\ \E k \in DOMAIN c.versions[j].sources :
                    c.versions[j].sources[k].source = s.source

Separable(g) ==
  \A r \in g.versions : \A s \in g.claimSources :
    s.claim = r.claim /\ s.version = r.label => CitedFor(r, s)

\* A version and a citation that one load files are of one version of the
\* reply, unless two have its label.
LEMMA FiledTogether ==
  ASSUME NEW u \in Units, NEW reply \in Replies, NEW k, NEW v, v = Validate(u, reply, k),
         NEW r \in VersionRows(v), NEW s \in ClaimSourceRows(v) \cup VersionSourceRows(v),
         s.claim = r.claim, s.version = r.label
  PROVE  CitedFor(r, s)
<1>1. PICK payload : v.claims = MapClaims(u, reply, payload, k)
  BY DEF Validate
<1>2. r.label # None
  BY LabelsAreNamed
<1>3. s \notin ClaimSourceRows(v)
  BY <1>2 DEF ClaimSourceRows
<1>4. PICK c \in v.claims : \E i \in LastOfLabel(c) :
        /\ r.claim = c.id /\ r.label = c.versions[i].label
        /\ r.statement = c.versions[i].statement
  BY DEF VersionRows
<1>5. PICK i \in DOMAIN c.versions :
        /\ r.claim = c.id /\ r.label = c.versions[i].label
        /\ r.statement = c.versions[i].statement
  BY <1>4 DEF LastOfLabel
<1>6. PICK d \in v.claims : \E j \in DOMAIN d.versions : s \in SourceRowsOf(d, j)
  BY <1>3 DEF VersionSourceRows
<1>7. PICK j \in DOMAIN d.versions : s \in SourceRowsOf(d, j)
  BY <1>6
<1>8. PICK t \in d.versions[j].sources :
        s.claim = d.id /\ s.version = d.versions[j].label /\ s.source = t.source
  BY <1>7 DEF SourceRowsOf
<1>9. d = c
  BY <1>1, <1>5, <1>8, KeptOnce
<1>10. PICK m \in DOMAIN reply.claims : /\ c.id = reply.claims[m].id
                                        /\ c.versions = MapVersions(u, reply.claims[m])
  BY <1>1, KeptIsNew
<1>11. PICK w : w = reply.claims[m]
  OBVIOUS
<1>12. /\ i \in DOMAIN w.versions /\ r.label = w.versions[i].label
       /\ r.statement = w.versions[i].statement
  BY <1>5, <1>10, <1>11, VersionAsGiven
<1>13. j \in DOMAIN w.versions /\ s.version = w.versions[j].label
  BY <1>7, <1>8, <1>9, <1>10, <1>11, VersionAsGiven
<1>14. PICK n \in DOMAIN w.versions[j].sources : w.versions[j].sources[n].source = s.source
  <2>1. t \in MapVersions(u, w)[j].sources
    BY <1>8, <1>9, <1>10, <1>11
  <2>2. j \in DOMAIN MapVersions(u, w)
    BY <1>7, <1>9, <1>10, <1>11
  <2>3. \E n \in DOMAIN w.versions[j].sources : w.versions[j].sources[n].source = t.source
    BY <2>1, <2>2, VersionAsGiven
  <2> QED
    BY <1>8, <2>3
<1>15. CASE i # j
  <2>1. RepeatsLabel(w)
    BY <1>12, <1>13, <1>15 DEF RepeatsLabel
  <2> QED
    BY <1>5, <1>10, <1>11, <2>1, Zenon DEF CitedFor
<1>16. CASE i = j
  <2>1. /\ w.id = r.claim
        /\ \E l \in DOMAIN w.versions :
             /\ w.versions[l].label = r.label
             /\ w.versions[l].statement = r.statement
             /\ \E q \in DOMAIN w.versions[l].sources :
                  w.versions[l].sources[q].source = s.source
    BY <1>5, <1>10, <1>11, <1>12, <1>14, <1>16
  <2> QED
    BY <1>11, <2>1, Zenon DEF CitedFor
<1> QED
  BY <1>15, <1>16

\* A load of a run that is alone leaves the citations of each version its own.
LEMMA SeparableStays ==
  ASSUME NEW u \in Units, NEW reply \in Replies, NEW g, NEW k, NEW v,
         v = Validate(u, reply, k), Ids(g.claims) \subseteq k.claims,
         ConstraintsHold(g), Separable(g)
  PROVE  Separable(Loaded(g, v))
<1>1. PICK h : h = Loaded(g, v)
  OBVIOUS
<1>2. /\ h.versions \subseteq g.versions \cup VersionRows(v)
      /\ h.claimSources \subseteq
           g.claimSources \cup (ClaimSourceRows(v) \cup VersionSourceRows(v))
  BY <1>1, VersionsAdded, InsertKeeps DEF Loaded
<1>3. /\ \A r \in VersionRows(v) : r.claim \in Ids(v.claims)
      /\ \A s \in ClaimSourceRows(v) \cup VersionSourceRows(v) : s.claim \in Ids(v.claims)
  BY DEF VersionRows, ClaimSourceRows, VersionSourceRows, SourceRowsOf, Ids
<1>4. Ids(v.claims) \cap Ids(g.claims) = {}
  <2>1. \A c \in v.claims : c.id \notin Ids(g.claims)
    BY ClaimsLand
  <2> QED
    BY <2>1 DEF Ids
<1>5. /\ \A r \in g.versions : r.claim \in Ids(g.claims)
      /\ \A s \in g.claimSources : s.claim \in Ids(g.claims)
  BY DEF ConstraintsHold
<1>6. ASSUME NEW r \in h.versions, NEW s \in h.claimSources,
             s.claim = r.claim, s.version = r.label
      PROVE  CitedFor(r, s)
  <2>1. CASE r \in g.versions
    <3>1. s \in g.claimSources
      BY <1>2, <1>3, <1>4, <1>5, <1>6, <2>1
    <3> QED
      BY <1>6, <2>1, <3>1 DEF Separable
  <2>2. CASE r \in VersionRows(v)
    <3>1. s \in ClaimSourceRows(v) \cup VersionSourceRows(v)
      BY <1>2, <1>3, <1>4, <1>5, <1>6, <2>2
    <3> QED
      BY <1>6, <2>2, <3>1, FiledTogether
  <2> QED
    BY <1>2, <2>1, <2>2
<1> QED
  BY <1>1, <1>6 DEF Separable

AloneInv == Alone /\ (overlapped \/ (Registered(graph) /\ Separable(graph)))

\* The strengthened invariant is preserved by every step.
LEMMA AloneInvNext ==
  ASSUME IInv, AloneInv, [Next]_vars
  PROVE  AloneInv'
<1>1. Alone'
  BY AloneNext DEF AloneInv
<1>2. ASSUME NEW p \in Runs, NEW u \in Units, NEW reply \in Replies, Persist(p, u, reply)
      PROVE  overlapped' \/ (Registered(graph') /\ Separable(graph'))
  <2>1. PICK g, k, v : /\ g = graph /\ k = known[p] /\ v = Validate(u, reply, k)
                       /\ graph' = Loaded(g, v) /\ p \in running
                       /\ overlapped' = overlapped
    BY <1>2 DEF Persist
  <2>2. CASE overlapped
    BY <2>1, <2>2
  <2>3. CASE ~overlapped
    <3>1. Ids(g.claims) \subseteq k.claims /\ ConstraintsHold(g)
            /\ Registered(g) /\ Separable(g)
      BY <2>1, <2>3 DEF AloneInv, Alone, IInv
    <3>2. Registered(Loaded(g, v)) /\ Separable(Loaded(g, v))
      BY <2>1, <3>1, RegisterLands, SeparableStays
    <3> QED
      BY <2>1, <3>2
  <2> QED
    BY <2>2, <2>3
<1>3. ASSUME graph' = graph, overlapped => overlapped'
      PROVE  overlapped' \/ (Registered(graph') /\ Separable(graph'))
  BY <1>3 DEF AloneInv
<1>4. ASSUME \/ \E p \in Runs : Begin(p) \/ Forget(p)
             \/ UNCHANGED vars
      PROVE  overlapped' \/ (Registered(graph') /\ Separable(graph'))
  <2>1. graph' = graph
    BY <1>4 DEF Begin, Forget, vars
  <2>2. overlapped => overlapped'
    BY <1>4, Zenon DEF Begin, Forget, vars
  <2> QED
    BY <1>3, <2>1, <2>2
<1>5. overlapped' \/ (Registered(graph') /\ Separable(graph'))
  BY <1>2, <1>4, Zenon DEF Next, End, Reject
<1> QED
  BY <1>1, <1>5 DEF AloneInv, Registered, Separable

\* It holds in every state of a behaviour.
LEMMA AloneInvariant == Spec => []AloneInv
<1>1. Init => AloneInv
  BY DEF Init, EmptyGraph, AloneInv, Alone, Registered, Separable
<1>2. IInv /\ AloneInv /\ [Next]_vars => AloneInv'
  BY AloneInvNext
<1> QED
  BY <1>1, <1>2, GraphInvariant, PTL DEF Spec

\* Unless runs overlap, every entry of the register is about a claim that is
\* contested and has versions.
THEOREM RegisterIsOfContested == Spec => []RegisteredIsContested
<1>1. AloneInv => RegisteredIsContested
  BY DEF AloneInv, Registered, RegisteredIsContested
<1> QED
  BY <1>1, AloneInvariant, PTL

\* Unless runs overlap or a reply repeats a label, what is pinned to a version
\* was cited for the statement it has.
THEOREM TraditionsSeparable == Spec => []TraditionsStaySeparable
<1>1. AloneInv => TraditionsStaySeparable
  BY DEF AloneInv, Separable, CitedFor, TraditionsStaySeparable
<1> QED
  BY <1>1, AloneInvariant, PTL

-----------------------------------------------------------------------------
(* A reply that is loaded again.                                           *)

\* Of the good records of one id there is a first.
LEMMA FirstOfId ==
  ASSUME NEW list, NEW good, good \subseteq Nat, NEW i \in good
  PROVE  \E r \in First(list, good, {"id"}) : r.id = list[i].id
<1> DEFINE S == {j \in good : list[j].id = list[i].id}
<1>1. PICK j \in S : \A l \in S : j =< l
  BY LeastPosition
<1>2. \A l \in good : l < j => list[l].id # list[j].id
  BY <1>1
<1>3. list[j] \in First(list, good, {"id"})
  BY <1>1, <1>2 DEF First
<1> QED
  BY <1>1, <1>3

\* What a run has learned makes its references resolve as before.
LEMMA ResolvesAsBefore ==
  ASSUME NEW reply, NEW k, NEW v, v.entities = MapEntities(reply), NEW id
  PROVE  Resolves(id, Ids(v.entities), Learns(k, v, reply)) <=>
         Resolves(id, Ids(v.entities), k)
BY DEF Resolves, Learns

\* None of the events of a reply is kept twice by one run.
LEMMA NoEventAgain ==
  ASSUME NEW u, NEW reply \in Replies, NEW k, NEW payload,
         NEW v, v = Validate(u, reply, k)
  PROVE  MapEvents(u, reply, payload, Learns(k, v, reply)) = {}
<1> DEFINE list == reply.events
           good == {i \in DOMAIN list : KeepsEvent(u, list[i], k)}
<1>1. ASSUME NEW i \in DOMAIN list, KeepsEvent(u, list[i], Learns(k, v, reply))
      PROVE  FALSE
  <2>1. i \in good /\ list[i].id \notin Ids(v.events)
    BY <1>1 DEF KeepsEvent, Learns
  <2>2. good \subseteq Nat
    BY RepliesAssumption
  <2>3. PICK r \in First(list, good, {"id"}) : r.id = list[i].id
    <3> HIDE DEF good, list
    <3> QED
      BY <2>1, <2>2, FirstOfId
  <2>4. r \in KeptEvents(u, reply, k)
    BY <2>3 DEF KeptEvents
  <2>5. v.events = MapEvents(u, reply, Ids(v.entities), k)
    BY DEF Validate
  <2>6. \E e \in v.events : e.id = r.id
    <3> DEFINE P == Ids(v.entities)
               Kept(x) == [id |-> x.id,
                           text |-> x.text,
                           location |-> IF Resolves(x.location, P, k) THEN x.location ELSE None,
                           participants |-> {y \in x.participants : Resolves(y, P, k)},
                           causes |-> x.causes \cap LinkTargets(u, reply, k),
                           consequences |-> x.consequences \cap LinkTargets(u, reply, k),
                           sources |-> FilterCitations(u, x.sources)]
    <3>1. v.events = {Kept(x) : x \in KeptEvents(u, reply, k)}
      BY <2>5 DEF MapEvents
    <3>2. Kept(r).id = r.id
      OBVIOUS
    <3> HIDE DEF Kept
    <3> QED
      BY <2>4, <3>1, <3>2
  <2> QED
    BY <2>1, <2>3, <2>6 DEF Ids
<1>2. KeptEvents(u, reply, Learns(k, v, reply)) = {}
  BY <1>1, FirstIsGood DEF KeptEvents
<1> QED
  BY <1>2 DEF MapEvents

\* Nor is one of its claims.
LEMMA NoClaimAgain ==
  ASSUME NEW u, NEW reply \in Replies, NEW k, NEW v, v = Validate(u, reply, k)
  PROVE  MapClaims(u, reply, Ids(v.entities), Learns(k, v, reply)) = {}
<1> DEFINE list == reply.claims
           payload == Ids(v.entities)
           good == {i \in DOMAIN list : KeepsClaim(u, list[i], payload, k)}
<1>0. v.entities = MapEntities(reply) /\ v.claims = MapClaims(u, reply, payload, k)
  BY DEF Validate
<1>1. ASSUME NEW i \in DOMAIN list,
             KeepsClaim(u, list[i], payload, Learns(k, v, reply))
      PROVE  FALSE
  <2>1. list[i].id \notin Ids(v.claims) /\ list[i].id \in Slugs \ k.claims
    BY <1>1 DEF KeepsClaim, Learns
  <2>2. KeepsClaim(u, list[i], payload, k)
    BY <1>0, <1>1, <2>1, ResolvesAsBefore DEF KeepsClaim
  <2>3. i \in good /\ good \subseteq Nat
    BY <2>2, RepliesAssumption
  <2>4. PICK r \in First(list, good, {"id"}) : r.id = list[i].id
    <3> HIDE DEF good, list
    <3> QED
      BY <2>3, FirstOfId
  <2>5. \E c \in v.claims : c.id = r.id
    <3> DEFINE Kept(x) == [id |-> x.id,
                           statement |-> x.statement,
                           confidence |-> x.confidence,
                           subject |-> x.subject,
                           object |-> x.object,
                           value |-> IF x.object = None THEN x.value ELSE None,
                           versions |-> MapVersions(u, x),
                           sources |-> FilterCitations(u, x.sources)]
    <3>1. v.claims = {Kept(x) : x \in First(list, good, {"id"})}
      BY <1>0 DEF MapClaims
    <3>2. Kept(r).id = r.id
      OBVIOUS
    <3> HIDE DEF Kept, good
    <3> QED
      BY <2>4, <3>1, <3>2
  <2> QED
    BY <2>1, <2>4, <2>5 DEF Ids
<1>2. {i \in DOMAIN list : KeepsClaim(u, list[i], payload, Learns(k, v, reply))} = {}
  BY <1>1
<1>3. First(list, {}, {"id"}) = {}
  BY DEF First
<1> QED
  BY <1>2, <1>3 DEF MapClaims

\* Its edges are kept as they were.
LEMMA SameEdges ==
  ASSUME NEW u, NEW reply, NEW k, NEW v, v = Validate(u, reply, k)
  PROVE  MapRelationships(u, reply, Ids(v.entities), {}, Learns(k, v, reply)) =
         v.relationships
<1> DEFINE n == Learns(k, v, reply)
           payload == Ids(v.entities)
<1>1. v.relationships = MapRelationships(u, reply, payload, Ids(v.claims), k)
  BY DEF Validate
<1>2. v.entities = MapEntities(reply)
  BY DEF Validate
<1>3. ASSUME NEW r
      PROVE  /\ Edge(u, r, {}, n) = Edge(u, r, Ids(v.claims), k)
             /\ KeepsEdge(u, r, payload, n) <=> KeepsEdge(u, r, payload, k)
  <2>1. n.claims = k.claims \cup Ids(v.claims)
    BY DEF Learns
  <2>2. KeepsEdge(u, r, payload, n) <=> KeepsEdge(u, r, payload, k)
    BY <1>2, ResolvesAsBefore DEF KeepsEdge
  <2>3. r.claim \in {} \cup n.claims <=> r.claim \in Ids(v.claims) \cup k.claims
    BY <2>1
  <2> QED
    BY <2>2, <2>3 DEF Edge
<1> HIDE DEF n
<1>4. [i \in DOMAIN reply.relationships |-> Edge(u, reply.relationships[i], {}, n)] =
      [i \in DOMAIN reply.relationships |->
         Edge(u, reply.relationships[i], Ids(v.claims), k)]
  BY <1>3
<1>5. {i \in DOMAIN reply.relationships :
         KeepsEdge(u, reply.relationships[i], payload, n)} =
      {i \in DOMAIN reply.relationships :
         KeepsEdge(u, reply.relationships[i], payload, k)}
  BY <1>3
<1> QED
  BY <1>1, <1>4, <1>5 DEF MapRelationships, n

\* Rows that were inserted are in conflict with rows that are there.
LEMMA InsertAgain ==
  ASSUME NEW table, NEW rows, NEW key
  PROVE  Insert(Insert(table, rows, key), rows, key) = Insert(table, rows, key)
<1>1. PICK T : T = Insert(table, rows, key)
  OBVIOUS
<1>2. \A r \in rows : \E t \in T : \A f \in key : t[f] = r[f]
  BY <1>1, InsertCovers
<1>3. Insert(T, rows, key) = T
  BY <1>2 DEF Insert, Conflict
<1> QED
  BY <1>1, <1>3

\* Without rows nothing changes.
LEMMA NothingInserted ==
  ASSUME NEW table, NEW key
  PROVE  Insert(table, {}, key) = table /\ Upsert(table, {}, key) = table
BY DEF Insert, Upsert

\* A reply that a run has loaded changes nothing when it is loaded again.
LEMMA ReloadIsNothing ==
  ASSUME NEW u, NEW reply \in Replies, NEW k, NEW g, NEW v, v = Validate(u, reply, k)
  PROVE  Loaded(Loaded(g, v), Validate(u, reply, Learns(k, v, reply))) = Loaded(g, v)
<1>1. PICK w : w = Validate(u, reply, Learns(k, v, reply))
  OBVIOUS
<1>2. PICK h : h = Loaded(g, v)
  OBVIOUS
<1>3. v.entities = MapEntities(reply) /\ w.entities = MapEntities(reply)
  BY <1>1 DEF Validate
<1>4. w.events = {}
  BY <1>1, NoEventAgain DEF Validate
<1>5. w.claims = {} /\ w.contradictions = {}
  <2>1. w.claims = MapClaims(u, reply, Ids(v.entities), Learns(k, v, reply))
    BY <1>1, <1>3 DEF Validate
  <2>2. w.claims = {}
    BY <2>1, NoClaimAgain
  <2>3. w.contradictions = {c.id : c \in {d \in w.claims : d.confidence \in Contradictory}}
    BY <1>1 DEF Validate
  <2> QED
    BY <2>2, <2>3
<1>6. w.relationships = v.relationships
  <2>1. w.relationships =
          MapRelationships(u, reply, Ids(w.entities), Ids(w.claims), Learns(k, v, reply))
    BY <1>1 DEF Validate
  <2>2. Ids(w.claims) = {}
    BY <1>5 DEF Ids
  <2> QED
    BY <1>3, <2>1, <2>2, SameEdges
<1>7. /\ EntityRows(w) = EntityRows(v) /\ NameRows(w) = NameRows(v)
      /\ RelationshipRows(w) = RelationshipRows(v)
  BY <1>3, <1>6 DEF EntityRows, NameRows, RelationshipRows
<1>8. /\ EventRows(w) = {} /\ ParticipantRows(w) = {} /\ LinkRows(w) = {}
      /\ EventSourceRows(w) = {}
  BY <1>4 DEF EventRows, ParticipantRows, LinkRows, EventSourceRows
<1>9. /\ ClaimRows(w) = {} /\ VersionRows(w) = {}
      /\ ClaimSourceRows(w) \cup VersionSourceRows(w) = {}
  BY <1>5 DEF ClaimRows, VersionRows, ClaimSourceRows, VersionSourceRows
<1>10. /\ Insert(h.entities, EntityRows(w), {"id"}) = h.entities
       /\ Insert(h.names, NameRows(w), {"entity", "name"}) = h.names
       /\ Insert(h.relationships, RelationshipRows(w), {"from", "to", "type"}) =
            h.relationships
  BY <1>2, <1>7, InsertAgain DEF Loaded
<1>11. Loaded(h, w) =
         [entities |-> h.entities, names |-> h.names, events |-> h.events,
          participants |-> h.participants, links |-> h.links,
          eventSources |-> h.eventSources, claims |-> h.claims,
          versions |-> h.versions, claimSources |-> h.claimSources,
          relationships |-> h.relationships, contradictions |-> h.contradictions]
  BY <1>5, <1>8, <1>9, <1>10, NothingInserted DEF Loaded
<1>12. h = [entities |-> h.entities, names |-> h.names, events |-> h.events,
            participants |-> h.participants, links |-> h.links,
            eventSources |-> h.eventSources, claims |-> h.claims,
            versions |-> h.versions, claimSources |-> h.claimSources,
            relationships |-> h.relationships, contradictions |-> h.contradictions]
  BY <1>2 DEF Loaded
<1> QED
  BY <1>1, <1>2, <1>11, <1>12

\* Loading a reply is idempotent, whatever else is in the graph and whatever
\* the run knew before.
THEOREM LoadsAreIdempotent == Spec => ReloadChangesNothing
<1>1. IInv /\ [Next]_vars =>
        [\A p \in Runs, u \in Units, reply \in Replies :
           Persist(p, u, reply) =>
             Loaded(graph', Validate(u, reply, known'[p])) = graph']_vars
  <2> SUFFICES ASSUME IInv, NEW p \in Runs, NEW u \in Units, NEW reply \in Replies,
                      Persist(p, u, reply)
               PROVE  Loaded(graph', Validate(u, reply, known'[p])) = graph'
    OBVIOUS
  <2>1. PICK k, v : k = known[p] /\ v = Validate(u, reply, k)
    OBVIOUS
  <2>2. known'[p] = Learns(k, v, reply) /\ graph' = Loaded(graph, v)
    BY <2>1 DEF Persist, IInv, TypeOK
  <2> QED
    BY <2>1, <2>2, ReloadIsNothing
<1> QED
  BY <1>1, GraphInvariant, PTL DEF Spec, ReloadChangesNothing
=============================================================================

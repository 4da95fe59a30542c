--------------------------- MODULE GraphLoadProofs --------------------------
(***************************************************************************)
(* Proofs about GraphLoad, for any number of runs, units and replies: that *)
(* runs know ids of rows only, that every record is cited as its unit      *)
(* demands, that the integrity checks pass, and that what validation keeps *)
(* violates no constraint of the tables.                                   *)
(***************************************************************************)
EXTENDS GraphLoad, WellFoundedInduction, TLAPS

-----------------------------------------------------------------------------
(* What First and Insert come to.                                          *)

\* What is first of the good records is a good record (validate.go's loops).
LEMMA FirstIsGood ==
  ASSUME NEW list, NEW good, NEW key, NEW r \in First(list, good, key)
  PROVE  \E i \in good : r = list[i]
BY DEF First

\* An insert that does nothing on conflict keeps the rows there are, adds
\* none but the given ones, and leaves a row of the key of each.
LEMMA InsertKeeps ==
  ASSUME NEW table, NEW rows, NEW key
  PROVE  /\ table \subseteq Insert(table, rows, key)
         /\ Insert(table, rows, key) \subseteq table \cup rows
BY DEF Insert

\* Every row offered for insertion has a row of its key in the table afterwards.
LEMMA InsertCovers ==
  ASSUME NEW table, NEW rows, NEW key, NEW r \in rows
  PROVE  \E t \in Insert(table, rows, key) : \A k \in key : t[k] = r[k]
<1>1. CASE \A t \in table : ~Conflict(t, r, key)
  BY <1>1 DEF Insert
<1>2. CASE \E t \in table : Conflict(t, r, key)
  BY <1>2 DEF Insert, Conflict
<1>. QED
  BY <1>1, <1>2

\* An insertion by id adds the ids of its rows and takes none away.
LEMMA InsertIds ==
  ASSUME NEW table, NEW rows
  PROVE  Ids(Insert(table, rows, {"id"})) = Ids(table) \cup Ids(rows)
<1>1. Ids(Insert(table, rows, {"id"})) \subseteq Ids(table) \cup Ids(rows)
  BY InsertKeeps DEF Ids
<1>2. Ids(table) \subseteq Ids(Insert(table, rows, {"id"}))
  BY InsertKeeps DEF Ids
<1>3. ASSUME NEW r \in rows PROVE r.id \in Ids(Insert(table, rows, {"id"}))
  <2>1. PICK t \in Insert(table, rows, {"id"}) : t.id = r.id
    BY InsertCovers
  <2>. QED
    BY <2>1 DEF Ids
<1>. QED
  BY <1>1, <1>2, <1>3 DEF Ids

\* A nonempty set of positions has a first.
LEMMA LeastPosition ==
  ASSUME NEW S, S \subseteq Nat, S # {}
  PROVE  \E i \in S : \A j \in S : i =< j
<1>1. PICK i \in S : \A j \in S : ~(<<j, i>> \in OpToRel(<, Nat))
  BY NatLessThanWellFounded, WFMin, Zenon
<1>2. ASSUME NEW j \in S, j < i PROVE FALSE
  <2>1. <<j, i>> \in Nat \X Nat /\ <<j, i>>[1] < <<j, i>>[2]
    BY <1>2
  <2>2. <<j, i>> \in OpToRel(<, Nat)
    BY <2>1, Zenon DEF OpToRel
  <2>. QED
    BY <1>1, <2>2
<1>. QED
  BY <1>2

\* A bounded one also has a last.
LEMMA GreatestPosition ==
  ASSUME NEW n \in Nat, NEW S, S \subseteq 1..n, S # {}
  PROVE  \E i \in S : \A j \in S : j =< i
<1>. DEFINE T == {n - i : i \in S}
<1>1. T \subseteq Nat /\ T # {}
  <2>1. ASSUME NEW i \in S PROVE n - i \in Nat
    OBVIOUS
  <2>. QED
    BY <2>1
<1>2. PICK m \in T : \A l \in T : m =< l
  BY <1>1, LeastPosition
<1>3. PICK i \in S : m = n - i
  OBVIOUS
<1>4. ASSUME NEW j \in S PROVE j =< i
  BY <1>2, <1>3
<1>. QED
  BY <1>4

-----------------------------------------------------------------------------
(* The ids of the tables after a load.                                     *)

\* A load adds the ids of what was kept and takes none away.
LEMMA LoadedIds ==
  ASSUME NEW g, NEW v
  PROVE  /\ Ids(Loaded(g, v).entities) = Ids(g.entities) \cup Ids(v.entities)
         /\ Ids(Loaded(g, v).events) = Ids(g.events) \cup Ids(v.events)
         /\ Ids(Loaded(g, v).claims) = Ids(g.claims) \cup Ids(v.claims)
<1>1. Ids(EntityRows(v)) = Ids(v.entities)
  <2>1. ASSUME NEW e \in v.entities PROVE e.id \in Ids(EntityRows(v))
    <3>. DEFINE row == [id |-> e.id, canonical |-> e.canonical]
    <3>1. row \in EntityRows(v)
      BY DEF EntityRows
    <3>2. row.id = e.id
      OBVIOUS
    <3>. QED
      BY <3>1, <3>2, Zenon DEF Ids
  <2>2. ASSUME NEW r \in EntityRows(v) PROVE r.id \in Ids(v.entities)
    BY DEF Ids, EntityRows
  <2>. QED
    BY <2>1, <2>2 DEF Ids
<1>2. Ids(EventRows(v)) = Ids(v.events)
  <2>1. ASSUME NEW e \in v.events PROVE e.id \in Ids(EventRows(v))
    <3>. DEFINE row == [id |-> e.id, text |-> e.text, location |-> e.location]
    <3>1. row \in EventRows(v)
      BY DEF EventRows
    <3>2. row.id = e.id
      OBVIOUS
    <3>. QED
      BY <3>1, <3>2, Zenon DEF Ids
  <2>2. ASSUME NEW r \in EventRows(v) PROVE r.id \in Ids(v.events)
    BY DEF Ids, EventRows
  <2>. QED
    BY <2>1, <2>2 DEF Ids
<1>3. Ids(ClaimRows(v)) = Ids(v.claims)
  <2>1. ASSUME NEW c \in v.claims PROVE c.id \in Ids(ClaimRows(v))
    <3>. DEFINE row == [id |-> c.id, statement |-> c.statement,
                      confidence |-> c.confidence, subject |-> c.subject,
                      object |-> c.object, value |-> c.value]
    <3>1. row \in ClaimRows(v)
      BY DEF ClaimRows
    <3>2. row.id = c.id
      OBVIOUS
    <3>. QED
      BY <3>1, <3>2, Zenon DEF Ids
  <2>2. ASSUME NEW r \in ClaimRows(v) PROVE r.id \in Ids(v.claims)
    BY DEF Ids, ClaimRows
  <2>. QED
    BY <2>1, <2>2 DEF Ids
<1>. QED
  BY <1>1, <1>2, <1>3, InsertIds DEF Loaded

-----------------------------------------------------------------------------
(* What validation keeps.                                                  *)

\* Every citation kept is of an offered source and carries its keys.
LEMMA KeptCitations ==
  ASSUME NEW u, NEW sources, NEW s \in FilterCitations(u, sources)
  PROVE  Citeable(u, s)
BY FirstIsGood DEF FilterCitations

\* A kept reference is empty, to an entity kept with it, or to a known one.
LEMMA KeptEvent ==
  ASSUME NEW u, NEW reply, NEW payload, NEW k,
         NEW e \in MapEvents(u, reply, payload, k)
  PROVE  /\ MeetsPolicy(u, e.sources)
         /\ \A s \in e.sources : Citeable(u, s)
         /\ OptionalRef(e.location, payload \cup k.entities)
         /\ \A x \in e.participants : OptionalRef(x, payload \cup k.entities)
         /\ e.causes \cup e.consequences \subseteq
              Ids(MapEvents(u, reply, payload, k)) \cup k.events
         /\ ~Untakeable(reply) => /\ e.id \notin e.causes \cup e.consequences
                                  /\ None \notin e.participants
<1>. DEFINE Row(w) ==
       [id |-> w.id,
        text |-> w.text,
        location |-> IF Resolves(w.location, payload, k) THEN w.location ELSE None,
        participants |-> {x \in w.participants : Resolves(x, payload, k)},
        causes |-> w.causes \cap LinkTargets(u, reply, k),
        consequences |-> w.consequences \cap LinkTargets(u, reply, k),
        sources |-> FilterCitations(u, w.sources)]
<1>1. PICK w \in KeptEvents(u, reply, k) : e = Row(w)
  BY Zenon DEF MapEvents
<1>2. PICK i \in DOMAIN reply.events :
        w = reply.events[i] /\ KeepsEvent(u, reply.events[i], k)
  BY FirstIsGood DEF KeptEvents
<1>3. /\ e.id = w.id
      /\ e.location = IF Resolves(w.location, payload, k) THEN w.location ELSE None
      /\ e.participants = {x \in w.participants : Resolves(x, payload, k)}
      /\ e.causes = w.causes \cap LinkTargets(u, reply, k)
      /\ e.consequences = w.consequences \cap LinkTargets(u, reply, k)
      /\ e.sources = FilterCitations(u, w.sources)
  BY <1>1
<1>4. Ids(KeptEvents(u, reply, k)) \subseteq Ids(MapEvents(u, reply, payload, k))
  <2>1. ASSUME NEW x \in KeptEvents(u, reply, k)
        PROVE  x.id \in Ids(MapEvents(u, reply, payload, k))
    <3>1. Row(x) \in MapEvents(u, reply, payload, k)
      BY Zenon DEF MapEvents
    <3>2. Row(x).id = x.id
      OBVIOUS
    <3>. QED
      BY <3>1, <3>2, Zenon DEF Ids
  <2>. QED
    BY <2>1 DEF Ids
<1>. HIDE DEF Row
<1>5. MeetsPolicy(u, e.sources)
  BY <1>2, <1>3 DEF KeepsEvent
<1>6. \A s \in e.sources : Citeable(u, s)
  BY <1>3, KeptCitations
<1>7. OptionalRef(e.location, payload \cup k.entities)
  BY <1>3 DEF OptionalRef, Resolves
<1>8. \A x \in e.participants : OptionalRef(x, payload \cup k.entities)
  BY <1>3 DEF OptionalRef, Resolves
<1>9. e.causes \cup e.consequences \subseteq
        Ids(MapEvents(u, reply, payload, k)) \cup k.events
  BY <1>3, <1>4 DEF LinkTargets
<1>10. ~Untakeable(reply) => /\ e.id \notin e.causes \cup e.consequences
                             /\ None \notin e.participants
  BY <1>2, <1>3 DEF Untakeable
<1>. QED
  BY <1>5, <1>6, <1>7, <1>8, <1>9, <1>10

\* A kept version is cited as its claim is.
LEMMA KeptVersion ==
  ASSUME NEW u, NEW c, NEW i \in DOMAIN MapVersions(u, c)
  PROVE  /\ i \in DOMAIN c.versions
         /\ MeetsPolicy(u, MapVersions(u, c)[i].sources)
         /\ \A s \in MapVersions(u, c)[i].sources : Citeable(u, s)
<1>1. /\ i \in DOMAIN c.versions
      /\ MeetsPolicy(u, FilterCitations(u, c.versions[i].sources))
      /\ MapVersions(u, c)[i].sources = FilterCitations(u, c.versions[i].sources)
  BY DEF MapVersions
<1>. QED
  BY <1>1, KeptCitations

\* A claim that is kept is cited as demanded, as are its versions, refers only to
\* what resolved, and has versions if it is contested.
LEMMA KeptClaim ==
  ASSUME NEW u \in Units, NEW reply \in Replies, NEW payload, NEW k,
         NEW c \in MapClaims(u, reply, payload, k)
  PROVE  /\ MeetsPolicy(u, c.sources)
         /\ \A s \in c.sources : Citeable(u, s)
         /\ OptionalRef(c.subject, payload \cup k.entities)
         /\ OptionalRef(c.object, payload \cup k.entities)
         /\ c.object = None \/ c.value = None
         /\ \E n \in Nat : DOMAIN c.versions \subseteq 1..n
         /\ \A i \in DOMAIN c.versions :
              /\ MeetsPolicy(u, c.versions[i].sources)
              /\ \A s \in c.versions[i].sources : Citeable(u, s)
         /\ c.confidence \in Contradictory => DOMAIN c.versions # {}
<1>. DEFINE Row(w) ==
       [id |-> w.id,
        statement |-> w.statement,
        confidence |-> w.confidence,
        subject |-> w.subject,
        object |-> w.object,
        value |-> IF w.object = None THEN w.value ELSE None,
        versions |-> MapVersions(u, w),
        sources |-> FilterCitations(u, w.sources)]
<1>. DEFINE good == {i \in DOMAIN reply.claims :
                       KeepsClaim(u, reply.claims[i], payload, k)}
<1>1. PICK w \in First(reply.claims, good, {"id"}) : c = Row(w)
  BY Zenon DEF MapClaims
<1>2. PICK i \in DOMAIN reply.claims :
        w = reply.claims[i] /\ KeepsClaim(u, reply.claims[i], payload, k)
  BY FirstIsGood
<1>3. /\ c.subject = w.subject
      /\ c.object = w.object
      /\ c.confidence = w.confidence
      /\ c.value = IF w.object = None THEN w.value ELSE None
      /\ c.versions = MapVersions(u, w)
      /\ c.sources = FilterCitations(u, w.sources)
  BY <1>1
<1>. HIDE DEF Row, good
<1>4. MeetsPolicy(u, c.sources) /\ \A s \in c.sources : Citeable(u, s)
  BY <1>2, <1>3, KeptCitations DEF KeepsClaim
<1>5. /\ OptionalRef(c.subject, payload \cup k.entities)
      /\ OptionalRef(c.object, payload \cup k.entities)
  BY <1>2, <1>3 DEF KeepsClaim, Resolves, OptionalRef
<1>6. \A j \in DOMAIN c.versions : /\ j \in DOMAIN w.versions
                                   /\ MeetsPolicy(u, c.versions[j].sources)
                                   /\ \A s \in c.versions[j].sources : Citeable(u, s)
  BY <1>3, KeptVersion
<1>7. \E n \in Nat : DOMAIN c.versions \subseteq 1..n
  <2>1. DOMAIN w.versions = 1..Len(w.versions) /\ Len(w.versions) \in Nat
    BY <1>2, RepliesAssumption
  <2>. QED
    BY <1>6, <2>1
<1>8. c.confidence \in Contradictory => DOMAIN c.versions # {}
  BY <1>2, <1>3 DEF KeepsClaim
<1>. QED
  BY <1>3, <1>4, <1>5, <1>6, <1>7, <1>8

\* An edge that is kept joins two entities that resolved, by a type that has a row.
LEMMA KeptRelationship ==
  ASSUME NEW u \in Units, NEW reply \in Replies, NEW payload, NEW claims, NEW k,
         NEW r \in MapRelationships(u, reply, payload, claims, k)
  PROVE  /\ r.from \in payload \cup k.entities
         /\ r.to \in payload \cup k.entities
         /\ r.from # r.to
         /\ r.type \in RelTypes
         /\ OptionalRef(r.claim, claims \cup k.claims)
<1>. DEFINE list == [i \in DOMAIN reply.relationships |->
                       Edge(u, reply.relationships[i], claims, k)]
            good == {i \in DOMAIN reply.relationships :
                       KeepsEdge(u, reply.relationships[i], payload, k)}
<1>1. PICK i \in good : r = list[i]
  BY FirstIsGood DEF MapRelationships
<1>2. DEFINE w == reply.relationships[i]
<1>3. /\ r.from = w.from /\ r.to = w.to
      /\ r.type = Canonical(u, w.type)
      /\ r.claim = IF w.claim \in claims \cup k.claims THEN w.claim ELSE None
  BY <1>1 DEF Edge
<1>4. KeepsEdge(u, w, payload, k) /\ w.from # None /\ w.to # None
  BY <1>1, RepliesAssumption
<1>. HIDE DEF w
<1>. QED
  BY <1>3, <1>4, UnitsAssumption DEF KeepsEdge, Resolves, OptionalRef

-----------------------------------------------------------------------------
(* The tables take what is kept.                                           *)

\* Names are of kept entities and of an allowed kind.
LEMMA KeptNames ==
  ASSUME NEW reply, NEW v, v.entities = MapEntities(reply), NEW n \in NameRows(v)
  PROVE  n.entity \in Ids(v.entities) /\ n.kind \in NameKinds
<1>1. PICK e \in v.entities : \E m \in e.names :
        n = [entity |-> e.id, name |-> m.name, kind |-> m.kind]
  BY DEF NameRows
<1>2. PICK m \in e.names : n = [entity |-> e.id, name |-> m.name, kind |-> m.kind]
  BY <1>1
<1>3. PICK w : e = [id |-> w.id, canonical |-> w.canonical, names |-> MapNames(w)]
  BY DEF MapEntities
<1>4. PICK x : m = [name |-> x.name,
                    kind |-> IF x.kind \in NameKinds THEN x.kind ELSE OtherKind]
  BY <1>2, <1>3 DEF MapNames
<1>5. m.kind \in NameKinds
  BY <1>4, ValidationAssumption
<1>. QED
  BY <1>2, <1>5 DEF Ids

\* Each label of a kept claim has a row.
LEMMA LabelsHaveRows ==
  ASSUME NEW v, NEW c \in v.claims, NEW n \in Nat, DOMAIN c.versions \subseteq 1..n,
         NEW i \in DOMAIN c.versions
  PROVE  \E r \in VersionRows(v) : r.claim = c.id /\ r.label = c.versions[i].label
<1>. DEFINE S == {j \in DOMAIN c.versions : c.versions[j].label = c.versions[i].label}
<1>1. PICK m \in S : \A j \in S : j =< m
  BY GreatestPosition
<1>2. m \in LastOfLabel(c) /\ c.versions[m].label = c.versions[i].label
  BY <1>1 DEF LastOfLabel
<1>. DEFINE row == [claim |-> c.id, label |-> c.versions[m].label,
                    statement |-> c.versions[m].statement]
<1>3. row \in VersionRows(v)
  BY <1>2 DEF VersionRows
<1>4. row.claim = c.id /\ row.label = c.versions[i].label
  BY <1>2
<1>. QED
  BY <1>3, <1>4

\* An update keeps a row of every key there was, and of every key it has.
LEMMA UpsertCovers ==
  ASSUME NEW table, NEW rows, NEW key, NEW r \in table \cup rows
  PROVE  \E t \in Upsert(table, rows, key) : \A k \in key : t[k] = r[k]
<1>1. CASE r \in rows
  BY <1>1 DEF Upsert
<1>2. CASE r \in table /\ \A x \in rows : ~Conflict(r, x, key)
  BY <1>2 DEF Upsert
<1>3. CASE \E x \in rows : Conflict(r, x, key)
  BY <1>3 DEF Upsert, Conflict
<1>. QED
  BY <1>1, <1>2, <1>3

\* Foreign keys and CHECKs hold after a load of records kept against known
\* ids of the graph, unless an event is its own cause or a participant has
\* no id (migrations 0003 and 0004).
LEMMA LoadTakes ==
  ASSUME NEW u \in Units, NEW reply \in Replies, NEW k, NEW g,
         ~Untakeable(reply),
         ConstraintsHold(g),
         k.entities \subseteq Ids(g.entities),
         k.events \subseteq Ids(g.events),
         k.claims \subseteq Ids(g.claims)
  PROVE  ConstraintsHold(Loaded(g, Validate(u, reply, k)))
<1>. DEFINE v == Validate(u, reply, k)
            h == Loaded(g, v)
            entities == Ids(h.entities)
            events == Ids(h.events)
            claims == Ids(h.claims)
<1>1. /\ v.entities = MapEntities(reply)
      /\ v.events = MapEvents(u, reply, Ids(v.entities), k)
      /\ v.claims = MapClaims(u, reply, Ids(v.entities), k)
      /\ v.relationships =
           MapRelationships(u, reply, Ids(v.entities), Ids(v.claims), k)
      /\ v.contradictions \subseteq Ids(v.claims)
  BY DEF Validate, Ids
<1>2. /\ h.names \subseteq g.names \cup NameRows(v)
      /\ h.events \subseteq g.events \cup EventRows(v)
      /\ h.participants = g.participants \cup ParticipantRows(v)
      /\ h.links = g.links \cup LinkRows(v)
      /\ h.eventSources \subseteq g.eventSources \cup EventSourceRows(v)
      /\ h.claims \subseteq g.claims \cup ClaimRows(v)
      /\ h.versions = Upsert(g.versions, VersionRows(v), {"claim", "label"})
      /\ h.claimSources \subseteq
           g.claimSources \cup ClaimSourceRows(v) \cup VersionSourceRows(v)
      /\ h.relationships \subseteq g.relationships \cup v.relationships
      /\ h.contradictions = g.contradictions \cup v.contradictions
  BY InsertKeeps DEF Loaded, RelationshipRows
<1>3. /\ Ids(g.entities) \subseteq entities /\ Ids(v.entities) \cup k.entities \subseteq entities
      /\ Ids(g.events) \subseteq events /\ Ids(v.events) \cup k.events \subseteq events
      /\ Ids(g.claims) \subseteq claims /\ Ids(v.claims) \cup k.claims \subseteq claims
  BY LoadedIds
<1>. HIDE DEF v, h, entities, events, claims
<1>15. ASSUME NEW e \in v.events
      PROVE  /\ e.id \in events
             /\ OptionalRef(e.location, entities)
             /\ \A x \in e.participants : x \in entities
             /\ e.causes \cup e.consequences \subseteq events
             /\ e.id \notin e.causes \cup e.consequences
  <2>. DEFINE payload == Ids(v.entities)
  <2>. HIDE DEF payload
  <2>1. v.events = MapEvents(u, reply, payload, k)
    BY <1>1 DEF payload
  <2>2. e \in MapEvents(u, reply, payload, k)
    BY <2>1
  <2>3. /\ OptionalRef(e.location, payload \cup k.entities)
        /\ \A x \in e.participants : OptionalRef(x, payload \cup k.entities)
        /\ e.causes \cup e.consequences \subseteq
             Ids(MapEvents(u, reply, payload, k)) \cup k.events
        /\ e.id \notin e.causes \cup e.consequences
        /\ None \notin e.participants
    BY <2>2, KeptEvent, Zenon
  <2>4. payload \cup k.entities \subseteq entities
    BY <1>3 DEF payload
  <2>5. e.causes \cup e.consequences \subseteq events
    BY <1>3, <2>1, <2>3
  <2>6. OptionalRef(e.location, entities) /\ \A x \in e.participants : x \in entities
    BY <2>3, <2>4 DEF OptionalRef
  <2>7. e.id \in events
    BY <1>3 DEF Ids
  <2>. QED
    BY <2>3, <2>5, <2>6, <2>7
<1>18. ASSUME NEW e \in v.events PROVE \A s \in e.sources : Citeable(u, s)
  <2>. DEFINE payload == Ids(v.entities)
  <2>. HIDE DEF payload
  <2>1. e \in MapEvents(u, reply, payload, k)
    BY <1>1 DEF payload
  <2>. QED
    BY <2>1, KeptEvent, Zenon
<1>19. ASSUME NEW c \in v.claims
       PROVE  /\ \A s \in c.sources : Citeable(u, s)
              /\ \A i \in DOMAIN c.versions :
                   \A s \in c.versions[i].sources : Citeable(u, s)
  <2>. DEFINE payload == Ids(v.entities)
  <2>. HIDE DEF payload
  <2>1. c \in MapClaims(u, reply, payload, k)
    BY <1>1 DEF payload
  <2>. QED
    BY <2>1, KeptClaim, Zenon
<1>16. ASSUME NEW c \in v.claims
      PROVE  /\ c.id \in claims
             /\ OptionalRef(c.subject, entities)
             /\ OptionalRef(c.object, entities)
             /\ c.object = None \/ c.value = None
             /\ \E n \in Nat : DOMAIN c.versions \subseteq 1..n
  <2>. DEFINE payload == Ids(v.entities)
  <2>. HIDE DEF payload
  <2>1. c \in MapClaims(u, reply, payload, k)
    BY <1>1 DEF payload
  <2>2. /\ OptionalRef(c.subject, payload \cup k.entities)
        /\ OptionalRef(c.object, payload \cup k.entities)
        /\ c.object = None \/ c.value = None
        /\ \E n \in Nat : DOMAIN c.versions \subseteq 1..n
    BY <2>1, KeptClaim, Zenon
  <2>3. payload \cup k.entities \subseteq entities
    BY <1>3 DEF payload
  <2>4. c.id \in claims
    BY <1>3 DEF Ids
  <2>. QED
    BY <2>2, <2>3, <2>4 DEF OptionalRef
<1>4. ASSUME NEW n \in h.names PROVE n.entity \in entities /\ n.kind \in NameKinds
  BY <1>1, <1>2, <1>3, KeptNames DEF ConstraintsHold
<1>5. ASSUME NEW e \in h.events PROVE OptionalRef(e.location, entities)
  <2>1. CASE e \in g.events
    BY <1>3, <2>1 DEF ConstraintsHold, OptionalRef
  <2>2. CASE e \in EventRows(v)
    <3>1. PICK w \in v.events : e.location = w.location
      BY <2>2 DEF EventRows
    <3>. QED
      BY <1>15, <3>1
  <2>. QED
    BY <1>2, <2>1, <2>2
<1>6. ASSUME NEW x \in h.participants PROVE x[1] \in events /\ x[2] \in entities
  <2>1. CASE x \in g.participants
    BY <1>3, <2>1 DEF ConstraintsHold
  <2>2. CASE x \in ParticipantRows(v)
    <3>1. PICK w \in v.events : x[1] = w.id /\ x[2] \in w.participants
      BY <2>2 DEF ParticipantRows
    <3>. QED
      BY <1>15, <3>1
  <2>. QED
    BY <1>2, <2>1, <2>2
<1>7. ASSUME NEW x \in h.links
      PROVE  x[1] \in events /\ x[2] \in events /\ x[1] # x[2]
  <2>1. CASE x \in g.links
    BY <1>3, <2>1 DEF ConstraintsHold
  <2>2. CASE x \in LinkRows(v)
    <3>1. PICK w \in v.events : \/ x[2] = w.id /\ x[1] \in w.causes
                                \/ x[1] = w.id /\ x[2] \in w.consequences
      BY <2>2 DEF LinkRows
    <3>. QED
      BY <1>15, <3>1
  <2>. QED
    BY <1>2, <2>1, <2>2
<1>17. ASSUME NEW s, Citeable(u, s) PROVE s.source \in DOMAIN Scheme
  BY <1>17, UnitsAssumption DEF Citeable
<1>8. ASSUME NEW s \in h.eventSources
      PROVE  s.event \in events /\ s.source \in DOMAIN Scheme
  <2>1. CASE s \in g.eventSources
    BY <1>3, <2>1 DEF ConstraintsHold
  <2>2. CASE s \in EventSourceRows(v)
    <3>1. PICK w \in v.events :
            \E t \in w.sources : s = [event |-> w.id, source |-> t.source, keys |-> t.keys]
      BY <2>2 DEF EventSourceRows
    <3>2. PICK t \in w.sources : s.event = w.id /\ s.source = t.source
      BY <3>1
    <3>3. Citeable(u, t)
      BY <1>18
    <3>. QED
      BY <1>3, <1>17, <3>2, <3>3 DEF Ids
  <2>. QED
    BY <1>2, <2>1, <2>2
<1>9. ASSUME NEW c \in h.claims
      PROVE  /\ OptionalRef(c.subject, entities)
             /\ OptionalRef(c.object, entities)
             /\ c.object = None \/ c.value = None
  <2>1. CASE c \in g.claims
    BY <1>3, <2>1 DEF ConstraintsHold, OptionalRef
  <2>2. CASE c \in ClaimRows(v)
    <3>1. PICK w \in v.claims : /\ c.subject = w.subject /\ c.object = w.object
                                /\ c.value = w.value
      BY <2>2 DEF ClaimRows
    <3>. QED
      BY <1>16, <3>1
  <2>. QED
    BY <1>2, <2>1, <2>2
<1>10. ASSUME NEW r \in h.versions PROVE r.claim \in claims
  <2>1. CASE r \in g.versions
    BY <1>3, <2>1 DEF ConstraintsHold
  <2>2. CASE r \in VersionRows(v)
    <3>1. PICK w \in v.claims : r.claim = w.id
      BY <2>2 DEF VersionRows
    <3>. QED
      BY <1>3, <3>1 DEF Ids
  <2>. QED
    BY <1>2, <2>1, <2>2 DEF Upsert
<1>11. ASSUME NEW s \in h.claimSources
       PROVE  /\ s.claim \in claims /\ s.source \in DOMAIN Scheme
              /\ s.version # None =>
                   \E r \in h.versions : r.claim = s.claim /\ r.label = s.version
  <2>1. ASSUME NEW t \in g.versions \cup VersionRows(v),
               t.claim = s.claim, t.label = s.version
        PROVE  \E r \in h.versions : r.claim = s.claim /\ r.label = s.version
    <3>. DEFINE key == {"claim", "label"}
    <3>. HIDE DEF key
    <3>1. PICK r \in Upsert(g.versions, VersionRows(v), key) :
            \A f \in key : r[f] = t[f]
      BY UpsertCovers
    <3>2. r.claim = t.claim /\ r.label = t.label /\ r \in h.versions
      BY <1>2, <3>1 DEF key
    <3>. QED
      BY <2>1, <3>2
  <2>2. CASE s \in g.claimSources
    BY <1>3, <2>1, <2>2 DEF ConstraintsHold
  <2>3. CASE s \in ClaimSourceRows(v)
    <3>1. PICK w \in v.claims : \E t \in w.sources :
            s.claim = w.id /\ s.version = None /\ s.source = t.source
      BY <2>3 DEF ClaimSourceRows
    <3>. QED
      BY <1>3, <1>17, <1>19, <3>1 DEF Ids
  <2>4. CASE s \in VersionSourceRows(v)
    <3>1. PICK w \in v.claims : \E i \in DOMAIN w.versions : s \in SourceRowsOf(w, i)
      BY <2>4 DEF VersionSourceRows
    <3>2. PICK i \in DOMAIN w.versions : \E t \in w.versions[i].sources :
            s.claim = w.id /\ s.version = w.versions[i].label /\ s.source = t.source
      BY <3>1 DEF SourceRowsOf
    <3>5. s.source \in DOMAIN Scheme
      BY <1>17, <1>19, <3>2
    <3>3. PICK n \in Nat : DOMAIN w.versions \subseteq 1..n
      BY <1>16
    <3>4. PICK t \in VersionRows(v) : t.claim = w.id /\ t.label = w.versions[i].label
      BY <3>3, LabelsHaveRows
    <3>. QED
      BY <1>3, <2>1, <3>2, <3>4, <3>5 DEF Ids
  <2>. QED
    BY <1>2, <2>2, <2>3, <2>4
<1>12. ASSUME NEW r \in h.relationships
       PROVE  /\ r.from \in entities /\ r.to \in entities
              /\ r.from # r.to
              /\ r.type \in RelTypes
              /\ OptionalRef(r.claim, claims)
  <2>1. CASE r \in g.relationships
    BY <1>3, <2>1 DEF ConstraintsHold, OptionalRef
  <2>2. CASE r \in v.relationships
    BY <1>1, <1>3, <2>2, KeptRelationship DEF OptionalRef
  <2>. QED
    BY <1>2, <2>1, <2>2
<1>13. h.contradictions \subseteq claims
  BY <1>1, <1>2, <1>3 DEF ConstraintsHold
<1>14. ConstraintsHold(h)
  BY <1>4, <1>5, <1>6, <1>7, <1>8, <1>9, <1>10, <1>11, <1>12, <1>13
     DEF ConstraintsHold, entities, events, claims
<1>. QED
  BY <1>14 DEF v, h

-----------------------------------------------------------------------------
(* Citations.                                                              *)

\* The policy looks at cited sources only, and is met by more of them.
LEMMA PolicyMonotone ==
  ASSUME NEW u, NEW S, NEW T, MeetsPolicy(u, S),
         \A s \in S : \E t \in T : t.source = s.source
  PROVE  MeetsPolicy(u, T)
BY DEF MeetsPolicy

\* A load takes no citation from a record.
LEMMA CitationsStay ==
  ASSUME NEW g, NEW v, NEW x
  PROVE  Citations(g, x) \subseteq Citations(Loaded(g, v), x)
<1>1. /\ g.eventSources \subseteq Loaded(g, v).eventSources
      /\ g.claimSources \subseteq Loaded(g, v).claimSources
  BY InsertKeeps DEF Loaded
<1>. QED
  BY <1>1 DEF Citations

\* For each citation of a loaded event the table has one of that source.
LEMMA EventCitationsLand ==
  ASSUME NEW g, NEW v, NEW e \in v.events, NEW s \in e.sources
  PROVE  \E t \in Loaded(g, v).eventSources : t.event = e.id /\ t.source = s.source
<1>. DEFINE row == [event |-> e.id, source |-> s.source, keys |-> s.keys]
            key == {"event", "source"}
<1>1. row \in EventSourceRows(v)
  BY DEF EventSourceRows
<1>2. row.event = e.id /\ row.source = s.source
  OBVIOUS
<1>. HIDE DEF row, key
<1>3. PICK t \in Insert(g.eventSources, EventSourceRows(v), key) :
        \A f \in key : t[f] = row[f]
  BY <1>1, InsertCovers
<1>4. t \in Loaded(g, v).eventSources
  BY DEF Loaded, key
<1>5. t.event = row.event /\ t.source = row.source
  BY <1>3 DEF key
<1>. QED
  BY <1>2, <1>4, <1>5

\* A citation of a claim or a version is in the table after the load, perhaps
\* with the locator it had before.
LEMMA ClaimRowLands ==
  ASSUME NEW g, NEW v, NEW row \in ClaimSourceRows(v) \cup VersionSourceRows(v)
  PROVE  \E t \in Loaded(g, v).claimSources :
           t.claim = row.claim /\ t.version = row.version /\ t.source = row.source
<1>. DEFINE key == {"claim", "version", "source"}
            rows == ClaimSourceRows(v) \cup VersionSourceRows(v)
<1>1. Loaded(g, v).claimSources = Insert(g.claimSources, rows, key)
  BY DEF Loaded
<1>. HIDE DEF key
<1>2. PICK t \in Insert(g.claimSources, rows, key) : \A f \in key : t[f] = row[f]
  BY InsertCovers
<1>3. t.claim = row.claim /\ t.version = row.version /\ t.source = row.source
  BY <1>2 DEF key
<1>. QED
  BY <1>1, <1>3

\* So each citation of a kept claim as a whole is there.
LEMMA ClaimCitationsLand ==
  ASSUME NEW g, NEW v, NEW c \in v.claims, NEW s \in c.sources
  PROVE  \E t \in Loaded(g, v).claimSources :
           t.claim = c.id /\ t.version = None /\ t.source = s.source
<1>. DEFINE row == [claim |-> c.id, version |-> None, source |-> s.source,
                    keys |-> s.keys]
<1>1. row \in ClaimSourceRows(v)
  <2>1. row \in {[claim |-> c.id, version |-> None, source |-> q.source,
                 keys |-> q.keys] : q \in c.sources}
    OBVIOUS
  <2>. HIDE DEF row
  <2>. QED
    BY <2>1, Zenon DEF ClaimSourceRows
<1>2. row.claim = c.id /\ row.version = None /\ row.source = s.source
  OBVIOUS
<1>. HIDE DEF row
<1>. QED
  BY <1>1, <1>2, ClaimRowLands

\* Also when versions share the label: the first of them that cites the
\* source leaves the row.
LEMMA VersionCitationsLand ==
  ASSUME NEW g, NEW v, NEW c \in v.claims, NEW n \in Nat,
         DOMAIN c.versions \subseteq 1..n,
         NEW i \in DOMAIN c.versions, NEW s \in c.versions[i].sources
  PROVE  \E t \in Loaded(g, v).claimSources :
           /\ t.claim = c.id /\ t.version = c.versions[i].label
           /\ t.source = s.source
<1>. DEFINE label == c.versions[i].label
            S == {j \in DOMAIN c.versions :
                    /\ c.versions[j].label = label
                    /\ \E t \in c.versions[j].sources : t.source = s.source}
<1>1. S \subseteq Nat /\ i \in S
  <2>1. 1..n \subseteq Nat
    OBVIOUS
  <2>2. S \subseteq Nat
    BY <2>1, Zenon
  <2>3. i \in S
    BY Zenon
  <2>. QED
    BY <2>2, <2>3
<1>2. PICK m \in S : \A j \in S : m =< j
  BY <1>1, LeastPosition
<1>3. PICK t \in c.versions[m].sources : t.source = s.source
  BY <1>2
<1>4. FirstForLabel(c, m, t)
  <2>. SUFFICES ASSUME NEW j \in DOMAIN c.versions, j < m,
                       c.versions[j].label = c.versions[m].label,
                       NEW x \in c.versions[j].sources, x.source = t.source
                PROVE  FALSE
    BY DEF FirstForLabel
  <2>1. j \in S /\ j \in Nat /\ m \in Nat
    BY <1>1, <1>3
  <2>. QED
    BY <1>2, <2>1
<1>. DEFINE row == [claim |-> c.id, version |-> c.versions[m].label,
                    source |-> t.source, keys |-> t.keys]
<1>5. row \in VersionSourceRows(v)
  <2>1. row \in SourceRowsOf(c, m)
    BY <1>4 DEF SourceRowsOf
  <2>. HIDE DEF row, S
  <2>2. m \in DOMAIN c.versions
    BY DEF S
  <2>. QED
    BY <2>1, <2>2 DEF VersionSourceRows
<1>6. row.claim = c.id /\ row.version = label /\ row.source = s.source
  BY <1>3
<1>. HIDE DEF row, S
<1>. QED
  BY <1>5, <1>6, ClaimRowLands

\* What a load files is cited as the unit demands.
LEMMA NewIsCited ==
  ASSUME NEW u \in Units, NEW reply \in Replies, NEW k, NEW g,
         NEW x \in Records(Loaded(g, Validate(u, reply, k))) \ Records(g)
  PROVE  MeetsPolicy(u, Citations(Loaded(g, Validate(u, reply, k)), x))
<1>. DEFINE v == Validate(u, reply, k)
            h == Loaded(g, v)
            payload == Ids(v.entities)
<1>1. /\ v.events = MapEvents(u, reply, payload, k)
      /\ v.claims = MapClaims(u, reply, payload, k)
  BY DEF Validate
<1>2. /\ h.events \subseteq g.events \cup EventRows(v)
      /\ h.claims \subseteq g.claims \cup ClaimRows(v)
      /\ h.versions \subseteq g.versions \cup VersionRows(v)
  BY InsertKeeps DEF Loaded, Upsert
<1>. HIDE DEF v, h, payload
<1>3. ASSUME NEW e \in h.events, x = <<"event", e.id, None>>
      PROVE  MeetsPolicy(u, Citations(h, x))
  <2>1. e \in EventRows(v)
    BY <1>2, <1>3 DEF Records, v, h
  <2>2. PICK w \in v.events : w.id = e.id
    BY <2>1 DEF EventRows
  <2>3. MeetsPolicy(u, w.sources)
    <3>1. w \in MapEvents(u, reply, payload, k)
      BY <1>1
    <3>. QED
      BY <3>1, KeptEvent, Zenon
  <2>4. ASSUME NEW s \in w.sources
        PROVE  \E t \in Citations(h, x) : t.source = s.source
    <3>1. PICK t \in h.eventSources : t.event = w.id /\ t.source = s.source
      BY EventCitationsLand DEF h
    <3>. QED
      BY <1>3, <2>2, <3>1 DEF Citations
  <2>. QED
    BY <2>3, <2>4, PolicyMonotone
<1>4. ASSUME NEW c \in h.claims, x = <<"claim", c.id, None>>
      PROVE  MeetsPolicy(u, Citations(h, x))
  <2>1. c \in ClaimRows(v)
    BY <1>2, <1>4 DEF Records, v, h
  <2>2. PICK w \in v.claims : w.id = c.id
    BY <2>1 DEF ClaimRows
  <2>3. MeetsPolicy(u, w.sources)
    BY <1>1, KeptClaim
  <2>4. ASSUME NEW s \in w.sources
        PROVE  \E t \in Citations(h, x) : t.source = s.source
    <3>1. PICK t \in h.claimSources :
            t.claim = w.id /\ t.version = None /\ t.source = s.source
      BY ClaimCitationsLand DEF h
    <3>. QED
      BY <1>4, <2>2, <3>1 DEF Citations
  <2>. QED
    BY <2>3, <2>4, PolicyMonotone
<1>5. ASSUME NEW r \in h.versions, x = <<"claim", r.claim, r.label>>
      PROVE  MeetsPolicy(u, Citations(h, x))
  <2>1. r \in VersionRows(v)
    BY <1>2, <1>5 DEF Records, v, h
  <2>2. PICK w \in v.claims : \E i \in LastOfLabel(w) :
          r.claim = w.id /\ r.label = w.versions[i].label
    BY <2>1 DEF VersionRows
  <2>3. PICK i \in DOMAIN w.versions : r.claim = w.id /\ r.label = w.versions[i].label
    BY <2>2 DEF LastOfLabel
  <2>. w \in MapClaims(u, reply, payload, k)
    BY <1>1
  <2>4. MeetsPolicy(u, w.versions[i].sources)
    BY KeptClaim, Zenon
  <2>5. PICK n \in Nat : DOMAIN w.versions \subseteq 1..n
    BY KeptClaim, Zenon
  <2>6. ASSUME NEW s \in w.versions[i].sources
        PROVE  \E t \in Citations(h, x) : t.source = s.source
    <3>1. \E t \in Loaded(g, v).claimSources :
            t.claim = w.id /\ t.version = w.versions[i].label /\ t.source = s.source
      BY <2>5, VersionCitationsLand, Z3
    <3>2. PICK t \in h.claimSources :
            t.claim = w.id /\ t.version = w.versions[i].label /\ t.source = s.source
      BY <3>1 DEF h
    <3>. QED
      BY <1>5, <2>3, <3>2 DEF Citations
  <2>. QED
    BY <2>4, <2>6, PolicyMonotone
<1>6. x \in Records(h)
  BY DEF v, h
<1>7. MeetsPolicy(u, Citations(h, x))
  BY <1>3, <1>4, <1>5, <1>6 DEF Records
<1>. QED
  BY <1>7 DEF v, h

-----------------------------------------------------------------------------
(* Locators and the register.                                              *)

\* A citation kept satisfies the scheme of its source, if the offers do.
LEMMA CiteableSatisfiesScheme ==
  ASSUME LocatorsFit, NEW u \in Units, NEW s, Citeable(u, s)
  PROVE  Scheme[s.source] \subseteq s.keys
<1>1. PICK d \in Surface(u) : d.source = s.source
  BY DEF Citeable
<1>2. Scheme[s.source] \subseteq d.keys
  BY <1>1 DEF LocatorsFit
<1>3. d.keys \subseteq RequiredKeys(u, s.source)
  BY <1>1 DEF RequiredKeys
<1>. QED
  BY <1>2, <1>3 DEF Citeable

\* Then a load adds no locator that does not satisfy the scheme of its source.
LEMMA LocatorsStayValid ==
  ASSUME LocatorsFit, NEW u \in Units, NEW reply \in Replies, NEW k, NEW g,
         InvalidLocators(g) = {}
  PROVE  InvalidLocators(Loaded(g, Validate(u, reply, k))) = {}
<1>. DEFINE v == Validate(u, reply, k)
            h == Loaded(g, v)
            payload == Ids(v.entities)
<1>1. /\ v.events = MapEvents(u, reply, payload, k)
      /\ v.claims = MapClaims(u, reply, payload, k)
  BY DEF Validate
<1>2. /\ h.eventSources \subseteq g.eventSources \cup EventSourceRows(v)
      /\ h.claimSources \subseteq
           g.claimSources \cup ClaimSourceRows(v) \cup VersionSourceRows(v)
  BY InsertKeeps DEF Loaded
<1>. HIDE DEF v, h, payload
<1>3. ASSUME NEW w \in v.events, NEW s \in w.sources
      PROVE  Scheme[s.source] \subseteq s.keys
  <2>1. w \in MapEvents(u, reply, payload, k)
    BY <1>1
  <2>2. Citeable(u, s)
    BY <2>1, KeptEvent, Zenon
  <2>. QED
    BY <2>2, CiteableSatisfiesScheme
<1>4. ASSUME NEW w \in v.claims
      PROVE  /\ \A s \in w.sources : Scheme[s.source] \subseteq s.keys
             /\ \A i \in DOMAIN w.versions :
                  \A s \in w.versions[i].sources : Scheme[s.source] \subseteq s.keys
  <2>1. w \in MapClaims(u, reply, payload, k)
    BY <1>1
  <2>2. /\ \A s \in w.sources : Citeable(u, s)
        /\ \A i \in DOMAIN w.versions : \A s \in w.versions[i].sources : Citeable(u, s)
    BY <2>1, KeptClaim, Zenon
  <2>. QED
    BY <2>2, CiteableSatisfiesScheme
<1>5. ASSUME NEW r \in EventSourceRows(v) PROVE Scheme[r.source] \subseteq r.keys
  <2>1. PICK w \in v.events : \E s \in w.sources : r.source = s.source /\ r.keys = s.keys
    BY DEF EventSourceRows
  <2>. QED
    BY <1>3, <2>1
<1>6. ASSUME NEW r \in ClaimSourceRows(v) PROVE Scheme[r.source] \subseteq r.keys
  <2>1. PICK w \in v.claims : \E s \in w.sources : r.source = s.source /\ r.keys = s.keys
    BY DEF ClaimSourceRows
  <2>. QED
    BY <1>4, <2>1
<1>7. ASSUME NEW r \in VersionSourceRows(v) PROVE Scheme[r.source] \subseteq r.keys
  <2>1. PICK w \in v.claims : \E i \in DOMAIN w.versions : r \in SourceRowsOf(w, i)
    BY DEF VersionSourceRows
  <2>2. PICK i \in DOMAIN w.versions : r \in SourceRowsOf(w, i)
    BY <2>1
  <2>3. PICK s \in w.versions[i].sources : r.source = s.source /\ r.keys = s.keys
    BY <2>2 DEF SourceRowsOf
  <2>. QED
    BY <1>4, <2>3
<1>8. \A r \in g.claimSources \cup g.eventSources : Scheme[r.source] \subseteq r.keys
  BY DEF InvalidLocators
<1>9. \A r \in h.claimSources \cup h.eventSources : Scheme[r.source] \subseteq r.keys
  BY <1>2, <1>5, <1>6, <1>7, <1>8
<1>10. InvalidLocators(h) = {}
  BY <1>9 DEF InvalidLocators
<1>. QED
  BY <1>10 DEF v, h

\* A contested claim enters the graph with its entry of the register.
LEMMA ContestedStayRegistered ==
  ASSUME NEW u, NEW reply, NEW k, NEW g, ContestedUnregistered(g) = {}
  PROVE  ContestedUnregistered(Loaded(g, Validate(u, reply, k))) = {}
<1>. DEFINE v == Validate(u, reply, k)
            h == Loaded(g, v)
<1>1. /\ h.claims \subseteq g.claims \cup ClaimRows(v)
      /\ h.contradictions = g.contradictions \cup v.contradictions
  BY InsertKeeps DEF Loaded
<1>2. v.contradictions = {c.id : c \in {d \in v.claims : d.confidence \in Contradictory}}
  BY DEF Validate
<1>. HIDE DEF v, h
<1>3. ASSUME NEW c \in h.claims, c.confidence \in Contradictory
      PROVE  c.id \in h.contradictions
  <2>1. CASE c \in g.claims
    BY <1>1, <1>3, <2>1 DEF ContestedUnregistered
  <2>2. CASE c \in ClaimRows(v)
    <3>1. PICK w \in v.claims : c.id = w.id /\ c.confidence = w.confidence
      BY <2>2 DEF ClaimRows
    <3>. QED
      BY <1>1, <1>2, <1>3, <3>1
  <2>. QED
    BY <1>1, <2>1, <2>2
<1>4. ContestedUnregistered(h) = {}
  BY <1>3 DEF ContestedUnregistered
<1>. QED
  BY <1>4 DEF v, h

-----------------------------------------------------------------------------
(* The invariant.                                                          *)

IInv == /\ TypeOK
        /\ ConstraintsHold(graph)
        /\ CitedAsDemanded
        /\ LocatorsFit => InvalidLocators(graph) = {}
        /\ ContestedUnregistered(graph) = {}

\* The empty graph satisfies the invariant.
LEMMA InvInit == Init => IInv
<1>. SUFFICES ASSUME Init PROVE IInv
  OBVIOUS
<1>1. TypeOK
  <2>1. overlapped \in BOOLEAN
    BY Zenon DEF Init
  <2>. QED
    BY <2>1 DEF Init, TypeOK, Nothing
<1>2. ConstraintsHold(graph)
  BY DEF Init, ConstraintsHold, EmptyGraph, OptionalRef
<1>3. CitedAsDemanded
  BY DEF Init, CitedAsDemanded, Records, EmptyGraph
<1>4. InvalidLocators(graph) = {} /\ ContestedUnregistered(graph) = {}
  BY DEF Init, InvalidLocators, ContestedUnregistered, EmptyGraph
<1>. QED
  BY <1>1, <1>2, <1>3, <1>4 DEF IInv

\* The transaction of a unit preserves the invariant.
LEMMA InvPersist ==
  ASSUME IInv, NEW p \in Runs, NEW u \in Units, NEW reply \in Replies,
         Persist(p, u, reply)
  PROVE  IInv'
<1>. DEFINE v == Validate(u, reply, known[p])
            h == Loaded(graph, v)
<1>1. /\ graph' = h /\ ConstraintsHold(h)
      /\ known' = [known EXCEPT ![p] = Learns(known[p], v, reply)]
      /\ filed' = filed \cup {[unit |-> u, record |-> x] :
                                x \in Records(graph') \ Records(graph)}
      /\ running' = running /\ overlapped' = overlapped
  BY DEF Persist
<1>2. /\ Ids(h.entities) = Ids(graph.entities) \cup Ids(v.entities)
      /\ Ids(h.events) = Ids(graph.events) \cup Ids(v.events)
      /\ Ids(h.claims) = Ids(graph.claims) \cup Ids(v.claims)
  BY LoadedIds
<1>3. \A x : Citations(graph, x) \subseteq Citations(h, x)
  BY CitationsStay
<1>4. \A x \in Records(h) \ Records(graph) : MeetsPolicy(u, Citations(h, x))
  BY NewIsCited
<1>5. (LocatorsFit => InvalidLocators(h) = {}) /\ ContestedUnregistered(h) = {}
  BY LocatorsStayValid, ContestedStayRegistered DEF IInv
<1>6. DOMAIN h = DOMAIN EmptyGraph
  BY DEF Loaded, EmptyGraph
<1>. HIDE DEF v, h
<1>7. TypeOK'
  <2>1. overlapped' \in BOOLEAN /\ running' \subseteq Runs
    BY <1>1, Zenon DEF IInv, TypeOK
  <2>2. DOMAIN known' = Runs
    BY <1>1 DEF IInv, TypeOK
  <2>3. ASSUME NEW q \in Runs
        PROVE  /\ known'[q].entities \subseteq Ids(graph'.entities)
               /\ known'[q].events \subseteq Ids(graph'.events)
               /\ known'[q].claims \subseteq Ids(graph'.claims)
    <3>1. CASE q = p
      BY <1>1, <1>2, <3>1 DEF IInv, TypeOK, Learns
    <3>2. CASE q # p
      BY <1>1, <1>2, <3>2 DEF IInv, TypeOK
    <3>. QED
      BY <3>1, <3>2
  <2>. QED
    BY <1>1, <1>6, <2>1, <2>2, <2>3 DEF TypeOK
<1>8. CitedAsDemanded'
  <2>. SUFFICES ASSUME NEW x \in Records(h)
                PROVE  \E f \in filed' :
                         f.record = x /\ MeetsPolicy(f.unit, Citations(h, x))
    BY <1>1 DEF CitedAsDemanded
  <2>1. CASE x \in Records(graph)
    <3>1. PICK f \in filed : f.record = x /\ MeetsPolicy(f.unit, Citations(graph, x))
      BY <2>1 DEF IInv, CitedAsDemanded
    <3>2. MeetsPolicy(f.unit, Citations(h, x))
      BY <1>3, <3>1, PolicyMonotone
    <3>. QED
      BY <1>1, <3>1, <3>2
  <2>2. CASE x \notin Records(graph)
    <3>1. [unit |-> u, record |-> x] \in filed'
      BY <1>1, <2>2
    <3>2. MeetsPolicy(u, Citations(h, x))
      BY <1>4, <2>2
    <3>. QED
      BY <3>1, <3>2
  <2>. QED
    BY <2>1, <2>2
<1>9. /\ ConstraintsHold(graph')
      /\ LocatorsFit => InvalidLocators(graph') = {}
      /\ ContestedUnregistered(graph') = {}
  BY <1>1, <1>5
<1>10. /\ ConstraintsHold(graph)'
       /\ (LocatorsFit => InvalidLocators(graph) = {})'
       /\ (ContestedUnregistered(graph) = {})'
  BY <1>9 DEF LocatorsFit
<1>. QED
  BY <1>7, <1>8, <1>10 DEF IInv

\* So does every other step, none of which touches the graph.
LEMMA InvNext == IInv /\ [Next]_vars => IInv'
<1>. SUFFICES ASSUME IInv, [Next]_vars PROVE IInv'
  OBVIOUS
<1>1. ASSUME NEW p \in Runs, NEW u \in Units, NEW reply \in Replies,
             Persist(p, u, reply)
      PROVE  IInv'
  BY <1>1, InvPersist
<1>2. ASSUME graph' = graph, filed' = filed, TypeOK' PROVE IInv'
  BY <1>2 DEF IInv, CitedAsDemanded
<1>3. ASSUME NEW p \in Runs, Begin(p) PROVE IInv'
  <2>1. overlapped' \in BOOLEAN
    BY <1>3, Zenon DEF Begin, IInv, TypeOK
  <2>2. graph' = graph /\ filed' = filed
    BY <1>3 DEF Begin
  <2>3. TypeOK'
    BY <1>3, <2>1, <2>2 DEF Begin, IInv, TypeOK
  <2>. QED
    BY <1>2, <2>2, <2>3
<1>4. ASSUME NEW p \in Runs, Forget(p) PROVE IInv'
  <2>1. overlapped' \in BOOLEAN
    BY <1>4, Zenon DEF Forget, IInv, TypeOK
  <2>2. graph' = graph /\ filed' = filed
    BY <1>4 DEF Forget
  <2>3. TypeOK'
    BY <1>4, <2>1, <2>2 DEF Forget, Nothing, IInv, TypeOK
  <2>. QED
    BY <1>2, <2>2, <2>3
<1>5. CASE UNCHANGED vars
  <2>1. overlapped' \in BOOLEAN
    BY <1>5, Zenon DEF vars, IInv, TypeOK
  <2>2. TypeOK'
    BY <1>5, <2>1 DEF vars, IInv, TypeOK
  <2>. QED
    BY <1>2, <1>5, <2>2 DEF vars
<1>. QED
  BY <1>1, <1>3, <1>4, <1>5 DEF Next, End, Reject

\* The inductive invariant holds: the constraints of the tables, the citations
\* of every record, the locators and the register, after any loads of any runs.
THEOREM GraphInvariant == Spec => []IInv
BY InvInit, InvNext, PTL DEF Spec

\* A run never takes an id for known that the graph does not hold.
THEOREM TypeCorrect == Spec => []TypeOK
<1>1. IInv => TypeOK
  BY DEF IInv
<1>. QED
  BY <1>1, GraphInvariant, PTL

\* Every event, claim and version in the graph is cited as the policy of the
\* unit that filed it demands.
THEOREM CiteOrDrop == Spec => []CitedAsDemanded
<1>1. IInv => CitedAsDemanded
  BY DEF IInv
<1>. QED
  BY <1>1, GraphInvariant, PTL

\* Whatever the locators offered, the integrity checks, that of the locators
\* aside, find nothing in a graph that only runs have written.
THEOREM OtherChecksPass ==
  Spec => [](InvalidLocators(graph) = {} => IntegrityChecksPass)
<1>1. IInv => (InvalidLocators(graph) = {} => IntegrityChecksPass)
  <2>. SUFFICES ASSUME IInv, InvalidLocators(graph) = {} PROVE IntegrityChecksPass
    OBVIOUS
  <2>1. \A x \in Records(graph) : Citations(graph, x) # {}
    BY DEF IInv, CitedAsDemanded, MeetsPolicy
  <2>2. ASSUME NEW c \in graph.claims
        PROVE  \E s \in graph.claimSources : s.claim = c.id
    <3>1. <<"claim", c.id, None>> \in Records(graph)
      BY DEF Records
    <3>. QED
      BY <2>1, <3>1 DEF Citations
  <2>3. ASSUME NEW e \in graph.events
        PROVE  \E s \in graph.eventSources : s.event = e.id
    <3>1. <<"event", e.id, None>> \in Records(graph)
      BY DEF Records
    <3>. QED
      BY <2>1, <3>1 DEF Citations
  <2>4. ASSUME NEW r \in graph.versions
        PROVE  \E s \in graph.claimSources : s.claim = r.claim /\ s.version = r.label
    <3>1. <<"claim", r.claim, r.label>> \in Records(graph)
      BY DEF Records
    <3>. QED
      BY <2>1, <3>1 DEF Citations
  <2>5. DanglingReferences(graph) = {}
    BY DEF IInv, ConstraintsHold, DanglingReferences
  <2>. QED
    BY <2>2, <2>3, <2>4, <2>5 DEF IInv, IntegrityChecksPass, ClaimsWithoutSources,
       EventsWithoutSources, VersionsWithoutCitations
<1>. QED
  BY <1>1, GraphInvariant, PTL

\* All of them find nothing if the locators of the manifest satisfy the schemes
\* of their sources, which the adapter does not see to.
THEOREM ChecksPass == ASSUME LocatorsFit PROVE Spec => []IntegrityChecksPass
<1>1. IInv => InvalidLocators(graph) = {}
  BY DEF IInv
<1>. QED
  BY <1>1, GraphInvariant, OtherChecksPass, PTL

\* What validation keeps violates no constraint of the tables, but for the two
\* things it lets through.
THEOREM KeptLoads == Spec => []KeptIsLoadable
<1>1. IInv => KeptIsLoadable
  <2>. SUFFICES ASSUME IInv, NEW p \in running, NEW u \in Units,
                       NEW reply \in Replies, ~Untakeable(reply)
                PROVE  ConstraintsHold(Loaded(graph, Validate(u, reply, known[p])))
    BY DEF KeptIsLoadable
  <2>. DEFINE k == known[p]
  <2>1. /\ ConstraintsHold(graph)
        /\ k.entities \subseteq Ids(graph.entities)
        /\ k.events \subseteq Ids(graph.events)
        /\ k.claims \subseteq Ids(graph.claims)
    BY DEF IInv, TypeOK
  <2>. HIDE DEF k
  <2>2. ConstraintsHold(Loaded(graph, Validate(u, reply, k)))
    BY <2>1, LoadTakes
  <2>. QED
    BY <2>2 DEF k
<1>. QED
  BY <1>1, GraphInvariant, PTL
=============================================================================

----------------------------- MODULE Validation -----------------------------
(***************************************************************************)
(* The deterministic drop rules of extract/validate.go: what of a model's  *)
(* reply about one unit is kept, given the ids the graph is known to hold. *)
(*                                                                         *)
(* The code walks each list of the reply once and keeps a record when it   *)
(* passes every rule and no record of its id was kept before, so that what *)
(* is kept is the first acceptable record of each id.  Lists of the reply  *)
(* are sequences; what is kept of them is a set, in which ids are unique.  *)
(* The log of what was dropped is left out.                                *)
(*                                                                         *)
(* A citation is [source, keys]: the cited source and the keys of its      *)
(* locator.  A unit is [reference, candidates, requireReference,           *)
(* requirePrimary, relTypes, relAliases].  A reply has the fields          *)
(* entities, events, claims and relationships.                             *)
(***************************************************************************)
EXTENDS Integers, Sequences

CONSTANTS None,            \* the empty string of an optional field
          Slugs,           \* the ids that are lowercase slugs
          NameKinds,       \* kinds of entity names the schema allows
          OtherKind,       \* the one that surface spellings normalise to
          Contradictory    \* confidences that require versions

ASSUME ValidationAssumption == /\ None \notin Slugs
                               /\ OtherKind \in NameKinds

\* The first of the good records of each key: good is a set of positions, key
\* the fields that make up the key.
First(list, good, key) ==
  {list[i] : i \in {i \in good : \A j \in good : j < i =>
                      \E k \in key : list[j][k] # list[i][k]}}

Ids(S) == {r.id : r \in S}

-----------------------------------------------------------------------------
(* Citations.                                                              *)

Surface(u) == {u.reference} \cup u.candidates

\* The keys a citation of source s must carry: those of every locator the
\* unit offers for s.
RequiredKeys(u, s) == UNION {c.keys : c \in {d \in Surface(u) : d.source = s}}

\* Mistake: a locator may lack keys.
CiteableWithoutKeys(u, c) == \E d \in Surface(u) : d.source = c.source

Citeable(u, c) == /\ \E d \in Surface(u) : d.source = c.source
                  /\ RequiredKeys(u, c.source) \subseteq c.keys

\* Of several citations of one source by one record the table keeps the
\* first; the later ones are left out here already.
FilterCitations(u, sources) ==
  First(sources, {i \in DOMAIN sources : Citeable(u, sources[i])},
        {"source"})

\* Mistake: a primary source is not asked for.
MeetsReference(u, cites) ==
  /\ cites # {}
  /\ u.requireReference => \E c \in cites : c.source = u.reference.source

\* The citation policy of the unit: citationReason finds no reason to drop.
MeetsPolicy(u, cites) ==
  /\ cites # {}
  /\ u.requireReference => \E c \in cites : c.source = u.reference.source
  /\ u.requirePrimary => \E c \in cites : c.source # u.reference.source

-----------------------------------------------------------------------------
(* Records.  known holds the ids of the graph's entities, events, claims.  *)

\* The empty id resolves.
Resolves(id, payload, known) == id = None \/ id \in payload \cup known.entities

MapNames(e) ==
  {[name |-> n.name,
    kind |-> IF n.kind \in NameKinds THEN n.kind ELSE OtherKind] :
     n \in First(e.names,
                 {i \in DOMAIN e.names : e.names[i].name \notin {None, e.canonical}},
                 {"name"})}

MapEntities(reply) ==
  {[id |-> e.id, canonical |-> e.canonical, names |-> MapNames(e)] :
     e \in First(reply.entities,
                 {i \in DOMAIN reply.entities : reply.entities[i].id \in Slugs}, {"id"})}

KeepsEvent(u, e, known) ==
  /\ e.id \in Slugs \ known.events
  /\ MeetsPolicy(u, FilterCitations(u, e.sources))

\* Mistake: links are resolved against every event of the reply.
LinkTargetsOfReply(u, reply, known) ==
  {reply.events[i].id : i \in DOMAIN reply.events} \cup known.events

KeptEvents(u, reply, known) ==
  First(reply.events,
        {i \in DOMAIN reply.events : KeepsEvent(u, reply.events[i], known)}, {"id"})

\* Links may point to any event that survived or was there before.
LinkTargets(u, reply, known) == Ids(KeptEvents(u, reply, known)) \cup known.events

MapEvents(u, reply, payload, known) ==
  {[id |-> e.id,
    text |-> e.text,
    location |-> IF Resolves(e.location, payload, known) THEN e.location ELSE None,
    participants |-> {x \in e.participants : Resolves(x, payload, known)},
    causes |-> e.causes \cap LinkTargets(u, reply, known),
    consequences |-> e.consequences \cap LinkTargets(u, reply, known),
    sources |-> FilterCitations(u, e.sources)] : e \in KeptEvents(u, reply, known)}

\* Mistake: the claim is cited, so its versions need not be.
MapVersionsAll(u, c) ==
  [i \in DOMAIN c.versions |->
     [label |-> c.versions[i].label,
      statement |-> c.versions[i].statement,
      sources |-> FilterCitations(u, c.versions[i].sources)]]

\* The versions of a claim that are cited as the policy demands, by position.
MapVersions(u, c) ==
  [i \in {i \in DOMAIN c.versions :
            MeetsPolicy(u, FilterCitations(u, c.versions[i].sources))} |->
     [label |-> c.versions[i].label,
      statement |-> c.versions[i].statement,
      sources |-> FilterCitations(u, c.versions[i].sources)]]

\* Mistake: a contested claim is kept without versions.
KeepsClaimBare(u, c, payload, known) ==
  /\ c.id \in Slugs \ known.claims
  /\ Resolves(c.subject, payload, known) /\ Resolves(c.object, payload, known)
  /\ MeetsPolicy(u, FilterCitations(u, c.sources))

\* Mistake: a claim that is in the graph is kept again.
KeepsClaimAgain(u, c, payload, known) ==
  /\ c.id \in Slugs
  /\ Resolves(c.subject, payload, known) /\ Resolves(c.object, payload, known)
  /\ MeetsPolicy(u, FilterCitations(u, c.sources))
  /\ c.confidence \in Contradictory => DOMAIN MapVersions(u, c) # {}

KeepsClaim(u, c, payload, known) ==
  /\ c.id \in Slugs \ known.claims
  /\ Resolves(c.subject, payload, known) /\ Resolves(c.object, payload, known)
  /\ MeetsPolicy(u, FilterCitations(u, c.sources))
  /\ c.confidence \in Contradictory => DOMAIN MapVersions(u, c) # {}

\* A claim states an object entity or an object value, never both.
MapClaims(u, reply, payload, known) ==
  {[id |-> c.id,
    statement |-> c.statement,
    confidence |-> c.confidence,
    subject |-> c.subject,
    object |-> c.object,
    value |-> IF c.object = None THEN c.value ELSE None,
    versions |-> MapVersions(u, c),
    sources |-> FilterCitations(u, c.sources)] :
     c \in First(reply.claims,
                 {i \in DOMAIN reply.claims :
                    KeepsClaim(u, reply.claims[i], payload, known)}, {"id"})}

\* Authored aliases of a relationship type are one type.
Canonical(u, t) == IF t \in DOMAIN u.relAliases THEN u.relAliases[t] ELSE t

\* A claim that does not resolve leaves the edge without justification.
Edge(u, r, claims, known) ==
  [from |-> r.from, to |-> r.to, type |-> Canonical(u, r.type),
   claim |-> IF r.claim \in claims \cup known.claims THEN r.claim ELSE None]

KeepsEdge(u, r, payload, known) ==
  /\ Canonical(u, r.type) \in u.relTypes
  /\ Resolves(r.from, payload, known) /\ Resolves(r.to, payload, known)
  /\ r.from # r.to

MapRelationships(u, reply, payload, claims, known) ==
  First([i \in DOMAIN reply.relationships |->
           Edge(u, reply.relationships[i], claims, known)],
        {i \in DOMAIN reply.relationships :
           KeepsEdge(u, reply.relationships[i], payload, known)},
        {"from", "to", "type"})

\* A contradiction entry is named after its claim, and so stands as its id.
Validate(u, reply, known) ==
  LET entities == MapEntities(reply)
      claims == MapClaims(u, reply, Ids(entities), known)
  IN [entities |-> entities,
      events |-> MapEvents(u, reply, Ids(entities), known),
      claims |-> claims,
      contradictions |-> {c.id : c \in {d \in claims : d.confidence \in Contradictory}},
      relationships |->
        MapRelationships(u, reply, Ids(entities), Ids(claims), known)]
=============================================================================

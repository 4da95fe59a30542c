----------------------------- MODULE GraphLoad ------------------------------
(***************************************************************************)
(* Runs that load replies into the knowledge graph: the second half of     *)
(* persistOutcome (extract/runner.go), LoadRecords (extract/loader.go) and *)
(* the tables of migrations 0003 and 0004 with their constraints.          *)
(*                                                                         *)
(* A run reads the ids of the graph once (IDSnapshots), validates each     *)
(* reply against them, loads what is kept in one transaction, and adds the *)
(* ids it loaded to those it knows.  Any reply may come for any unit at    *)
(* any time, so that units are extracted again and replies collide.  Runs  *)
(* may be under way together and may end at any point.                     *)
(*                                                                         *)
(* A load is one step.  The transactions of two runs that insert the same  *)
(* keys wait for one another at those keys, so their effect is that of one *)
(* after the other; one that the database refuses to avoid a deadlock is a *)
(* run that ends.                                                          *)
(*                                                                         *)
(* Tables are sets of rows.  Left out: attributes, roles, notes, kinds of  *)
(* entities and events, descriptions, predicates and time stamps.  Of text *)
(* only this is kept, that there are replies with some the database may    *)
(* refuse.                                                                 *)
(***************************************************************************)
EXTENDS Validation

CONSTANTS Runs,       \* the runs that may be under way together
          Units,      \* extraction units
          Replies,    \* replies of the model, parsed
          Unstorable, \* those with text that the database may refuse
          Scheme,     \* the rows of sources: the locator keys each requires
          RelTypes    \* the rows of relationship_types

\* Only sources of the registry are offered, and nothing deletes their rows.
ASSUME UnitsAssumption ==
  \A u \in Units :
    /\ u.relTypes \subseteq RelTypes
    /\ \A c \in Surface(u) : c.source \in DOMAIN Scheme

\* The locators offered satisfy the schemes of the sources they cite.  This is
\* up to the manifest: nothing checks it (adapters/arda/arda.go:93).
LocatorsFit ==
  \A u \in Units : \A c \in Surface(u) : Scheme[c.source] \subseteq c.keys

\* What ParseExtraction requires of a record it hands on.
ASSUME RepliesAssumption ==
  \A reply \in Replies :
    /\ DOMAIN reply.events \subseteq Nat /\ DOMAIN reply.claims \subseteq Nat
    /\ \A i \in DOMAIN reply.claims :
         LET versions == reply.claims[i].versions
         IN /\ Len(versions) \in Nat /\ DOMAIN versions = 1..Len(versions)
            /\ \A j \in DOMAIN versions : versions[j].label # None
    /\ \A i \in DOMAIN reply.relationships :
         None \notin {reply.relationships[i].from, reply.relationships[i].to}

VARIABLES
  graph,        \* the tables
  running,      \* the runs under way
  known,        \* the ids each run knows
  filed,        \* history: which unit's reply put each cited record there
  overlapped    \* history: runs were under way together

vars == <<graph, running, known, filed, overlapped>>

EmptyGraph ==
  [entities |-> {}, names |-> {}, events |-> {}, participants |-> {},
   links |-> {}, eventSources |-> {}, claims |-> {}, versions |-> {},
   claimSources |-> {}, relationships |-> {}, contradictions |-> {}]

Nothing == [entities |-> {}, events |-> {}, claims |-> {}]

Init == /\ graph = EmptyGraph
        /\ running = {}
        /\ known = [p \in Runs |-> Nothing]
        /\ filed = {}
        /\ overlapped = FALSE

-----------------------------------------------------------------------------
(* LoadRecords: the rows it writes, and what becomes of those there are.   *)

Conflict(t, r, key) == \A k \in key : t[k] = r[k]

\* Mistake: the row there is gives way.
InsertOver(table, rows, key) ==
  {t \in table : \A r \in rows : ~Conflict(t, r, key)} \cup rows

\* ON CONFLICT (key) DO NOTHING.
Insert(table, rows, key) ==
  table \cup {r \in rows : \A t \in table : ~Conflict(t, r, key)}

\* ON CONFLICT (key) DO UPDATE.
Upsert(table, rows, key) ==
  {t \in table : \A r \in rows : ~Conflict(t, r, key)} \cup rows

EntityRows(v) == {[id |-> e.id, canonical |-> e.canonical] : e \in v.entities}

NameRows(v) == UNION {{[entity |-> e.id, name |-> n.name, kind |-> n.kind] :
                         n \in e.names} : e \in v.entities}

EventRows(v) == {[id |-> e.id, text |-> e.text, location |-> e.location] :
                   e \in v.events}

ParticipantRows(v) == UNION {{<<e.id, x>> : x \in e.participants} : e \in v.events}

LinkRows(v) == UNION {{<<x, e.id>> : x \in e.causes} \cup
                      {<<e.id, x>> : x \in e.consequences} : e \in v.events}

EventSourceRows(v) ==
  UNION {{[event |-> e.id, source |-> c.source, keys |-> c.keys] :
            c \in e.sources} : e \in v.events}

ClaimRows(v) == {[id |-> c.id, statement |-> c.statement,
                  confidence |-> c.confidence, subject |-> c.subject,
                  object |-> c.object, value |-> c.value] : c \in v.claims}

\* The position of a version whose statement stays, and those whose label
\* is new: two versions of a claim may have one label.
LastOfLabel(c) == {i \in DOMAIN c.versions : \A j \in DOMAIN c.versions :
                     j > i => c.versions[j].label # c.versions[i].label}

VersionRows(v) ==
  UNION {{[claim |-> c.id, label |-> c.versions[i].label,
           statement |-> c.versions[i].statement] : i \in LastOfLabel(c)} :
           c \in v.claims}

\* Citations of a claim as a whole have no version.
ClaimSourceRows(v) ==
  UNION {{[claim |-> c.id, version |-> None, source |-> s.source,
           keys |-> s.keys] : s \in c.sources} : c \in v.claims}

\* Of the citations of one source by versions of one label the first stays.
FirstForLabel(c, i, s) ==
  \A j \in DOMAIN c.versions :
    j < i /\ c.versions[j].label = c.versions[i].label
      => \A t \in c.versions[j].sources : t.source # s.source

SourceRowsOf(c, i) ==
  {[claim |-> c.id, version |-> c.versions[i].label, source |-> s.source,
    keys |-> s.keys] : s \in {t \in c.versions[i].sources : FirstForLabel(c, i, t)}}

VersionSourceRows(v) ==
  UNION {UNION {SourceRowsOf(c, i) : i \in DOMAIN c.versions} : c \in v.claims}

RelationshipRows(v) == v.relationships

Loaded(g, v) ==
  [entities |-> Insert(g.entities, EntityRows(v), {"id"}),
   names |-> Insert(g.names, NameRows(v), {"entity", "name"}),
   events |-> Insert(g.events, EventRows(v), {"id"}),
   participants |-> g.participants \cup ParticipantRows(v),
   links |-> g.links \cup LinkRows(v),
   eventSources |-> Insert(g.eventSources, EventSourceRows(v),
                           {"event", "source"}),
   claims |-> Insert(g.claims, ClaimRows(v), {"id"}),
   versions |-> Upsert(g.versions, VersionRows(v), {"claim", "label"}),
   claimSources |-> Insert(g.claimSources, ClaimSourceRows(v) \cup VersionSourceRows(v),
                           {"claim", "version", "source"}),
   relationships |-> Insert(g.relationships, RelationshipRows(v),
                            {"from", "to", "type"}),
   contradictions |-> g.contradictions \cup v.contradictions]

\* The constraints of the tables: keys that refer to rows, and CHECKs.
OptionalRef(x, S) == x = None \/ x \in S

ConstraintsHold(g) ==
  LET entities == Ids(g.entities)
      events == Ids(g.events)
      claims == Ids(g.claims)
  IN /\ \A n \in g.names : n.entity \in entities /\ n.kind \in NameKinds
     /\ \A e \in g.events : OptionalRef(e.location, entities)
     /\ \A x \in g.participants : x[1] \in events /\ x[2] \in entities
     /\ \A x \in g.links : x[1] \in events /\ x[2] \in events /\ x[1] # x[2]
     /\ \A c \in g.eventSources : c.event \in events /\ c.source \in DOMAIN Scheme
     /\ \A c \in g.claims : /\ OptionalRef(c.subject, entities)
                            /\ OptionalRef(c.object, entities)
                            /\ c.object = None \/ c.value = None
     /\ \A r \in g.versions : r.claim \in claims
     /\ \A c \in g.claimSources :
          /\ c.claim \in claims /\ c.source \in DOMAIN Scheme
          /\ c.version # None =>
               \E r \in g.versions : r.claim = c.claim /\ r.label = c.version
     /\ \A r \in g.relationships : /\ r.from \in entities /\ r.to \in entities
                                   /\ r.from # r.to
                                   /\ r.type \in RelTypes
                                   /\ OptionalRef(r.claim, claims)
     /\ g.contradictions \subseteq claims

\* The records that carry citations: events, claims, versions of claims.
Records(g) == {<<"event", e.id, None>> : e \in g.events}
                \cup {<<"claim", c.id, None>> : c \in g.claims}
                \cup {<<"claim", r.claim, r.label>> : r \in g.versions}

\* The citations of a record; those of a claim as a whole have no version.
Citations(g, x) ==
  IF x[1] = "event" THEN {s \in g.eventSources : s.event = x[2]}
  ELSE {s \in g.claimSources : s.claim = x[2] /\ s.version = x[3]}

-----------------------------------------------------------------------------
(* Steps.                                                                  *)

\* IDSnapshots.  Its three queries are one step: rows stay, so that each set
\* only lacks what came after it was read.
Begin(p) ==
  /\ p \notin running
  /\ running' = running \cup {p}
  /\ known' = [known EXCEPT ![p] = [entities |-> Ids(graph.entities),
                                    events |-> Ids(graph.events),
                                    claims |-> Ids(graph.claims)]]
  /\ overlapped' = (overlapped \/ running # {})
  /\ UNCHANGED <<graph, filed>>

\* Mistake: the ids of dropped records are taken for known.
LearnsReply(k, v, reply) ==
  [entities |-> k.entities \cup {reply.entities[i].id : i \in DOMAIN reply.entities},
   events |-> k.events \cup {reply.events[i].id : i \in DOMAIN reply.events},
   claims |-> k.claims \cup {reply.claims[i].id : i \in DOMAIN reply.claims}]

\* The ids a run knows after it loaded v, the records kept of the reply.
Learns(k, v, reply) == [entities |-> k.entities \cup Ids(v.entities),
                        events |-> k.events \cup Ids(v.events),
                        claims |-> k.claims \cup Ids(v.claims)]

\* The transaction of one unit commits.
Persist(p, u, reply) ==
  LET v == Validate(u, reply, known[p])
  IN /\ p \in running
     /\ ConstraintsHold(Loaded(graph, v))
     /\ graph' = Loaded(graph, v)
     /\ known' = [known EXCEPT ![p] = Learns(@, v, reply)]
     /\ filed' = filed \cup {[unit |-> u, record |-> x] :
                               x \in Records(graph') \ Records(graph)}
     /\ UNCHANGED <<running, overlapped>>

Forget(p) ==
  /\ running' = running \ {p}
  /\ known' = [known EXCEPT ![p] = Nothing]
  /\ UNCHANGED <<graph, filed, overlapped>>

\* The tables reject a row, for a constraint or for a text they cannot hold: a
\* NUL, a title cut inside a character (extract/validate.go:428-430), a key
\* too long for its index.  Whether such a text comes to the tables depends on
\* what is kept.  The transaction is rolled back and the run ends.
Reject(p, u, reply) ==
  /\ p \in running
  /\ \/ ~ConstraintsHold(Loaded(graph, Validate(u, reply, known[p])))
     \/ reply \in Unstorable
  /\ Forget(p)

\* A run finishes, is cancelled, crashes, or ends over an error.
End(p) == p \in running /\ Forget(p)

Next == \E p \in Runs :
          \/ Begin(p)
          \/ End(p)
          \/ \E u \in Units, reply \in Replies : \/ Persist(p, u, reply)
                                                 \/ Reject(p, u, reply)

Spec == Init /\ [][Next]_vars

-----------------------------------------------------------------------------
(* The checks of internal/integrity: what each of them would find.         *)

ClaimsWithoutSources(g) ==
  {c \in g.claims : \A s \in g.claimSources : s.claim # c.id}

EventsWithoutSources(g) ==
  {e \in g.events : \A s \in g.eventSources : s.event # e.id}

InvalidLocators(g) ==
  {s \in g.claimSources \cup g.eventSources : ~(Scheme[s.source] \subseteq s.keys)}

DanglingReferences(g) ==
  LET entities == Ids(g.entities)
      events == Ids(g.events)
  IN {x \in g.participants : x[2] \notin entities}
       \cup {x \in g.links : {x[1], x[2]} \ events # {}}
       \cup {r \in g.relationships : \/ {r.from, r.to} \ entities # {}
                                    \/ ~OptionalRef(r.claim, Ids(g.claims))}

ContestedUnregistered(g) ==
  {c \in g.claims : c.confidence \in Contradictory /\ c.id \notin g.contradictions}

VersionsWithoutCitations(g) ==
  {r \in g.versions : \A s \in g.claimSources :
                        ~(s.claim = r.claim /\ s.version = r.label)}

-----------------------------------------------------------------------------
(* Properties.                                                             *)

\* A run knows the ids of rows that are there, and no others.
TypeOK ==
  /\ DOMAIN graph = DOMAIN EmptyGraph /\ DOMAIN known = Runs
  /\ running \subseteq Runs
  /\ overlapped \in BOOLEAN
  /\ \A p \in Runs : /\ known[p].entities \subseteq Ids(graph.entities)
                     /\ known[p].events \subseteq Ids(graph.events)
                     /\ known[p].claims \subseteq Ids(graph.claims)

\* Whatever is loaded, by whichever runs and in whatever order, the checks
\* for uncited claims, events and versions, for references to nothing, for
\* contested claims missing in the register and, provided that the locators
\* offered do (LocatorsFit), for locators that do not satisfy the scheme of the
\* source find nothing (internal/integrity/integrity.go, Checks).
IntegrityChecksPass ==
  /\ ClaimsWithoutSources(graph) = {}
  /\ EventsWithoutSources(graph) = {}
  /\ InvalidLocators(graph) = {}
  /\ DanglingReferences(graph) = {}
  /\ ContestedUnregistered(graph) = {}
  /\ VersionsWithoutCitations(graph) = {}

\* Every event and every claim cites what the policy of the unit that filed
\* it demands, the claim by citations of the claim as a whole, and every
\* version by citations pinned to it, however many other replies met it
\* since (the both-tier rule of extract/validate.go:3-5).
CitedAsDemanded ==
  \A x \in Records(graph) : \E f \in filed :
    f.record = x /\ MeetsPolicy(f.unit, Citations(graph, x))

\* What validation lets through and the constraints of the tables do not: an
\* event that is its own cause or consequence, and a participant without id.
Untakeable(reply) ==
  \E i \in DOMAIN reply.events :
    LET e == reply.events[i]
    IN e.id \in e.causes \cup e.consequences \/ None \in e.participants

\* What validation keeps of any other reply violates no constraint of the
\* tables, whatever other runs have loaded since this one read the ids
\* (extract/runner.go:452-467).  Of the text in it this says nothing.
KeptIsLoadable ==
  \A p \in running, u \in Units, reply \in Replies :
    Untakeable(reply)
      \/ ConstraintsHold(Loaded(graph, Validate(u, reply, known[p])))

\* Loading a reply that was just loaded once more changes nothing
\* (extract/loader.go:1, "idempotent upserts").
ReloadChangesNothing ==
  [][\A p \in Runs, u \in Units, reply \in Replies :
       Persist(p, u, reply) =>
         Loaded(graph', Validate(u, reply, known'[p])) = graph']_vars

\* Unless runs overlap, an entry of the register is about a claim that is
\* contested and has versions (extract/validate.go:425-436).
RegisteredIsContested ==
  overlapped \/ \A id \in graph.contradictions :
                  /\ \E c \in graph.claims : c.id = id /\ c.confidence \in Contradictory
                  /\ \E r \in graph.versions : r.claim = id

RepeatsLabel(c) ==
  \E i, j \in DOMAIN c.versions : i # j /\ c.versions[i].label = c.versions[j].label

\* "one row per source tradition, each with its own pinned citations, so
\* traditions stay separable end to end" (migrations/0003_knowledge_graph.up.sql:109-110):
\* however many replies give a claim versions of one label, what is pinned to
\* it was cited for the statement it has, unless runs overlap or one reply
\* gives the claim two versions of one label.
TraditionsStaySeparable ==
  \/ overlapped
  \/ \A r \in graph.versions : \A s \in graph.claimSources :
       s.claim = r.claim /\ s.version = r.label =>
         \E reply \in Replies : \E i \in DOMAIN reply.claims :
           LET c == reply.claims[i]
           IN /\ c.id = r.claim
              /\ \/ RepeatsLabel(c)
                 \/ \E j \in DOMAIN c.versions :
                      /\ c.versions[j].label = r.label
                      /\ c.versions[j].statement = r.statement
                      /\ \E k \in DOMAIN c.versions[j].sources :
                           c.versions[j].sources[k].source = s.source

-----------------------------------------------------------------------------
(* The graph as KnowledgeGraph has it.  The statement of a version is left *)
(* out: the one last loaded stays.                                         *)

StatementsOf(g) ==
  {[record |-> <<"event", e.id, None>>, content |-> <<e.text, e.location>>] :
     e \in g.events}
  \cup {[record |-> <<"claim", c.id, None>>,
         content |-> <<c.statement, c.confidence, c.subject, c.object, c.value>>] :
          c \in g.claims}
  \cup {[record |-> <<"claim", r.claim, r.label>>, content |-> <<>>] :
          r \in g.versions}

CitationsOf(g) ==
  {[record |-> <<"event", s.event, None>>, source |-> s.source, keys |-> s.keys] :
     s \in g.eventSources}
  \cup {[record |-> <<"claim", s.claim, s.version>>, source |-> s.source,
         keys |-> s.keys] : s \in g.claimSources}

KG == INSTANCE KnowledgeGraph WITH statements <- StatementsOf(graph),
                                   citations <- CitationsOf(graph)

\* Whatever runs are under way together, the first statement of a record stays,
\* its citations stay, and a new record arrives with its own
\* (extract/loader.go:1-4).
ImplementsKnowledgeGraph == KG!Spec
=============================================================================

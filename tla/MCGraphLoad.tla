---------------------------- MODULE MCGraphLoad -----------------------------
(* Two units that share a candidate, and replies that collide.             *)
EXTENDS GraphLoad, FiniteSets, TLC

Cite(source, keys) == [source |-> source, keys |-> keys]
Doc1 == Cite("doc1", {"url"})
Doc2 == Cite("doc2", {"url"})
Book == Cite("book", {"chapter"})
Essay == Cite("essay", {"section"})
BookUnlocated == Cite("book", {"page"})
Blog == Cite("blog", {"url"})
Bad == <<Doc1, BookUnlocated>>
Good == <<Doc1, Book, Blog, Doc2>>

MCScheme == [s \in {"doc1", "doc2", "blog"} |-> {"url"}] @@ ("book" :> {"chapter"}) @@ ("essay" :> {"section"})

Unit(reference, both) ==
  [reference |-> reference, candidates |-> {Book, Essay},
   requireReference |-> both, requirePrimary |-> TRUE,
   relTypes |-> {"father_of"},
   relAliases |-> ("parent_of" :> "father_of")]
MCUnits == {Unit(Doc1, TRUE), Unit(Doc2, FALSE)}

Entity(id, canonical, names) == [id |-> id, canonical |-> canonical, names |-> names]
Name(name, kind) == [name |-> name, kind |-> kind]
Event(id, location, participants, causes, consequences, sources) ==
  [id |-> id, text |-> "text", location |-> location,
   participants |-> participants, causes |-> causes,
   consequences |-> consequences, sources |-> sources]
Version(label, statement, sources) ==
  [label |-> label, statement |-> statement, sources |-> sources]
Claim(id, statement, confidence, subject, object, versions, sources) ==
  [id |-> id, statement |-> statement, confidence |-> confidence,
   subject |-> subject, object |-> object, value |-> "value",
   versions |-> versions, sources |-> sources]
Rel(from, type, to, claim) == [from |-> from, type |-> type, to |-> to, claim |-> claim]
Reply(entities, events, claims, relationships) ==
  [entities |-> entities, events |-> events, claims |-> claims,
   relationships |-> relationships]

\* An entity with a spelling twice, an event that points at a dropped one, a
\* contested claim, an edge to an entity only another reply states.
Contested ==
  Reply(<<Entity("A B", "X", <<>>),
          Entity("a", "A", <<Name("alef", "epithet"), Name("A", "alias"),
                             Name("alef", "alias")>>)>>,
        <<Event("v", "a", {"a", "ghost"}, {}, {"w"}, Good),
          Event("w", "ghost", {}, {}, {}, Bad)>>,
        <<Claim("c", "s1", "contested", "a", "",
                <<Version("t", "t1", Good), Version("u", "u1", Bad)>>, Good)>>,
        <<Rel("a", "father_of", "b", "c"), Rel("A B", "father_of", "a", "c")>>)

\* The other spelling, the missing entity and event, the claim as settled, a
\* claim first uncited and then cited, and one edge in two spellings.
Settling ==
  Reply(<<Entity("a", "AA", <<>>), Entity("b", "B", <<>>), Entity("b", "BB", <<>>)>>,
        <<Event("w", "ghost", {"b"}, {"v"}, {}, Good)>>,
        <<Claim("c", "s2", "established", "a", "b", <<>>, Good),
          Claim("d", "s1", "established", "b", "", <<>>, <<>>),
          Claim("d", "s2", "established", "b", "", <<>>, Good)>>,
        <<Rel("a", "parent_of", "b", "d"), Rel("a", "father_of", "b", "ghost"),
          Rel("b", "rival_of", "a", "c")>>)

\* The first claim once more with another statement of its version, and a
\* claim with two versions of one label.
Repeated ==
  Reply(<<>>, <<>>,
        <<Claim("c", "s3", "abandoned_version", "", "",
                <<Version("t", "t2", <<Doc1, Essay>>)>>, Good),
          Claim("d", "s3", "abandoned_version", "", "",
                <<Version("t", "t1", <<Doc1, Book>>), Version("t", "t2", <<Doc1, Essay>>)>>,
                Good)>>,
        <<>>)

\* Contested claims none of whose versions is cited, a claim of a missing
\* entity; an event of its own cause; a participant without id.
Bare == Reply(<<>>, <<>>,
              <<Claim("c", "s4", "contested", "", "", <<Version("t", "t3", Bad)>>, Good),
                Claim("d", "s4", "established", "ghost", "", <<>>, Good)>>,
              <<>>)
SelfCaused == Reply(<<>>, <<Event("x", "", {}, {"x"}, {}, Good)>>, <<>>, <<>>)
Unnamed == Reply(<<>>, <<Event("x", "", {""}, {}, {}, Good)>>, <<>>, <<>>)

MCReplies == {Contested, Settling, Repeated, Bare, SelfCaused, Unnamed}

\* The statement of a contested claim becomes a title, cut at 120 bytes.
MCUnstorable == {Contested}

\* What IntegrityChecksPass depends on.
ASSUME LocatorsOfUnitsFit == LocatorsFit

Symmetry == Permutations(Runs)
=============================================================================

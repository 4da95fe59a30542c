------------------------------ MODULE Selection ------------------------------
(***************************************************************************)
(* How the Arda-shaped adapter turns documents into extraction units: the  *)
(* newest revision of each page (extract/store.go), the choice of citation *)
(* candidates and the units themselves (adapters/arda/arda.go), and the    *)
(* hash by which a unit is known to be unchanged (extract/extract.go).     *)
(*                                                                         *)
(* A text is a sequence of words and is measured in words.  A row of       *)
(* raw_documents is [id, source, url, title, at, text], the registry a     *)
(* function from sources to tiers, a candidate of the manifest [source,    *)
(* title, keys, terms, default]: keys are those of its locator, terms the  *)
(* words it is scored by.                                                  *)
(***************************************************************************)
EXTENDS Integers, FiniteSets, Sequences

CONSTANTS
  Reference,      \* the reference source of the manifest
  Configured,     \* its candidates, in order
  Policy,         \* its citation policy: [requireReference, requirePrimary]
  MaxCandidates, MaxUnitChars, TierMax,   \* its caps; not positive: unset
  ScoredChars,    \* how much of a text is scored
  TitleWords,     \* the words of each title
  Slug,           \* the slug of each title
  UrlKeys,        \* the keys of a locator that is a URL
  Types, Aliases  \* the relationship types and their aliases

ASSUME SelectionAssumption ==
  /\ MaxCandidates \in Int /\ MaxUnitChars \in Int /\ TierMax \in Int
  /\ ScoredChars \in Nat
  /\ DOMAIN Configured = 1..Len(Configured) /\ Len(Configured) \in Nat
  /\ \A i \in DOMAIN Configured : IsFiniteSet(Configured[i].terms)

\* Parse replaces what the manifest leaves unset.
OrDefault(n, default) == IF n =< 0 THEN default ELSE n
CandidateCap == OrDefault(MaxCandidates, 14)
TierCap == OrDefault(TierMax, 2)
TextCap == OrDefault(MaxUnitChars, 24000)

Cut(s, n) == SubSeq(s, 1, IF Len(s) < n THEN Len(s) ELSE n)

\* Mistake: the newest document of the source, not of each page.
NewestOfSource(docs) ==
  {d \in docs : /\ d.source = Reference
                /\ \A e \in docs : e.source = Reference => e.at =< d.at}

\* The newest revision of each page of the reference source; revisions
\* fetched at one moment are all the newest.
LatestDocuments(docs) ==
  {d \in docs : /\ d.source = Reference
                /\ \A e \in docs : e.source = Reference /\ e.url = d.url => e.at =< d.at}

-----------------------------------------------------------------------------
(* selectCandidates.  terms are the words of a title and of the part of    *)
(* the text that is scored.                                                *)

Indices == DOMAIN Configured
Score(i, terms) == Cardinality(Configured[i].terms \cap terms)

\* Mistake: a candidate of a better score comes later.
RankedUpwards(i, j, terms) ==
  \/ Score(i, terms) < Score(j, terms)
  \/ Score(i, terms) = Score(j, terms) /\ i < j

Outranks(i, j, terms) ==
  \/ Score(i, terms) > Score(j, terms)
  \/ Score(i, terms) = Score(j, terms) /\ i < j

\* The candidates that fewer than the cap outrank.
Best(terms) ==
  {i \in Indices : Cardinality({j \in Indices : Outranks(j, i, terms)}) < CandidateCap}

Defaults ==
  LET flagged == {i \in Indices : Configured[i].default}
  IN {i \in flagged : Cardinality({j \in flagged : j < i}) < CandidateCap}

Chosen(terms) ==
  IF \E i \in Best(terms) : Score(i, terms) > 0 THEN Best(terms) ELSE Defaults

\* Mistake: the tier is not looked at.
RegisteredOnly(i, registry) == Configured[i].source \in DOMAIN registry

Allowed(i, registry) == /\ Configured[i].source \in DOMAIN registry
                        /\ registry[Configured[i].source] =< TierCap

SamePlace(i, j) == /\ Configured[i].source = Configured[j].source
                   /\ Configured[i].title = Configured[j].title

\* Of several with one source and title the one of the best rank is offered.
Offered(terms, registry) ==
  {i \in Chosen(terms) :
     /\ Allowed(i, registry)
     /\ ~\E j \in Chosen(terms) : SamePlace(i, j) /\ Outranks(j, i, terms)}

Candidate(i) == [source |-> Configured[i].source, keys |-> Configured[i].keys,
                 title |-> Configured[i].title]

-----------------------------------------------------------------------------
(* BuildUnits.                                                             *)

UnitText(d) == Cut(d.text, TextCap)

Terms(d) == LET scored == Cut(UnitText(d), ScoredChars)
            IN TitleWords[d.title] \cup {scored[k] : k \in DOMAIN scored}

UnitOf(d, registry) ==
  [key |-> Slug[d.title],
   document |-> d.id,
   title |-> d.title,
   text |-> UnitText(d),
   reference |-> [source |-> Reference, keys |-> UrlKeys, url |-> d.url],
   candidates |-> {Candidate(i) : i \in Offered(Terms(d), registry)},
   requireReference |-> Policy.requireReference,
   requirePrimary |-> Policy.requirePrimary,
   relTypes |-> Types,
   relAliases |-> Aliases]

BuildUnits(docs, registry) == {UnitOf(d, registry) : d \in LatestDocuments(docs)}

\* Mistake: the candidates are left out.
HashOfText(u) == <<u.document, u.title, u.text>>

\* The order of the candidates follows from the title and the text.
InputHash(u) == <<u.document, u.title, u.text, u.candidates>>
=============================================================================

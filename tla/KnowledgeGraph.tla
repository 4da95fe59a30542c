---------------------------- MODULE KnowledgeGraph ----------------------------
(***************************************************************************)
(* What the graph promises to its readers, whoever loads it: statements    *)
(* and citations are only ever added.  A record keeps the statement and    *)
(* the locators it was first given, and none enters without citations of   *)
(* its own (extract/loader.go:1-4, extract/validate.go:3-5).               *)
(*                                                                         *)
(* A statement is [record, content], a citation [record, source, keys].    *)
(***************************************************************************)
VARIABLES statements, citations

Init == statements = {} /\ citations = {}

\* One load: new records, their citations, and further citations of the
\* records there are, of sources that they did not cite.
Load ==
  /\ statements \subseteq statements' /\ citations \subseteq citations'
  /\ \A s \in statements' \ statements :
       /\ \A t \in statements : t.record # s.record
       /\ \E c \in citations' \ citations : c.record = s.record
  /\ \A c \in citations' \ citations :
       /\ \A d \in citations : ~(d.record = c.record /\ d.source = c.source)
       /\ \E s \in statements' : s.record = c.record

Spec == Init /\ [][Load]_<<statements, citations>>
===============================================================================

------------------------------ MODULE WireParse ------------------------------
(***************************************************************************)
(* What ParseExtraction makes of the text of a reply (extract/wire.go).    *)
(*                                                                         *)
(* A reply is [tokens, open, payload].  Its tokens are braces, code fences *)
(* (three backquotes), line breaks, "json" for whatever else JSON consists *)
(* of, and "prose" for what JSON does not contain.  open is the position   *)
(* of the brace that opens the extraction payload, 0 when there is none,   *)
(* and payload what stands between it and the matching brace: each of the  *)
(* four lists is absent (or null), something that is no list, or a list of *)
(* items, of which some cannot be decoded into a record.  Every other      *)
(* object of a reply is a record of a list or a part of one.  Braces,      *)
(* fences and line breaks inside of strings are left out.                  *)
(***************************************************************************)
EXTENDS Integers, FiniteSets, Sequences

CONSTANTS None,         \* the empty string
          Confidences   \* the four levels

Least(S) == CHOOSE x \in S : \A y \in S : x =< y
Greatest(S) == CHOOSE x \in S : \A y \in S : y =< x

-----------------------------------------------------------------------------
(* JSONBlock: text without its prose and fences.  Parts of a text are sets *)
(* of positions.                                                           *)

At(t, part, token) == {i \in part : t[i] = token}
Written(t, part) == part \ At(t, part, "newline")

Fences(t) == At(t, DOMAIN t, "fence")

\* What comes after a position, up to the next fence.
After(t, i) == {j \in DOMAIN t : j > i /\ ~\E k \in Fences(t) : i < k /\ k =< j}

\* The parts between one fence and the next that are not blank.
FencedParts(t) ==
  {p \in {After(t, i) : i \in {i \in Fences(t) : \E k \in Fences(t) : k > i}} :
     Written(t, p) # {}}

\* What a fence begins with up to its first line break is taken for the
\* language; blank lines at both ends are trimmed before.
WithoutTag(t, p) ==
  LET first == Least(Written(t, p))
      later == {j \in At(t, p, "newline") : j > first /\ \E k \in Written(t, p) : k > j}
  IN IF later = {} THEN p ELSE {k \in p : k > Least(later)}

\* The first fenced part, or the whole text.
Stripped(t) ==
  IF FencedParts(t) = {} THEN DOMAIN t
  ELSE WithoutTag(t, CHOOSE p \in FencedParts(t) :
                       \A q \in FencedParts(t) : Least(p) =< Least(q))

JSONBlock(t) ==
  LET opens == At(t, Stripped(t), "{")
      closes == At(t, Stripped(t), "}")
  IN IF opens = {} \/ closes = {} THEN {} ELSE Least(opens)..Greatest(closes)

-----------------------------------------------------------------------------
(* The decoder reads the first value of the block and no further.          *)

Depth(t, from, i) ==
  Cardinality(At(t, from..i, "{")) - Cardinality(At(t, from..i, "}"))

\* Where the braces opened in the block are first all closed.
Ends(t) == LET b == JSONBlock(t)
           IN {i \in b : Depth(t, Least(b), i) = 0}

Readable(r) ==
  LET t == r.tokens
  IN /\ JSONBlock(t) # {} /\ Ends(t) # {}
     /\ \A i \in Least(JSONBlock(t))..Least(Ends(t)) : t[i] \notin {"fence", "prose"}

Absent == [kind |-> "absent", items |-> <<>>]
Lists == {"entities", "events", "claims", "relationships"}
NoLists == [list \in Lists |-> Absent]

\* None of the four lists is a field of a record.
Decoded(r) == IF Least(JSONBlock(r.tokens)) = r.open THEN r.payload ELSE NoLists

-----------------------------------------------------------------------------
(* salvageList, and what it requires of the records it keeps.              *)

WellCited(sources) == \A i \in DOMAIN sources : sources[i].source # None

EntityComplete(e) == None \notin {e.id, e.kind, e.canonical}
EventComplete(e) == None \notin {e.id, e.text} /\ WellCited(e.sources)

VersionComplete(v) == None \notin {v.label, v.statement} /\ WellCited(v.sources)
ClaimComplete(c) == /\ None \notin {c.id, c.statement} /\ c.confidence \in Confidences
                    /\ WellCited(c.sources)
                    /\ \A i \in DOMAIN c.versions : VersionComplete(c.versions[i])
RelationshipComplete(r) == None \notin {r.from, r.to, r.type}

Complete(list, record) ==
  CASE list = "entities" -> EntityComplete(record)
    [] list = "events" -> EventComplete(record)
    [] list = "claims" -> ClaimComplete(record)
    [] list = "relationships" -> RelationshipComplete(record)

Keeps(list, item) == item.decodes /\ Complete(list, item.record)

\* Mistake: one bad record spoils the list.
SalvageAll(payload, list) ==
  LET items == payload[list].items
  IN IF payload[list].kind # "list" \/ \E i \in DOMAIN items : ~Keeps(list, items[i])
     THEN <<>>
     ELSE [i \in DOMAIN items |-> items[i].record]

\* The records keep the positions they had in the list.
Salvage(payload, list) ==
  LET items == payload[list].items
  IN IF payload[list].kind # "list" THEN <<>>
     ELSE [i \in {i \in DOMAIN items : Keeps(list, items[i])} |-> items[i].record]

Salvaged(payload) == [list \in Lists |-> Salvage(payload, list)]

\* Of a reply that is readable.
ParseExtraction(r) == Salvaged(Decoded(r))

-----------------------------------------------------------------------------
(* What a reply has to lose.                                               *)

\* The payload is an object: its braces are all closed somewhere, with neither
\* fences nor prose before; and what is no list has no items.
IsPayload(r) ==
  LET t == r.tokens
  IN /\ t \in Seq(STRING) /\ r.open \in DOMAIN t /\ t[r.open] = "{"
     /\ \E closed \in DOMAIN t :
          /\ r.open < closed /\ t[closed] = "}" /\ Depth(t, r.open, closed) = 0
          /\ \A i \in r.open..closed : /\ t[i] \notin {"fence", "prose"}
                                       /\ i < closed => Depth(t, r.open, i) # 0
     /\ \A list \in Lists :
          r.payload[list].kind # "list" => r.payload[list].items = <<>>

\* No brace comes before the payload, and if there are fences, it is in the
\* first one, whose language stands on a line of its own.
Plain(r) ==
  LET t == r.tokens
      fences == Fences(t)
      before == 1..(r.open - 1)
  IN /\ At(t, before, "{") = {}
     /\ \/ \A i, k \in fences : i = k
        \/ \E i \in fences \cap before :
             /\ \A k \in fences \cap before : k = i
             /\ \E j, k \in before :
                  i < j /\ j < k /\ t[j] # "newline" /\ t[k] = "newline"

LosesNothing(r) ==
  /\ Readable(r)
  /\ \A list \in Lists : \A i \in DOMAIN r.payload[list].items :
       LET item == r.payload[list].items[i]
           salvaged == ParseExtraction(r)[list]
       IN Keeps(list, item) => \E j \in DOMAIN salvaged : salvaged[j] = item.record
=============================================================================

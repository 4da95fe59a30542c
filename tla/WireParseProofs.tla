---------------------------- MODULE WireParseProofs ----------------------------
(***************************************************************************)
(* Theorems of WireParse: what is handed on of any reply, and that nothing *)
(* is lost of a plain one.                                                 *)
(***************************************************************************)
EXTENDS WireParse, WellFoundedInduction, FiniteSetTheorems, TLAPS

-----------------------------------------------------------------------------
(* Positions.                                                              *)

\* A nonempty set of positions has a least.
LEMMA LeastPosition ==
  ASSUME NEW S, S \subseteq Nat, S # {}
  PROVE  Least(S) \in S /\ \A i \in S : Least(S) =< i
<1>1. PICK i \in S : \A j \in S : ~(<<j, i>> \in OpToRel(<, Nat))
  BY NatLessThanWellFounded, WFMin, Zenon
<1>2. ASSUME NEW j \in S, j < i
      PROVE  FALSE
  <2>1. <<j, i>> \in Nat \X Nat /\ <<j, i>>[1] < <<j, i>>[2]
    BY <1>2
  <2>2. <<j, i>> \in OpToRel(<, Nat)
    BY <2>1, Zenon DEF OpToRel
  <2> QED
    BY <1>1, <2>2
<1>3. \E x \in S : \A y \in S : x =< y
  BY <1>2
<1> QED
  BY <1>3 DEF Least

\* A bounded one has a greatest.
LEMMA GreatestPosition ==
  ASSUME NEW n \in Nat, NEW S, S \subseteq 1..n, S # {}
  PROVE  Greatest(S) \in S /\ \A i \in S : i =< Greatest(S)
<1> DEFINE T == {n - i : i \in S}
<1>1. T \subseteq Nat /\ T # {}
  <2>1. \A i \in S : n - i \in Nat
    OBVIOUS
  <2> QED
    BY <2>1
<1>2. PICK m \in T : \A j \in T : m =< j
  BY <1>1, LeastPosition
<1>3. PICK x \in S : m = n - x
  OBVIOUS
<1>4. ASSUME NEW y \in S
      PROVE  y =< x
  <2>1. n - y \in T
    OBVIOUS
  <2>2. x \in Nat /\ y \in Nat /\ m =< n - y
    BY <1>2, <2>1
  <2> QED
    BY <1>3, <2>2
<1> QED
  BY <1>4 DEF Greatest

-----------------------------------------------------------------------------
(* Records.                                                                *)

\* What the decoder hands on: events and claims, and the versions of each claim,
\* are lists.
DecodesRecords(r) ==
  LET items == r.payload.claims.items
  IN /\ DOMAIN r.payload.events.items \subseteq Nat /\ DOMAIN items \subseteq Nat
     /\ \A i \in DOMAIN items :
          items[i].decodes =>
            LET versions == items[i].record.versions
            IN Len(versions) \in Nat /\ DOMAIN versions = 1..Len(versions)

\* A record that is handed on is one of its list, and complete.
LEMMA SalvagedRecord ==
  ASSUME NEW payload, NEW list \in Lists, NEW i \in DOMAIN Salvaged(payload)[list]
  PROVE  /\ i \in DOMAIN payload[list].items
         /\ payload[list].items[i].decodes
         /\ Complete(list, payload[list].items[i].record)
         /\ Salvaged(payload)[list][i] = payload[list].items[i].record
<1>1. Salvaged(payload)[list] = Salvage(payload, list)
  BY DEF Salvaged
<1>2. CASE payload[list].kind # "list"
  BY <1>1, <1>2 DEF Salvage
<1>3. CASE payload[list].kind = "list"
  BY <1>1, <1>3 DEF Salvage, Keeps
<1> QED
  BY <1>2, <1>3

\* What is parsed satisfies what GraphLoad assumes of replies
\* (RepliesAssumption).
THEOREM ParsedRepliesFit ==
  ASSUME NEW r, DecodesRecords(r)
  PROVE  LET reply == ParseExtraction(r)
         IN /\ DOMAIN reply.events \subseteq Nat /\ DOMAIN reply.claims \subseteq Nat
            /\ \A i \in DOMAIN reply.claims :
                 LET versions == reply.claims[i].versions
                 IN /\ Len(versions) \in Nat /\ DOMAIN versions = 1..Len(versions)
                    /\ \A j \in DOMAIN versions : versions[j].label # None
            /\ \A i \in DOMAIN reply.relationships :
                 None \notin {reply.relationships[i].from, reply.relationships[i].to}
<1> DEFINE reply == ParseExtraction(r)
           payload == Decoded(r)
<1>1. reply = Salvaged(payload)
  BY DEF ParseExtraction
<1>2. /\ payload.claims = r.payload.claims \/ payload.claims.items = <<>>
      /\ payload.events = r.payload.events \/ payload.events.items = <<>>
  <2>1. NoLists["claims"].items = <<>> /\ NoLists["events"].items = <<>>
    BY DEF NoLists, Absent, Lists
  <2> QED
    BY <2>1 DEF Decoded
<1>3. ASSUME NEW i \in DOMAIN reply.claims
      PROVE  LET versions == reply.claims[i].versions
             IN /\ Len(versions) \in Nat /\ DOMAIN versions = 1..Len(versions)
                /\ \A j \in DOMAIN versions : versions[j].label # None
  <2> DEFINE item == payload.claims.items[i]
  <2>0. "claims" \in Lists
    BY DEF Lists
  <2>1. /\ i \in DOMAIN payload.claims.items
        /\ item.decodes
        /\ ClaimComplete(item.record)
        /\ reply.claims[i] = item.record
    <3>1. Complete("claims", item.record) <=> ClaimComplete(item.record)
      BY DEF Complete
    <3> HIDE DEF payload
    <3> QED
      BY <1>1, <2>0, <3>1, SalvagedRecord
  <2>2. payload.claims = r.payload.claims
    BY <1>2, <2>1
  <2>3. /\ Len(item.record.versions) \in Nat
        /\ DOMAIN item.record.versions = 1..Len(item.record.versions)
    BY <2>1, <2>2 DEF DecodesRecords
  <2>4. \A j \in DOMAIN item.record.versions : item.record.versions[j].label # None
    BY <2>1 DEF ClaimComplete, VersionComplete
  <2> QED
    BY <2>1, <2>3, <2>4
<1>4. ASSUME NEW i \in DOMAIN reply.relationships
      PROVE  None \notin {reply.relationships[i].from, reply.relationships[i].to}
  <2>1. RelationshipComplete(reply.relationships[i])
    BY <1>1, SalvagedRecord DEF Complete, Lists
  <2> QED
    BY <2>1 DEF RelationshipComplete
<1>5. DOMAIN reply.claims \subseteq Nat /\ DOMAIN reply.events \subseteq Nat
  <2>0. "claims" \in Lists /\ "events" \in Lists
    BY DEF Lists
  <2>1. /\ DOMAIN reply.claims \subseteq DOMAIN payload.claims.items
        /\ DOMAIN reply.events \subseteq DOMAIN payload.events.items
    BY <1>1, <2>0, SalvagedRecord
  <2>2. /\ DOMAIN payload.claims.items \subseteq Nat
        /\ DOMAIN payload.events.items \subseteq Nat
    BY <1>2 DEF DecodesRecords
  <2> QED
    BY <2>1, <2>2
<1> QED
  BY <1>3, <1>4, <1>5

-----------------------------------------------------------------------------
(* Plain replies.                                                          *)

\* A plain payload, from its first brace to the one that closes it.
PlainFrom(t, n, open, closed) ==
  /\ DOMAIN t = 1..n /\ t[open] = "{"
  /\ At(t, 1..(open - 1), "{") = {}
  /\ \A f \in Fences(t) : f \notin open..closed
  /\ \/ \A i, k \in Fences(t) : i = k
     \/ \E i \in Fences(t) \cap (1..(open - 1)) :
          /\ \A k \in Fences(t) \cap (1..(open - 1)) : k = i
          /\ \E j, k \in 1..(open - 1) :
               i < j /\ j < k /\ t[j] # "newline" /\ t[k] = "newline"

\* The part of a reply that is searched for the object contains a plain
\* payload.
LEMMA PlainIsSearched ==
  ASSUME NEW t, NEW n \in Nat, NEW open \in 1..n, NEW closed \in 1..n,
         open < closed, PlainFrom(t, n, open, closed)
  PROVE  Stripped(t) \subseteq 1..n /\ open..closed \subseteq Stripped(t)
<1>1. Fences(t) \subseteq 1..n
  BY DEF PlainFrom, Fences, At
<1>2. open..closed \subseteq 1..n
  OBVIOUS
<1>3. CASE FencedParts(t) = {}
  <2>1. Stripped(t) = 1..n
    BY <1>3 DEF Stripped, PlainFrom
  <2> QED
    BY <1>2, <2>1
<1>4. CASE FencedParts(t) # {}
  <2>1. ~\A i, k \in Fences(t) : i = k
    BY <1>1, <1>4 DEF FencedParts
  <2>2. PICK i \in Fences(t) \cap (1..(open - 1)) :
          /\ \A k \in Fences(t) \cap (1..(open - 1)) : k = i
          /\ \E j, k \in 1..(open - 1) :
               i < j /\ j < k /\ t[j] # "newline" /\ t[k] = "newline"
    BY <2>1 DEF PlainFrom
  <2>3. PICK j \in 1..(open - 1), k \in 1..(open - 1) :
          i < j /\ j < k /\ t[j] # "newline" /\ t[k] = "newline"
    BY <2>2
  <2>4. i \in 1..n /\ j \in 1..n /\ k \in 1..n /\ i < open /\ j < open /\ k < open
    BY <2>2, <2>3
  <2>5. \A x : x \in After(t, i) <=>
          x \in 1..n /\ x > i /\ ~\E f \in Fences(t) : i < f /\ f =< x
    BY DEF After, PlainFrom
  <2>6. \A f \in Fences(t) : f =< i \/ f > closed
    <3> SUFFICES ASSUME NEW f \in Fences(t), f > i, f =< closed
                 PROVE  FALSE
      BY <1>2, <2>4
    <3>1. f \in 1..(open - 1) \/ f \in open..closed
      BY <1>1
    <3>2. f \notin open..closed
      BY DEF PlainFrom
    <3>3. f # i
      BY <2>4
    <3> QED
      BY <2>2, <3>1, <3>2, <3>3
  <2>7. (i + 1)..closed \subseteq After(t, i)
    BY <1>1, <1>2, <2>4, <2>5, <2>6
  <2> DEFINE p == After(t, i)
             W == Written(t, p)
  <2>8. p \subseteq 1..n /\ (i + 1) \in p /\ \A x \in p : i + 1 =< x
    BY <1>1, <2>4, <2>5, <2>7
  <2>9. j \in W /\ open \in W /\ W \subseteq p
    <3>1. t[open] # "newline"
      BY DEF PlainFrom
    <3>2. j \in p /\ open \in p
      BY <2>3, <2>4, <2>7
    <3> QED
      BY <2>3, <3>1, <3>2 DEF Written, At
  <2>10. Least(p) = i + 1
    BY <2>4, <2>8, LeastPosition
  <2>11. ASSUME NEW q \in FencedParts(t)
         PROVE  q = p \/ (Least(q) \in Nat /\ Least(q) > i + 1)
    <3>1. PICK f \in Fences(t) : q = After(t, f) /\ Written(t, q) # {}
      BY DEF FencedParts
    <3>2. CASE f = i
      <4>1. q = p
        BY <3>1, <3>2
      <4> QED
        BY <4>1
    <3>3. CASE f # i
      <4>1. f > i
        <5>1. f \notin 1..(open - 1)
          BY <2>2, <3>3
        <5> QED
          BY <1>1, <1>2, <2>4, <5>1
      <4>2. \A x \in q : x \in 1..n /\ x > f
        BY <3>1 DEF After, PlainFrom
      <4>3. q # {}
        BY <3>1 DEF Written
      <4>4. Least(q) \in q
        BY <4>2, <4>3, LeastPosition
      <4> QED
        BY <1>2, <2>4, <4>1, <4>2, <4>4
    <3> QED
      BY <3>2, <3>3
  <2>12. p \in FencedParts(t)
    <3>1. \E f \in Fences(t) : f > i
      <4>1. PICK g \in Fences(t), h \in Fences(t) : g < h
        BY <1>4 DEF FencedParts
      <4> QED
        BY <1>1, <1>2, <2>2, <2>4, <4>1
    <3> QED
      BY <2>9, <3>1 DEF FencedParts
  <2> DEFINE c == CHOOSE x \in FencedParts(t) : \A q \in FencedParts(t) : Least(x) =< Least(q)
  <2>13. c = p
    <3>1. \A q \in FencedParts(t) : Least(p) =< Least(q)
      BY <2>4, <2>10, <2>11
    <3>2. c \in FencedParts(t) /\ Least(c) =< Least(p)
      BY <2>12, <3>1
    <3> QED
      BY <2>4, <2>10, <2>11, <3>2
  <2>14. Stripped(t) = WithoutTag(t, p)
    BY <1>4, <2>13 DEF Stripped
  <2> DEFINE first == Least(W)
             later == {x \in At(t, p, "newline") : x > first /\ \E y \in W : y > x}
  <2>15. first \in Nat /\ first =< j
    BY <2>8, <2>9, LeastPosition
  <2>16. later \subseteq Nat
    BY <2>8 DEF At
  <2>17. k \in later
    <3>1. k \in At(t, p, "newline")
      BY <1>1, <2>3, <2>4, <2>7 DEF At
    <3> QED
      BY <2>3, <2>4, <2>9, <2>15, <3>1
  <2> DEFINE l == Least(later)
  <2>18. l \in Nat /\ l < open
    <3>1. l \in later /\ l =< k
      BY <2>16, <2>17, LeastPosition
    <3> QED
      BY <1>1, <2>4, <2>16, <3>1
  <2>19. WithoutTag(t, p) = {x \in p : x > l}
    BY <2>17 DEF WithoutTag
  <2> HIDE DEF p, l, first, later, W
  <2>20. \A x \in open..closed : x \in p /\ x > l
    BY <1>1, <2>4, <2>7, <2>18 DEF p
  <2> QED
    BY <2>8, <2>14, <2>19, <2>20
<1> QED
  BY <1>3, <1>4

\* The brace that closes the payload.
ClosesAt(t, open, closed) ==
  /\ t[closed] = "}" /\ Depth(t, open, closed) = 0
  /\ \A i \in open..closed : i < closed => Depth(t, open, i) # 0

\* The block begins with the payload, and the decoder reads it to its end.
LEMMA PlainIsRead ==
  ASSUME NEW t, NEW n \in Nat, NEW open \in 1..n, NEW closed \in 1..n,
         open < closed, PlainFrom(t, n, open, closed), ClosesAt(t, open, closed)
  PROVE  /\ JSONBlock(t) # {} /\ Least(JSONBlock(t)) = open
         /\ Ends(t) # {} /\ Least(Ends(t)) = closed
<1>1. Stripped(t) \subseteq 1..n /\ open..closed \subseteq Stripped(t)
  BY PlainIsSearched
<1>2. open \in Stripped(t) /\ closed \in Stripped(t)
  BY <1>1
<1>3. PICK opens : opens = At(t, Stripped(t), "{")
  OBVIOUS
<1>4. PICK closes : closes = At(t, Stripped(t), "}")
  OBVIOUS
<1>5. opens \subseteq 1..n /\ open \in opens
  BY <1>1, <1>2, <1>3 DEF At, PlainFrom
<1>6. closes \subseteq 1..n /\ closed \in closes
  BY <1>1, <1>2, <1>4 DEF At, ClosesAt
<1>7. Least(opens) = open
  <2>1. opens \subseteq Nat /\ opens # {}
    BY <1>5
  <2>2. Least(opens) \in opens /\ Least(opens) =< open
    BY <1>5, <2>1, LeastPosition
  <2>3. \A i \in opens : i \in 1..n /\ i \notin 1..(open - 1)
    BY <1>3, <1>5 DEF PlainFrom, At
  <2>4. Least(opens) \in 1..n /\ Least(opens) \notin 1..(open - 1)
    BY <2>2, <2>3
  <2> QED
    BY <2>2, <2>4
<1>8. PICK g \in 1..n : g = Greatest(closes) /\ closed =< g
  BY <1>6, GreatestPosition
<1>9. JSONBlock(t) = open..g
  BY <1>3, <1>4, <1>5, <1>6, <1>7, <1>8 DEF JSONBlock
<1>10. Least(open..g) = open
  <2>1. open..g \subseteq Nat /\ open \in open..g
    BY <1>8
  <2>2. Least(open..g) \in open..g /\ Least(open..g) =< open
    BY <2>1, LeastPosition
  <2> QED
    BY <2>2
<1>11. Ends(t) = {i \in open..g : Depth(t, open, i) = 0}
  BY <1>9, <1>10 DEF Ends
<1>12. closed \in Ends(t) /\ Ends(t) \subseteq Nat
  <2>1. closed \in open..g /\ open..g \subseteq Nat
    BY <1>8
  <2>2. Depth(t, open, closed) = 0
    BY DEF ClosesAt
  <2> QED
    BY <1>11, <2>1, <2>2
<1>13. Least(Ends(t)) = closed
  <2>1. Least(Ends(t)) \in Ends(t) /\ Least(Ends(t)) =< closed
    BY <1>12, LeastPosition
  <2>2. Least(Ends(t)) \in open..closed /\ Depth(t, open, Least(Ends(t))) = 0
    BY <1>8, <1>11, <2>1
  <2>3. ~(Least(Ends(t)) < closed)
    BY <2>2 DEF ClosesAt
  <2> QED
    BY <2>2, <2>3
<1>14. open..g # {}
  BY <1>8
<1> QED
  BY <1>9, <1>10, <1>12, <1>13, <1>14

\* The payload of a plain reply is what is decoded.
LEMMA PlainIsDecoded ==
  ASSUME NEW r, IsPayload(r), Plain(r)
  PROVE  Readable(r) /\ Decoded(r) = r.payload
<1> DEFINE t == r.tokens
           open == r.open
<1>1. t \in Seq(STRING) /\ open \in DOMAIN t /\ t[open] = "{"
  BY DEF IsPayload
<1>2. PICK n \in Nat : DOMAIN t = 1..n
  <2>1. t \in Seq(STRING)
    BY <1>1
  <2>2. Len(t) \in Nat /\ DOMAIN t = 1..Len(t)
    BY <2>1
  <2> QED
    BY <2>2
<1>3. open \in 1..n
  BY <1>1, <1>2
<1>4. PICK closed \in DOMAIN t :
        /\ open < closed /\ t[closed] = "}" /\ Depth(t, open, closed) = 0
        /\ \A i \in open..closed : /\ t[i] \notin {"fence", "prose"}
                                   /\ i < closed => Depth(t, open, i) # 0
  BY DEF IsPayload
<1>5. ClosesAt(t, open, closed)
  BY <1>4 DEF ClosesAt
<1>6. PlainFrom(t, n, open, closed)
  <2>1. \A f \in Fences(t) : f \notin open..closed
    BY <1>4 DEF Fences, At
  <2> QED
    BY <1>1, <1>2, <1>3, <2>1, Zenon DEF PlainFrom, Plain
<1>7. /\ JSONBlock(t) # {} /\ Least(JSONBlock(t)) = open
      /\ Ends(t) # {} /\ Least(Ends(t)) = closed
  BY <1>2, <1>3, <1>4, <1>5, <1>6, PlainIsRead
<1> QED
  BY <1>1, <1>3, <1>4, <1>7 DEF Readable, Decoded

\* Nothing is lost of a plain payload.
THEOREM PlainPayloadSurvives ==
  ASSUME NEW r, IsPayload(r), Plain(r)
  PROVE  LosesNothing(r)
<1> DEFINE wire == ParseExtraction(r)
<1>1. Readable(r) /\ wire = Salvaged(r.payload)
  BY PlainIsDecoded DEF ParseExtraction
<1>2. ASSUME NEW list \in Lists, NEW i \in DOMAIN r.payload[list].items,
             Keeps(list, r.payload[list].items[i])
      PROVE  \E j \in DOMAIN wire[list] :
               wire[list][j] = r.payload[list].items[i].record
  <2> DEFINE items == r.payload[list].items
  <2>0. r.payload[list].kind # "list" => r.payload[list].items = <<>>
    BY DEF IsPayload
  <2>1. r.payload[list].kind = "list"
    BY <2>0
  <2>2. wire[list] = Salvage(r.payload, list)
    BY <1>1 DEF Salvaged
  <2>3. Salvage(r.payload, list) =
          [k \in {k \in DOMAIN items : Keeps(list, items[k])} |-> items[k].record]
    BY <2>1 DEF Salvage
  <2> QED
    BY <1>2, <2>2, <2>3
<1> QED
  BY <1>1, <1>2 DEF LosesNothing
================================================================================

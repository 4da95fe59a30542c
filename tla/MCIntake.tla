------------------------------- MODULE MCIntake -------------------------------
(* Two pages, one with a revision; a manifest whose best match is of too low *)
(* a tier, and whose essay lacks the key its source requires; replies cut    *)
(* off, in prose and in fences.                                              *)
EXTENDS Intake, TLC

Document(id, url, title, at, text) ==
  [id |-> id, source |-> "wiki", url |-> url, title |-> title, at |-> at, text |-> text]
MCDocuments == {Document(1, "a", "ta", 1, <<"elf", "tree">>),
                Document(2, "a", "ta", 2, <<"ship">>),
                Document(3, "b", "tb", 2, <<"tree", "elf">>)}

MCTitleWords == [t \in {"ta", "tb"} |-> {t}]
MCSlug == [t \in {"ta", "tb"} |-> t]
Both == [requireReference |-> TRUE, requirePrimary |-> TRUE]

Place(source, title, keys, terms, default) ==
  [source |-> source, title |-> title, keys |-> keys, terms |-> terms, default |-> default]
MCConfigured ==
  <<Place("blog", "probe", {"url"}, {"elf", "ship"}, FALSE),
    Place("book", "b1", {"chapter"}, {"elf", "ta"}, FALSE),
    Place("essay", "e1", {"page"}, {"ship"}, TRUE),
    Place("book", "b1", {"chapter"}, {"elf", "ta", "war"}, FALSE)>>
\* Two places in one book, of which the second has a page.
PagedConfigured ==
  <<Place("book", "b1", {"chapter"}, {"elf"}, FALSE),
    Place("book", "b2", {"chapter", "page"}, {"elf"}, FALSE)>>

Tiers(book, essay) == [book |-> book, essay |-> essay, blog |-> 3, wiki |-> 3]
MCRegistries == {Tiers(1, 2), Tiers(3, 2)}
OneRegistry == {Tiers(1, 2)}
MCScheme == [book |-> {"chapter"}, essay |-> {"section"}, blog |-> {"url"}, wiki |-> {"url"}]
MCAliases == [t \in {} |-> ""]

Cite(source, key) == [source |-> source, keys |-> {key}]
Page == Cite("wiki", "url")
Book == Cite("book", "chapter")
Essay == Cite("essay", "page")
Blog == Cite("blog", "url")

Event(id, causes, sources) ==
  [id |-> id, text |-> "text", location |-> "", participants |-> {},
   causes |-> causes, consequences |-> {}, sources |-> sources]
Claim(id, statement, sources) ==
  [id |-> id, statement |-> statement, confidence |-> "established",
   subject |-> "", object |-> "", value |-> "value", versions |-> <<>>,
   sources |-> sources]

Decodes(record) == [decodes |-> TRUE, record |-> record]
Malformed == [decodes |-> FALSE]
List(items) == [kind |-> "list", items |-> items]
NoList == [kind |-> "other", items |-> <<>>]
Payload(events, claims) == [NoLists EXCEPT !.events = events, !.claims = claims]
Reply(tokens, open, payload) == [tokens |-> tokens, open |-> open, payload |-> payload]

\* One that ends inside the object.
Unfinished == Reply(<<"{", "json", "{", "json", "}">>, 0, NoLists)

\* Between lines of prose: an event, and claims of which one cannot be decoded,
\* one is good, one has no statement and one cites its reference without the
\* key.  The event is cited within the offers and outside of them.
Salvageable ==
  Reply(<<"prose", "newline", "{", "json", "{", "json", "}", "json", "}", "newline", "prose">>,
        3, [Payload(List(<<Decodes(Event("v", {}, <<Page, Essay, Book, Blog>>))>>),
                    List(<<Malformed, Decodes(Claim("c", "s", <<Page, Book>>)),
                           Decodes(Claim("d", "", <<Page, Book>>)),
                           Decodes(Claim("d", "s", <<Cite("wiki", "page"), Book>>))>>))
              EXCEPT !.entities = NoList])

\* In a fence that names its language, with prose after it: an event that is
\* its own cause.
Fenced ==
  Reply(<<"fence", "prose", "newline", "{", "newline", "json", "{", "json", "}",
          "newline", "}", "newline", "fence", "newline", "prose">>,
        4, Payload(List(<<Decodes(Event("w", {"w"}, <<Page, Essay, Book>>))>>), Absent))

\* In a fence that names none.
Untagged ==
  Reply(<<"fence", "newline", "{", "newline", "json", "{", "json", "}", "newline", "}",
          "newline", "fence">>,
        3, Payload(Absent, List(<<Decodes(Claim("c", "s", <<Page, Book>>))>>)))

MCTexts == {Unfinished, Salvageable, Fenced}
MCUnstorable == {Unfinished, Salvageable}
TwoTexts == {Salvageable, Untagged}
=============================================================================

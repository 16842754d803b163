--------------------------------- MODULE Gates ---------------------------------
(* What stands between the evidence and a recorded observation: the sanitizer *)
(* rewrites a record's text for the model, the model quotes it, the citation  *)
(* gate looks the quote up in the record, and the entity gate looks up in the *)
(* quotes whatever the observation names.                                     *)
(*                                                                            *)
(* The gates compare texts, so a text is here a sequence of the characters    *)
(* they tell apart; what a pattern of the sanitizer matches is one character, *)
(* and the catalogue of injection patterns is its one member.  What the       *)
(* patterns and the language model find in the observation is an input.       *)
EXTENDS Naturals, Sequences, FiniteSets, SequencesExt, Loops

\* A letter in both cases, a punctuation mark, the two slashes, a newline, and
\* what the sanitizer takes out: a role tag, a chat token, a catalogued phrase,
\* a bidirectional mark, a zero-width character and a tag character.
Plain == {"x", "X", ".", "\\", "/", "nl"}
Stripped == {"role", "chat", "phrase", "bidi", "zero", "tagchar"}

Map(s, F(_)) == [i \in DOMAIN s |-> F(s[i])]

-----------------------------------------------------------------------------
(* The sanitizer *)

\* The operations in their order: what each matches and what it puts there.
Ops == << [of |-> "role", by |-> <<"marker">>], [of |-> "chat", by |-> <<"marker">>],
          [of |-> "phrase", by |-> <<"marker">>], [of |-> "bidi", by |-> <<>>],
          [of |-> "zero", by |-> <<>>], [of |-> "tagchar", by |-> <<>>] >>

\* _strip_pattern, one event for a match.  A character keeps its place in the
\* raw text, a marker has none.
Strip(result, op) ==
    LET put(out, e) == out \o IF e.c = op.of THEN Map(op.by, LAMBDA m : [c |-> m, at |-> 0]) ELSE <<e>>
    IN [text   |-> Walked(result.text, <<>>, put),
        events |-> result.events
                     + Cardinality({i \in DOMAIN result.text : result.text[i].c = op.of})]

\* What the model reads, inside the envelope.
Sanitize(raw) ==
    Walked(Ops, [text |-> [i \in DOMAIN raw |-> [c |-> raw[i], at |-> i]], events |-> 0], Strip)

-----------------------------------------------------------------------------
(* The citation gate *)

OccursAt(needle, hay, i) ==
    i + Len(needle) - 1 <= Len(hay) /\ SubSeq(hay, i, i + Len(needle) - 1) = needle

\* A record is the set of at most one text.
VerifyCitation(quote, record) ==
    IF record = {} THEN "RECORD_NOT_FOUND"
    ELSE IF \E raw \in record : \E i \in 1 .. Len(raw) : OccursAt(quote, raw, i) THEN "none"
    ELSE "SPAN_NOT_IN_RECORD"

-----------------------------------------------------------------------------
(* The entity gate *)

PathKinds == {"WINDOWS_PATH", "POSIX_PATH", "REGISTRY_KEY"}
Casefold(c) == IF c = "X" THEN "x" ELSE c
PathNormalise(c) == IF c = "\\" THEN "/" ELSE Casefold(c)
Folded(text, kind) == IF kind \in PathKinds THEN Map(text, PathNormalise) ELSE Map(text, Casefold)

Overlaps(m, n) == ~(m.to <= n.from \/ m.from >= n.to)

\* _extract_all_entities: matches in the order of the rules, the language
\* model's last; one that overlaps a taken one is left out.
Take(taken, m) == IF \E n \in Range(taken) : Overlaps(m, n) THEN taken ELSE Append(taken, m)
Taken(matches) == Walked(matches, <<>>, Take)

\* Mutant: entities of one text and different kinds are one.
SameText(m, n) == Map(m.text, Casefold) = Map(n.text, Casefold)

\* The key of _dedupe.
SameEntity(m, n) == Map(m.text, Casefold) = Map(n.text, Casefold) /\ m.kind = n.kind

\* Of each entity the first.
Dedupe(taken) ==
    {taken[i] : i \in {k \in DOMAIN taken : \A j \in 1 .. k - 1 : ~SameEntity(taken[j], taken[k])}}

\* _build_cited_corpus.
Corpus(quotes) ==
    IF quotes = <<>> THEN <<>>
    ELSE Walked(Tail(quotes), Head(quotes), LAMBDA out, q : out \o <<"nl">> \o q)

Word == {"x", "X"}

\* The search is anchored: no letter just before or just after.
StandsIn(text, hay) ==
    \E i \in 1 .. Len(hay) :
        /\ OccursAt(text, hay, i)
        /\ i > 1 => hay[i - 1] \notin Word
        /\ i + Len(text) <= Len(hay) => hay[i + Len(text)] \notin Word

EntityInCorpus(m, corpus) == StandsIn(Folded(m.text, m.kind), Folded(corpus, m.kind))

\* verify_entities: the entities the quotes do not carry.
Hallucinated(matches, quotes) ==
    {m \in Dedupe(Taken(matches)) : ~EntityInCorpus(m, Corpus(quotes))}

\* The verdict on an observation: its quotes in turn, then what it names.
Verdict(matches, quotes, records) ==
    LET refused == {i \in DOMAIN quotes : VerifyCitation(quotes[i], records[i]) # "none"}
    IN IF refused # {}
       THEN VerifyCitation(quotes[CHOOSE i \in refused : \A j \in refused : i <= j],
                           records[CHOOSE i \in refused : \A j \in refused : i <= j])
       ELSE IF Hallucinated(matches, quotes) # {} THEN "HALLUCINATED_ENTITIES" ELSE "none"

-----------------------------------------------------------------------------
(* Laws *)

\* What the observation names, less what an earlier match covers: the matches
\* a reader would hold it to.
Named(matches) ==
    {m \in Range(matches) : \A n \in Range(Taken(matches)) : n = m \/ ~Overlaps(m, n)}

\* An observation is recorded exactly when every quote is in its record and
\* every entity it names stands, as a token of its own, in one single quote:
\* neither two quotes side by side, nor a second entity of the same text, nor
\* an address that another one begins with, stands in for it.
EntityLaw(matches, quotes) ==
    LET everywhere == [i \in DOMAIN quotes |-> {quotes[i]}]
    IN Verdict(matches, quotes, everywhere) = "none"
         <=> \A m \in Named(matches) : \E i \in DOMAIN quotes :
                 StandsIn(Folded(m.text, m.kind), Folded(quotes[i], m.kind))

\* What the model quotes of a text as it was shown it, without a marker and
\* with nothing taken out in between, is a quote of the record: the sanitizer
\* never makes the citation gate refuse faithful work.
QuoteLaw(raw, from, to) ==
    LET shown == Sanitize(raw).text
        piece == SubSeq(shown, from, to)
    IN /\ from <= to /\ to <= Len(shown)
       /\ \A i \in 1 .. Len(piece) :
              piece[i].at > 0 /\ (i > 1 => piece[i].at = piece[i - 1].at + 1)
       => VerifyCitation([i \in DOMAIN piece |-> piece[i].c], {raw}) = "none"
===============================================================================

------------------------------ MODULE NormalText ------------------------------
(***************************************************************************)
(* Canonical text (ingestion/normalise.py) and the search for a quote in   *)
(* it (processing/verify.py). A text is a sequence of characters of the    *)
(* kinds normalisation tells apart: a base letter, a combining accent, the *)
(* two composed, an invisible character, a space, a non-breaking space, a  *)
(* sentence's terminator, any other letter.                                *)
(***************************************************************************)
EXTENDS Integers, SequencesExt

CONSTANT MinQuote  \* MIN_QUOTE_CHARS

ASSUME QuoteAssumption == MinQuote \in Nat

Letters == {"base", "composed", "other", "stop"}
Blank == {"space", "nbsp"}
Chars == Letters \cup Blank \cup {"accent", "invisible"}

\* The text with the characters of a kind taken out: the r-th left is the one with
\* r of them up to it.
Without(kind, text) ==
    LET left == {i \in DOMAIN text : text[i] # kind}
        rank == [i \in left |-> Cardinality({j \in left : j <= i})]
    IN  IF left = DOMAIN text THEN text
        ELSE [r \in 1 .. Cardinality(left) |-> text[CHOOSE i \in left : rank[i] = r]]

\* NFKC, as far as these characters go: an accent composes with a base letter
\* right before it, a non-breaking space becomes a space.
Compose(text) ==
    LET pair(i) == {i, i + 1} \subseteq DOMAIN text /\ text[i] = "base" /\ text[i + 1] = "accent"
    IN  Without("gone", [i \in DOMAIN text |->
            IF pair(i) THEN "composed"
            ELSE IF pair(i - 1) THEN "gone"
            ELSE IF text[i] = "nbsp" THEN "space" ELSE text[i]])

Visible(text) == Without("invisible", text)

\* str.strip()
Strip(text) ==
    LET inked == {i \in DOMAIN text : text[i] \notin Blank}
    IN  IF inked = {} THEN <<>> ELSE SubSeq(text, Min(inked), Max(inked))

Collapse(text) ==
    Without("gone", [i \in DOMAIN text |->
        IF i > 1 /\ text[i] = "space" /\ text[i - 1] = "space" THEN "gone" ELSE text[i]])

\* Mutant: runs of whitespace vanish.
NormaliseUnspaced(text) ==
    Without("space", Visible(Compose(text)))

\* normalise_text
Normalise(text) == Strip(Collapse(Visible(Compose(text))))

\* The offsets at which needle stands in text.
Occurrences(needle, text) ==
    {p \in 0 .. Len(text) - Len(needle) : SubSeq(text, p + 1, p + Len(needle)) = needle}

\* text[from:to]
Slice(text, from, to) == SubSeq(text, from + 1, Min({to, Len(text)}))

NotFound == [verified |-> FALSE, from |-> 0, to |-> 0]

\* Mutant: the end of the quote as the model wrote it.
FoundAsQuoted(p, quote) == [verified |-> TRUE, from |-> p, to |-> p + Len(quote)]

Found(p, quote) == [verified |-> TRUE, from |-> p, to |-> p + Len(Normalise(Strip(quote)))]

\* verify_quote: the length is looked at before the quote is normalised, the
\* first occurrence is taken.
VerifyQuote(quote, document) ==
    LET places == Occurrences(Normalise(Strip(quote)), Normalise(document))
    IN  IF Len(Strip(quote)) < MinQuote \/ places = {}
        THEN NotFound ELSE Found(Min(places), quote)

\* What a reader sees of a text.
Looks(text) == Strip(Collapse(Compose(Visible(text))))
=============================================================================

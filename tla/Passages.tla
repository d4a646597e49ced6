------------------------------- MODULE Passages -------------------------------
(***************************************************************************)
(* The way of one document's text: normalised when it is stored            *)
(* (ingestion/store.py), split into overlapping chunks of whole sentences  *)
(* (processing/chunk.py), one turn of chunk_text's loop per step, and      *)
(* searched for the quotes of its extraction (processing/verify.py).       *)
(* Offsets count the characters before a position, as in the code.         *)
(***************************************************************************)
EXTENDS NormalText

CONSTANTS
    Bodies,        \* what publishers send
    Quotes,        \* what the model cites
    MaxChars,      \* DEFAULT_MAX_CHARS
    Overlaps,      \* values of overlap_chars
    MinChunk,      \* MIN_CHUNK_CHARS
    NoText         \* clean_text of a document that may not be kept

ASSUME TextsAssumption == Bodies \subseteq Seq(Chars) /\ Quotes \subseteq Seq(Chars)
ASSUME NoTextAssumption == NoText \notin Seq(Chars)
ASSUME SizesAssumption ==
    MaxChars \in Nat \ {0} /\ MinChunk \in 0 .. MaxChars /\ Overlaps \subseteq 0 .. MaxChars - 1

VARIABLES
    body,      \* the item's text
    overlap,   \* the overlap in force
    stage,     \* where the document stands
    clean,     \* clean_text
    chunks,    \* the offsets of the chunks finished
    start,     \* of the chunk being packed
    end,       \* where its last sentence ends
    quote,     \* the quote last verified
    cited      \* what verification said of it

packing == <<chunks, start, end>>
citation == <<quote, cited>>
vars == <<body, overlap, stage, clean, packing, citation>>

Stages == {"fetched", "stored", "packing", "chunked", "cited"}

PassagesTypeOK ==
    /\ body \in Seq(Chars) /\ overlap \in Overlaps
    /\ stage \in Stages
    /\ clean \in Seq(Chars) \cup {NoText}
    /\ chunks \in Seq(Nat \X Nat) /\ start \in Nat /\ end \in Nat
    /\ quote \in Seq(Chars)
    /\ cited \in [verified : BOOLEAN, from : Nat, to : Nat]
    /\ cited.verified => clean # NoText /\ cited.to <= Len(clean)

Init ==
    /\ body \in Bodies /\ overlap \in Overlaps
    /\ stage = "fetched" /\ clean = NoText
    /\ chunks = <<>> /\ start = 0 /\ end = 0
    /\ quote = <<>> /\ cited = NotFound

-----------------------------------------------------------------------------
(* _sentence_spans: a sentence ends behind the blank after its terminator. *)

Ends(text) ==
    {i \in 1 .. Len(text) : i = Len(text) \/ (i > 1 /\ text[i - 1] = "stop" /\ text[i] = "space")}
Starts(text) == {0} \cup (Ends(text) \ {Len(text)})

NextEnd == Min({i \in Ends(clean) : i > end})

Greater(a, b) == IF a > b THEN a ELSE b

Target == IF overlap = 0 THEN end ELSE Greater(start, end - overlap)

\* _align_to_boundary
Aligned == Max({i \in Starts(clean) : i <= Target})

\* Mutant: measured without the sentence to come.
FitsAlready == end - start <= MaxChars

Fits == NextEnd - start <= MaxChars

\* Mutant: the tail replaces its predecessor.
MergedTailOnly(made) ==
    LET n == Len(made)
    IN  IF n < 2 \/ made[n][2] - made[n][1] >= MinChunk THEN made
        ELSE Append(SubSeq(made, 1, n - 2), made[n])

\* _merge_short_tail
Merged(made) ==
    LET n == Len(made)
    IN  IF n < 2 \/ made[n][2] - made[n][1] >= MinChunk THEN made
        ELSE Append(SubSeq(made, 1, n - 2), <<made[n - 1][1], made[n][2]>>)

-----------------------------------------------------------------------------
\* compute_hashes: clean_text is kept where the terms allow it; a body of blanks
\* leaves an empty one.
Store ==
    /\ stage = "fetched" /\ stage' = "stored"
    /\ clean' \in {NoText} \cup (IF body = <<>> THEN {} ELSE {Normalise(body)})
    /\ UNCHANGED <<body, overlap, packing, citation>>

\* chunk_and_embed: nothing to chunk.
SkipChunking ==
    /\ stage = "stored" /\ clean \in {NoText, <<>>}
    /\ stage' = "chunked"
    /\ UNCHANGED <<body, overlap, clean, packing, citation>>

BeginChunk ==
    /\ stage = "stored" /\ clean \notin {NoText, <<>>}
    /\ stage' = "packing" /\ end' = NextEnd
    /\ UNCHANGED <<body, overlap, clean, chunks, start, citation>>

Extend ==
    /\ stage = "packing" /\ end < Len(clean) /\ Fits
    /\ end' = NextEnd
    /\ UNCHANGED <<body, overlap, stage, clean, chunks, start, citation>>

Cut ==
    /\ stage = "packing" /\ end < Len(clean) /\ ~Fits
    /\ chunks' = Append(chunks, <<start, end>>)
    /\ start' = Aligned /\ end' = NextEnd
    /\ UNCHANGED <<body, overlap, stage, clean, citation>>

Finish ==
    /\ stage = "packing" /\ end = Len(clean)
    /\ chunks' = Merged(Append(chunks, <<start, end>>))
    /\ stage' = "chunked"
    /\ UNCHANGED <<body, overlap, clean, start, end, citation>>

\* verify_evidence for one of the quotes, which it checks one by one; without
\* text nothing is verified.
Cite ==
    /\ stage = "chunked" /\ stage' = "cited"
    /\ quote' \in Quotes
    /\ cited' = IF clean = NoText THEN NotFound ELSE VerifyQuote(quote', clean)
    /\ UNCHANGED <<body, overlap, clean, packing>>

Next == Store \/ SkipChunking \/ BeginChunk \/ Extend \/ Cut \/ Finish \/ Cite

Spec == Init /\ [][Next]_vars

-----------------------------------------------------------------------------
(* The chunks *)

Whole == stage = "chunked" /\ clean \notin {NoText, <<>>}
Size(k) == chunks[k][2] - chunks[k][1]

\* The chunks cover the text from its first character to its last, in order,
\* without a gap and without a chunk that ends no later than the one before, and
\* each is made of whole sentences; two neighbours share at least the overlap, or
\* the whole of the first, and a tail too short to stand alone never does.
ChunksCover ==
    Whole =>
        /\ chunks # <<>> /\ chunks[1][1] = 0 /\ chunks[Len(chunks)][2] = Len(clean)
        /\ \A k \in 1 .. Len(chunks) :
              chunks[k][1] \in Starts(clean) /\ chunks[k][2] \in Ends(clean)
        /\ \A k \in 2 .. Len(chunks) :
              /\ chunks[k - 1][1] <= chunks[k][1] /\ chunks[k][1] <= chunks[k - 1][2]
              /\ chunks[k - 1][2] < chunks[k][2]
              /\ chunks[k][1] <= Greater(chunks[k - 1][1], chunks[k - 1][2] - overlap)
              /\ k = Len(chunks) => Size(k) >= MinChunk

\* A chunk over the limit has one sentence more than what it repeats of its
\* predecessor, or has taken in a tail that was too short to stand alone.
ChunksAreBounded ==
    Whole => \A k \in 1 .. Len(chunks) :
        \/ Size(k) <= MaxChars
        \/ LET before == IF k = 1 THEN 0 ELSE chunks[k - 1][2]
           IN  Ends(clean) \cap (before + 1) .. chunks[k][2] = {chunks[k][2]}
        \/ k = Len(chunks) /\ overlap < MinChunk

-----------------------------------------------------------------------------
(* The quotes *)

\* The offsets of a verified quote lead to its text in clean_text, unless storing
\* has composed a letter that normalising once more would change (test_normalise:
\* "test_is_idempotent").
OffsetsLocate ==
    cited.verified /\ Normalise(clean) = clean =>
        Slice(clean, cited.from, cited.to) = Normalise(quote)

\* A verified quote is there for a reader of the publisher's page to see: nothing
\* invisible, no spacing and no composition makes a quote match what does not look
\* like it. A quote of invisible characters alone looks like nothing: it is found at
\* the start of every text, even an empty one, and this asks nothing of it.
VerifiedIsVisible ==
    cited.verified => Occurrences(Looks(quote), Looks(body)) # {}

\* verify.py:30: "A quote shorter than this is not evidence": what is left of a verified
\* quote, if anything is, is at least that long.
VerifiedQuotesAreLong ==
    cited.verified /\ cited.from < cited.to => cited.to - cited.from >= MinQuote
=============================================================================

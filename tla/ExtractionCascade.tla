--------------------------- MODULE ExtractionCascade ---------------------------
(***************************************************************************)
(* The one or two model calls made for a document (extract.py), the        *)
(* extractions rows they leave and the document's outcome (pipeline.py).   *)
(* An attempt is the sequence of the answers its calls got.                *)
(***************************************************************************)
EXTENDS Integers, Sequences, FiniteSets

CONSTANTS
    FirstPrice,    \* cost of a billed call of DEFAULT_MODEL
    SecondPrice    \* and of ESCALATION_MODEL

ASSUME PriceAssumption == FirstPrice \in Nat /\ SecondPrice \in Nat

\* Answers with a result: an event with every quote found in the text, held
\* with confidence or below the review threshold; an event with a quote that is
\* not in the text; an in-niche document without enough evidence; one out of niche.
Results == {"verified", "weak", "unquoted", "abstained", "outside"}

\* Errors: a refusal, which is billed, and a request the service never answered.
Errors == {"refused", "unreachable"}

\* "nothing" is an answer with neither result nor error.
Answers == Results \cup Errors \cup {"nothing"}

\* should_escalate
Escalates(a) == a \notin {"verified", "outside"}

\* extract_document: a second call, and no third.
Unfinished(calls) == calls = <<>> \/ (Len(calls) = 1 /\ Escalates(calls[1]))

\* ExtractionOutcome.final: the last call with a result, else the last call.
Final(calls) ==
    LET good == {i \in DOMAIN calls : calls[i] \in Results}
    IN  IF good = {} THEN Len(calls)
        ELSE CHOOSE i \in good : \A j \in good : j <= i

\* process_document
Outcome(calls) ==
    CASE calls[Final(calls)] \in Errors \cup {"nothing"} -> "error"
      [] calls[Final(calls)] = "outside"   -> "background"
      [] calls[Final(calls)] = "abstained" -> "abstained"
      [] calls[Final(calls)] = "unquoted"  -> "citation_failed"
      [] OTHER -> "event"

\* _outcome_label of the row of call i; only the final row knows its citations.
Label(calls, i) ==
    CASE calls[i] \in Errors -> "error"
      [] calls[i] = "nothing" -> "schema_invalid"
      [] calls[i] \in {"outside", "abstained"} -> "abstained"
      [] calls[i] = "unquoted" /\ i = Final(calls) -> "citation_invalid"
      [] OTHER -> "extracted"

ErrorRows(calls) == Cardinality({i \in DOMAIN calls : Label(calls, i) = "error"})

\* Mutant: only the outcomes without an event end a document's processing.
TerminalWithoutEvent(calls) ==
    \E i \in DOMAIN calls : Label(calls, i) \notin {"error", "extracted"}

\* pending_document_ids: any outcome other than 'error' is an answer.
Terminal(calls) == \E i \in DOMAIN calls : Label(calls, i) # "error"

Billed(a, price) == IF a = "unreachable" THEN 0 ELSE price

Cost(calls) ==
    (IF Len(calls) >= 1 THEN Billed(calls[1], FirstPrice) ELSE 0)
      + (IF Len(calls) = 2 THEN Billed(calls[2], SecondPrice) ELSE 0)
=============================================================================

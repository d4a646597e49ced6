------------------------------ MODULE EventRecord ------------------------------
(***************************************************************************)
(* One row of the events table and the three ways the program changes it:  *)
(* the pipeline publishes it (processing/pipeline.py), a later report is   *)
(* merged into it (processing/consolidate.py), a human decides on it       *)
(* (review.py).  Operators only: EventReview and ReviewRace say when each  *)
(* of them happens.                                                        *)
(*                                                                         *)
(* Confidence is counted in ten-thousandths, one digit finer than the      *)
(* column NUMERIC(4,3) that stores it, so that the rounding assess() does  *)
(* before storing is visible.                                              *)
(***************************************************************************)
EXTENDS Integers

CONSTANTS
    Levels,         \* severity levels
    AlwaysReview,   \* the levels a human always sees
    Cores,          \* values of (event_type, event_date), which reports may dispute
    Titles,         \* titles a record may carry
    Places,         \* location names
    Actors,         \* organisation names
    Sectors,        \* affected sectors
    Reports,        \* the verified extractions the pipeline may meet
    NoRow           \* where the table holds no row yet

One == 10000
ReviewThreshold == 6000
NoQuotableTextCeiling == 5000
MissingFieldPenalty == 500

Confidences == 0 .. One

(***************************************************************************)
(* What an extraction whose every quote was verified tells the pipeline.   *)
(* `mentioned` are the names some verified quote contains, `quoted` the    *)
(* field labels some verified quote carries, `fullText` the source's       *)
(* store_full_text.                                                        *)
(***************************************************************************)
Report == [ severity : Levels, core : Cores, title : Titles,
            confidence : Confidences,
            places : SUBSET Places, actors : SUBSET Actors,
            sectors : SUBSET Sectors,
            mentioned : SUBSET (Places \cup Actors),
            quoted : SUBSET {"severity", "affected_sectors"},
            fullText : BOOLEAN ]

ASSUME ReportsAssumption == Reports \subseteq Report
ASSUME LevelsAssumption == AlwaysReview \subseteq Levels

Cleared == {"approved", "edited"}
EstablishedReviewStatuses == {"not_required"} \cup Cleared
ReviewStatuses == EstablishedReviewStatuses \cup {"pending", "rejected"}

Row == [ severity : Levels, core : Cores, title : Titles,
         confidence : Confidences,
         places : SUBSET Places, actors : SUBSET Actors,
         sectors : SUBSET Sectors,
         flag : BOOLEAN, status : ReviewStatuses ]

ASSUME NoRowAssumption == NoRow \notin Row

Established(row) == row.status \in EstablishedReviewStatuses
InQueue(row) == row.status = "pending" /\ row.flag

\* What the record says, as opposed to how it is reviewed.
Content(row) == << row.severity, row.core, row.title,
                   row.places, row.actors, row.sectors >>

-----------------------------------------------------------------------------
(* Scoring and the two database guarantees *)

Least(a, b) == IF a < b THEN a ELSE b

MissingFields(r) == (IF r.places = {} THEN 1 ELSE 0)
                  + (IF r.actors = {} THEN 1 ELSE 0)
                  + (IF r.sectors = {} THEN 1 ELSE 0)

Capped(r) == IF r.fullText THEN r.confidence
             ELSE Least(r.confidence, NoQuotableTextCeiling)

Lowered(c, missing) ==
    IF c < MissingFieldPenalty * missing THEN 0 ELSE c - MissingFieldPenalty * missing

\* assess() before rounding.  Its branches for failed or missing citations
\* never reach the events table: such a document stops at the citation gate.
Score(r) == Lowered(Capped(r), MissingFields(r))

\* round(confidence, 3).  A tie goes up here; no property depends on it.
Rounded(c) == ((c + 5) \div 10) * 10

AssessedConfidence(r) == Rounded(Score(r))
AssessedReview(r) == Score(r) < ReviewThreshold \/ r.severity \in AlwaysReview

FlagMustStay(severity, confidence) ==
    severity \in AlwaysReview \/ confidence < ReviewThreshold

\* ck_events_high_severity_requires_review, ck_events_low_confidence_requires_review
ChecksAccept(row) == FlagMustStay(row.severity, row.confidence) => row.flag

-----------------------------------------------------------------------------
(* A first report *)

NewRow(r) ==
    [ severity |-> r.severity, core |-> r.core, title |-> r.title,
      confidence |-> AssessedConfidence(r),
      places |-> r.places, actors |-> r.actors, sectors |-> r.sectors,
      flag |-> AssessedReview(r),
      status |-> IF AssessedReview(r) THEN "pending" ELSE "not_required" ]

-----------------------------------------------------------------------------
(* A later report on a record that exists *)

SeverityDiffers(row, r) == r.severity # row.severity

\* A severity change is applied when a verified quote carries that label.
SeverityApplied(row, r) == SeverityDiffers(row, r) /\ "severity" \in r.quoted

\* The report disputes the record, or asserts a change no quote supports.
Disputes(row, r) ==
    \/ r.core # row.core
    \/ SeverityDiffers(row, r) /\ "severity" \notin r.quoted

\* Names are added only if this report's own verified text mentions them.
NewPlaces(row, r) == (r.places \ row.places) \cap r.mentioned

\* Mutant: the report is believed without a quote.
NewActorsUngrounded(row, r) == r.actors \ row.actors

NewActors(row, r) == (r.actors \ row.actors) \cap r.mentioned
NewSectors(row, r) ==
    IF "affected_sectors" \in r.quoted THEN r.sectors \ row.sectors ELSE {}

ChangesContent(row, r) ==
    \/ SeverityApplied(row, r)
    \/ NewPlaces(row, r) # {}
    \/ NewActors(row, r) # {}
    \/ NewSectors(row, r) # {}

\* consolidate.compare: anything else is a duplicate, which leaves the row alone.
IsUpdate(row, r) == ChangesContent(row, r) \/ Disputes(row, r)

SeverityAfter(row, r) == IF SeverityApplied(row, r) THEN r.severity ELSE row.severity
ConfidenceAfter(row, r) == Least(row.confidence, AssessedConfidence(r))

\* Mutant: a record a human cleared is not sent back.
ReviewAfterTrustingHumans(row, r) ==
    \/ Disputes(row, r)
    \/ FlagMustStay(SeverityAfter(row, r), ConfidenceAfter(row, r))
    \/ InQueue(row)

\* Mutant: that a record waits for a human is no reason to keep it waiting.
ReviewAfterUnwaited(row, r) ==
    \/ Disputes(row, r)
    \/ FlagMustStay(SeverityAfter(row, r), ConfidenceAfter(row, r))
    \/ row.status \in Cleared \cup {"rejected"}

ReviewAfter(row, r) ==
    \/ Disputes(row, r)
    \/ FlagMustStay(SeverityAfter(row, r), ConfidenceAfter(row, r))
    \/ row.status \in Cleared \cup {"rejected"}
    \/ InQueue(row)

\* Mutant: without a reason to hold the record, the merge releases it.
MergedReleasing(row, r) ==
    IF ~IsUpdate(row, r) THEN row
    ELSE LET hold == Disputes(row, r)
                     \/ FlagMustStay(SeverityAfter(row, r), ConfidenceAfter(row, r))
                     \/ row.status \in Cleared \cup {"rejected"}
         IN  [ row EXCEPT !.severity = SeverityAfter(row, r),
                          !.confidence = ConfidenceAfter(row, r),
                          !.places = @ \cup NewPlaces(row, r),
                          !.actors = @ \cup NewActors(row, r),
                          !.sectors = @ \cup NewSectors(row, r),
                          !.flag = hold,
                          !.status = IF hold THEN "pending" ELSE "not_required" ]

Merged(row, r) ==
    IF ~IsUpdate(row, r) THEN row
    ELSE [ row EXCEPT !.severity = SeverityAfter(row, r),
                      !.confidence = ConfidenceAfter(row, r),
                      !.places = @ \cup NewPlaces(row, r),
                      !.actors = @ \cup NewActors(row, r),
                      !.sectors = @ \cup NewSectors(row, r),
                      !.flag = ReviewAfter(row, r),
                      !.status = IF ReviewAfter(row, r) THEN "pending" ELSE @ ]

(***************************************************************************)
(* Looking an organisation up (_get_or_create_entity) flushes the session, *)
(* so a new severity reaches the database before the new flag does.        *)
(***************************************************************************)
FlushedEarly(row, r) == [ row EXCEPT !.severity = SeverityAfter(row, r) ]

MergeAccepted(row, r) ==
    NewActors(row, r) # {} => ChecksAccept(FlushedEarly(row, r))

-----------------------------------------------------------------------------
(* A human decision *)

Edit == [ severity : Levels, core : Cores, title : Titles ]

Unedited(row) == [ severity |-> row.severity, core |-> row.core, title |-> row.title ]

\* Approve and reject carry no edits, an edit changes at least one field.
Decisions(row) ==
    [ kind : {"approve", "reject"}, edit : {Unedited(row)} ]
      \cup [ kind : {"edit"}, edit : Edit \ {Unedited(row)} ]

\* Mutant: the decision is stored where its status belongs.
StatusAsKind(kind) == kind

\* Mutant: an edit counts as an approval.
EditAsApproval(kind) == IF kind = "reject" THEN "rejected" ELSE "approved"

StatusAfter(kind) == CASE kind = "approve" -> "approved"
                       [] kind = "edit"    -> "edited"
                       [] kind = "reject"  -> "rejected"

\* Mutant: rejection is treated like the other decisions.
FlagForgettingReject(row, d) == FlagMustStay(d.edit.severity, row.confidence)

\* Mutant: the severity before the edit decides.
FlagOfOldSeverity(row, d) ==
    \/ d.kind = "reject"
    \/ FlagMustStay(row.severity, row.confidence)

FlagAfter(row, d) ==
    \/ d.kind = "reject"
    \/ FlagMustStay(d.edit.severity, row.confidence)

Decided(row, d) ==
    [ row EXCEPT
        !.severity = d.edit.severity, !.core = d.edit.core, !.title = d.edit.title,
        !.status = StatusAfter(d.kind),
        !.flag = FlagAfter(row, d) ]
=============================================================================

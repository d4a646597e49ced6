--------------------------- MODULE EventReviewProofs ---------------------------
(***************************************************************************)
(* Theorems about EventReview, for every set of events, reviewers, reports *)
(* and taxonomy values.                                                    *)
(***************************************************************************)
EXTENDS EventReview, TLAPS

-----------------------------------------------------------------------------
(* The three ways a row is written *)

\* Rounding to three decimals stays in range and never lifts a score over the
\* review threshold: 0.600 is only stored for a score that rounds up to it.
LEMMA Rounding ==
    ASSUME NEW c \in Confidences
    PROVE  /\ Rounded(c) \in Confidences
           /\ Rounded(c) < ReviewThreshold => c < ReviewThreshold
<1> DEFINE q == (c + 5) \div 10
<1>1. c \in Int /\ 0 <= c /\ c <= 10000
  BY DEF Confidences, One
<1>2. c + 5 \in Int /\ 10 \in Int /\ 10 > 0
  BY <1>1, SMTT(60)
<1>3. q \in Int /\ 10 * q <= c + 5 /\ c + 5 < 10 * q + 10
  BY <1>1, <1>2, SMTT(120)
<1> HIDE DEF q
<1>4. 0 <= q /\ q <= 1000
  BY <1>1, <1>3, SMTT(120)
<1>5. q * 10 < 6000 => c < 6000
  BY <1>1, <1>3, SMTT(120)
<1>6. q * 10 \in 0 .. 10000
  BY <1>3, <1>4, SMTT(120)
<1>7. Rounded(c) = q * 10
  BY DEF Rounded, q
<1>8. Rounded(c) \in Confidences
  BY <1>6, <1>7 DEF Confidences, One
<1>9. Rounded(c) < ReviewThreshold => c < ReviewThreshold
  BY <1>5, <1>7 DEF ReviewThreshold
<1>10. QED
  BY <1>8, <1>9

LEMMA ScoreInRange ==
    ASSUME NEW r \in Report
    PROVE  Score(r) \in Confidences
<1>1. MissingFields(r) \in Nat
  BY DEF MissingFields
<1>2. Capped(r) \in Confidences
  <2>1. r.confidence \in Confidences
    BY DEF Report
  <2>2. ASSUME NEW c \in Confidences
        PROVE  Least(c, NoQuotableTextCeiling) \in Confidences
    BY SMTT(60) DEF Least, Confidences, One, NoQuotableTextCeiling
  <2>3. QED
    BY <2>1, <2>2 DEF Capped
<1>3. ASSUME NEW c \in Confidences, NEW n \in Nat
      PROVE  Lowered(c, n) \in Confidences
  BY SMTT(60) DEF Lowered, Confidences, One, MissingFieldPenalty
<1>4. QED
  BY <1>1, <1>2, <1>3 DEF Score

\* assess() yields a confidence, and whatever the flag must stay for once that
\* confidence is stored, assess() already sent to review.
LEMMA Assessment ==
    ASSUME NEW r \in Report
    PROVE  /\ AssessedConfidence(r) \in Confidences
           /\ AssessedReview(r) \in BOOLEAN
           /\ FlagMustStay(r.severity, AssessedConfidence(r)) => AssessedReview(r)
  BY ScoreInRange, Rounding DEF AssessedConfidence, AssessedReview, FlagMustStay

\* A published row is well formed, has its place and passes the CHECKs.
LEMMA NewRowSound ==
    ASSUME NEW r \in Report
    PROVE  /\ NewRow(r) \in Row
           /\ NewRow(r).status \in {"pending", "not_required"}
           /\ HasAPlace(NewRow(r))
           /\ ChecksAccept(NewRow(r))
<1>1. NewRow(r) \in Row
  BY Assessment DEF NewRow, Row, Report, ReviewStatuses, EstablishedReviewStatuses
<1>2. ChecksAccept(NewRow(r))
  BY Assessment DEF NewRow, ChecksAccept
<1>3. QED
  BY <1>1, <1>2, Assessment DEF NewRow, HasAPlace

LEMMA ConfidenceAfterLower ==
    ASSUME NEW row \in Row, NEW r \in Report
    PROVE  /\ ConfidenceAfter(row, r) \in Confidences
           /\ ConfidenceAfter(row, r) <= row.confidence
<1>1. row.confidence \in Confidences /\ AssessedConfidence(r) \in Confidences
  BY Assessment DEF Row
<1>2. ASSUME NEW a \in Confidences, NEW b \in Confidences
      PROVE  Least(a, b) \in Confidences /\ Least(a, b) <= a
  BY DEF Least, Confidences
<1>3. QED
  BY <1>1, <1>2 DEF ConfidenceAfter

\* Merging keeps a row well formed, in its place and within the CHECKs, and never
\* raises its confidence; a row a human has judged stays judged only if the merge
\* left it untouched, and no merge spares a record review after the fact.
LEMMA MergedSound ==
    ASSUME NEW row \in Row, NEW r \in Report,
           HasAPlace(row), ChecksAccept(row)
    PROVE  /\ Merged(row, r) \in Row
           /\ HasAPlace(Merged(row, r))
           /\ ChecksAccept(Merged(row, r))
           /\ Merged(row, r).confidence <= row.confidence
           /\ Merged(row, r).status \in Cleared \cup {"rejected"} => Merged(row, r) = row
           /\ Merged(row, r).status = "not_required" => row.status = "not_required"
<1>1. CASE ~IsUpdate(row, r)
  <2>1. row.confidence \in Int
    BY DEF Row, Confidences
  <2>2. QED
    BY <1>1, <2>1 DEF Merged
<1>2. CASE IsUpdate(row, r)
  <2>. DEFINE new == Merged(row, r)
  <2>1. /\ SeverityAfter(row, r) \in Levels
        /\ ReviewAfter(row, r) \in BOOLEAN
    BY DEF SeverityAfter, ReviewAfter, Row, Report, Disputes, FlagMustStay, InQueue
  <2>2. /\ NewPlaces(row, r) \in SUBSET Places
        /\ NewActors(row, r) \in SUBSET Actors
        /\ NewSectors(row, r) \in SUBSET Sectors
    BY DEF NewPlaces, NewActors, NewSectors, Report
  <2>3. new \in Row
    BY <1>2, <2>1, <2>2, ConfidenceAfterLower
    DEF Merged, Row, ReviewStatuses, EstablishedReviewStatuses
  <2>4. /\ new.severity = SeverityAfter(row, r)
        /\ new.confidence = ConfidenceAfter(row, r)
        /\ new.flag = ReviewAfter(row, r)
        /\ new.status = IF ReviewAfter(row, r) THEN "pending" ELSE row.status
    BY <1>2 DEF Merged, Row
  <2>5. row.status \in Cleared \cup {"rejected"} => ReviewAfter(row, r)
    BY DEF ReviewAfter
  <2>6. row.status = "pending" => ReviewAfter(row, r)
    BY DEF ReviewAfter, InQueue, HasAPlace
  <2>7. ChecksAccept(new)
    BY <2>4 DEF ChecksAccept, ReviewAfter
  <2>8. HasAPlace(new)
    BY <2>1, <2>4, <2>5, <2>6 DEF HasAPlace, Cleared
  <2>9. new.status \notin Cleared \cup {"rejected"}
    BY <2>4, <2>5 DEF Cleared
  <2>10. new.status = "not_required" => row.status = "not_required"
    BY <2>4
  <2>11. QED
    BY <2>3, <2>4, <2>7, <2>8, <2>9, <2>10, ConfidenceAfterLower
<1>3. QED
  BY <1>1, <1>2

\* A decision keeps a row well formed, in its place and within the CHECKs, and
\* does not touch its confidence.
LEMMA DecidedSound ==
    ASSUME NEW row \in Row, NEW d \in Decisions(row)
    PROVE  /\ d.kind \in {"approve", "edit", "reject"}
           /\ Decided(row, d) \in Row
           /\ HasAPlace(Decided(row, d))
           /\ ChecksAccept(Decided(row, d))
           /\ Decided(row, d).confidence = row.confidence
           /\ Decided(row, d).status =
                IF d.kind = "approve" THEN "approved"
                ELSE IF d.kind = "edit" THEN "edited" ELSE "rejected"
<1>1. d.kind \in {"approve", "edit", "reject"} /\ d.edit \in Edit
  BY DEF Decisions, Unedited, Edit, Row
<1>2. FlagMustStay(d.edit.severity, row.confidence) \in BOOLEAN
  BY DEF FlagMustStay
<1>3. Decided(row, d) \in Row
  BY <1>1, <1>2 DEF Decided, StatusAfter, FlagAfter, Row, Edit, ReviewStatuses, EstablishedReviewStatuses, Cleared
<1>4. /\ Decided(row, d).severity = d.edit.severity
      /\ Decided(row, d).confidence = row.confidence
      /\ Decided(row, d).flag = (d.kind = "reject" \/ FlagMustStay(d.edit.severity, row.confidence))
      /\ Decided(row, d).status =
            IF d.kind = "approve" THEN "approved"
            ELSE IF d.kind = "edit" THEN "edited" ELSE "rejected"
  BY <1>1 DEF Decided, StatusAfter, FlagAfter, Row
<1>5. QED
  BY <1>1, <1>3, <1>4 DEF HasAPlace, ChecksAccept

-----------------------------------------------------------------------------
(* The invariant is inductive *)

LEMMA InitInv == Init => IInv
  BY NoRowAssumption
  DEF Init, IInv, TypeOK, Published, EveryRecordHasAPlace, RecordsComply,
      ApprovalCoversContent, AuditExplainsStatus, Clearance, Shows

\* Pages going out of date stay pages of the same records.
LEMMA OutdatedPages ==
    ASSUME screen \in [Reviewers -> Page \cup {NoPage}],
           NEW e, NEW old, NEW new
    PROVE  /\ Outdated(e, old, new) \in [Reviewers -> Page \cup {NoPage}]
           /\ \A h \in Reviewers :
                 /\ Outdated(e, old, new)[h] = NoPage <=> screen[h] = NoPage
                 /\ screen[h] # NoPage => Outdated(e, old, new)[h].event = screen[h].event
<1> SUFFICES ASSUME NEW h \in Reviewers
             PROVE  /\ Outdated(e, old, new)[h] \in Page \cup {NoPage}
                    /\ Outdated(e, old, new)[h] = NoPage <=> screen[h] = NoPage
                    /\ screen[h] # NoPage => Outdated(e, old, new)[h].event = screen[h].event
  BY DEF Outdated
<1>1. CASE Shows(h, e)
  <2>1. screen[h] \in Page
    BY <1>1 DEF Shows
  <2>2. /\ [screen[h] EXCEPT !.current = FALSE] \in Page
        /\ [screen[h] EXCEPT !.current = FALSE].event = screen[h].event
    BY <2>1 DEF Page
  <2>3. QED
    BY <1>1, <2>1, <2>2, NoPageAssumption DEF Outdated
<1>2. CASE ~Shows(h, e)
  BY <1>2 DEF Outdated
<1>3. QED
  BY <1>1, <1>2

\* One step per action; a merge and a decision rewrite one row, which the lemmas
\* above say is sound.
LEMMA NextInv == IInv /\ [Next]_vars => IInv'
<1> SUFFICES ASSUME IInv, [Next]_vars PROVE IInv'
  OBVIOUS
<1> USE DEF IInv
<1>1. ASSUME NEW e \in Events, NEW r \in Reports, Publish(e, r) PROVE IInv'
  <2>1. /\ NewRow(r) \in Row
        /\ NewRow(r) # NoRow
        /\ HasAPlace(NewRow(r)) /\ ChecksAccept(NewRow(r))
        /\ NewRow(r).status \in {"pending", "not_required"}
    BY NewRowSound, ReportsAssumption, NoRowAssumption
  <2>2. /\ rows' = [rows EXCEPT ![e] = NewRow(r)]
        /\ e \notin Published /\ audit[e] = "none"
        /\ UNCHANGED <<audit, screen, cleared, refused>>
    BY <1>1 DEF Publish
  <2>3. Published' = Published \cup {e}
    BY <2>1, <2>2 DEF Published, TypeOK
  <2>4. TypeOK'
    BY <2>1, <2>2 DEF TypeOK
  <2>5. \A f \in Published' : f # e => f \in Published /\ rows'[f] = rows[f]
    BY <2>2, <2>3 DEF TypeOK
  <2>6. rows'[e] = NewRow(r)
    BY <2>2 DEF TypeOK
  <2>7. EveryRecordHasAPlace' /\ RecordsComply'
    BY <2>1, <2>5, <2>6 DEF EveryRecordHasAPlace, RecordsComply
  <2>8. ApprovalCoversContent' /\ AuditExplainsStatus'
    BY <2>1, <2>2, <2>5, <2>6 DEF ApprovalCoversContent, AuditExplainsStatus, Cleared
  <2>9. QED
    BY <2>2, <2>3, <2>4, <2>7, <2>8 DEF Shows
<1>2. ASSUME NEW e \in Events, NEW r \in Reports, MergeReport(e, r) PROVE IInv'
  <2>. DEFINE old == rows[e]
              new == Merged(rows[e], r)
  <2>1. e \in Published /\ old \in Row /\ HasAPlace(old) /\ ChecksAccept(old)
    BY <1>2 DEF MergeReport, Published, TypeOK, EveryRecordHasAPlace, RecordsComply
  <2>2. /\ new \in Row /\ new # NoRow
        /\ HasAPlace(new) /\ ChecksAccept(new)
        /\ new.status \in Cleared \cup {"rejected"} => new = old
        /\ new.status = "not_required" => old.status = "not_required"
    BY <2>1, MergedSound, ReportsAssumption, NoRowAssumption
  <2>3. /\ rows' = [rows EXCEPT ![e] = new]
        /\ cleared' = [cleared EXCEPT
              ![e] = IF Content(new) # Content(old) THEN "none" ELSE @]
        /\ screen' = Outdated(e, old, new)
        /\ UNCHANGED <<audit, refused>>
    BY <1>2 DEF MergeReport
  <2>4. Published' = Published
    BY <2>1, <2>2, <2>3 DEF Published, TypeOK
  <2>5. TypeOK'
    BY <2>2, <2>3, OutdatedPages DEF TypeOK, Clearance
  <2>6. /\ rows'[e] = new
        /\ \A f \in Published' : f # e => rows'[f] = rows[f] /\ cleared'[f] = cleared[f]
        /\ new = old => cleared'[e] = cleared[e]
    BY <2>3, <2>4 DEF TypeOK, Published
  <2>7. EveryRecordHasAPlace' /\ RecordsComply'
    BY <2>2, <2>4, <2>6 DEF EveryRecordHasAPlace, RecordsComply
  <2>8. ApprovalCoversContent'
    BY <2>1, <2>2, <2>4, <2>6 DEF ApprovalCoversContent
  <2>9. AuditExplainsStatus'
    BY <2>1, <2>2, <2>3, <2>4, <2>6 DEF AuditExplainsStatus, Cleared
  <2>10. \A h \in Reviewers, f \in Events : Shows(h, f)' => f \in Published'
    BY <2>3, <2>4, OutdatedPages DEF Shows, TypeOK
  <2>11. QED
    BY <2>3, <2>4, <2>5, <2>7, <2>8, <2>9, <2>10
<1>3. ASSUME NEW e \in Events, NEW r \in Reports, RefuseReport(e, r) PROVE IInv'
  BY <1>3 DEF RefuseReport, TypeOK, Published, EveryRecordHasAPlace, RecordsComply,
              ApprovalCoversContent, AuditExplainsStatus, Shows
<1>4. ASSUME NEW e \in Events, NEW h \in Reviewers, OpenPage(h, e) PROVE IInv'
  <2>1. /\ e \in Published
        /\ screen' = [screen EXCEPT ![h] = [event |-> e, current |-> TRUE]]
        /\ UNCHANGED <<rows, audit, cleared, refused>>
    BY <1>4 DEF OpenPage
  <2>2. TypeOK'
    BY <2>1 DEF TypeOK, Page
  <2>3. Published' = Published
    BY <2>1 DEF Published
  <2>4. \A g \in Reviewers, f \in Events : Shows(g, f)' => f \in Published'
    BY <2>1, <2>3 DEF Shows, TypeOK
  <2>5. QED
    BY <2>1, <2>2, <2>3, <2>4
    DEF EveryRecordHasAPlace, RecordsComply, ApprovalCoversContent, AuditExplainsStatus
<1>5. ASSUME NEW e \in Events, NEW h \in Reviewers, PostDecision(h, e) PROVE IInv'
  <2>1. Shows(h, e) /\ e \in Published /\ rows[e] \in Row
    BY <1>5 DEF PostDecision, Published, TypeOK
  <2>2. PICK d \in Decisions(rows[e]) : Record(h, e, d)
    BY <1>5 DEF PostDecision
  <2>. DEFINE old == rows[e]
              new == Decided(rows[e], d)
  <2>3. /\ new \in Row /\ new # NoRow
        /\ HasAPlace(new) /\ ChecksAccept(new)
        /\ d.kind \in {"approve", "edit", "reject"}
        /\ new.status = IF d.kind = "approve" THEN "approved"
                        ELSE IF d.kind = "edit" THEN "edited" ELSE "rejected"
    BY <2>1, DecidedSound, NoRowAssumption
  <2>4. /\ rows' = [rows EXCEPT ![e] = new]
        /\ cleared' = [cleared EXCEPT
              ![e] = IF d.kind = "reject" THEN "none"
                     ELSE IF screen[h].current THEN "seen" ELSE "blind"]
        /\ screen' = [Outdated(e, old, new) EXCEPT ![h] = [event |-> e, current |-> TRUE]]
        /\ audit' = [audit EXCEPT ![e] = d.kind]
        /\ UNCHANGED refused
    BY <2>2 DEF Record
  <2>5. Published' = Published
    BY <2>1, <2>3, <2>4 DEF Published, TypeOK
  <2>6. [event |-> e, current |-> TRUE] \in Page
    BY DEF Page
  <2>7. TypeOK'
    BY <2>3, <2>4, <2>6, OutdatedPages DEF TypeOK, Clearance
  <2>8. /\ rows'[e] = new /\ audit'[e] = d.kind
        /\ d.kind # "reject" => cleared'[e] # "none"
        /\ \A f \in Published' :
              f # e => /\ rows'[f] = rows[f] /\ cleared'[f] = cleared[f]
                       /\ audit'[f] = audit[f]
    BY <2>4, <2>5 DEF TypeOK, Published
  <2>9. EveryRecordHasAPlace' /\ RecordsComply'
    BY <2>3, <2>5, <2>8 DEF EveryRecordHasAPlace, RecordsComply
  <2>10. ApprovalCoversContent'
    BY <2>3, <2>5, <2>8 DEF ApprovalCoversContent, Cleared
  <2>11. AuditExplainsStatus'
    BY <2>3, <2>5, <2>8 DEF AuditExplainsStatus
  <2>12. \A f \in Events \ Published' : audit'[f] = "none"
    BY <2>1, <2>4, <2>5 DEF TypeOK
  <2>13. \A g \in Reviewers, f \in Events : Shows(g, f)' => f \in Published'
    BY <2>1, <2>4, <2>5, OutdatedPages DEF Shows, TypeOK
  <2>14. QED
    BY <2>5, <2>7, <2>9, <2>10, <2>11, <2>12, <2>13
<1>6. CASE UNCHANGED vars
  BY <1>6 DEF vars, TypeOK, Published, EveryRecordHasAPlace, RecordsComply,
              ApprovalCoversContent, AuditExplainsStatus, Shows
<1>7. QED
  BY <1>1, <1>2, <1>3, <1>4, <1>5, <1>6 DEF Next

\* The conjunction of all invariants holds throughout.
THEOREM Invariance == Spec => []IInv
  BY InitInv, NextInv, PTL DEF Spec

\* Tables, pages and the decision log keep their types.
THEOREM TypeCorrect == Spec => []TypeOK
<1>1. IInv => TypeOK
  BY DEF IInv
<1>2. QED
  BY Invariance, <1>1, PTL

\* No transaction leaves a record neither in the feed, nor in the queue, nor
\* rejected with its flag set.
THEOREM PlacesSafe == Spec => []EveryRecordHasAPlace
<1>1. IInv => EveryRecordHasAPlace
  BY DEF IInv
<1>2. QED
  BY Invariance, <1>1, PTL

\* Whatever publishing, merging and deciding finally write satisfies the CHECKs.
THEOREM CheckSafe == Spec => []RecordsComply
<1>1. IInv => RecordsComply
  BY DEF IInv
<1>2. QED
  BY Invariance, <1>1, PTL

\* Nothing new is merged into an approved or edited record without reopening it.
THEOREM ApprovalSafe == Spec => []ApprovalCoversContent
<1>1. IInv => ApprovalCoversContent
  BY DEF IInv
<1>2. QED
  BY Invariance, <1>1, PTL

\* The decision log always explains a record's review status.
THEOREM AuditSafe == Spec => []AuditExplainsStatus
<1>1. IInv => AuditExplainsStatus
  BY DEF IInv
<1>2. QED
  BY Invariance, <1>1, PTL

-----------------------------------------------------------------------------
\* No step of anybody raises the confidence of a published record.
THEOREM ConfidenceSafe == Spec => ConfidenceNeverRises
<1>1. ASSUME IInv, [Next]_vars, NEW f \in Published
      PROVE  rows'[f].confidence <= rows[f].confidence
  <2> USE <1>1
  <2>1. /\ f \in Events /\ rows[f] \in Row
        /\ HasAPlace(rows[f]) /\ ChecksAccept(rows[f])
        /\ rows[f].confidence <= rows[f].confidence
    <3>1. f \in Events /\ rows[f] \in Row
      BY DEF IInv, TypeOK, Published
    <3>2. rows[f].confidence \in Int
      BY <3>1 DEF Row, Confidences
    <3>3. QED
      BY <3>1, <3>2 DEF IInv, EveryRecordHasAPlace, RecordsComply
  <2>2. rows \in [Events -> Row \cup {NoRow}]
    BY DEF IInv, TypeOK
  <2>3. CASE \E e \in Events, r \in Reports : Publish(e, r)
    BY <2>1, <2>2, <2>3 DEF Publish
  <2>4. CASE \E e \in Events, r \in Reports : MergeReport(e, r)
    <3>1. PICK e \in Events, r \in Reports : MergeReport(e, r)
      BY <2>4
    <3>2. r \in Report
      BY ReportsAssumption
    <3>3. rows' = [rows EXCEPT ![e] = Merged(rows[e], r)]
      BY <3>1 DEF MergeReport
    <3>4. CASE e = f
      BY <2>1, <2>2, <3>2, <3>3, <3>4, MergedSound
    <3>5. CASE e # f
      BY <2>1, <2>2, <3>3, <3>5
    <3>6. QED
      BY <3>4, <3>5
  <2>5. CASE \E e \in Events, h \in Reviewers : PostDecision(h, e)
    <3>1. PICK e \in Events, h \in Reviewers : PostDecision(h, e)
      BY <2>5
    <3>2. PICK d \in Decisions(rows[e]) : rows' = [rows EXCEPT ![e] = Decided(rows[e], d)]
      BY <3>1 DEF PostDecision, Record
    <3>3. CASE e = f
      BY <2>1, <2>2, <3>2, <3>3, DecidedSound
    <3>4. CASE e # f
      BY <2>1, <2>2, <3>2, <3>4
    <3>5. QED
      BY <3>3, <3>4
  <2>6. CASE rows' = rows
    BY <2>1, <2>6
  <2>7. QED
    BY <2>3, <2>4, <2>5, <2>6 DEF Next, vars, RefuseReport, OpenPage
<1>2. IInv /\ [Next]_vars => [NoConfidenceRise]_vars
  BY <1>1 DEF NoConfidenceRise
<1>3. QED
  BY Invariance, <1>2, PTL DEF Spec, ConfidenceNeverRises

-----------------------------------------------------------------------------
(* EventReview implements ReviewPolicy *)

\* A row the pipeline wrote is in the queue, or in the feed and not serious.
LEMMA MachineShows ==
    ASSUME NEW row \in Row, NEW c, row # NoRow, HasAPlace(row), ChecksAccept(row),
           row.status \in {"pending", "not_required"}
    PROVE  /\ PlaceOf(row) = IF row.status = "pending" THEN "queue" ELSE "feed"
           /\ PlaceOf(row) = "feed" => ~Serious(row)
           /\ Vouched(row, c) = FALSE
           /\ Serious(row) \in BOOLEAN
<1>1. PlaceOf(row) = IF row.status = "pending" THEN "queue" ELSE "feed"
  BY DEF PlaceOf, Established, EstablishedReviewStatuses, Cleared, InQueue, HasAPlace
<1>2. row.status = "not_required" => ~Serious(row)
  BY DEF Serious, HasAPlace, ChecksAccept
<1>3. Vouched(row, c) = FALSE
  BY DEF Vouched, Cleared
<1>4. Serious(row) \in BOOLEAN
  BY DEF Serious, FlagMustStay
<1>5. QED
  BY <1>1, <1>2, <1>3, <1>4

LEMMA PolicyInit == Init => Policy!Init
  BY DEF Init, Policy!Init, PlaceOf, Vouched, Serious

\* Rewriting one row the way the pipeline does is Show of the policy.
LEMMA PolicyShow ==
    ASSUME NEW e \in Events, rows'[e] \in Row, rows'[e] # NoRow,
           HasAPlace(rows'[e]), ChecksAccept(rows'[e]),
           rows'[e].status \in {"pending", "not_required"},
           \A f \in Events : f # e => rows'[f] = rows[f] /\ cleared'[f] = cleared[f]
    PROVE  Policy!Show(e, Serious(rows'[e]), PlaceOf(rows'[e]))
<1>1. /\ PlaceOf(rows'[e]) \in {"queue", "feed"}
      /\ PlaceOf(rows'[e]) = "feed" => ~Serious(rows'[e])
      /\ Vouched(rows'[e], cleared'[e]) = FALSE
  BY MachineShows
<1>2. QED
  BY <1>1 DEF Policy!Show

LEMMA PolicyStep == IInv /\ [Next]_vars => [Policy!Next]_(Policy!vars)
<1> SUFFICES ASSUME IInv, [Next]_vars PROVE [Policy!Next]_(Policy!vars)
  OBVIOUS
<1>1. /\ rows \in [Events -> Row \cup {NoRow}]
      /\ cleared \in [Events -> Clearance]
  BY DEF IInv, TypeOK
<1>2. ASSUME NEW e \in Events, NEW r \in Reports, Publish(e, r) PROVE Policy!Next
  <2>1. rows' = [rows EXCEPT ![e] = NewRow(r)] /\ cleared' = cleared /\ rows[e] = NoRow
    BY <1>2 DEF Publish, Published
  <2>2. rows'[e] = NewRow(r) /\ r \in Report
    BY <1>1, <2>1, ReportsAssumption
  <2>3. /\ rows'[e] \in Row /\ rows'[e] # NoRow
        /\ HasAPlace(rows'[e]) /\ ChecksAccept(rows'[e])
        /\ rows'[e].status \in {"pending", "not_required"}
    BY <2>2, NewRowSound, NoRowAssumption
  <2>4. \A f \in Events : f # e => rows'[f] = rows[f] /\ cleared'[f] = cleared[f]
    BY <1>1, <2>1
  <2>5. Policy!Show(e, Serious(rows'[e]), PlaceOf(rows'[e]))
    BY <2>3, <2>4, PolicyShow
  <2>6. Serious(rows'[e]) \in BOOLEAN /\ PlaceOf(rows'[e]) \in {"feed", "queue"}
    BY <2>3, MachineShows
  <2>7. PlaceOf(rows[e]) = "nowhere"
    BY <2>1 DEF PlaceOf
  <2>8. Policy!Publish(e)
    BY <2>5, <2>6, <2>7 DEF Policy!Publish
  <2>9. QED
    BY <2>8 DEF Policy!Next
<1>3. ASSUME NEW e \in Events, NEW r \in Reports, MergeReport(e, r)
      PROVE  [Policy!Next]_(Policy!vars)
  <2>. DEFINE old == rows[e]
              new == Merged(rows[e], r)
  <2>1. /\ old \in Row /\ old # NoRow /\ HasAPlace(old) /\ ChecksAccept(old) /\ r \in Report
        /\ rows' = [rows EXCEPT ![e] = new]
        /\ cleared' = [cleared EXCEPT
              ![e] = IF Content(new) # Content(old) THEN "none" ELSE @]
    BY <1>1, <1>3, ReportsAssumption
    DEF IInv, MergeReport, Published, EveryRecordHasAPlace, RecordsComply
  <2>2. CASE new = old
    BY <1>1, <2>1, <2>2 DEF Policy!vars
  <2>3. CASE new # old
    <3>1. /\ new \in Row /\ HasAPlace(new) /\ ChecksAccept(new)
          /\ new.status \notin Cleared \cup {"rejected"}
          /\ new.status = "not_required" => old.status = "not_required"
      BY <2>1, <2>3, MergedSound
    <3>2. new # NoRow /\ new.status \in {"pending", "not_required"}
      BY <3>1, NoRowAssumption DEF Row, ReviewStatuses, EstablishedReviewStatuses, Cleared
    <3>3. rows'[e] = new
      BY <1>1, <2>1
    <3>4. \A f \in Events : f # e => rows'[f] = rows[f] /\ cleared'[f] = cleared[f]
      BY <1>1, <2>1
    <3>5. Policy!Show(e, Serious(new), PlaceOf(new))
      BY <3>1, <3>2, <3>3, <3>4, PolicyShow
    <3>6. /\ PlaceOf(new) = IF new.status = "pending" THEN "queue" ELSE "feed"
          /\ Serious(new) \in BOOLEAN
      BY <3>1, <3>2, MachineShows
    <3>7. PlaceOf(old) # "nowhere"
      BY <2>1 DEF PlaceOf
    <3>8. CASE new.status = "pending"
      BY <3>5, <3>6, <3>7, <3>8 DEF Policy!Revise, Policy!Next
    <3>9. CASE new.status = "not_required"
      <4>1. PlaceOf(old) = "feed" /\ ~Vouched(old, cleared[e])
        BY <2>1, <3>1, <3>9 DEF PlaceOf, Established, EstablishedReviewStatuses,
                                Vouched, Cleared
      <4>2. PlaceOf(new) = "feed"
        BY <3>6, <3>9
      <4>3. QED
        BY <3>5, <3>6, <3>7, <4>1, <4>2 DEF Policy!Revise, Policy!Next
    <3>10. QED
      BY <3>2, <3>8, <3>9
  <2>4. QED
    BY <2>2, <2>3
<1>4. ASSUME NEW e \in Events, NEW h \in Reviewers, PostDecision(h, e)
      PROVE  Policy!Next
  <2>1. rows[e] \in Row /\ rows[e] # NoRow
    BY <1>1, <1>4 DEF PostDecision, IInv, Published
  <2>2. PICK d \in Decisions(rows[e]) : Record(h, e, d)
    BY <1>4 DEF PostDecision
  <2>. DEFINE old == rows[e]
              new == Decided(rows[e], d)
  <2>3. /\ new \in Row /\ new # NoRow /\ new.confidence = old.confidence
        /\ d.kind \in {"approve", "edit", "reject"}
        /\ new.status = IF d.kind = "approve" THEN "approved"
                        ELSE IF d.kind = "edit" THEN "edited" ELSE "rejected"
    BY <2>1, DecidedSound, NoRowAssumption
  <2>4. /\ rows' = [rows EXCEPT ![e] = new]
        /\ cleared' = [cleared EXCEPT
              ![e] = IF d.kind = "reject" THEN "none"
                     ELSE IF screen[h].current THEN "seen" ELSE "blind"]
    BY <2>2 DEF Record
  <2>5. \A f \in Events : f # e => rows'[f] = rows[f] /\ cleared'[f] = cleared[f]
    BY <1>1, <2>4
  <2>6. PlaceOf(old) # "nowhere"
    BY <2>1 DEF PlaceOf
  <2>7. rows'[e] = new /\ Serious(new) \in BOOLEAN
    BY <1>1, <2>4 DEF Serious, FlagMustStay
  <2>8. CASE d.kind = "reject"
    <3>1. PlaceOf(new) = "rejected" /\ ~Vouched(new, cleared'[e])
      BY <2>3, <2>8 DEF PlaceOf, Established, EstablishedReviewStatuses, Cleared,
                        InQueue, Vouched
    <3>2. new.severity = old.severity
      BY <2>1, <2>8 DEF Decisions, Unedited, Decided, StatusAfter, FlagAfter, Row
    <3>3. Serious(new) = Serious(old)
      BY <2>1, <2>3, <3>2 DEF Serious
    <3>4. \A f \in Events : Serious(rows'[f]) = Serious(rows[f])
      BY <2>5, <2>7, <3>3
    <3>5. Vouched(new, cleared'[e]) = FALSE
      BY <3>1 DEF Vouched
    <3>6. Policy!Reject(e)
      BY <2>5, <2>6, <2>7, <3>1, <3>4, <3>5 DEF Policy!Reject
    <3>7. QED
      BY <3>6 DEF Policy!Next
  <2>9. CASE d.kind # "reject"
    <3>1. new.status \in Cleared
      BY <2>3, <2>9 DEF Cleared
    <3>2. cleared'[e] # "none"
      BY <1>1, <2>4, <2>9
    <3>3. PlaceOf(new) = "feed" /\ Vouched(new, cleared'[e]) = TRUE
      BY <2>3, <3>1, <3>2 DEF PlaceOf, Established, EstablishedReviewStatuses, Vouched
    <3>4. Policy!Clear(e)
      BY <2>5, <2>6, <2>7, <3>3 DEF Policy!Clear
    <3>5. QED
      BY <3>4 DEF Policy!Next
  <2>10. QED
    BY <2>8, <2>9
<1>5. CASE UNCHANGED <<rows, cleared>>
  BY <1>5 DEF Policy!vars
<1>6. QED
  BY <1>2, <1>3, <1>4, <1>5 DEF Next, vars, RefuseReport, OpenPage

\* Every step of EventReview is a step of the review policy or invisible to it:
\* the machine alone never puts a serious record in the feed or takes one out of
\* the queue.
THEOREM PolicySafe == Spec => ReviewPolicyHolds
  BY Invariance, PolicyInit, PolicyStep, PTL DEF Spec, ReviewPolicyHolds, Policy!Spec
=============================================================================

------------------------------ MODULE EventReview ------------------------------
(***************************************************************************)
(* The life of event records when every database transaction runs alone:   *)
(* the worker publishes and merges reports, humans open a record's page    *)
(* and post a decision on it.  The page and the post are two requests, and *)
(* anything may happen in between.  ReviewRace adds what overlapping       *)
(* transactions can do.                                                    *)
(***************************************************************************)
EXTENDS EventRecord

CONSTANTS
    Events,      \* records there may be
    Reviewers,   \* people who review
    NoPage       \* a reviewer with no record on screen

VARIABLES
    rows,     \* the events table
    audit,    \* kind of the newest review_decisions row of each event
    screen,   \* the review page each reviewer has open
    cleared,  \* history: how a human cleared what the row now says
    refused   \* history: events a verified report could not be merged into

vars == <<rows, audit, screen, cleared, refused>>

Published == {e \in Events : rows[e] # NoRow}

\* `current`: the record still says what the page shows.
Page == [event : Events, current : BOOLEAN]

ASSUME NoPageAssumption == NoPage \notin Page

\* "seen": decided with this very content on the page, "blind": on an older page.
Clearance == {"none", "seen", "blind"}

TypeOK ==
    /\ rows \in [Events -> Row \cup {NoRow}]
    /\ audit \in [Events -> {"none", "approve", "edit", "reject"}]
    /\ screen \in [Reviewers -> Page \cup {NoPage}]
    /\ cleared \in [Events -> Clearance]
    /\ refused \in SUBSET Events

Init ==
    /\ rows = [e \in Events |-> NoRow]
    /\ audit = [e \in Events |-> "none"]
    /\ screen = [h \in Reviewers |-> NoPage]
    /\ cleared = [e \in Events |-> "none"]
    /\ refused = {}

-----------------------------------------------------------------------------
Shows(h, e) == screen[h] # NoPage /\ screen[h].event = e

\* The pages after the record e went from row `old` to row `new`.
Outdated(e, old, new) ==
    [ h \in Reviewers |->
        IF Shows(h, e) /\ Content(old) # Content(new)
        THEN [screen[h] EXCEPT !.current = FALSE]
        ELSE screen[h] ]

\* process_document: a verified report that matched no cluster with an event.
Publish(e, r) ==
    /\ e \notin Published
    /\ rows' = [rows EXCEPT ![e] = NewRow(r)]
    /\ UNCHANGED <<audit, screen, cleared, refused>>

\* _merge_into_existing: a verified report about an event already published.
MergeReport(e, r) ==
    /\ e \in Published
    /\ MergeAccepted(rows[e], r)
    /\ LET row == Merged(rows[e], r)
       IN  /\ rows' = [rows EXCEPT ![e] = row]
           /\ cleared' = [cleared EXCEPT
                ![e] = IF Content(row) # Content(rows[e]) THEN "none" ELSE @]
           /\ screen' = Outdated(e, rows[e], row)
    /\ UNCHANGED <<audit, refused>>

\* The same call when the early flush breaks a CHECK: the savepoint is rolled
\* back and with it everything the report said.
RefuseReport(e, r) ==
    /\ e \in Published
    /\ ~MergeAccepted(rows[e], r)
    /\ refused' = refused \cup {e}
    /\ UNCHANGED <<rows, audit, screen, cleared>>

\* GET /review/{event_id}: any record can be opened, in the queue or not.
OpenPage(h, e) ==
    /\ e \in Published
    /\ screen' = [screen EXCEPT ![h] = [event |-> e, current |-> TRUE]]
    /\ UNCHANGED <<rows, audit, cleared, refused>>

\* apply_decision and the redisplayed page.
Record(h, e, d) ==
    /\ LET row == Decided(rows[e], d)
       IN  /\ rows' = [rows EXCEPT ![e] = row]
           /\ cleared' = [cleared EXCEPT
                ![e] = IF d.kind = "reject" THEN "none"
                       ELSE IF screen[h].current THEN "seen" ELSE "blind"]
           /\ screen' = [Outdated(e, rows[e], row) EXCEPT
                           ![h] = [event |-> e, current |-> TRUE]]
    /\ audit' = [audit EXCEPT ![e] = d.kind]
    /\ UNCHANGED refused

\* POST /review/{event_id}: whatever the record says and however it stands by now.
PostDecision(h, e) ==
    /\ Shows(h, e)
    /\ \E d \in Decisions(rows[e]) : Record(h, e, d)

Next ==
    \E e \in Events :
        \/ \E r \in Reports :
              Publish(e, r) \/ MergeReport(e, r) \/ RefuseReport(e, r)
        \/ \E h \in Reviewers : OpenPage(h, e) \/ PostDecision(h, e)

Spec == Init /\ [][Next]_vars

-----------------------------------------------------------------------------
(* Safety *)

HasAPlace(row) ==
    /\ row.status \in {"pending", "rejected"} => row.flag
    /\ row.status = "not_required" => ~row.flag

\* The review state of a record always puts it in exactly one place: in the
\* feed, in the queue (api/review.py lists a pending record only while its flag
\* is set), or rejected and in neither, its flag set for as long as it stays so.
EveryRecordHasAPlace == \A e \in Published : HasAPlace(rows[e])

\* No transaction of the program leans on the two CHECK constraints when it ends:
\* what it writes last always satisfies them (the early flush is another matter).
RecordsComply == \A e \in Published : ChecksAccept(rows[e])

\* An approval covers the content it was given for: merging anything new into a
\* record a human cleared takes the clearance away (ADR-0004 D4).
ApprovalCoversContent ==
    \A e \in Published : rows[e].status \in Cleared => cleared[e] # "none"

\* The decision log explains where the record stands: the newest decision is the
\* one the status names, and a record nobody had to review was never decided on.
AuditExplainsStatus ==
    \A e \in Published :
        /\ rows[e].status = "approved" => audit[e] = "approve"
        /\ rows[e].status = "edited" => audit[e] = "edit"
        /\ rows[e].status = "rejected" => audit[e] = "reject"
        /\ rows[e].status = "not_required" => audit[e] = "none"

NoConfidenceRise ==
    \A e \in Published : rows'[e].confidence <= rows[e].confidence

\* Evidence can lower a record's confidence, never raise it, whoever acts.
ConfidenceNeverRises == [][NoConfidenceRise]_vars

\* The inductive invariant behind the theorems: the invariants above, and that
\* nothing is on screen or in the decision log before it is published.
IInv ==
    /\ TypeOK
    /\ EveryRecordHasAPlace
    /\ RecordsComply
    /\ ApprovalCoversContent
    /\ AuditExplainsStatus
    /\ \A e \in Events \ Published : audit[e] = "none"
    /\ \A h \in Reviewers, e \in Events : Shows(h, e) => e \in Published

-----------------------------------------------------------------------------
(* Refinement of the review policy *)

PlaceOf(row) ==
    IF row = NoRow THEN "nowhere"
    ELSE IF Established(row) THEN "feed"
    ELSE IF InQueue(row) THEN "queue"
    ELSE IF row.status = "rejected" THEN "rejected"
    ELSE "lost"

Vouched(row, clearance) ==
    row # NoRow /\ row.status \in Cleared /\ clearance # "none"

Serious(row) == row # NoRow /\ FlagMustStay(row.severity, row.confidence)

Policy == INSTANCE ReviewPolicy
            WITH place <- [e \in Events |-> PlaceOf(rows[e])],
                 vouched <- [e \in Events |-> Vouched(rows[e], cleared[e])],
                 serious <- [e \in Events |-> Serious(rows[e])]

\* Where records are shown, who vouches for them and which of them are serious
\* changes only as the review policy allows.
ReviewPolicyHolds == Policy!Spec

-----------------------------------------------------------------------------
(* What the documents say and the code does not do *)

\* A verified report about a published event is never lost to a CHECK constraint.
NoReportRefused == refused = {}

\* What a human cleared is what that human had on the page.
ApprovalsAreSeen == \A e \in Events : cleared[e] # "blind"

\* A rejected record never becomes established, however it is edited afterward.
RejectionIsFinal ==
    [][ \A e \in Published :
          rows[e].status = "rejected" => ~Established(rows'[e]) ]_vars
=============================================================================

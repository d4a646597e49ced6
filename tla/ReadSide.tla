------------------------------- MODULE ReadSide -------------------------------
(***************************************************************************)
(* What readers are shown: the feed, search, the location counts and the   *)
(* daily briefing, over the records of EventReview. To the records this    *)
(* module adds the columns only readers use: when a record was first seen  *)
(* and last updated, and which names its verified quotes mention.          *)
(*                                                                         *)
(* A report carries its own date, which is a publisher's word: it may be   *)
(* older than the report merged before it, or lie in the future.           *)
(* Each view is one snapshot; order and paging within a view are left out. *)
(***************************************************************************)
EXTENDS EventReview, FiniteSets

CONSTANT LastDay   \* bound: days 1 .. LastDay

ASSUME LastDayAssumption == LastDay \in Nat \ {0}
ASSUME EventsAssumption == IsFiniteSet(Events)

VARIABLES
    today,
    firstSeen,    \* first_seen_at of each record, 0 before it is published
    lastUpdated,  \* its last_updated_at
    evidence,     \* for each verified quote stored for it, the names in that quote
    named,        \* history: the places and actors its first report gave it
    newest,       \* history: the newest day on which something was said or decided of it
    foretold      \* history: records a report dated after its own arrival was about

columns == <<firstSeen, lastUpdated, evidence>>
readVars == <<vars, columns, today, named, newest, foretold>>

Days == 1 .. LastDay

\* The columns' types; a record has its dates and a quote from the moment it exists,
\* so excluded_no_verified_evidence (briefing.py) is 0, as its comment says it should.
ReadTypeOK ==
    /\ today \in Days
    /\ firstSeen \in [Events -> 0 .. LastDay]
    /\ lastUpdated \in [Events -> 0 .. LastDay]
    /\ evidence \in [Events -> SUBSET SUBSET (Places \cup Actors)]
    /\ named \in [Events -> SUBSET (Places \cup Actors)]
    /\ newest \in [Events -> 0 .. LastDay]
    /\ foretold \in SUBSET Events
    /\ \A e \in Events : e \in Published <=> firstSeen[e] # 0
    /\ \A e \in Events : e \in Published <=> evidence[e] # {}

ReadInit ==
    /\ Init
    /\ today = 1
    /\ firstSeen = [e \in Events |-> 0]
    /\ lastUpdated = [e \in Events |-> 0]
    /\ evidence = [e \in Events |-> {}]
    /\ named = [e \in Events |-> {}]
    /\ newest = [e \in Events |-> 0]
    /\ foretold = {}

-----------------------------------------------------------------------------
\* Mutant: the report that came last sets the date.
AdvancedToNewest(old, d) == d

Advanced(old, d) == IF old < d THEN d ELSE old

Touch(e, d) ==
    /\ newest' = IF d > newest[e] THEN [newest EXCEPT ![e] = d] ELSE newest
    /\ foretold' = IF d > today THEN foretold \cup {e} ELSE foretold

\* _attach_evidence
Attach(e, r) == evidence' = [evidence EXCEPT ![e] = @ \cup {r.mentioned}]

ReadPublish(e, r, d) ==
    /\ Publish(e, r)
    /\ firstSeen' = [firstSeen EXCEPT ![e] = d]
    /\ lastUpdated' = [lastUpdated EXCEPT ![e] = d]
    /\ named' = [named EXCEPT ![e] = r.places \cup r.actors]
    /\ Attach(e, r) /\ Touch(e, d)
    /\ UNCHANGED today

\* A duplicate corroborates: it leaves the row alone, its date and quotes are kept.
ReadMerge(e, r, d) ==
    /\ MergeReport(e, r)
    /\ lastUpdated' = [lastUpdated EXCEPT ![e] = Advanced(@, d)]
    /\ Attach(e, r) /\ Touch(e, d)
    /\ UNCHANGED <<today, firstSeen, named>>

ReadDecision(h, e) ==
    /\ PostDecision(h, e)
    /\ lastUpdated' = [lastUpdated EXCEPT ![e] = today]
    /\ Touch(e, today)
    /\ UNCHANGED <<today, firstSeen, evidence, named>>

\* What leaves every column a reader sees as it is.
Unread ==
    /\ \E e \in Events :
          \/ \E r \in Reports : RefuseReport(e, r)
          \/ \E h \in Reviewers : OpenPage(h, e)
    /\ UNCHANGED <<columns, today, named, newest, foretold>>

Midnight ==
    /\ today < LastDay
    /\ today' = today + 1
    /\ UNCHANGED <<vars, columns, named, newest, foretold>>

ReadNext ==
    \/ \E e \in Events :
          \/ \E r \in Reports, d \in Days : ReadPublish(e, r, d) \/ ReadMerge(e, r, d)
          \/ \E h \in Reviewers : ReadDecision(h, e)
    \/ Unread
    \/ Midnight

ReadSpec == ReadInit /\ [][ReadNext]_readVars

-----------------------------------------------------------------------------
(* The views *)

\* list_events; `all` is include_pending_review.
Feed(all) == {e \in Published : all \/ Established(rows[e])}

\* _evidence_out and build_event_detail: what stands on a record's own page, which
\* is served whatever the record's status.
Shown(e) == evidence[e]
Detail(e) == [names |-> rows[e].places \cup rows[e].actors, quotes |-> Shown(e)]

\* search_events: a title, or a name some quote contains.
Hits(q, all) ==
    {e \in Feed(all) : q = rows[e].title \/ \E quote \in evidence[e] : q \in quote}

\* location_summary: the records counted under a place.
Counted(p, all) ==
    {e \in Published :
        /\ p \in rows[e].places
        /\ rows[e].status # "rejected"
        /\ all \/ Established(rows[e])}

\* pending_queue
Queue == {e \in Published : InQueue(rows[e])}

\* feed_page: the established records and the number of those that wait.
FeedPage == [items |-> Feed(FALSE), pending_total |-> Cardinality(Queue)]

\* The records build_briefing considers for a day.
Candidates(day) ==
    {e \in Published : /\ day \in {firstSeen[e], lastUpdated[e]}
                       /\ rows[e].status # "rejected"}

Withheld(day) == {e \in Candidates(day) : ~Established(rows[e])}

\* Mutant: the briefing goes by the flag, as it did before decisions counted.
BriefedByFlag(day) ==
    {e \in Candidates(day) : ~rows[e].flag /\ evidence[e] # {}}

Briefed(day) ==
    {e \in Candidates(day) : Established(rows[e]) /\ evidence[e] # {}}

\* is_human_approved_despite_flag: the mark every view puts on such a record.
HumanApproved(e) == rows[e].flag /\ rows[e].status \in Cleared

-----------------------------------------------------------------------------
(* Properties *)

\* The briefing of the newest day on which something was said or decided of a
\* record shows it or counts it as withheld, in whatever order old and new reports
\* and decisions came; only a report dated ahead of its arrival can break that,
\* for a decision then moves last_updated_at back (review.py, pipeline.py).
BriefingsMissNothing ==
    \A e \in Published :
        rows[e].status # "rejected" /\ e \notin foretold =>
            e \in Briefed(newest[e]) \cup Withheld(newest[e])

\* Whatever was merged, every place and organisation shown was there from the first
\* report or stands in a verified quote the reader can open.
NamesAreSupported ==
    \A e \in Published :
        Detail(e).names \subseteq named[e] \cup UNION Detail(e).quotes

\* The records of S a day touched, and those at a place.
OnDay(S, day) == {e \in S : day \in {firstSeen[e], lastUpdated[e]}}
AtPlace(S, p) == {e \in S : p \in rows[e].places}

\* The views decide by themselves what is established -- by status, by status and
\* place, in SQL and in Python -- and still tell one story of the records that were not
\* rejected: a briefing is the part of the feed its day touched and counts as withheld
\* just those of that day that await somebody in the review queue; a place's count is
\* that of the feed, or of feed and queue; a search for a name some merge brought finds
\* the record; the feed page lists or counts every record once; and a serious record in
\* the feed bears the mark that says a human let it pass. A rejected record is not counted
\* as withheld, as briefing.py:84-86 and test_briefing.py:174 say; the docstring at
\* briefing.py:17-18 has it "withheld, but *counted*".
ViewsAgree ==
    /\ \A day \in Days :
          /\ Briefed(day) = OnDay(Feed(FALSE), day)
          /\ Withheld(day) = OnDay(Queue, day)
    /\ \A p \in Places :
          /\ Counted(p, FALSE) = AtPlace(Feed(FALSE), p)
          /\ Counted(p, TRUE) = AtPlace(Feed(FALSE) \cup Queue, p)
    /\ \A e \in Feed(FALSE) : \A q \in Detail(e).names \ named[e] : e \in Hits(q, FALSE)
    /\ Cardinality(FeedPage.items) + FeedPage.pending_total
         = Cardinality({e \in Published : rows[e].status # "rejected"})
    /\ \A e \in Feed(FALSE) :
          FlagMustStay(rows[e].severity, rows[e].confidence) => HumanApproved(e)
=============================================================================

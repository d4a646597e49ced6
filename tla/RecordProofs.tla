------------------------------ MODULE RecordProofs ------------------------------
(***************************************************************************)
(* The two modules that build on EventReview, for any number of workers,   *)
(* reviewers, readers' days, events and reports: sessions that overlap     *)
(* (ReviewRace) and what readers are shown (ReadSide). Neither uses a fact *)
(* about the other; both use the lemmas on rows of EventReviewProofs.      *)
(***************************************************************************)
EXTENDS ReviewRace, ReadSide, EventReviewProofs, FiniteSetTheorems

-----------------------------------------------------------------------------
(* Sessions that overlap                                                    *)
(* The argument rests on who may be in flight with whom: merges into one    *)
(* event never overlap, so the row a merge read still has its confidence;   *)
(* outside `mixed' a merge and a decision never overlap either, so it still *)
(* is the row the merge read.                                               *)

Merging(w, e) == merging[w] # NoTx /\ merging[w].event = e
Posting(h, e) == posting[h] # NoTx /\ posting[h].event = e

\* What an open session knows of its event.
SessionsSound ==
    /\ \A w \in Workers, e \in Events : Merging(w, e) =>
          e \in Published /\ rows[e].confidence = merging[w].read.confidence
    /\ \A v, w \in Workers, e \in Events : Merging(v, e) /\ Merging(w, e) => v = w
    /\ \A h \in Reviewers, e \in Events : Posting(h, e) =>
          /\ e \in Published /\ Shows(h, e)
          /\ posting[h].decision \in Decisions(posting[h].read)

PagesSound == \A h \in Reviewers, e \in Events : Shows(h, e) => e \in Published

\* Outside `mixed', a merge works on the row as it is, and only a merge ever
\* makes a record pending.
UnmixedSound ==
    \A e \in Events \ mixed :
        /\ \A w \in Workers : Merging(w, e) => rows[e] = merging[w].read /\ ~PostingOn(e)
        /\ \A h \in Reviewers : Posting(h, e) /\ rows[e].status = "pending"
                                  => posting[h].read.status = "pending"

\* Sessions that take turns: nothing is mixed, and a decision works on the row as
\* it is and alone.
SerialSound ==
    serial =>
        /\ mixed = {}
        /\ \A h \in Reviewers, e \in Events : Posting(h, e) => rows[e] = posting[h].read
        /\ \A g, h \in Reviewers, e \in Events : Posting(g, e) /\ Posting(h, e) => g = h

RaceInv ==
    /\ RaceTypeOK
    /\ RecordsComply
    /\ SessionsSound
    /\ PagesSound
    /\ UnmixedSound
    /\ SerialSound
    /\ OnlyMixedSessionsMisplace

-----------------------------------------------------------------------------
(* Writing back *)

LEMMA WriteBackType ==
    ASSUME NEW read \in Row, NEW new \in Row, NEW now \in Row
    PROVE  WriteBack(read, new, now) \in Row
  BY DEF WriteBack, Row

\* A session that still finds the row it read writes what it computed.
LEMMA WriteBackAlone ==
    ASSUME NEW read \in Row, NEW new \in Row,
           read.places \subseteq new.places, read.actors \subseteq new.actors,
           read.sectors \subseteq new.sectors
    PROVE  WriteBack(read, new, read) = new
  <1>1. /\ read.places \cup (new.places \ read.places) = new.places
        /\ read.actors \cup (new.actors \ read.actors) = new.actors
        /\ read.sectors \cup (new.sectors \ read.sectors) = new.sectors
    OBVIOUS
  <1>2. WriteBack(read, new, read)
          = [ severity |-> new.severity, core |-> new.core,
              title |-> new.title, confidence |-> new.confidence,
              places |-> new.places, actors |-> new.actors, sectors |-> new.sectors,
              flag |-> new.flag, status |-> new.status ]
    BY <1>1 DEF WriteBack
  <1> QED
    BY <1>2 DEF Row

LEMMA MergedType ==
    ASSUME NEW row \in Row, NEW r \in Report
    PROVE  /\ Merged(row, r) \in Row
           /\ FlushedEarly(row, r) \in Row
           /\ Merged(row, r).confidence <= row.confidence
           /\ row.places \subseteq Merged(row, r).places
           /\ row.actors \subseteq Merged(row, r).actors
           /\ row.sectors \subseteq Merged(row, r).sectors
           /\ Merged(row, r).status = "pending" /\ ~Merged(row, r).flag
                => row.status = "pending" /\ ~row.flag
           /\ ChecksAccept(row) => ChecksAccept(Merged(row, r))
  <1> DEFINE new == Merged(row, r)
  <1>1. /\ row.severity \in Levels /\ r.severity \in Levels /\ row.confidence \in Confidences
        /\ row.places \in SUBSET Places /\ r.places \in SUBSET Places
        /\ row.actors \in SUBSET Actors /\ r.actors \in SUBSET Actors
        /\ row.sectors \in SUBSET Sectors /\ r.sectors \in SUBSET Sectors
        /\ row.flag \in BOOLEAN /\ row.status \in ReviewStatuses
    BY DEF Row, Report
  <1>2. ConfidenceAfter(row, r) \in Confidences /\ ConfidenceAfter(row, r) <= row.confidence
    BY ConfidenceAfterLower
  <1>3. SeverityAfter(row, r) \in Levels
    BY <1>1 DEF SeverityAfter
  <1>4. FlushedEarly(row, r) \in Row
    BY <1>3 DEF FlushedEarly, Row
  <1>5. CASE ~IsUpdate(row, r)
    <2>1. new = row
      BY <1>5 DEF Merged
    <2>2. row.confidence <= row.confidence
      BY <1>1 DEF Confidences
    <2> QED
      BY <1>4, <2>1, <2>2
  <1>6. CASE IsUpdate(row, r)
    <2> DEFINE hold == ReviewAfter(row, r)
    <2>1. /\ NewPlaces(row, r) \subseteq Places /\ NewActors(row, r) \subseteq Actors
          /\ NewSectors(row, r) \subseteq Sectors
      BY <1>1 DEF NewPlaces, NewActors, NewSectors
    <2>2. hold \in BOOLEAN
      BY DEF ReviewAfter, Disputes, FlagMustStay, InQueue
    <2>3. new = [ row EXCEPT !.severity = SeverityAfter(row, r),
                      !.confidence = ConfidenceAfter(row, r),
                      !.places = @ \cup NewPlaces(row, r),
                      !.actors = @ \cup NewActors(row, r),
                      !.sectors = @ \cup NewSectors(row, r),
                      !.flag = hold,
                      !.status = IF hold THEN "pending" ELSE @ ]
      BY <1>6 DEF Merged
    <2> HIDE DEF hold, new
    <2>4. /\ new.severity = SeverityAfter(row, r) /\ new.confidence = ConfidenceAfter(row, r)
          /\ new.places = row.places \cup NewPlaces(row, r)
          /\ new.actors = row.actors \cup NewActors(row, r)
          /\ new.sectors = row.sectors \cup NewSectors(row, r)
          /\ new.flag = hold
          /\ new.status = IF hold THEN "pending" ELSE row.status
      BY <2>3 DEF Row
    <2>5. new \in Row
      BY <1>1, <1>2, <1>3, <2>1, <2>2, <2>3 DEF Row, ReviewStatuses
    <2>6. new.status = "pending" /\ ~new.flag => row.status = "pending" /\ ~row.flag
      BY <1>1, <2>2, <2>4 DEF hold, ReviewAfter, InQueue
    <2>7. ChecksAccept(new)
      BY <2>2, <2>4 DEF hold, ReviewAfter, ChecksAccept
    <2> QED
      BY <1>2, <1>4, <2>4, <2>5, <2>6, <2>7 DEF new
  <1> QED
    BY <1>5, <1>6

LEMMA DecidedType ==
    ASSUME NEW row \in Row, NEW d \in Decisions(row)
    PROVE  /\ d.kind \in {"approve", "edit", "reject"}
           /\ Decided(row, d) \in Row
           /\ Decided(row, d).confidence = row.confidence
           /\ Decided(row, d).places = row.places
           /\ Decided(row, d).actors = row.actors
           /\ Decided(row, d).sectors = row.sectors
           /\ Decided(row, d).status # "pending"
           /\ ChecksAccept(Decided(row, d))
  <1>1. d.kind \in {"approve", "edit", "reject"} /\ d.edit \in Edit
    BY DEF Decisions, Unedited, Edit, Row
  <1>2. StatusAfter(d.kind) \in ReviewStatuses /\ StatusAfter(d.kind) # "pending"
    BY <1>1 DEF StatusAfter, ReviewStatuses, EstablishedReviewStatuses, Cleared
  <1>3. FlagAfter(row, d) \in BOOLEAN
    BY DEF FlagAfter, FlagMustStay
  <1>4. Decided(row, d) \in Row
    BY <1>1, <1>2, <1>3 DEF Decided, Row, Edit
  <1>5. /\ Decided(row, d).confidence = row.confidence
        /\ Decided(row, d).places = row.places
        /\ Decided(row, d).actors = row.actors
        /\ Decided(row, d).sectors = row.sectors
        /\ Decided(row, d).status = StatusAfter(d.kind)
        /\ Decided(row, d).severity = d.edit.severity
        /\ Decided(row, d).flag = FlagAfter(row, d)
    BY DEF Decided, Row
  <1>6. ChecksAccept(Decided(row, d))
    BY <1>5 DEF ChecksAccept, FlagAfter
  <1> QED
    BY <1>1, <1>2, <1>4, <1>5, <1>6

LEMMA LostRow ==
    ASSUME NEW row \in Row
    PROVE  row # NoRow /\ (PlaceOf(row) = "lost" <=> row.status = "pending" /\ ~row.flag)
  <1>1. row # NoRow
    BY NoRowAssumption
  <1>2. row.status \in ReviewStatuses /\ row.flag \in BOOLEAN
    BY DEF Row
  <1> QED
    BY <1>1, <1>2
    DEF PlaceOf, Established, InQueue, ReviewStatuses, EstablishedReviewStatuses, Cleared

-----------------------------------------------------------------------------
(* Steps *)

LEMMA RaceInitially == RaceInit => RaceInv
  <1> SUFFICES ASSUME RaceInit PROVE RaceInv
    OBVIOUS
  <1>1. Published = {} /\ \A h \in Reviewers, e \in Events : ~Shows(h, e)
    BY DEF RaceInit, Init, Published, Shows
  <1>2. \A e \in Events : (\A w \in Workers : ~Merging(w, e)) /\ (\A h \in Reviewers : ~Posting(h, e))
    BY DEF RaceInit, Merging, Posting
  <1>3. RaceTypeOK
    BY InitInv DEF RaceInit, RaceTypeOK, IInv
  <1>4. RecordsComply /\ OnlyMixedSessionsMisplace
    BY <1>1 DEF RecordsComply, OnlyMixedSessionsMisplace
  <1>5. SessionsSound /\ PagesSound /\ UnmixedSound /\ SerialSound
    BY <1>1, <1>2 DEF RaceInit, SessionsSound, PagesSound, UnmixedSound, SerialSound
  <1> QED
    BY <1>3, <1>4, <1>5 DEF RaceInv

LEMMA PublishSafe ==
    ASSUME RaceInv, NEW e \in Events, NEW r \in Reports, RacePublish(e, r)
    PROVE  RaceInv'
  <1>1. /\ rows' = [rows EXCEPT ![e] = NewRow(r)] /\ rows[e] = NoRow
        /\ audit' = audit /\ screen' = screen /\ cleared' = cleared /\ refused' = refused
        /\ merging' = merging /\ posting' = posting /\ serial' = serial /\ mixed' = mixed
    BY DEF RacePublish, Publish, sessions, Published
  <1>2. /\ NewRow(r) \in Row /\ HasAPlace(NewRow(r)) /\ ChecksAccept(NewRow(r))
        /\ NewRow(r).status \in {"pending", "not_required"}
    BY NewRowSound, ReportsAssumption
  <1>3. /\ rows \in [Events -> Row \cup {NoRow}]
        /\ rows' \in [Events -> Row \cup {NoRow}] /\ rows'[e] = NewRow(r)
        /\ \A f \in Events : f # e => rows'[f] = rows[f]
    BY <1>1, <1>2 DEF RaceInv, RaceTypeOK, TypeOK
  <1>4. /\ \A f \in Events : f # e => (f \in Published' <=> f \in Published)
        /\ Published' \subseteq Events
    BY <1>3 DEF Published
  <1>5. \A f \in Events : (\A w \in Workers : Merging(w, f)' <=> Merging(w, f))
                          /\ (\A h \in Reviewers : (Posting(h, f)' <=> Posting(h, f))
                                                   /\ (Shows(h, f)' <=> Shows(h, f)))
                          /\ (PostingOn(f)' <=> PostingOn(f))
    BY <1>1 DEF Merging, Posting, PostingOn, Shows
  <1>6. /\ \A w \in Workers : ~Merging(w, e)
        /\ \A h \in Reviewers : ~Posting(h, e)
    BY <1>1 DEF RaceInv, SessionsSound, Published
  <1>7. RaceTypeOK'
    BY <1>1, <1>3 DEF RaceInv, RaceTypeOK, TypeOK
  <1>8. RecordsComply'
    <2>1. ASSUME NEW f \in Published' PROVE ChecksAccept(rows'[f])
      <3>1. CASE f = e
        BY <1>2, <1>3, <3>1
      <3>2. CASE f # e
        <4>1. f \in Published /\ rows'[f] = rows[f]
          BY <1>3, <1>4, <2>1, <3>2
        <4>2. ChecksAccept(rows[f])
          BY <4>1 DEF RaceInv, RecordsComply
        <4> QED
          BY <4>1, <4>2
      <3> QED
        BY <3>1, <3>2
    <2> QED
      BY <2>1 DEF RecordsComply
  <1>9. SessionsSound'
    <2>1. ASSUME NEW w \in Workers, NEW f \in Events, Merging(w, f)'
          PROVE  f \in Published' /\ rows'[f].confidence = merging'[w].read.confidence
      <3>1. Merging(w, f) /\ f # e
        BY <1>5, <1>6, <2>1
      <3> QED
        BY <1>1, <1>3, <1>4, <3>1 DEF RaceInv, SessionsSound
    <2>2. \A v, w \in Workers, f \in Events : Merging(v, f)' /\ Merging(w, f)' => v = w
      BY <1>5 DEF RaceInv, SessionsSound
    <2>3. ASSUME NEW h \in Reviewers, NEW f \in Events, Posting(h, f)'
          PROVE  /\ f \in Published' /\ Shows(h, f)'
                 /\ posting'[h].decision \in Decisions(posting'[h].read)
      <3>1. Posting(h, f) /\ f # e
        BY <1>5, <1>6, <2>3
      <3> QED
        BY <1>1, <1>4, <1>5, <3>1 DEF RaceInv, SessionsSound
    <2> QED
      BY <2>1, <2>2, <2>3 DEF SessionsSound
  <1>13. PagesSound'
    <2>1. ASSUME NEW h \in Reviewers, NEW f \in Events, Shows(h, f)' PROVE f \in Published'
      <3>1. Shows(h, f)
        BY <1>1, <2>1 DEF Shows
      <3>2. f \in Published
        BY <3>1 DEF RaceInv, PagesSound
      <3>3. f # e
        BY <1>1, <3>2 DEF Published
      <3> QED
        BY <1>4, <3>2, <3>3
    <2> QED
      BY <2>1 DEF PagesSound
  <1>10. UnmixedSound'
    BY <1>1, <1>3, <1>5, <1>6 DEF RaceInv, UnmixedSound
  <1>11. SerialSound'
    BY <1>1, <1>3, <1>5, <1>6 DEF RaceInv, SerialSound
  <1>12. OnlyMixedSessionsMisplace'
    <2>1. PlaceOf(rows'[e]) # "lost"
      BY <1>2, <1>3, LostRow DEF HasAPlace
    <2> QED
      BY <1>1, <1>3, <1>4, <2>1 DEF RaceInv, OnlyMixedSessionsMisplace
  <1> QED
    BY <1>7, <1>8, <1>9, <1>10, <1>11, <1>12, <1>13 DEF RaceInv

\* What opens a page or a session leaves the table as it is.
LEMMA TableRests ==
    ASSUME RaceInv, rows' = rows, mixed \subseteq mixed'
    PROVE  /\ Published' = Published
           /\ RecordsComply' /\ OnlyMixedSessionsMisplace'
  <1>1. Published' = Published
    BY DEF Published
  <1> QED
    BY <1>1 DEF RaceInv, RecordsComply, OnlyMixedSessionsMisplace

LEMMA OpenPageSafe ==
    ASSUME RaceInv, NEW h \in Reviewers, NEW e \in Events, RaceOpenPage(h, e)
    PROVE  RaceInv'
  <1>1. /\ rows' = rows /\ audit' = audit /\ cleared' = cleared /\ refused' = refused
        /\ screen' = [screen EXCEPT ![h] = [event |-> e, current |-> TRUE]]
        /\ merging' = merging /\ posting' = posting /\ serial' = serial /\ mixed' = mixed
        /\ posting[h] = NoTx
    BY DEF RaceOpenPage, OpenPage, sessions
  <1>2. Published' = Published /\ RecordsComply' /\ OnlyMixedSessionsMisplace'
    BY <1>1, TableRests
  <1>3. screen \in [Reviewers -> Page \cup {NoPage}]
    BY DEF RaceInv, RaceTypeOK, TypeOK
  <1>4. RaceTypeOK'
    <2>1. [event |-> e, current |-> TRUE] \in Page
      BY DEF Page
    <2> QED
      BY <1>1, <1>3, <2>1 DEF RaceInv, RaceTypeOK, TypeOK
  <1>5. \A g \in Reviewers, f \in Events : Posting(g, f) => g # h /\ (Shows(g, f)' <=> Shows(g, f))
    BY <1>1, <1>3 DEF Posting, Shows
  <1>6. SessionsSound'
    BY <1>1, <1>2, <1>5 DEF RaceInv, SessionsSound, Merging, Posting
  <1>8. PagesSound'
    <2>1. e \in Published
      BY DEF RaceOpenPage, OpenPage
    <2> QED
      BY <1>1, <1>2, <1>3, <2>1 DEF RaceInv, PagesSound, Shows
  <1>7. UnmixedSound' /\ SerialSound'
    BY <1>1 DEF RaceInv, UnmixedSound, SerialSound, Merging, Posting, PostingOn
  <1> QED
    BY <1>2, <1>4, <1>6, <1>7, <1>8 DEF RaceInv

LEMMA BeginMergeSafe ==
    ASSUME RaceInv, NEW w \in Workers, NEW e \in Events, NEW r \in Reports, BeginMerge(w, e, r)
    PROVE  RaceInv'
  <1> DEFINE tx == [event |-> e, report |-> r, read |-> rows[e]]
  <1>1. /\ rows' = rows /\ audit' = audit /\ cleared' = cleared /\ refused' = refused
        /\ screen' = screen /\ posting' = posting /\ serial' = serial
        /\ merging' = [merging EXCEPT ![w] = tx]
        /\ mixed' = IF PostingOn(e) THEN mixed \cup {e} ELSE mixed
        /\ e \in Published /\ ~MergingInto(e) /\ (serial => ~PostingOn(e))
    BY DEF BeginMerge, vars
  <1>2. /\ merging \in [Workers -> MergeTx \cup {NoTx}]
        /\ rows \in [Events -> Row \cup {NoRow}] /\ rows[e] \in Row
    BY <1>1 DEF RaceInv, RaceTypeOK, TypeOK, Published
  <1>3. tx \in MergeTx
    BY <1>2 DEF MergeTx
  <1>4. Published' = Published /\ RecordsComply' /\ OnlyMixedSessionsMisplace'
    BY <1>1, TableRests
  <1>5. RaceTypeOK'
    BY <1>1, <1>2, <1>3 DEF RaceInv, RaceTypeOK, TypeOK
  <1>6. /\ \A v \in Workers : v # w => merging'[v] = merging[v]
        /\ merging'[w] = tx
    BY <1>1, <1>2
  <1>7. \A v \in Workers, f \in Events :
           Merging(v, f)' => IF v = w THEN f = e ELSE Merging(v, f) /\ f # e
    BY <1>1, <1>6 DEF Merging, MergingInto
  <1>8. \A h \in Reviewers, f \in Events :
           (Posting(h, f)' <=> Posting(h, f)) /\ (Shows(h, f)' <=> Shows(h, f))
           /\ (PostingOn(f)' <=> PostingOn(f))
    BY <1>1 DEF Posting, PostingOn, Shows
  <1>9. SessionsSound'
    <2>1. ASSUME NEW v \in Workers, NEW f \in Events, Merging(v, f)'
          PROVE  f \in Published /\ rows[f].confidence = merging'[v].read.confidence
      BY <1>1, <1>6, <1>7, <2>1 DEF RaceInv, SessionsSound
    <2>2. \A u, v \in Workers, f \in Events : Merging(u, f)' /\ Merging(v, f)' => u = v
      BY <1>7 DEF RaceInv, SessionsSound
    <2>3. \A h \in Reviewers, f \in Events : Posting(h, f)' =>
            f \in Published /\ Shows(h, f)' /\ posting'[h].decision \in Decisions(posting'[h].read)
      BY <1>1, <1>8 DEF RaceInv, SessionsSound
    <2> QED
      BY <1>1, <1>4, <2>1, <2>2, <2>3 DEF SessionsSound
  <1>10. UnmixedSound'
    <2>1. ASSUME NEW f \in Events \ mixed', NEW v \in Workers, Merging(v, f)'
          PROVE  rows[f] = merging'[v].read /\ ~(PostingOn(f)')
      <3>1. f \in Events \ mixed
        BY <1>1, <2>1
      <3>2. CASE v = w
        <4>1. f = e /\ merging'[v].read = rows[e]
          BY <1>6, <1>7, <2>1, <3>2
        <4>2. ~PostingOn(e)
          BY <1>1, <2>1, <4>1
        <4>3. PostingOn(e)' <=> PostingOn(e)
          BY <1>1 DEF PostingOn
        <4> QED
          BY <4>1, <4>2, <4>3
      <3>3. CASE v # w
        <4>1. PostingOn(f)' <=> PostingOn(f)
          BY <1>1 DEF PostingOn
        <4> QED
          BY <1>6, <1>7, <2>1, <3>1, <3>3, <4>1 DEF RaceInv, UnmixedSound
      <3> QED
        BY <3>2, <3>3
    <2>2. ASSUME NEW f \in Events \ mixed', NEW h \in Reviewers,
                 Posting(h, f)', rows[f].status = "pending"
          PROVE  posting'[h].read.status = "pending"
      BY <1>1, <1>8, <2>2 DEF RaceInv, UnmixedSound
    <2> QED
      BY <1>1, <2>1, <2>2 DEF UnmixedSound
  <1>11. SerialSound'
    BY <1>1, <1>8 DEF RaceInv, SerialSound
  <1>12. PagesSound'
    BY <1>1, <1>4 DEF RaceInv, PagesSound, Shows
  <1> QED
    BY <1>4, <1>5, <1>9, <1>10, <1>11, <1>12 DEF RaceInv

LEMMA BeginDecisionSafe ==
    ASSUME RaceInv, NEW h \in Reviewers, NEW e \in Events, BeginDecision(h, e)
    PROVE  RaceInv'
  <1>1. PICK d \in Decisions(rows[e]) :
           posting' = [posting EXCEPT ![h] = [event |-> e, decision |-> d, read |-> rows[e]]]
    BY DEF BeginDecision
  <1> DEFINE tx == [event |-> e, decision |-> d, read |-> rows[e]]
  <1>2. /\ rows' = rows /\ audit' = audit /\ cleared' = cleared /\ refused' = refused
        /\ screen' = screen /\ merging' = merging /\ serial' = serial
        /\ posting[h] = NoTx /\ Shows(h, e)
        /\ mixed' = IF MergingInto(e) THEN mixed \cup {e} ELSE mixed
        /\ (serial => ~MergingInto(e) /\ ~PostingOn(e))
    BY DEF BeginDecision, vars
  <1>3. /\ posting \in [Reviewers -> PostTx \cup {NoTx}]
        /\ rows \in [Events -> Row \cup {NoRow}]
    BY DEF RaceInv, RaceTypeOK, TypeOK
  <1>4. e \in Published
    BY <1>2 DEF RaceInv, PagesSound
  <1>5. tx \in PostTx
    <2>1. d.kind \in {"approve", "edit", "reject"} /\ d.edit \in Edit /\ rows[e] \in Row
      BY <1>3, <1>4, DecidedType DEF Published, Decisions, Unedited, Edit, Row
    <2>2. d \in [kind : {"approve", "edit", "reject"}, edit : Edit]
      BY <2>1 DEF Decisions
    <2> QED
      BY <2>1, <2>2 DEF PostTx
  <1>6. Published' = Published /\ RecordsComply' /\ OnlyMixedSessionsMisplace'
    BY <1>2, TableRests
  <1>7. RaceTypeOK'
    BY <1>1, <1>2, <1>3, <1>5 DEF RaceInv, RaceTypeOK, TypeOK
  <1>8. /\ \A g \in Reviewers : g # h => posting'[g] = posting[g]
        /\ posting'[h] = tx
    BY <1>1, <1>3
  <1>9. /\ \A g \in Reviewers, f \in Events :
              Posting(g, f)' => IF g = h THEN f = e ELSE Posting(g, f)
        /\ \A v \in Workers, f \in Events : Merging(v, f)' <=> Merging(v, f)
        /\ \A f \in Events : PostingOn(f)' => PostingOn(f) \/ f = e
    BY <1>2, <1>8 DEF Posting, Merging, PostingOn
  <1>10. SessionsSound'
    <2>1. ASSUME NEW g \in Reviewers, NEW f \in Events, Posting(g, f)'
          PROVE  /\ f \in Published /\ Shows(g, f)'
                 /\ posting'[g].decision \in Decisions(posting'[g].read)
      <3>1. Shows(g, f)' <=> Shows(g, f)
        BY <1>2 DEF Shows
      <3> QED
        BY <1>2, <1>4, <1>8, <1>9, <2>1, <3>1 DEF RaceInv, SessionsSound
    <2> QED
      BY <1>2, <1>6, <1>9, <2>1 DEF RaceInv, SessionsSound
  <1>11. PagesSound'
    BY <1>2, <1>6 DEF RaceInv, PagesSound, Shows
  <1>12. UnmixedSound'
    <2>1. ASSUME NEW f \in Events \ mixed', NEW v \in Workers, Merging(v, f)'
          PROVE  rows[f] = merging[v].read /\ ~(PostingOn(f)')
      <3>1. f \in Events \ mixed /\ Merging(v, f)
        BY <1>2, <1>9, <2>1
      <3>2. f # e
        BY <1>2, <2>1, <3>1 DEF Merging, MergingInto
      <3> QED
        BY <1>9, <3>1, <3>2 DEF RaceInv, UnmixedSound
    <2>2. ASSUME NEW f \in Events \ mixed', NEW g \in Reviewers,
                 Posting(g, f)', rows[f].status = "pending"
          PROVE  posting'[g].read.status = "pending"
      BY <1>2, <1>8, <1>9, <2>2 DEF RaceInv, UnmixedSound
    <2> QED
      BY <1>2, <2>1, <2>2 DEF UnmixedSound
  <1>13. SerialSound'
    <2> SUFFICES ASSUME serial' PROVE
          /\ mixed' = {}
          /\ \A g \in Reviewers, f \in Events : Posting(g, f)' => rows'[f] = posting'[g].read
          /\ \A g, k \in Reviewers, f \in Events : Posting(g, f)' /\ Posting(k, f)' => g = k
      BY DEF SerialSound
    <2>1. ~MergingInto(e) /\ ~PostingOn(e) /\ mixed' = {}
      BY <1>2 DEF RaceInv, SerialSound
    <2>2. \A g \in Reviewers : ~Posting(g, e)
      BY <2>1 DEF PostingOn, Posting
    <2>3. \A g \in Reviewers, f \in Events : Posting(g, f)' => rows'[f] = posting'[g].read
      BY <1>2, <1>8, <1>9 DEF RaceInv, SerialSound
    <2>4. \A g, k \in Reviewers, f \in Events : Posting(g, f)' /\ Posting(k, f)' => g = k
      BY <1>2, <1>9, <2>2 DEF RaceInv, SerialSound
    <2> QED
      BY <2>1, <2>3, <2>4
  <1> QED
    BY <1>6, <1>7, <1>10, <1>11, <1>12, <1>13 DEF RaceInv

\* What ending a session does to the rest: one row changes, its type does not.
LEMMA EndMergeSafe ==
    ASSUME RaceInv, NEW w \in Workers, EndMerge(w)
    PROVE  RaceInv'
  <1> DEFINE tx == merging[w]
             e == tx.event
             new == Merged(tx.read, tx.report)
             row == MergedRow(tx, rows[e])
  <1>1. /\ merging[w] # NoTx /\ merging' = [merging EXCEPT ![w] = NoTx]
        /\ audit' = audit /\ posting' = posting /\ serial' = serial /\ mixed' = mixed
    BY DEF EndMerge
  <1>2. /\ merging \in [Workers -> MergeTx \cup {NoTx}]
        /\ rows \in [Events -> Row \cup {NoRow}]
        /\ screen \in [Reviewers -> Page \cup {NoPage}]
        /\ cleared \in [Events -> Clearance] /\ refused \in SUBSET Events
    BY DEF RaceInv, RaceTypeOK, TypeOK
  <1>3. e \in Events /\ tx.report \in Report /\ tx.read \in Row
    BY <1>1, <1>2, ReportsAssumption DEF MergeTx
  <1>4. Merging(w, e)
    BY <1>1 DEF Merging
  <1>5. e \in Published /\ rows[e].confidence = tx.read.confidence
    BY <1>3, <1>4 DEF RaceInv, SessionsSound
  <1>6. rows[e] \in Row /\ new \in Row
    BY <1>2, <1>3, <1>5, MergedType DEF Published
  <1>7. row \in Row
    BY <1>3, <1>6, WriteBackType DEF MergedRow
  <1>8. \A v \in Workers, f \in Events : Merging(v, f)' =>
           Merging(v, f) /\ v # w /\ f # e /\ merging'[v] = merging[v]
    BY <1>1, <1>2, <1>4 DEF Merging, RaceInv, SessionsSound
  <1>9. CASE /\ ~MergeCommits(tx, rows[e]) /\ refused' = refused \cup {e}
             /\ UNCHANGED <<rows, screen, cleared>>
    <2>1. Published' = Published /\ RecordsComply' /\ OnlyMixedSessionsMisplace'
      BY <1>1, <1>9, TableRests
    <2>2. RaceTypeOK'
      BY <1>1, <1>2, <1>3, <1>9 DEF RaceInv, RaceTypeOK, TypeOK
    <2>3. /\ \A g \in Reviewers, f \in Events :
                (Posting(g, f)' <=> Posting(g, f)) /\ (Shows(g, f)' <=> Shows(g, f))
          /\ \A f \in Events : PostingOn(f)' <=> PostingOn(f)
      BY <1>1, <1>9 DEF Posting, PostingOn, Shows
    <2>4. SessionsSound' /\ PagesSound'
      BY <1>1, <1>8, <1>9, <2>1, <2>3 DEF RaceInv, SessionsSound, PagesSound
    <2>5. UnmixedSound'
      BY <1>1, <1>8, <1>9, <2>3 DEF RaceInv, UnmixedSound
    <2>6. SerialSound'
      BY <1>1, <1>9, <2>3 DEF RaceInv, SerialSound
    <2> QED
      BY <2>1, <2>2, <2>4, <2>5, <2>6 DEF RaceInv
  <1>10. CASE /\ MergeCommits(tx, rows[e])
              /\ rows' = [rows EXCEPT ![e] = row]
              /\ cleared' = [cleared EXCEPT
                   ![e] = IF Content(row) # Content(rows[e]) THEN "none" ELSE @]
              /\ screen' = Outdated(e, rows[e], row)
              /\ UNCHANGED refused
    <2>1. /\ rows' \in [Events -> Row \cup {NoRow}] /\ rows'[e] = row
          /\ \A f \in Events : f # e => rows'[f] = rows[f]
      BY <1>2, <1>3, <1>7, <1>10
    <2>2. Published' = Published /\ Published \subseteq Events
      BY <1>5, <1>7, <2>1, NoRowAssumption DEF Published
    <2>3. /\ screen' \in [Reviewers -> Page \cup {NoPage}]
          /\ \A g \in Reviewers, f \in Events : Shows(g, f)' <=> Shows(g, f)
      BY <1>2, <1>10, OutdatedPages DEF Shows
    <2>4. cleared' \in [Events -> Clearance]
      BY <1>2, <1>3, <1>10 DEF Clearance
    <2>5. RaceTypeOK'
      BY <1>1, <1>2, <1>10, <2>1, <2>3, <2>4 DEF RaceInv, RaceTypeOK, TypeOK
    <2>6. RecordsComply'
      BY <1>10, <2>1, <2>2 DEF RaceInv, RecordsComply, MergeCommits
    <2>7. /\ \A g \in Reviewers, f \in Events : (Posting(g, f)' <=> Posting(g, f))
          /\ \A f \in Events : PostingOn(f)' <=> PostingOn(f)
      BY <1>1 DEF Posting, PostingOn
    <2>8. SessionsSound' /\ PagesSound'
      BY <1>1, <1>8, <2>1, <2>2, <2>3, <2>7 DEF RaceInv, SessionsSound, PagesSound
    <2>9. ASSUME e \notin mixed
          PROVE  /\ \A g \in Reviewers : ~Posting(g, e)
                 /\ rows[e] = tx.read /\ row = new
      <3>1. rows[e] = tx.read /\ ~PostingOn(e)
        BY <1>3, <1>4, <2>9 DEF RaceInv, UnmixedSound
      <3>2. \A g \in Reviewers : ~Posting(g, e)
        BY <3>1 DEF Posting, PostingOn
      <3>3. row = new
        BY <1>3, <1>6, <3>1, MergedType, WriteBackAlone DEF MergedRow
      <3> QED
        BY <3>1, <3>2, <3>3
    <2>10. UnmixedSound'
      BY <1>1, <1>8, <2>1, <2>7, <2>9 DEF RaceInv, UnmixedSound
    <2>11. SerialSound'
      BY <1>1, <1>3, <2>1, <2>7, <2>9 DEF RaceInv, SerialSound
    <2>12. OnlyMixedSessionsMisplace'
      <3>1. ASSUME e \notin mixed PROVE PlaceOf(row) # "lost"
        <4>1. PlaceOf(rows[e]) # "lost"
          BY <1>5, <3>1 DEF RaceInv, OnlyMixedSessionsMisplace
        <4>2. ~(rows[e].status = "pending" /\ ~rows[e].flag)
          BY <1>6, <4>1, LostRow
        <4>3. ~(new.status = "pending" /\ ~new.flag)
          BY <1>3, <2>9, <3>1, <4>2, MergedType
        <4> QED
          BY <1>6, <2>9, <3>1, <4>3, LostRow
      <3> QED
        BY <1>1, <2>1, <2>2, <3>1 DEF RaceInv, OnlyMixedSessionsMisplace
    <2> QED
      BY <2>5, <2>6, <2>8, <2>10, <2>11, <2>12 DEF RaceInv
  <1> QED
    BY <1>9, <1>10 DEF EndMerge

LEMMA EndDecisionSafe ==
    ASSUME RaceInv, NEW h \in Reviewers, EndDecision(h)
    PROVE  RaceInv'
  <1> DEFINE tx == posting[h]
             e == tx.event
             new == Decided(tx.read, tx.decision)
             row == DecidedRow(tx, rows[e])
  <1>1. /\ posting[h] # NoTx /\ posting' = [posting EXCEPT ![h] = NoTx]
        /\ merging' = merging /\ serial' = serial /\ mixed' = mixed /\ refused' = refused
    BY DEF EndDecision
  <1>2. /\ posting \in [Reviewers -> PostTx \cup {NoTx}]
        /\ rows \in [Events -> Row \cup {NoRow}]
        /\ screen \in [Reviewers -> Page \cup {NoPage}]
        /\ cleared \in [Events -> Clearance]
        /\ audit \in [Events -> {"none", "approve", "edit", "reject"}]
    BY DEF RaceInv, RaceTypeOK, TypeOK
  <1>3. e \in Events /\ tx.read \in Row /\ Posting(h, e)
    BY <1>1, <1>2 DEF PostTx, Posting
  <1>4. e \in Published /\ Shows(h, e) /\ tx.decision \in Decisions(tx.read)
    BY <1>3 DEF RaceInv, SessionsSound
  <1>5. rows[e] \in Row
    BY <1>2, <1>3, <1>4 DEF Published
  <1>6. /\ new \in Row /\ new.confidence = tx.read.confidence /\ new.status # "pending"
        /\ tx.decision.kind \in {"approve", "edit", "reject"}
    BY <1>3, <1>4, DecidedType
  <1>7. row \in Row /\ row.confidence = rows[e].confidence
    <2>1. row \in Row
      BY <1>3, <1>5, <1>6, WriteBackType DEF DecidedRow
    <2>2. row.confidence = rows[e].confidence
      BY <1>6 DEF DecidedRow, WriteBack
    <2> QED
      BY <2>1, <2>2
  <1>8. \A g \in Reviewers, f \in Events : Posting(g, f)' =>
           Posting(g, f) /\ g # h /\ posting'[g] = posting[g]
    BY <1>1, <1>2 DEF Posting
  <1>9. /\ \A v \in Workers, f \in Events : Merging(v, f)' <=> Merging(v, f)
        /\ \A f \in Events : PostingOn(f)' => PostingOn(f)
    BY <1>1, <1>8 DEF Merging, PostingOn, Posting
  <1>10. CASE ~ChecksAccept(row) /\ UNCHANGED <<rows, cleared, screen, audit>>
    <2>1. Published' = Published /\ RecordsComply' /\ OnlyMixedSessionsMisplace'
      BY <1>1, <1>10, TableRests
    <2>2. RaceTypeOK'
      BY <1>1, <1>2, <1>10 DEF RaceInv, RaceTypeOK, TypeOK
    <2>3. \A g \in Reviewers, f \in Events : Shows(g, f)' <=> Shows(g, f)
      BY <1>10 DEF Shows
    <2>4. SessionsSound' /\ PagesSound'
      BY <1>1, <1>8, <1>9, <1>10, <2>1, <2>3 DEF RaceInv, SessionsSound, PagesSound
    <2>5. UnmixedSound'
      BY <1>1, <1>8, <1>9, <1>10 DEF RaceInv, UnmixedSound
    <2>6. SerialSound'
      BY <1>1, <1>8, <1>10 DEF RaceInv, SerialSound
    <2> QED
      BY <2>1, <2>2, <2>4, <2>5, <2>6 DEF RaceInv
  <1>11. CASE /\ ChecksAccept(row)
              /\ rows' = [rows EXCEPT ![e] = row]
              /\ cleared' = [cleared EXCEPT
                   ![e] = IF tx.decision.kind = "reject" THEN "none"
                          ELSE IF screen[h].current THEN "seen" ELSE "blind"]
              /\ screen' = [Outdated(e, rows[e], row) EXCEPT
                              ![h] = [event |-> e, current |-> TRUE]]
              /\ audit' = [audit EXCEPT ![e] = tx.decision.kind]
    <2>1. /\ rows' \in [Events -> Row \cup {NoRow}] /\ rows'[e] = row
          /\ \A f \in Events : f # e => rows'[f] = rows[f]
      BY <1>2, <1>3, <1>7, <1>11
    <2>2. Published' = Published /\ Published \subseteq Events
      BY <1>4, <1>7, <2>1, NoRowAssumption DEF Published
    <2>3. /\ screen' \in [Reviewers -> Page \cup {NoPage}]
          /\ \A g \in Reviewers, f \in Events : Shows(g, f)' <=> Shows(g, f)
      <3> DEFINE out == Outdated(e, rows[e], row)
                 page == [event |-> e, current |-> TRUE]
      <3>1. /\ out \in [Reviewers -> Page \cup {NoPage}]
            /\ \A g \in Reviewers : out[g] = NoPage <=> screen[g] = NoPage
            /\ \A g \in Reviewers : screen[g] # NoPage => out[g].event = screen[g].event
        BY <1>2, NoPageAssumption DEF Outdated, Shows, Page
      <3>2. page \in Page /\ page # NoPage /\ page.event = e
        <4>1. page \in Page
          BY <1>3 DEF Page
        <4> QED
          BY <4>1, NoPageAssumption
      <3>3. screen' = [out EXCEPT ![h] = page]
        BY <1>11
      <3> HIDE DEF out, page
      <3>4. screen' \in [Reviewers -> Page \cup {NoPage}] /\ screen'[h] = page
            /\ \A g \in Reviewers : g # h => screen'[g] = out[g]
        BY <3>1, <3>2, <3>3
      <3> QED
        BY <1>4, <3>1, <3>2, <3>4 DEF Shows
    <2>4. cleared' \in [Events -> Clearance] /\ audit' \in [Events -> {"none", "approve", "edit", "reject"}]
      BY <1>2, <1>6, <1>11 DEF Clearance
    <2>5. RaceTypeOK'
      BY <1>1, <1>2, <2>1, <2>3, <2>4 DEF RaceInv, RaceTypeOK, TypeOK
    <2>6. RecordsComply'
      BY <1>11, <2>1, <2>2 DEF RaceInv, RecordsComply
    <2>7. SessionsSound' /\ PagesSound'
      BY <1>1, <1>7, <1>8, <1>9, <2>1, <2>2, <2>3 DEF RaceInv, SessionsSound, PagesSound
    <2>8. ASSUME e \notin mixed
          PROVE  row.status # "pending" /\ \A v \in Workers : ~Merging(v, e)
      <3>1. rows[e].status = "pending" => tx.read.status = "pending"
        BY <1>3, <2>8 DEF RaceInv, UnmixedSound
      <3>2. row.status = IF new.status # tx.read.status THEN new.status ELSE rows[e].status
        BY DEF DecidedRow, WriteBack
      <3>3. PostingOn(e)
        BY <1>3 DEF Posting, PostingOn
      <3> QED
        BY <1>3, <1>6, <2>8, <3>1, <3>2, <3>3 DEF RaceInv, UnmixedSound
    <2>9. UnmixedSound'
      <3>1. ASSUME NEW f \in Events \ mixed', NEW v \in Workers, Merging(v, f)'
            PROVE  rows'[f] = merging'[v].read /\ ~(PostingOn(f)')
        BY <1>1, <1>9, <2>1, <2>8, <3>1 DEF RaceInv, UnmixedSound
      <3>2. ASSUME NEW f \in Events \ mixed', NEW g \in Reviewers,
                   Posting(g, f)', rows'[f].status = "pending"
            PROVE  posting'[g].read.status = "pending"
        BY <1>1, <1>8, <2>1, <2>8, <3>2 DEF RaceInv, UnmixedSound
      <3> QED
        BY <3>1, <3>2 DEF UnmixedSound
    <2>10. SerialSound'
      BY <1>1, <1>3, <1>8, <2>1 DEF RaceInv, SerialSound
    <2>11. OnlyMixedSessionsMisplace'
      <3>1. e \notin mixed => PlaceOf(row) # "lost"
        BY <1>7, <2>8, LostRow
      <3> QED
        BY <1>1, <2>1, <2>2, <3>1 DEF RaceInv, OnlyMixedSessionsMisplace
    <2> QED
      BY <2>5, <2>6, <2>7, <2>9, <2>10, <2>11 DEF RaceInv
  <1> QED
    BY <1>10, <1>11 DEF EndDecision

LEMMA RaceInductive == RaceInv /\ [RaceNext]_raceVars => RaceInv'
  <1> SUFFICES ASSUME RaceInv, [RaceNext]_raceVars PROVE RaceInv'
    OBVIOUS
  <1>1. CASE UNCHANGED raceVars
    <2>1. UNCHANGED <<rows, audit, screen, cleared, refused, merging, posting, serial, mixed>>
      BY <1>1 DEF raceVars, vars, sessions
    <2>2. Published' = Published /\ RecordsComply' /\ OnlyMixedSessionsMisplace'
      BY <2>1, TableRests
    <2> QED
      BY <2>1, <2>2 DEF RaceInv, RaceTypeOK, TypeOK, SessionsSound, PagesSound,
                        UnmixedSound, SerialSound, Merging, Posting, PostingOn, Shows
  <1>2. CASE RaceNext
    BY <1>2, PublishSafe, OpenPageSafe, BeginMergeSafe, BeginDecisionSafe, EndMergeSafe,
       EndDecisionSafe DEF RaceNext
  <1> QED
    BY <1>1, <1>2

LEMMA RaceAlways == RaceSpec => []RaceInv
  BY RaceInitially, RaceInductive, PTL DEF RaceSpec

-----------------------------------------------------------------------------
(* Turns *)

\* A merge that had its turn is a merge of EventReview.
LEMMA MergeInTurn ==
    ASSUME RaceInv, serial, NEW w \in Workers, EndMerge(w)
    PROVE  Next
  <1> DEFINE tx == merging[w]
             e == tx.event
             row == MergedRow(tx, rows[e])
  <1>1. /\ merging[w] # NoTx /\ merging \in [Workers -> MergeTx \cup {NoTx}]
        /\ rows \in [Events -> Row \cup {NoRow}] /\ audit' = audit
    BY DEF EndMerge, RaceInv, RaceTypeOK, TypeOK
  <1>2. e \in Events /\ tx.report \in Reports /\ tx.report \in Report /\ tx.read \in Row
    BY <1>1, ReportsAssumption DEF MergeTx
  <1>3. Merging(w, e) /\ e \notin mixed
    BY <1>1 DEF Merging, RaceInv, SerialSound
  <1>4. e \in Published /\ rows[e] = tx.read
    BY <1>2, <1>3 DEF RaceInv, SessionsSound, UnmixedSound
  <1>5. row = Merged(rows[e], tx.report)
    BY <1>2, <1>4, MergedType, WriteBackAlone DEF MergedRow
  <1>6. WriteBack(tx.read, FlushedEarly(tx.read, tx.report), tx.read)
          = FlushedEarly(tx.read, tx.report)
    <2>1. /\ FlushedEarly(tx.read, tx.report).places = tx.read.places
          /\ FlushedEarly(tx.read, tx.report).actors = tx.read.actors
          /\ FlushedEarly(tx.read, tx.report).sectors = tx.read.sectors
      BY <1>2 DEF FlushedEarly, Row
    <2> QED
      BY <1>2, <2>1, MergedType, WriteBackAlone
  <1>7. ChecksAccept(rows[e])
    BY <1>4 DEF RaceInv, RecordsComply
  <1>8. MergeCommits(tx, rows[e]) <=> MergeAccepted(rows[e], tx.report)
    <2>1. ChecksAccept(row)
      BY <1>2, <1>4, <1>5, <1>7, MergedType
    <2>2. ChecksAccept(EarlyRow(tx, rows[e])) <=> MergeAccepted(rows[e], tx.report)
      BY <1>4, <1>6, <1>7 DEF EarlyRow, MergeAccepted
    <2> QED
      BY <2>1, <2>2 DEF MergeCommits
  <1>9. CASE /\ MergeCommits(tx, rows[e])
             /\ rows' = [rows EXCEPT ![e] = row]
             /\ cleared' = [cleared EXCEPT
                  ![e] = IF Content(row) # Content(rows[e]) THEN "none" ELSE @]
             /\ screen' = Outdated(e, rows[e], row)
             /\ UNCHANGED refused
    <2>1. MergeReport(e, tx.report)
      BY <1>1, <1>4, <1>5, <1>8, <1>9 DEF MergeReport
    <2> QED
      BY <1>2, <2>1 DEF Next
  <1>10. CASE /\ ~MergeCommits(tx, rows[e]) /\ refused' = refused \cup {e}
              /\ UNCHANGED <<rows, screen, cleared>>
    <2>1. RefuseReport(e, tx.report)
      BY <1>1, <1>4, <1>8, <1>10 DEF RefuseReport
    <2> QED
      BY <1>2, <2>1 DEF Next
  <1> QED
    BY <1>9, <1>10 DEF EndMerge

\* A decision that had its turn is a decision of EventReview, and no CHECK stops it.
LEMMA DecisionInTurn ==
    ASSUME RaceInv, serial, NEW h \in Reviewers, EndDecision(h)
    PROVE  Next
  <1> DEFINE tx == posting[h]
             e == tx.event
             row == DecidedRow(tx, rows[e])
  <1>1. /\ posting[h] # NoTx /\ posting \in [Reviewers -> PostTx \cup {NoTx}]
        /\ rows \in [Events -> Row \cup {NoRow}] /\ refused' = refused
    BY DEF EndDecision, RaceInv, RaceTypeOK, TypeOK
  <1>2. e \in Events /\ tx.read \in Row /\ Posting(h, e)
    BY <1>1 DEF PostTx, Posting
  <1>3. Shows(h, e) /\ tx.decision \in Decisions(tx.read) /\ rows[e] = tx.read
    BY <1>2 DEF RaceInv, SessionsSound, SerialSound
  <1>4. row = Decided(rows[e], tx.decision) /\ ChecksAccept(row)
    BY <1>2, <1>3, DecidedType, WriteBackAlone DEF DecidedRow
  <1>5. Record(h, e, tx.decision)
    BY <1>1, <1>4 DEF EndDecision, Record
  <1>6. PostDecision(h, e)
    BY <1>3, <1>5 DEF PostDecision
  <1> QED
    BY <1>2, <1>6 DEF Next

LEMMA TurnsAreAtomic == RaceInv /\ [RaceNext]_raceVars => [serial => [Next]_vars]_raceVars
  <1> SUFFICES ASSUME RaceInv, RaceNext, serial PROVE [Next]_vars
    OBVIOUS
  <1>1. ASSUME NEW e \in Events, NEW r \in Reports, RacePublish(e, r) PROVE Next
    BY <1>1 DEF RacePublish, Next
  <1>2. ASSUME NEW e \in Events, NEW h \in Reviewers, RaceOpenPage(h, e) PROVE Next
    BY <1>2 DEF RaceOpenPage, Next
  <1>3. ASSUME NEW e \in Events, NEW r \in Reports, NEW w \in Workers, BeginMerge(w, e, r)
        PROVE  UNCHANGED vars
    BY <1>3 DEF BeginMerge
  <1>4. ASSUME NEW e \in Events, NEW h \in Reviewers, BeginDecision(h, e)
        PROVE  UNCHANGED vars
    BY <1>4 DEF BeginDecision
  <1> QED
    BY <1>1, <1>2, <1>3, <1>4, MergeInTurn, DecisionInTurn DEF RaceNext

-----------------------------------------------------------------------------
\* Sessions that take turns implement the atomic transactions of EventReview, for
\* any number of workers, reviewers, events and reports: reading a row without a
\* lock and writing back what changed is harmless as long as nothing overlaps.
THEOREM SerialSafe == RaceSpec => SerialSessionsAreAtomic
  <1>1. RaceInit => (serial => Init)
    BY DEF RaceInit
  <1> QED
    BY <1>1, RaceAlways, TurnsAreAtomic, PTL DEF RaceSpec, SerialSessionsAreAtomic

\* Whatever overlaps, a record vanishes from every page only where a merge and a
\* decision were open on it at once; decisions among themselves lose none.
THEOREM MixedSafe == RaceSpec => []OnlyMixedSessionsMisplace
  <1>1. RaceInv => OnlyMixedSessionsMisplace
    BY DEF RaceInv
  <1> QED
    BY <1>1, RaceAlways, PTL

\* Whatever overlaps, no record's confidence rises: the cluster row's lock keeps
\* merges into one event apart, and a decision writes no confidence.
THEOREM RaceConfidenceSafe == RaceSpec => ConfidenceNeverRises
  <1>1. ASSUME RaceInv, RaceNext PROVE [NoConfidenceRise]_vars
    <2> SUFFICES ASSUME NEW f \in Published PROVE rows'[f].confidence <= rows[f].confidence
      BY DEF NoConfidenceRise
    <2>1. /\ rows \in [Events -> Row \cup {NoRow}] /\ f \in Events
          /\ rows[f] \in Row /\ rows[f].confidence \in Int
      BY <1>1 DEF RaceInv, RaceTypeOK, TypeOK, Published, Row, Confidences
    <2>2. CASE rows'[f] = rows[f]
      BY <2>1, <2>2
    <2>3. ASSUME NEW e \in Events, NEW r \in Reports, RacePublish(e, r) PROVE rows'[f] = rows[f]
      BY <2>1, <2>3 DEF RacePublish, Publish, Published
    <2>4. ASSUME NEW w \in Workers, EndMerge(w)
          PROVE  rows'[f].confidence <= rows[f].confidence
      <3> DEFINE tx == merging[w]
                 e == tx.event
                 row == MergedRow(tx, rows[e])
      <3>1. /\ merging[w] # NoTx /\ merging \in [Workers -> MergeTx \cup {NoTx}]
            /\ rows' = rows \/ rows' = [rows EXCEPT ![e] = row]
        BY <1>1, <2>4 DEF EndMerge, RaceInv, RaceTypeOK
      <3>2. e \in Events /\ tx.report \in Report /\ tx.read \in Row /\ Merging(w, e)
        BY <3>1, ReportsAssumption DEF MergeTx, Merging
      <3>3. rows[e].confidence = tx.read.confidence
        BY <1>1, <3>2 DEF RaceInv, SessionsSound
      <3>4. Merged(tx.read, tx.report).confidence <= tx.read.confidence
        BY <3>2, MergedType
      <3>5. row.confidence = IF Merged(tx.read, tx.report).confidence # tx.read.confidence
                             THEN Merged(tx.read, tx.report).confidence ELSE rows[e].confidence
        BY DEF MergedRow, WriteBack
      <3>6. CASE f = e /\ rows' = [rows EXCEPT ![e] = row]
        <4>1. rows'[f] = row
          BY <2>1, <3>6
        <4> QED
          BY <2>1, <3>3, <3>4, <3>5, <3>6, <4>1
      <3>7. CASE f # e \/ rows' = rows
        <4>1. rows'[f] = rows[f]
          BY <2>1, <3>1, <3>7
        <4> QED
          BY <2>2, <4>1
      <3> QED
        BY <3>1, <3>6, <3>7
    <2>5. ASSUME NEW h \in Reviewers, EndDecision(h)
          PROVE  rows'[f].confidence <= rows[f].confidence
      <3> DEFINE tx == posting[h]
                 e == tx.event
                 row == DecidedRow(tx, rows[e])
      <3>1. /\ posting[h] # NoTx /\ posting \in [Reviewers -> PostTx \cup {NoTx}]
            /\ rows' = rows \/ rows' = [rows EXCEPT ![e] = row]
        BY <1>1, <2>5 DEF EndDecision, RaceInv, RaceTypeOK
      <3>2. e \in Events /\ tx.read \in Row /\ Posting(h, e)
        BY <3>1 DEF PostTx, Posting
      <3>3. tx.decision \in Decisions(tx.read)
        BY <1>1, <3>2 DEF RaceInv, SessionsSound
      <3>4. Decided(tx.read, tx.decision).confidence = tx.read.confidence
        BY <3>2, <3>3, DecidedType
      <3>5. row.confidence = rows[e].confidence
        BY <3>4 DEF DecidedRow, WriteBack
      <3>6. rows'[f] = rows[f] \/ (f = e /\ rows'[f] = row)
        BY <2>1, <3>1
      <3> QED
        BY <2>1, <2>2, <3>5, <3>6
    <2> QED
      BY <1>1, <2>2, <2>3, <2>4, <2>5
      DEF RaceNext, RaceOpenPage, OpenPage, BeginMerge, BeginDecision, vars
  <1>2. RaceInv /\ [RaceNext]_raceVars => [NoConfidenceRise]_vars
    BY <1>1 DEF raceVars
  <1> QED
    BY <1>2, RaceAlways, PTL DEF RaceSpec, ConfidenceNeverRises

-----------------------------------------------------------------------------
(* What readers are shown                                                   *)
(* ReadSide only adds columns to EventReview, so whatever holds of the      *)
(* records there holds here (Underlying); `ReadInv' says what the columns   *)
(* have to do with the rows.                                                *)

\* The names of a record, by event.
Supported ==
    \A e \in Published :
        rows[e].places \cup rows[e].actors \subseteq named[e] \cup UNION evidence[e]

\* Unless a report was dated ahead, the last update is the newest day anything was
\* said of the record, and it is not in the future.
Dated ==
    \A e \in Published :
        e \notin foretold => newest[e] = lastUpdated[e] /\ newest[e] <= today

ReadInv ==
    /\ IInv
    /\ ReadTypeOK
    /\ Supported
    /\ Dated
    /\ \A e \in Events \ Published : newest[e] = 0

-----------------------------------------------------------------------------
(* ReadSide implements EventReview *)

LEMMA ReadStepsAreSteps == [ReadNext]_readVars => [Next]_vars
<1> SUFFICES ASSUME [ReadNext]_readVars
             PROVE  [Next]_vars
  OBVIOUS
<1>1. CASE UNCHANGED readVars
  BY <1>1 DEF readVars
<1>2. ASSUME NEW e \in Events, NEW r \in Reports, NEW d \in Days,
             ReadPublish(e, r, d) \/ ReadMerge(e, r, d)
      PROVE  Next
  BY <1>2 DEF ReadPublish, ReadMerge, Next
<1>3. ASSUME NEW e \in Events, NEW h \in Reviewers, ReadDecision(h, e)
      PROVE  Next
  BY <1>3 DEF ReadDecision, Next
<1>4. CASE Unread
  BY <1>4 DEF Unread, Next
<1>5. CASE Midnight
  BY <1>5 DEF Midnight
<1>6. QED
  BY <1>1, <1>2, <1>3, <1>4, <1>5 DEF ReadNext

\* Under whatever is read, the records behave as EventReview says.
THEOREM Underlying == ReadSpec => Spec
<1>1. ReadInit => Init
  BY DEF ReadInit
<1>2. QED
  BY <1>1, ReadStepsAreSteps, PTL DEF ReadSpec, Spec

-----------------------------------------------------------------------------
(* The invariant is inductive *)

LEMMA ReadInitInv == ReadInit => ReadInv
<1> SUFFICES ASSUME ReadInit
             PROVE  ReadInv
  OBVIOUS
<1>1. Init /\ Published = {}
  BY DEF ReadInit, Init, Published
<1>2. IInv
  BY <1>1, InitInv
<1>3. 1 \in Days /\ 0 \in 0 .. LastDay
  BY LastDayAssumption DEF Days
<1>4. ReadTypeOK
  BY <1>1, <1>3 DEF ReadInit, ReadTypeOK
<1>5. QED
  BY <1>1, <1>2, <1>4 DEF ReadInv, Supported, Dated, ReadInit

\* Days are ordered as numbers, and the later of two is one of them.
LEMMA LaterDay ==
    ASSUME NEW a \in 0 .. LastDay, NEW b \in 0 .. LastDay
    PROVE  /\ Advanced(a, b) \in 0 .. LastDay
           /\ a <= Advanced(a, b) /\ b <= Advanced(a, b)
           /\ Advanced(a, b) \in {a, b}
  BY LastDayAssumption DEF Advanced

\* Touch keeps the newest day.
LEMMA TouchKeeps ==
    ASSUME ReadTypeOK, NEW e \in Events, NEW d \in Days, Touch(e, d)
    PROVE  /\ newest' = [newest EXCEPT ![e] = Advanced(newest[e], d)]
           /\ foretold' \in SUBSET Events /\ foretold \subseteq foretold'
           /\ e \notin foretold' => d <= today
<1>1. newest[e] \in 0 .. LastDay /\ d \in 0 .. LastDay /\ today \in 0 .. LastDay
  BY LastDayAssumption DEF ReadTypeOK, Days
<1>2. newest \in [Events -> 0 .. LastDay]
  BY DEF ReadTypeOK
<1>3. newest' = [newest EXCEPT ![e] = Advanced(newest[e], d)]
  <2>1. CASE d > newest[e]
    BY <1>1, <2>1 DEF Touch, Advanced
  <2>2. CASE ~(d > newest[e])
    <3>1. newest' = newest /\ Advanced(newest[e], d) = newest[e]
      BY <1>1, <2>2 DEF Touch, Advanced
    <3>2. QED
      BY <1>2, <3>1
  <2>3. QED
    BY <2>1, <2>2
<1>4. foretold' \in SUBSET Events /\ foretold \subseteq foretold'
  BY DEF Touch, ReadTypeOK
<1>5. e \notin foretold' => d <= today
  <2>1. d > today => e \in foretold'
    BY DEF Touch
  <2>2. QED
    BY <1>1, <2>1
<1>6. QED
  BY <1>3, <1>4, <1>5

LEMMA ReadPublishInv ==
    ASSUME ReadInv, IInv', NEW e \in Events, NEW r \in Reports, NEW d \in Days,
           ReadPublish(e, r, d)
    PROVE  ReadInv'
<1>1. /\ rows' = [rows EXCEPT ![e] = NewRow(r)] /\ e \notin Published
      /\ firstSeen' = [firstSeen EXCEPT ![e] = d]
      /\ lastUpdated' = [lastUpdated EXCEPT ![e] = d]
      /\ named' = [named EXCEPT ![e] = r.places \cup r.actors]
      /\ evidence' = [evidence EXCEPT ![e] = @ \cup {r.mentioned}]
      /\ Touch(e, d) /\ today' = today
  BY DEF ReadPublish, Publish, Attach
<1>2. rows \in [Events -> Row \cup {NoRow}] /\ ReadTypeOK
  BY DEF ReadInv, IInv, TypeOK
<1>3. r \in Report
  BY ReportsAssumption
<1>4. NewRow(r) # NoRow /\ NewRow(r).places = r.places /\ NewRow(r).actors = r.actors
  BY <1>3, NewRowSound, NoRowAssumption DEF NewRow
<1>5. /\ Published' = Published \cup {e}
      /\ \A f \in Events : f # e => rows'[f] = rows[f]
      /\ rows'[e] = NewRow(r)
  BY <1>1, <1>2, <1>4 DEF Published
<1>6. /\ newest' = [newest EXCEPT ![e] = Advanced(newest[e], d)]
      /\ foretold' \in SUBSET Events /\ foretold \subseteq foretold'
      /\ e \notin foretold' => d <= today
  BY <1>1, <1>2, TouchKeeps
<1>7. newest[e] = 0 /\ d \in 0 .. LastDay /\ 0 < d /\ Advanced(newest[e], d) = d
  BY <1>1 DEF ReadInv, Days, Advanced
<1>8. /\ r.places \cup r.actors \subseteq Places \cup Actors
      /\ r.mentioned \subseteq Places \cup Actors
  BY <1>3 DEF Report
<1>9. ReadTypeOK'
  <2>1. /\ firstSeen' \in [Events -> 0 .. LastDay]
        /\ lastUpdated' \in [Events -> 0 .. LastDay]
        /\ newest' \in [Events -> 0 .. LastDay]
    BY <1>1, <1>2, <1>6, <1>7 DEF ReadTypeOK
  <2>2. /\ named' \in [Events -> SUBSET (Places \cup Actors)]
        /\ evidence' \in [Events -> SUBSET SUBSET (Places \cup Actors)]
    BY <1>1, <1>2, <1>8 DEF ReadTypeOK
  <2>3. \A f \in Events : f \in Published' <=> firstSeen'[f] # 0
    BY <1>1, <1>2, <1>5, <1>7 DEF ReadTypeOK
  <2>4. \A f \in Events : f \in Published' <=> evidence'[f] # {}
    BY <1>1, <1>2, <1>5 DEF ReadTypeOK
  <2>5. QED
    BY <1>1, <1>2, <1>6, <2>1, <2>2, <2>3, <2>4 DEF ReadTypeOK
<1>10. Supported'
  <2>1. /\ named'[e] = r.places \cup r.actors
        /\ \A f \in Events : f # e => named'[f] = named[f] /\ evidence'[f] = evidence[f]
    BY <1>1, <1>2 DEF ReadTypeOK
  <2>2. \A f \in Published' : f \in Events
    BY DEF Published
  <2>3. QED
    BY <1>4, <1>5, <2>1, <2>2 DEF Supported, ReadInv
<1>11. Dated'
  <2>1. /\ newest'[e] = d /\ lastUpdated'[e] = d
        /\ \A f \in Events : f # e => newest'[f] = newest[f] /\ lastUpdated'[f] = lastUpdated[f]
    BY <1>1, <1>2, <1>6, <1>7 DEF ReadTypeOK
  <2>2. \A f \in Published' : f \in Events /\ (f # e => f \in Published)
    BY <1>5 DEF Published
  <2>3. QED
    BY <1>1, <1>6, <2>1, <2>2 DEF Dated, ReadInv
<1>12. \A f \in Events \ Published' : newest'[f] = 0
  BY <1>2, <1>5, <1>6 DEF ReadInv, ReadTypeOK
<1>13. QED
  BY <1>9, <1>10, <1>11, <1>12 DEF ReadInv

\* A merge adds a place or an organisation only if the report's quotes mention it.
LEMMA MergedNames ==
    ASSUME NEW row \in Row, NEW r \in Report
    PROVE  Merged(row, r).places \cup Merged(row, r).actors
             \subseteq row.places \cup row.actors \cup r.mentioned
<1>1. CASE ~IsUpdate(row, r)
  BY <1>1 DEF Merged
<1>2. CASE IsUpdate(row, r)
  <2>1. /\ Merged(row, r).places = row.places \cup NewPlaces(row, r)
        /\ Merged(row, r).actors = row.actors \cup NewActors(row, r)
    BY <1>2 DEF Merged, Row
  <2>2. QED
    BY <2>1 DEF NewPlaces, NewActors
<1>3. QED
  BY <1>1, <1>2

LEMMA ReadMergeInv ==
    ASSUME ReadInv, IInv', NEW e \in Events, NEW r \in Reports, NEW d \in Days,
           ReadMerge(e, r, d)
    PROVE  ReadInv'
<1>1. /\ rows' = [rows EXCEPT ![e] = Merged(rows[e], r)] /\ e \in Published
      /\ lastUpdated' = [lastUpdated EXCEPT ![e] = Advanced(lastUpdated[e], d)]
      /\ evidence' = [evidence EXCEPT ![e] = @ \cup {r.mentioned}]
      /\ Touch(e, d) /\ today' = today /\ firstSeen' = firstSeen /\ named' = named
  BY DEF ReadMerge, MergeReport, Attach
<1>2. rows \in [Events -> Row \cup {NoRow}] /\ ReadTypeOK
  BY DEF ReadInv, IInv, TypeOK
<1>3. r \in Report /\ rows[e] \in Row /\ HasAPlace(rows[e]) /\ ChecksAccept(rows[e])
  BY <1>1, <1>2, ReportsAssumption
  DEF Published, ReadInv, IInv, EveryRecordHasAPlace, RecordsComply
<1>4. Merged(rows[e], r) # NoRow
  BY <1>3, MergedSound, NoRowAssumption
<1>5. /\ Published' = Published
      /\ \A f \in Events : f # e => rows'[f] = rows[f]
      /\ rows'[e] = Merged(rows[e], r)
  BY <1>1, <1>2, <1>4 DEF Published
<1>6. /\ newest' = [newest EXCEPT ![e] = Advanced(newest[e], d)]
      /\ foretold' \in SUBSET Events /\ foretold \subseteq foretold'
      /\ e \notin foretold' => d <= today
  BY <1>1, <1>2, TouchKeeps
<1>7. /\ d \in 0 .. LastDay /\ newest[e] \in 0 .. LastDay /\ lastUpdated[e] \in 0 .. LastDay
      /\ today \in 0 .. LastDay
  BY <1>2 DEF ReadTypeOK, Days
<1>8. /\ Advanced(newest[e], d) \in 0 .. LastDay /\ Advanced(lastUpdated[e], d) \in 0 .. LastDay
      /\ Advanced(newest[e], d) \in {newest[e], d}
  BY <1>7, LaterDay
<1>9. r.mentioned \subseteq Places \cup Actors
  BY <1>3 DEF Report
<1>10. ReadTypeOK'
  <2>1. /\ lastUpdated' \in [Events -> 0 .. LastDay]
        /\ newest' \in [Events -> 0 .. LastDay]
    BY <1>1, <1>2, <1>6, <1>8 DEF ReadTypeOK
  <2>2. evidence' \in [Events -> SUBSET SUBSET (Places \cup Actors)]
    BY <1>1, <1>2, <1>9 DEF ReadTypeOK
  <2>3. \A f \in Events : f \in Published' <=> evidence'[f] # {}
    BY <1>1, <1>2, <1>5 DEF ReadTypeOK
  <2>4. QED
    BY <1>1, <1>2, <1>5, <1>6, <2>1, <2>2, <2>3 DEF ReadTypeOK
<1>11. Supported'
  <2>1. /\ e \in Events /\ evidence'[e] = evidence[e] \cup {r.mentioned}
        /\ \A f \in Events : f # e => evidence'[f] = evidence[f]
    BY <1>1, <1>2 DEF ReadTypeOK
  <2>2. rows'[e].places \cup rows'[e].actors
          \subseteq rows[e].places \cup rows[e].actors \cup r.mentioned
    BY <1>3, <1>5, MergedNames
  <2>3. \A f \in Published' : f \in Events
    BY DEF Published
  <2>4. rows'[e].places \cup rows'[e].actors \subseteq named'[e] \cup UNION evidence'[e]
    <3>1. rows[e].places \cup rows[e].actors \subseteq named[e] \cup UNION evidence[e]
      BY <1>1 DEF Supported, ReadInv
    <3>2. ASSUME NEW x \in rows'[e].places \cup rows'[e].actors
          PROVE  x \in named'[e] \cup UNION evidence'[e]
      <4>1. \/ x \in named[e] \/ x \in r.mentioned
            \/ \E quote \in evidence[e] : x \in quote
        BY <2>2, <3>1, <3>2
      <4>2. r.mentioned \in evidence'[e] /\ evidence[e] \subseteq evidence'[e]
        BY <2>1
      <4>3. QED
        BY <1>1, <4>1, <4>2
    <3>3. QED
      BY <3>2
  <2>5. QED
    BY <1>1, <1>5, <2>1, <2>3, <2>4 DEF Supported, ReadInv
<1>12. Dated'
  <2>1. /\ newest'[e] = Advanced(newest[e], d) /\ lastUpdated'[e] = Advanced(lastUpdated[e], d)
        /\ \A f \in Events : f # e => newest'[f] = newest[f] /\ lastUpdated'[f] = lastUpdated[f]
    BY <1>1, <1>2, <1>6 DEF ReadTypeOK
  <2>2. \A f \in Published' : f \in Events
    BY DEF Published
  <2>3. e \notin foretold' => newest'[e] = lastUpdated'[e] /\ newest'[e] <= today
    BY <1>1, <1>6, <1>7, <1>8, <2>1 DEF Dated, ReadInv
  <2>4. QED
    BY <1>1, <1>5, <1>6, <2>1, <2>2, <2>3 DEF Dated, ReadInv
<1>13. \A f \in Events \ Published' : newest'[f] = 0
  BY <1>1, <1>2, <1>5, <1>6 DEF ReadInv, ReadTypeOK
<1>14. QED
  BY <1>10, <1>11, <1>12, <1>13 DEF ReadInv

LEMMA ReadDecisionInv ==
    ASSUME ReadInv, IInv', NEW e \in Events, NEW h \in Reviewers, ReadDecision(h, e)
    PROVE  ReadInv'
<1>1. /\ Shows(h, e) /\ lastUpdated' = [lastUpdated EXCEPT ![e] = today]
      /\ Touch(e, today)
      /\ today' = today /\ firstSeen' = firstSeen /\ named' = named /\ evidence' = evidence
  BY DEF ReadDecision, PostDecision
<1>2. PICK dec \in Decisions(rows[e]) : rows' = [rows EXCEPT ![e] = Decided(rows[e], dec)]
  BY DEF ReadDecision, PostDecision, Record
<1>3. rows \in [Events -> Row \cup {NoRow}] /\ ReadTypeOK /\ e \in Published
  BY <1>1 DEF ReadInv, IInv, TypeOK
<1>4. rows[e] \in Row
  BY <1>3 DEF Published
<1>5. /\ Decided(rows[e], dec) # NoRow
      /\ Decided(rows[e], dec).places = rows[e].places
      /\ Decided(rows[e], dec).actors = rows[e].actors
  <2>1. Decided(rows[e], dec) # NoRow
    BY <1>4, DecidedSound, NoRowAssumption
  <2>2. QED
    BY <1>4, <2>1 DEF Decided, Row
<1>6. /\ Published' = Published
      /\ \A f \in Events : rows'[f].places = rows[f].places /\ rows'[f].actors = rows[f].actors
  BY <1>2, <1>3, <1>5 DEF Published
<1>7. today \in Days /\ today \in 0 .. LastDay /\ newest[e] \in 0 .. LastDay
  BY <1>3 DEF ReadTypeOK, Days
<1>8. /\ newest' = [newest EXCEPT ![e] = Advanced(newest[e], today)]
      /\ foretold' \in SUBSET Events /\ foretold \subseteq foretold'
  BY <1>1, <1>3, <1>7, TouchKeeps
<1>9. /\ Advanced(newest[e], today) \in 0 .. LastDay
      /\ newest[e] <= today => Advanced(newest[e], today) = today
  BY <1>7 DEF Advanced
<1>10. ReadTypeOK'
  BY <1>1, <1>3, <1>6, <1>7, <1>8, <1>9 DEF ReadTypeOK
<1>11. Supported'
  <2>1. \A f \in Published' : f \in Events
    BY DEF Published
  <2>2. QED
    BY <1>1, <1>6, <2>1 DEF Supported, ReadInv
<1>12. Dated'
  <2>1. /\ newest'[e] = Advanced(newest[e], today) /\ lastUpdated'[e] = today
        /\ \A f \in Events : f # e => newest'[f] = newest[f] /\ lastUpdated'[f] = lastUpdated[f]
    BY <1>1, <1>3, <1>8 DEF ReadTypeOK
  <2>2. \A f \in Published' : f \in Events
    BY DEF Published
  <2>3. e \notin foretold' => newest'[e] = lastUpdated'[e] /\ newest'[e] <= today
    BY <1>3, <1>7, <1>8, <1>9, <2>1 DEF Dated, ReadInv
  <2>4. QED
    BY <1>1, <1>6, <1>8, <2>1, <2>2, <2>3 DEF Dated, ReadInv
<1>13. \A f \in Events \ Published' : newest'[f] = 0
  BY <1>3, <1>6, <1>8 DEF ReadInv, ReadTypeOK
<1>14. QED
  BY <1>10, <1>11, <1>12, <1>13 DEF ReadInv

LEMMA ReadNextInv == ReadInv /\ [ReadNext]_readVars => ReadInv'
<1> SUFFICES ASSUME ReadInv, [ReadNext]_readVars
             PROVE  ReadInv'
  OBVIOUS
<1>1. IInv'
  BY ReadStepsAreSteps, NextInv DEF ReadInv
<1>2. CASE UNCHANGED rows /\ UNCHANGED <<columns, today, named, newest, foretold>>
  <2>1. Published' = Published
    BY <1>2 DEF Published
  <2>2. QED
    BY <1>1, <1>2, <2>1 DEF ReadInv, ReadTypeOK, columns, Supported, Dated
<1>3. CASE UNCHANGED readVars
  BY <1>2, <1>3 DEF readVars, vars
<1>4. CASE Unread
  BY <1>2, <1>4 DEF Unread, RefuseReport, OpenPage
<1>5. CASE Midnight
  <2>1. /\ UNCHANGED <<rows, columns, named, newest, foretold>>
        /\ Published' = Published
    BY <1>5 DEF Midnight, vars, Published
  <2>2. today \in Days /\ today < LastDay /\ today' = today + 1
    BY <1>5 DEF Midnight, ReadInv, ReadTypeOK
  <2>3. today' \in Days
    BY <2>2, LastDayAssumption DEF Days
  <2>4. ReadTypeOK' /\ Supported'
    BY <2>1, <2>3 DEF ReadInv, ReadTypeOK, columns, Supported
  <2>5. Dated'
    <3>1. ASSUME NEW e \in Published, newest[e] <= today
          PROVE  newest[e] <= today + 1
      <4>1. newest[e] \in 0 .. LastDay
        BY DEF Published, ReadInv, ReadTypeOK
      <4>2. QED
        BY <2>2, <3>1, <4>1 DEF Days
    <3>2. QED
      BY <2>1, <2>2, <3>1 DEF ReadInv, Dated, columns
  <2>6. QED
    BY <1>1, <2>1, <2>4, <2>5 DEF ReadInv
<1>6. ASSUME NEW e \in Events, NEW r \in Reports, NEW d \in Days,
             ReadPublish(e, r, d) \/ ReadMerge(e, r, d)
      PROVE  ReadInv'
  BY <1>1, <1>6, ReadPublishInv, ReadMergeInv
<1>7. ASSUME NEW e \in Events, NEW h \in Reviewers, ReadDecision(h, e)
      PROVE  ReadInv'
  BY <1>1, <1>7, ReadDecisionInv
<1>8. QED
  BY <1>3, <1>4, <1>5, <1>6, <1>7 DEF ReadNext

\* Columns and rows belong together in every reachable state.
THEOREM ReadInvariance == ReadSpec => []ReadInv
  BY ReadInitInv, ReadNextInv, PTL DEF ReadSpec

\* A record has its dates and a quote from the moment it exists (briefing.py's
\* excluded_no_verified_evidence is 0).
THEOREM ReadTypeCorrect == ReadSpec => []ReadTypeOK
<1>1. ReadInv => ReadTypeOK
  BY DEF ReadInv
<1>2. QED
  BY <1>1, ReadInvariance, PTL

\* Whatever was merged, a name on a record was there from the first report or is in
\* one of its quotes (consolidate.py).
THEOREM NamesSafe == ReadSpec => []NamesAreSupported
<1>1. ReadInv => NamesAreSupported
  BY DEF ReadInv, Supported, NamesAreSupported, Detail, Shown
<1>2. QED
  BY <1>1, ReadInvariance, PTL

\* The briefing of the newest day of a record shows it or counts it as withheld, in
\* whatever order reports and decisions came (briefing.py).
THEOREM BriefingsSafe == ReadSpec => []BriefingsMissNothing
<1>1. ReadInv => BriefingsMissNothing
  <2> SUFFICES ASSUME ReadInv, NEW e \in Published,
                      rows[e].status # "rejected", e \notin foretold
               PROVE  e \in Briefed(newest[e]) \cup Withheld(newest[e])
    BY DEF BriefingsMissNothing
  <2>1. newest[e] = lastUpdated[e] /\ evidence[e] # {}
    BY DEF ReadInv, Dated, ReadTypeOK, Published
  <2>2. e \in Candidates(newest[e])
    BY <2>1 DEF Candidates
  <2>3. QED
    BY <2>1, <2>2 DEF Briefed, Withheld
<1>2. QED
  BY <1>1, ReadInvariance, PTL

\* The four places that decide what is established agree, and a serious record in the
\* feed bears the mark that a human let it pass (events.py, review.py, briefing.py).
THEOREM ViewsSafe == ReadSpec => []ViewsAgree
<1>1. ReadInv => ViewsAgree
  <2> SUFFICES ASSUME ReadInv
               PROVE  ViewsAgree
    OBVIOUS
  <2>1. \A e \in Published :
           /\ e \in Events /\ rows[e] \in Row /\ HasAPlace(rows[e]) /\ ChecksAccept(rows[e])
           /\ evidence[e] # {}
    BY DEF ReadInv, IInv, TypeOK, Published, EveryRecordHasAPlace, RecordsComply, ReadTypeOK
  <2>2. \A e \in Published :
           /\ Established(rows[e]) => rows[e].status # "rejected"
           /\ ~Established(rows[e]) /\ rows[e].status # "rejected" => InQueue(rows[e])
           /\ InQueue(rows[e]) => ~Established(rows[e]) /\ rows[e].status # "rejected"
    BY <2>1 DEF Established, InQueue, HasAPlace, EstablishedReviewStatuses, Cleared, Row,
                ReviewStatuses
  <2>3. \A day \in Days :
           /\ Briefed(day) = OnDay(Feed(FALSE), day)
           /\ Withheld(day) = OnDay(Queue, day)
    BY <2>1, <2>2 DEF Briefed, Withheld, Candidates, Feed, Queue, OnDay
  <2>4. \A p \in Places :
           /\ Counted(p, FALSE) = AtPlace(Feed(FALSE), p)
           /\ Counted(p, TRUE) = AtPlace(Feed(FALSE) \cup Queue, p)
    BY <2>2 DEF Counted, Feed, Queue, AtPlace
  <2>5. \A e \in Feed(FALSE) : \A q \in Detail(e).names \ named[e] : e \in Hits(q, FALSE)
    <3>1. \A e \in Published : Detail(e).names \ named[e] \subseteq UNION evidence[e]
      BY <2>1 DEF ReadInv, Supported, Detail
    <3>2. Feed(FALSE) \subseteq Published
      BY DEF Feed
    <3>3. QED
      BY <3>1, <3>2 DEF Hits
  <2>6. Cardinality(FeedPage.items) + FeedPage.pending_total
          = Cardinality({e \in Published : rows[e].status # "rejected"})
    <3> DEFINE kept == {e \in Published : rows[e].status # "rejected"}
    <3>1. kept = Feed(FALSE) \cup Queue /\ Feed(FALSE) \cap Queue = {}
      BY <2>2 DEF Feed, Queue
    <3>2. IsFiniteSet(Feed(FALSE)) /\ IsFiniteSet(Queue)
      BY EventsAssumption, FS_Subset DEF Feed, Queue, Published
    <3>3. /\ Cardinality(Feed(FALSE) \cup Queue)
               = Cardinality(Feed(FALSE)) + Cardinality(Queue) - Cardinality(Feed(FALSE) \cap Queue)
          /\ Cardinality({}) = 0
      BY <3>2, FS_Union, FS_EmptySet
    <3>4. Cardinality(Feed(FALSE)) \in Nat /\ Cardinality(Queue) \in Nat
      BY <3>2, FS_CardinalityType
    <3>5. Cardinality(kept) = Cardinality(Feed(FALSE)) + Cardinality(Queue) - 0
      BY <3>1, <3>3
    <3>6. FeedPage.items = Feed(FALSE) /\ FeedPage.pending_total = Cardinality(Queue)
      BY DEF FeedPage
    <3> DEFINE a == Cardinality(Feed(FALSE))
               b == Cardinality(Queue)
               c == Cardinality(kept)
    <3>7. a \in Nat /\ b \in Nat /\ c = a + b - 0
      BY <3>4, <3>5
    <3> HIDE DEF a, b, c
    <3>8. a + b = c
      BY <3>7
    <3>9. QED
      BY <3>6, <3>8 DEF a, b, c
  <2>7. \A e \in Feed(FALSE) :
          FlagMustStay(rows[e].severity, rows[e].confidence) => HumanApproved(e)
    BY <2>1 DEF Feed, Established, EstablishedReviewStatuses, ChecksAccept, HumanApproved, HasAPlace
  <2>8. QED
    BY <2>3, <2>4, <2>5, <2>6, <2>7 DEF ViewsAgree
<1>2. QED
  BY <1>1, ReadInvariance, PTL

\* What readers see never changes how records are reviewed: the policy holds here too.
THEOREM ReadPolicySafe == ReadSpec => ReviewPolicyHolds
  BY Underlying, PolicySafe
=================================================================================

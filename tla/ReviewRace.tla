------------------------------- MODULE ReviewRace -------------------------------
(***************************************************************************)
(* EventReview with transactions that overlap, as PostgreSQL's default     *)
(* READ COMMITTED lets them: a session reads the row when it starts,       *)
(* computes in memory, and at its flush writes the columns it changed --    *)
(* compared with what it READ -- over whatever is committed by then.       *)
(* Neither the merge nor the decision locks the event row when reading it. *)
(* Two merges into one event do not overlap: assign_to_cluster has already *)
(* updated, and so locked, the row of the cluster they share.              *)
(***************************************************************************)
EXTENDS EventReview

CONSTANTS
    Workers,   \* worker processes
    NoTx       \* a process outside any transaction

VARIABLES
    merging,   \* the merge each worker has open
    posting,   \* the decision each reviewer's request has open
    serial,    \* a world where sessions on one event take turns, to compare with EventReview
    mixed      \* history: events a merge and a decision were open on at once

sessions == <<merging, posting, serial, mixed>>
raceVars == <<vars, sessions>>

MergeTx == [event : Events, report : Reports, read : Row]
PostTx == [event : Events, decision : [kind : {"approve", "edit", "reject"}, edit : Edit],
           read : Row]

RaceTypeOK ==
    /\ TypeOK
    /\ merging \in [Workers -> MergeTx \cup {NoTx}]
    /\ posting \in [Reviewers -> PostTx \cup {NoTx}]
    /\ serial \in BOOLEAN
    /\ mixed \in SUBSET Events

RaceInit ==
    /\ Init
    /\ merging = [w \in Workers |-> NoTx]
    /\ posting = [h \in Reviewers |-> NoTx]
    /\ serial \in BOOLEAN
    /\ mixed = {}

MergingInto(e) == \E w \in Workers : merging[w] # NoTx /\ merging[w].event = e
PostingOn(e) == \E h \in Reviewers : posting[h] # NoTx /\ posting[h].event = e

-----------------------------------------------------------------------------
\* Mutant: every column is written, changed or not.
WriteBackWhole(read, new, now) == new

\* UPDATE ... SET only the columns whose value differs from the one read.
WriteBack(read, new, now) ==
    LET column(c) == IF new[c] # read[c] THEN new[c] ELSE now[c]
    IN  [ severity |-> column("severity"), core |-> column("core"),
          title |-> column("title"), confidence |-> column("confidence"),
          places |-> now.places \cup (new.places \ read.places),
          actors |-> now.actors \cup (new.actors \ read.actors),
          sectors |-> now.sectors \cup (new.sectors \ read.sectors),
          flag |-> column("flag"), status |-> column("status") ]

\* The row as the early flush leaves it, if there is one.
EarlyRow(tx, now) ==
    IF NewActors(tx.read, tx.report) # {}
    THEN WriteBack(tx.read, FlushedEarly(tx.read, tx.report), now)
    ELSE now

MergedRow(tx, now) == WriteBack(tx.read, Merged(tx.read, tx.report), now)

\* Mutant: the constraints are deferred to the commit.
MergeCommitsDeferred(tx, now) == ChecksAccept(MergedRow(tx, now))

\* Both flushes pass the CHECK constraints.
MergeCommits(tx, now) ==
    ChecksAccept(EarlyRow(tx, now)) /\ ChecksAccept(MergedRow(tx, now))

DecidedRow(tx, now) == WriteBack(tx.read, Decided(tx.read, tx.decision), now)

-----------------------------------------------------------------------------
RacePublish(e, r) == Publish(e, r) /\ UNCHANGED sessions

RaceOpenPage(h, e) ==
    posting[h] = NoTx /\ OpenPage(h, e) /\ UNCHANGED sessions

\* assign_to_cluster takes the cluster's row lock, _latest_active_event reads.
BeginMerge(w, e, r) ==
    /\ e \in Published /\ merging[w] = NoTx
    /\ ~MergingInto(e)
    /\ serial => ~PostingOn(e)
    /\ merging' = [merging EXCEPT ![w] = [event |-> e, report |-> r, read |-> rows[e]]]
    /\ mixed' = IF PostingOn(e) THEN mixed \cup {e} ELSE mixed
    /\ UNCHANGED <<vars, posting, serial>>

EndMerge(w) ==
    /\ merging[w] # NoTx
    /\ merging' = [merging EXCEPT ![w] = NoTx]
    /\ UNCHANGED <<audit, posting, serial, mixed>>
    /\ LET tx == merging[w]
           e == tx.event
           row == MergedRow(tx, rows[e])
       IN  \/ /\ MergeCommits(tx, rows[e])
              /\ rows' = [rows EXCEPT ![e] = row]
              /\ cleared' = [cleared EXCEPT
                   ![e] = IF Content(row) # Content(rows[e]) THEN "none" ELSE @]
              /\ screen' = Outdated(e, rows[e], row)
              /\ UNCHANGED refused
           \/ /\ ~MergeCommits(tx, rows[e])
              /\ refused' = refused \cup {e}
              /\ UNCHANGED <<rows, screen, cleared>>

\* record_decision: db.get reads the row.
BeginDecision(h, e) ==
    /\ Shows(h, e) /\ posting[h] = NoTx
    /\ serial => ~(MergingInto(e) \/ PostingOn(e))
    /\ \E d \in Decisions(rows[e]) :
          posting' = [posting EXCEPT
                        ![h] = [event |-> e, decision |-> d, read |-> rows[e]]]
    /\ mixed' = IF MergingInto(e) THEN mixed \cup {e} ELSE mixed
    /\ UNCHANGED <<vars, merging, serial>>

\* A CHECK violation is an error page: nothing is recorded.
EndDecision(h) ==
    /\ posting[h] # NoTx
    /\ posting' = [posting EXCEPT ![h] = NoTx]
    /\ UNCHANGED <<refused, merging, serial, mixed>>
    /\ LET tx == posting[h]
           e == tx.event
           row == DecidedRow(tx, rows[e])
       IN  \/ /\ ChecksAccept(row)
              /\ rows' = [rows EXCEPT ![e] = row]
              /\ cleared' = [cleared EXCEPT
                   ![e] = IF tx.decision.kind = "reject" THEN "none"
                          ELSE IF screen[h].current THEN "seen" ELSE "blind"]
              /\ screen' = [Outdated(e, rows[e], row) EXCEPT
                              ![h] = [event |-> e, current |-> TRUE]]
              /\ audit' = [audit EXCEPT ![e] = tx.decision.kind]
           \/ ~ChecksAccept(row) /\ UNCHANGED <<rows, cleared, screen, audit>>

RaceNext ==
    \/ \E e \in Events :
          \/ \E r \in Reports : RacePublish(e, r) \/ \E w \in Workers : BeginMerge(w, e, r)
          \/ \E h \in Reviewers : RaceOpenPage(h, e) \/ BeginDecision(h, e)
    \/ \E w \in Workers : EndMerge(w)
    \/ \E h \in Reviewers : EndDecision(h)

RaceSpec == RaceInit /\ [][RaceNext]_raceVars

-----------------------------------------------------------------------------
\* However decisions overlap decisions, a record stays in the feed, in the queue or
\* among the rejected; it is lost only where a merge and a decision were open at once
\* (a merge's "pending" can meet a decision's cleared flag, and no page lists that).
OnlyMixedSessionsMisplace ==
    \A e \in Published : PlaceOf(rows[e]) = "lost" => e \in mixed

\* While sessions on an event take turns, transactions are atomic: the program
\* does what EventReview says.
SerialSessionsAreAtomic ==
    /\ serial => Init
    /\ [][serial => [Next]_vars]_raceVars
=============================================================================

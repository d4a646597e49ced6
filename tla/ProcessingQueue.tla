---------------------------- MODULE ProcessingQueue ----------------------------
(***************************************************************************)
(* The worker's processing tick (processing/queue.py) run by several       *)
(* workers: each lists the pending documents once, then takes them one by  *)
(* one -- budget check, row lock, model calls, one commit per document.    *)
(* What a document's event looks like is EventReview's business.           *)
(*                                                                         *)
(* Documents are numbered in the order they were retrieved.                *)
(***************************************************************************)
EXTENDS ExtractionCascade

CONSTANTS
    Documents,     \* documents with quotable text
    TooLong,       \* those longer than MAX_DOCUMENT_CHARS
    Failing,       \* those on which the program may raise after it has paid
    Heard,         \* the answers the model service may give
    Workers,
    Limit,         \* max_extractions_per_tick
    Budget,        \* daily_extraction_budget_usd
    MaxAttempts,   \* MAX_ATTEMPTS
    MaxAborts,     \* bound: ticks abandoned halfway
    Counted        \* bound: how far `raised` counts

ASSUME DocumentsAssumption == Documents \subseteq Nat /\ IsFiniteSet(Documents)
ASSUME FaultyAssumption == TooLong \subseteq Documents /\ Failing \subseteq Documents
ASSUME HeardAssumption == Heard \subseteq Answers
ASSUME WorkersAssumption == IsFiniteSet(Workers) /\ Workers # {}
ASSUME SettingsAssumption ==
    Limit \in Nat \ {0} /\ Budget \in Nat \ {0} /\ MaxAttempts \in Nat \ {0}
ASSUME BoundsAssumption == MaxAborts \in Nat /\ Counted \in Nat

VARIABLES
    errors,       \* extractions rows of each document with outcome 'error'
    answered,     \* documents with a row of any other outcome
    linked,       \* documents with an event_documents row
    spent,        \* cost_usd recorded since midnight
    phase,        \* where each worker stands in its tick
    todo,         \* the ids its tick has left
    calls,        \* answers to the calls made for the document it holds
    tx,           \* when its open transaction began: created_at of its rows
    aborts,       \* ticks abandoned so far
    raised,       \* history: attempts on each document that left no row
    repaid        \* history: attempts on each document paid for after an answer was recorded

table == <<errors, answered, linked, spent>>
worker == <<phase, todo, calls, tx>>
history == <<aborts, raised, repaid>>
vars == <<table, worker, history>>

MaxErrorRows == MaxAttempts * 2
DocumentCost == FirstPrice + SecondPrice

Phases == {"idle", "listed", "checked", "calling", "storing"}

QueueTypeOK ==
    /\ errors \in [Documents -> Nat]
    /\ answered \in SUBSET Documents
    /\ linked \in SUBSET answered
    /\ spent \in Nat
    /\ phase \in [Workers -> Phases]
    /\ todo \in [Workers -> SUBSET Documents]
    /\ calls \in [Workers -> Seq(Answers)]
    /\ tx \in [Workers -> {"none", "today", "earlier"}]
    /\ aborts \in 0 .. MaxAborts
    /\ raised \in [Documents -> 0 .. Counted]
    /\ repaid \in [Documents -> Nat]

Init ==
    /\ errors = [d \in Documents |-> 0]
    /\ answered = {} /\ linked = {} /\ spent = 0
    /\ phase = [w \in Workers |-> "idle"]
    /\ todo = [w \in Workers |-> {}]
    /\ calls = [w \in Workers |-> <<>>]
    /\ tx = [w \in Workers |-> "none"]
    /\ aborts = 0
    /\ raised = [d \in Documents |-> 0]
    /\ repaid = [d \in Documents |-> 0]

-----------------------------------------------------------------------------
(* What a tick sees *)

\* Mutant: citation failures and abstentions are tried again.
PendingUnlinked == {d \in Documents : d \notin linked /\ errors[d] < MaxErrorRows}

\* Mutant: one attempt too many.
PendingOneMore == {d \in Documents : d \notin answered /\ errors[d] <= MaxErrorRows}

Pending == {d \in Documents : d \notin answered /\ errors[d] < MaxErrorRows}

\* pending_document_ids: the oldest first, at most Limit of them.
Batch == {d \in Pending : Cardinality({c \in Pending : c < d}) < Limit}

Current(w) == CHOOSE d \in todo[w] : \A c \in todo[w] : d <= c

Holds(w, d) ==
    phase[w] \in {"calling", "storing"} /\ todo[w] # {} /\ Current(w) = d

\* Mutant: no FOR UPDATE SKIP LOCKED.
NeverLocked(w, d) == FALSE

Locked(w, d) == \E v \in Workers \ {w} : Holds(v, d)

\* Mutant: the budget is looked at once per tick.
OverBudgetAtStart(w) == spent >= Budget /\ todo[w] = Batch

OverBudget(w) == spent >= Budget

CountedUpTo(n) == IF n > Counted THEN Counted ELSE n

-----------------------------------------------------------------------------
(* process_pending *)

StartTick(w) ==
    /\ phase[w] = "idle"
    /\ Batch # {}
    /\ todo' = [todo EXCEPT ![w] = Batch]
    /\ phase' = [phase EXCEPT ![w] = "listed"]
    /\ tx' = [tx EXCEPT ![w] = "today"]
    /\ UNCHANGED <<table, calls, history>>

\* Leaves the tick, with the transaction it has open.
Leave(w) ==
    /\ phase' = [phase EXCEPT ![w] = "idle"]
    /\ todo' = [todo EXCEPT ![w] = {}]
    /\ calls' = [calls EXCEPT ![w] = <<>>]
    /\ tx' = [tx EXCEPT ![w] = "none"]

\* Leaves the document, which stays where it is in the table.
NextDocument(w) ==
    /\ phase' = [phase EXCEPT ![w] = "listed"]
    /\ todo' = [todo EXCEPT ![w] = @ \ {Current(w)}]
    /\ calls' = [calls EXCEPT ![w] = <<>>]

EndTick(w) ==
    /\ phase[w] = "listed"
    /\ todo[w] = {} \/ OverBudget(w)
    /\ Leave(w)
    /\ UNCHANGED <<table, history>>

CheckBudget(w) ==
    /\ phase[w] = "listed" /\ todo[w] # {}
    /\ ~OverBudget(w)
    /\ phase' = [phase EXCEPT ![w] = "checked"]
    /\ tx' = [tx EXCEPT ![w] = IF @ = "none" THEN "today" ELSE @]
    /\ UNCHANGED <<table, todo, calls, history>>

SkipLocked(w) ==
    /\ phase[w] = "checked"
    /\ Locked(w, Current(w))
    /\ NextDocument(w)
    /\ UNCHANGED <<table, tx, history>>

\* The row is locked; whether the document is still pending is not asked again.
TakeDocument(w) ==
    /\ phase[w] = "checked"
    /\ ~Locked(w, Current(w))
    /\ phase' = [phase EXCEPT ![w] = "calling"]
    /\ UNCHANGED <<table, todo, calls, tx, history>>

\* History: the first call for a document that has an answer.
Repaying(w) ==
    repaid' = [repaid EXCEPT
        ![Current(w)] = IF calls[w] = <<>> /\ Current(w) \in answered THEN @ + 1 ELSE @]

\* extract_document, one call at a time.
CallModel(w) ==
    /\ phase[w] = "calling"
    /\ Current(w) \notin TooLong
    /\ \E a \in Heard :
          LET made == Append(calls[w], a)
          IN  /\ calls' = [calls EXCEPT ![w] = made]
              /\ phase' = [phase EXCEPT
                             ![w] = IF Unfinished(made) THEN "calling" ELSE "storing"]
    /\ Repaying(w)
    /\ UNCHANGED <<table, todo, tx, aborts, raised>>

\* The event_documents row of an earlier run is in the way (its primary key).
Collides(w) == Outcome(calls[w]) = "event" /\ Current(w) \in linked

\* The savepoint is released and the transaction committed.
Store(w) ==
    /\ phase[w] = "storing" /\ ~Collides(w)
    /\ LET d == Current(w)
           made == calls[w]
       IN  /\ errors' = [errors EXCEPT ![d] = @ + ErrorRows(made)]
           /\ answered' = IF Terminal(made) THEN answered \cup {d} ELSE answered
           /\ linked' = IF Outcome(made) = "event" THEN linked \cup {d} ELSE linked
           /\ spent' = IF tx[w] = "today" THEN spent + Cost(made) ELSE spent
    /\ NextDocument(w)
    /\ tx' = [tx EXCEPT ![w] = "none"]
    /\ UNCHANGED history

\* Mutant: one bad document stops the tick.
RaiseEndsTick(w) ==
    /\ raised' = [raised EXCEPT ![Current(w)] = CountedUpTo(@ + 1)]
    /\ Leave(w)
    /\ UNCHANGED <<table, aborts>>

\* process_document raised: the savepoint is rolled back, nothing is committed
\* and the transaction stays open for the next document.
Raise(w) ==
    /\ raised' = [raised EXCEPT ![Current(w)] = CountedUpTo(@ + 1)]
    /\ NextDocument(w)
    /\ UNCHANGED <<table, tx, aborts>>

\* DocumentTooLong.
RefuseTooLong(w) ==
    /\ phase[w] = "calling" /\ Current(w) \in TooLong
    /\ Raise(w) /\ UNCHANGED repaid

\* A billed answer the client library cannot parse into an ExtractionResult.
CallRaises(w) ==
    /\ phase[w] = "calling" /\ Current(w) \in Failing \ TooLong
    /\ Raise(w)
    /\ Repaying(w)

\* A row that breaks a constraint.
StoreRaises(w) ==
    /\ phase[w] = "storing" /\ (Current(w) \in Failing \/ Collides(w))
    /\ Raise(w) /\ UNCHANGED repaid

\* The database connection or the process is lost; the loop starts over.
Abort(w) ==
    /\ phase[w] # "idle" /\ aborts < MaxAborts
    /\ aborts' = aborts + 1
    /\ Leave(w)
    /\ UNCHANGED <<table, raised, repaid>>

\* A new UTC day: what open transactions write belongs to the day they began.
Midnight ==
    /\ spent' = 0
    /\ tx' = [w \in Workers |-> IF tx[w] = "today" THEN "earlier" ELSE tx[w]]
    /\ UNCHANGED <<errors, answered, linked, phase, todo, calls, aborts, raised, repaid>>

Step(w) ==
    \/ StartTick(w) \/ CheckBudget(w) \/ EndTick(w)
    \/ SkipLocked(w) \/ TakeDocument(w) \/ CallModel(w) \/ Store(w)
    \/ RefuseTooLong(w) \/ CallRaises(w) \/ StoreRaises(w)

Next == Midnight \/ \E w \in Workers : Step(w) \/ Abort(w)

Spec == Init /\ [][Next]_vars

\* The worker's loop never waits for anybody, and days pass.
FairSpec == Spec /\ WF_vars(Midnight) /\ \A w \in Workers : WF_vars(Step(w))

-----------------------------------------------------------------------------
(* Safety *)

\* The row lock keeps two workers from processing a document at the same time.
OneWorkerPerDocument ==
    \A d \in Documents, v, w \in Workers : Holds(v, d) /\ Holds(w, d) => v = w

\* The budget is checked before every document, so a day's recorded spending
\* exceeds it by less than one document per worker.
SpendingStaysNearBudget ==
    spent < Budget + Cardinality(Workers) * DocumentCost

\* A document that only ever errors is attempted MAX_ATTEMPTS times, and at most
\* once more by each other worker, whose list of ids may be out of date.
RetriesStayBounded ==
    \A d \in Documents :
        errors[d] <= MaxErrorRows + 2 * (Cardinality(Workers) - 1)

\* A document is attempted at most MAX_ATTEMPTS times (ADR-0005).
AttemptsAreBounded ==
    \A d \in Documents : errors[d] + 2 * raised[d] <= MaxErrorRows

\* Once an answer is recorded for a document it is paid for again at most once
\* by each other worker, whose list still has it.
RepaymentsStayBounded == \A d \in Documents : repaid[d] <= Cardinality(Workers) - 1

\* A document is never processed twice: true of a single worker, not of two.
PaidOnce == \A d \in Documents : repaid[d] = 0

-----------------------------------------------------------------------------
(* Liveness *)

Settled(d) == d \in answered \/ errors[d] >= MaxErrorRows

\* Documents that may never be settled stay the oldest pending ones (queue.py:85).
StuckBefore(d) == {c \in TooLong \cup Failing : c < d}

\* Every document the program can process is answered or given up in the end,
\* through aborted ticks, budget stops and failing neighbours, as long as those that
\* may never be settled leave it room in a tick: Limit of them in front of it can
\* keep it out for ever.
BacklogDrains ==
    \A d \in Documents \ (TooLong \cup Failing) :
        Cardinality(StuckBefore(d)) < Limit => <>Settled(d)
=============================================================================

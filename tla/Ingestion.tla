------------------------------- MODULE Ingestion -------------------------------
(***************************************************************************)
(* The worker's ingestion tick (ingestion/runner.py, ingestion/store.py)   *)
(* run by several workers beside the operator's scripts. A tick is ONE     *)
(* transaction: it locks every enabled source, then fetches those that are *)
(* due, one by one, and commits at its end. An exception in one of them    *)
(* rolls the whole transaction back and the loop goes on without locks.    *)
(*                                                                         *)
(* Sources are numbered in the order of their slugs. Times are ages, up to *)
(* the poll interval. ingestion_runs rows share the fate of the            *)
(* transaction they are written in, nothing reads them, and they are left  *)
(* out.                                                                    *)
(***************************************************************************)
EXTENDS SourceRegistry, FiniteSets

CONSTANTS
    Sources,
    Serves,        \* the editions its publisher may serve
    Items,
    Publishes,     \* the items of each edition
    Unstorable,    \* items whose INSERT raises what store_items catches
    Fatal,         \* editions on which parsing or storing raises anything else
    Replies,       \* kinds of answers publishers give
    Workers,
    Forms,         \* bound: the reviews operators record
    Interval,      \* poll_interval_seconds, in ticks of the clock
    MaxCrashes,    \* bound: exceptions and deaths that could happen anywhere
    NoRow

ASSUME SourcesAssumption == Sources \subseteq Nat /\ IsFiniteSet(Sources)
ASSUME FeedAssumption ==
    /\ Serves \in [Sources -> SUBSET Editions]
    /\ Publishes \in [Editions -> SUBSET Items]
    /\ Unstorable \subseteq Items /\ Fatal \subseteq Editions
ASSUME RepliesAssumption == Replies \subseteq {"blocked", "failed", "tagged", "untagged"}
ASSUME FormsAssumption == Forms \subseteq Form
ASSUME NoRowAssumption == NoRow \notin Source
ASSUME IngestBoundsAssumption == Interval \in Nat \ {0} /\ MaxCrashes \in Nat

VARIABLES
    source,        \* the committed rows of sources
    age,           \* time since last_fetched_at; Interval when due
    stored,        \* the committed raw_documents
    feed,          \* the edition each publisher serves
    phase,         \* where each worker stands in its tick
    todo,          \* the due sources its tick has left
    elapsed,       \* time since its tick began
    locked,        \* sources its transaction holds FOR UPDATE
    shared,        \* sources its inserted runs hold FOR KEY SHARE
    seen,          \* the row its session loaded for the source in hand
    draft,         \* rows it has written and not committed
    fresh,         \* documents it has inserted and not committed
    crashes,       \* exceptions and deaths so far
    sinceAsked,    \* history: time since the tick that last asked each publisher began
    refusing,      \* history: publishers that refused and no human has enabled since
    disturbed      \* history: sources in the hands of a tick that was rolled back

table == <<source, age, stored>>
session == <<phase, todo, elapsed, locked, shared, seen, draft, fresh>>
history == <<sinceAsked, refusing, disturbed>>
vars == <<table, feed, session, crashes, history>>

Document == [source : Sources, item : Items \ Unstorable, full : BOOLEAN]
Ages == 0 .. Interval

IngestTypeOK ==
    /\ source \in [Sources -> Source]
    /\ age \in [Sources -> Ages]
    /\ stored \in SUBSET Document
    /\ feed \in [Sources -> Editions]
    /\ phase \in [Workers -> {"idle", "between", "loaded", "asked"}]
    /\ todo \in [Workers -> SUBSET Sources]
    /\ elapsed \in [Workers -> Ages]
    /\ locked \in [Workers -> SUBSET Sources]
    /\ shared \in [Workers -> SUBSET Sources]
    /\ seen \in [Workers -> Source \cup {NoRow}]
    /\ draft \in [Workers -> UNION {[S -> Source] : S \in SUBSET Sources}]
    /\ fresh \in [Workers -> SUBSET Document]
    /\ crashes \in 0 .. MaxCrashes
    /\ sinceAsked \in [Sources -> Ages]
    /\ refusing \in SUBSET Sources
    /\ disturbed \in SUBSET Sources

Nothing == [s \in {} |-> NoRow]

\* The registry has been seeded; nobody has reviewed anything.
Init ==
    /\ source = [s \in Sources |-> Seeded]
    /\ feed \in [Sources -> Editions] /\ \A s \in Sources : feed[s] \in Serves[s]
    /\ age = [s \in Sources |-> Interval]
    /\ stored = {}
    /\ phase = [w \in Workers |-> "idle"]
    /\ todo = [w \in Workers |-> {}]
    /\ elapsed = [w \in Workers |-> 0]
    /\ locked = [w \in Workers |-> {}]
    /\ shared = [w \in Workers |-> {}]
    /\ seen = [w \in Workers |-> NoRow]
    /\ draft = [w \in Workers |-> Nothing]
    /\ fresh = [w \in Workers |-> {}]
    /\ crashes = 0
    /\ sinceAsked = [s \in Sources |-> Interval]
    /\ refusing = {}
    /\ disturbed = {}

Current(w) == CHOOSE s \in todo[w] : \A t \in todo[w] : s <= t

Later(n) == IF n < Interval THEN n + 1 ELSE n

-----------------------------------------------------------------------------
(* Row locks *)

\* FOR UPDATE, or an UPDATE not yet committed, of anyone but w.
Reserved(w, s) == \E v \in Workers \ {w} : s \in locked[v] \/ s \in DOMAIN draft[v]

\* A run inserted for a source locks its row against FOR UPDATE only.
Referenced(w, s) == \E v \in Workers \ {w} : s \in shared[v]

Unlocked(s) == \A v \in Workers : s \notin locked[v] /\ s \notin DOMAIN draft[v]

-----------------------------------------------------------------------------
(* A tick *)

\* Mutant: no WHERE enabled.
AnySource == Sources

Enabled == {s \in Sources : source[s].enabled}

\* due_sources: all enabled sources nobody else has locked are locked.
Lockable(w) == {s \in Enabled : ~Reserved(w, s) /\ ~Referenced(w, s)}

\* Mutant: no FOR UPDATE.
LockNothing(w) == {}

Locks(w) == Lockable(w)

\* Mutant: the poll interval is not asked for.
DueAtOnce(w) == Lockable(w)

Due(w) == {s \in Lockable(w) : age[s] = Interval}

\* run_once: a tick with nothing due commits at once and is left out.
StartTick(w) ==
    /\ phase[w] = "idle"
    /\ Due(w) # {}
    /\ phase' = [phase EXCEPT ![w] = "between"]
    /\ todo' = [todo EXCEPT ![w] = Due(w)]
    /\ elapsed' = [elapsed EXCEPT ![w] = 0]
    /\ locked' = [locked EXCEPT ![w] = Locks(w)]
    /\ UNCHANGED <<table, feed, shared, seen, draft, fresh, crashes, history>>

\* ingest_source reads the row: as due_sources loaded it or, after a
\* rollback expired it, as it is now. Nobody looks at enabled again.
Load(w) ==
    /\ phase[w] = "between"
    /\ todo[w] # {}
    /\ phase' = [phase EXCEPT ![w] = "loaded"]
    /\ seen' = [seen EXCEPT ![w] = source[Current(w)]]
    /\ UNCHANGED <<table, feed, todo, elapsed, locked, shared, draft, fresh, crashes, history>>

\* The running row is inserted, which waits for a FOR UPDATE of another
\* worker, and the request goes out.
Ask(w) ==
    LET s == Current(w) IN
    /\ phase[w] = "loaded"
    /\ \A v \in Workers \ {w} : s \notin locked[v]
    /\ phase' = [phase EXCEPT ![w] = "asked"]
    /\ shared' = [shared EXCEPT ![w] = @ \cup {s}]
    /\ sinceAsked' = [sinceAsked EXCEPT ![s] = elapsed[w]]
    /\ UNCHANGED <<table, feed, todo, elapsed, locked, seen, draft, fresh, crashes>>
    /\ UNCHANGED <<refusing, disturbed>>

\* What the session writes over the row: the columns that differ from what
\* it read. last_fetched_at always does.
Written(s, old, enabled, etag) ==
    [source[s] EXCEPT !.enabled = IF enabled = old.enabled THEN @ ELSE enabled,
                      !.etag = IF etag = old.etag THEN @ ELSE etag]

\* record_fetch_state and _close: the source's row is updated, after any
\* other worker's update of it is committed, and the loop goes on.
Close(w, row, documents) ==
    LET s == Current(w) IN
    /\ phase[w] = "asked"
    /\ ~Reserved(w, s)
    /\ phase' = [phase EXCEPT ![w] = "between"]
    /\ todo' = [todo EXCEPT ![w] = @ \ {s}]
    /\ seen' = [seen EXCEPT ![w] = NoRow]
    /\ draft' = [draft EXCEPT ![w] =
            [t \in DOMAIN @ \cup {s} |-> IF t = s THEN row ELSE @[t]]]
    /\ fresh' = [fresh EXCEPT ![w] = @ \cup documents]
    /\ UNCHANGED <<table, feed, elapsed, locked, shared, crashes>>
    /\ UNCHANGED <<sinceAsked, disturbed>>

AfterBlock(old) == FALSE

\* SourceBlocked: robots.txt, 401, 403 or 451.
Block(w) ==
    LET s == Current(w) IN
    /\ "blocked" \in Replies
    /\ Close(w, Written(s, seen[w], AfterBlock(seen[w]), seen[w].etag), {})
    /\ refusing' = refusing \cup {s}

\* FetchFailed: retries exhausted, or another client error.
FailFetch(w) ==
    LET s == Current(w) IN
    /\ "failed" \in Replies
    /\ Close(w, Written(s, seen[w], seen[w].enabled, seen[w].etag), {})
    /\ UNCHANGED refusing

\* 304, to a request that carried the validator of what is being served.
SkipUnchanged(w) ==
    LET s == Current(w) IN
    /\ phase[w] = "asked" /\ seen[w].etag = feed[s]
    /\ Close(w, Written(s, seen[w], seen[w].enabled, seen[w].etag), {})
    /\ UNCHANGED refusing

\* Mutant: the first item that cannot be stored ends the batch.
AllOrNothing(e) == IF Publishes[e] \cap Unstorable = {} THEN Publishes[e] ELSE {}

\* store_items: what cannot be stored is counted and passed over.
Storable(e) == Publishes[e] \ Unstorable

\* An item's key is the hash of its text, where the terms permit keeping it,
\* and of its metadata where they do not; one already stored is a duplicate.
Inserted(w, s) ==
    {[source |-> s, item |-> i, full |-> seen[w].fullText] : i \in Storable(feed[s])} \ stored

\* A 200 with an ETag of what is served, or without one. Inserting a key that
\* another transaction has inserted waits for that transaction's end.
Ingest(w) ==
    LET s == Current(w) IN
    /\ phase[w] = "asked" /\ feed[s] \notin Fatal
    /\ \A v \in Workers \ {w} : Inserted(w, s) \cap fresh[v] = {}
    /\ \/ "tagged" \in Replies
          /\ Close(w, Written(s, seen[w], seen[w].enabled, feed[s]), Inserted(w, s))
       \/ "untagged" \in Replies
          /\ Close(w, Written(s, seen[w], seen[w].enabled, seen[w].etag), Inserted(w, s))
    /\ UNCHANGED refusing

-----------------------------------------------------------------------------
(* The end of a transaction *)

\* session.rollback: nothing of the tick so far remains, and no lock.
RollBack(w) ==
    /\ locked' = [locked EXCEPT ![w] = {}]
    /\ shared' = [shared EXCEPT ![w] = {}]
    /\ seen' = [seen EXCEPT ![w] = NoRow]
    /\ draft' = [draft EXCEPT ![w] = Nothing]
    /\ fresh' = [fresh EXCEPT ![w] = {}]
    /\ disturbed' = disturbed \cup todo[w] \cup shared[w]
    /\ UNCHANGED <<table, feed, elapsed, sinceAsked, refusing>>

\* Any other exception: "one bad source must not stop the tick".
GoOn(w) ==
    /\ phase' = [phase EXCEPT ![w] = "between"]
    /\ todo' = [todo EXCEPT ![w] = @ \ {Current(w)}]
    /\ RollBack(w)

\* One that this feed always causes, in parsing or in an INSERT.
RaiseOnFeed(w) ==
    /\ phase[w] = "asked"
    /\ feed[Current(w)] \in Fatal
    /\ Replies \cap {"tagged", "untagged"} # {}
    /\ GoOn(w)
    /\ UNCHANGED crashes

\* One from anywhere: a lost connection, a deadlock, a Retry-After of -1.
Raise(w) ==
    /\ phase[w] \in {"loaded", "asked"}
    /\ crashes < MaxCrashes
    /\ crashes' = crashes + 1
    /\ GoOn(w)

\* The worker dies, or what escapes run_once ends the tick.
Die(w) ==
    /\ phase[w] # "idle"
    /\ crashes < MaxCrashes
    /\ crashes' = crashes + 1
    /\ phase' = [phase EXCEPT ![w] = "idle"]
    /\ todo' = [todo EXCEPT ![w] = {}]
    /\ RollBack(w)

\* session_scope commits.
EndTick(w) ==
    /\ phase[w] = "between"
    /\ todo[w] = {}
    /\ source' = [s \in Sources |-> IF s \in DOMAIN draft[w] THEN draft[w][s] ELSE source[s]]
    /\ age' = [s \in Sources |-> IF s \in DOMAIN draft[w] THEN elapsed[w] ELSE age[s]]
    /\ stored' = stored \cup fresh[w]
    /\ phase' = [phase EXCEPT ![w] = "idle"]
    /\ locked' = [locked EXCEPT ![w] = {}]
    /\ shared' = [shared EXCEPT ![w] = {}]
    /\ draft' = [draft EXCEPT ![w] = Nothing]
    /\ fresh' = [fresh EXCEPT ![w] = {}]
    /\ UNCHANGED <<feed, todo, elapsed, seen, crashes, history>>

-----------------------------------------------------------------------------
(* Operators, publishers and the clock *)

\* A script's UPDATE waits for whoever has the row.
Administer(s, row) ==
    /\ Unlocked(s)
    /\ GateAccepts(row)
    /\ row # source[s]
    /\ source' = [source EXCEPT ![s] = row]
    /\ UNCHANGED <<age, stored, feed, session, crashes, sinceAsked, disturbed>>

\* review_source_terms.py
Review(s, form) ==
    /\ Administer(s, AfterReview(source[s], form))
    /\ refusing' = IF source'[s].enabled THEN refusing \ {s} ELSE refusing

\* review_source_terms.py --disable
Disable(s) ==
    /\ Administer(s, [source[s] EXCEPT !.enabled = FALSE])
    /\ UNCHANGED refusing

Publish(s, e) ==
    /\ feed[s] # e
    /\ feed' = [feed EXCEPT ![s] = e]
    /\ UNCHANGED <<table, session, crashes, history>>

Minute ==
    /\ age' = [s \in Sources |-> Later(age[s])]
    /\ sinceAsked' = [s \in Sources |-> Later(sinceAsked[s])]
    /\ elapsed' = [w \in Workers |-> IF phase[w] = "idle" THEN 0 ELSE Later(elapsed[w])]
    /\ UNCHANGED <<source, stored, feed, phase, todo, locked, shared, seen, draft, fresh>>
    /\ UNCHANGED <<crashes, refusing, disturbed>>

Work(w) ==
    \/ StartTick(w) \/ Load(w) \/ Ask(w)
    \/ Block(w) \/ FailFetch(w) \/ SkipUnchanged(w) \/ Ingest(w)
    \/ RaiseOnFeed(w) \/ EndTick(w)

Operate(s) ==
    \/ \E form \in Forms : Review(s, form)
    \/ Disable(s)

Next ==
    \/ \E w \in Workers : Work(w) \/ Raise(w) \/ Die(w)
    \/ \E s \in Sources : Operate(s) \/ \E e \in Serves[s] : Publish(s, e)
    \/ Minute

Spec == Init /\ [][Next]_vars

\* The loop of worker/main.py runs for ever, every request ends (timeouts,
\* bounded retries), and waiting for a row lock is first come, first served.
FairSpec ==
    /\ Spec
    /\ \A w \in Workers : WF_vars(Work(w)) /\ SF_vars(Ask(w))
    /\ WF_vars(Minute)

-----------------------------------------------------------------------------
(* Safety *)

\* A stored validator hides nothing: of the edition it names, every item that
\* can be stored is, in one form or the other -- a 304 is never the reason why a
\* document is missing (store.py: "an unchanged feed costs them a 304").
ValidatorsHideNothing ==
    \A s \in Sources : source[s].etag # NoEtag =>
        \A i \in Publishes[source[s].etag] \ Unstorable :
            \E d \in stored : d.source = s /\ d.item = i

\* NG-2 (models/source.py): nobody is asked anything, and no full text is kept,
\* before a human has recorded a review of the terms.
NothingBeforeReview ==
    \A s \in Sources :
        \/ source[s].reviewed
        \/ sinceAsked[s] = Interval /\ \A w \in Workers : s \notin shared[w]
           /\ \A d \in stored : d.source = s => ~d.full

\* As long as no tick with it was rolled back, a source is in the hands of one
\* worker (due_sources: "a second worker picks different rows").
OneWorkerPerSource ==
    \A v, w \in Workers : v # w => (todo[v] \cup shared[v]) \cap (todo[w] \cup shared[w])
                                       \subseteq disturbed

Asks(w, s) == phase[w] = "loaded" /\ phase'[w] = "asked" /\ Current(w) = s

\* As long as no tick with it was rolled back, a source is left alone for the
\* poll interval after it was asked, whatever the answer was, and a publisher that
\* refused is not asked again before a human has enabled the source anew.
PollingIsPolite ==
    [][\A w \in Workers, s \in Sources :
          Asks(w, s) => \/ sinceAsked[s] = Interval /\ s \notin refusing
                        \/ s \in disturbed]_vars

-----------------------------------------------------------------------------
(* Liveness *)

\* While the feeds of the enabled sources do not break whatever reads them, a
\* source that stays enabled has what it keeps publishing stored in the end --
\* whatever was rolled back, blocked or disabled before.
GoodFeedsArrive ==
    \A s \in Sources : \A e \in Serves[s] \ Fatal :
        []<>(/\ source[s].enabled /\ feed[s] = e
             /\ \A t \in Sources : source[t].enabled => feed[t] \notin Fatal
             => \A i \in Publishes[e] \ Unstorable : \E d \in stored : d.source = s /\ d.item = i)
=============================================================================

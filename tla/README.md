# Verification of geo-risk-intelligence

TLA+ modules, TLC configurations and TLAPS proofs about the program in this
repository: a pipeline that fetches news feeds, has a language model extract
structured disruption events from them, merges reports about the same
disruption, and shows the result only as far as its human-review policy allows.

Paths are relative to the repository; `gri/` stands for `src/src/gri/`.

## 1. Inventory

| Component | State it keeps | Operations | Correct when |
|---|---|---|---|
| **Event records** `processing/pipeline.py`, `consolidate.py`, `confidence.py`, `models/event.py` | `events` rows: severity, type and date, title, confidence, the review flag and status, and the related locations, organisations and sectors | publish a first report, merge a later one | no step raises confidence; new content takes a human's clearance away; a serious record is flagged; every record is in feed, queue or out |
| **Human review** `review.py`, `api/review.py`, `api/ui.py` | `review_status`, `requires_human_review`, the append-only `review_decisions` log | list the queue, open a record, approve, edit, reject | a clearance covers what the record says; the log explains the status |
| **Processing queue** `processing/queue.py` | none of its own: the `extractions` rows of a document say whether it is pending | one tick: list, check the budget, lock, process, commit, one document after the other | one worker per document, bounded retries, repayments and spending, the backlog drains |
| **Extraction cascade** `processing/extract.py` | the attempts made for one document | first call, escalation, choice of the kept answer, labelling of the rows | at most two calls; an event only from an answer whose quotes were found |
| **Ingestion** `ingestion/runner.py`, `store.py` | `sources` (enabled, validators, last fetch), `raw_documents`, `ingestion_runs` | pick and lock due sources, fetch, parse, store, record the run, commit once per tick | a stored validator hides no document, polling is polite, a block lasts, one bad source or item harms no other |
| **HTTP fetcher** `ingestion/http.py` | a robots.txt cache for the life of the worker | fetch with robots check, validators, retries, back-off | bounded attempts, a denial is never retried, every wait is bounded, robots.txt is obeyed |
| **Source gate** `ingestion/registry.py`, `models/source.py`, `scripts/review_source_terms.py`, `scripts/seed_sources.py` | `sources.enabled`, the terms review and its date | seed, review terms, enable | nothing is fetched from a source whose terms no human accepted |
| **Adapters, normalisation** `ingestion/adapters.py`, `base.py`, `normalise.py` | none | text to items, text to canonical text | nothing a reader can see is lost or invented (parsing: section 7) |
| **Chunker** `processing/chunk.py` | none | cut a document into chunks with offsets | chunks cover the text, are made of whole sentences, make progress, are bounded |
| **Clustering, entities** `processing/cluster.py`, `pipeline._get_or_create_entity` | `event_clusters` (member count, last day), `entities` | assign a document to a cluster or open one; find or insert an organisation | one event, one cluster; a row tells its members; no document is lost to a clash |
| **Citation check** `processing/verify.py` | none | find a quote in the text | a quote passes only if a reader can see it in the text |
| **Worker loop** `worker/main.py` | the shutdown flag | start, ingest, process, sleep | survives database errors, stops when asked |
| **Read side** `api/events.py`, `api/locations.py`, `api/briefing.py`, `briefing.py` | none | feed, search, counts, record page, briefing of a day | shows established records only, and the views agree |
| **Evaluation** `evaluation/`, `scripts/run_evaluation.py` | `evaluation_datasets`, `_examples`, `_runs`, `_results` | run each scenario through the pipeline in a savepoint, score, record, gate the build | nothing synthetic is committed, the gate tells of the code alone, recorded runs stay explained |
| **Schemas, taxonomy, models, configuration** | tables and value sets | – | the constraints appear in the modules of the components that meet them |

How they interact. One *worker* process runs ingestion and then the processing
queue, every 60 s; several workers may run against one database. They share
nothing but PostgreSQL: a row lock with `SKIP LOCKED` keeps two workers off one
document or one source, and the row of a cluster orders two merges into one
event. The *API* process runs the review requests and the read side against the
same tables, one transaction per request, at READ COMMITTED. The language model
is called from inside a document's transaction. CI jobs and operators run the
*evaluation* through the same pipeline in the same tables, in savepoints.

What is hard here, and why tests do not reach it: transactions of workers and
reviewers overlap and none of them locks an `events` row; a reviewer's page is
older than the record it decides on; SQLAlchemy flushes a half-updated row when
something queries in between; the lists of pending documents and due sources are
read once per tick; money is spent before the savepoint that records it can be
rolled back; unique keys are waited for and lost; a validator silences a feed whose
items were not all stored; the worker dies, or midnight passes, in the middle of
all that. `PROJECT.json` lists these hazards line by line with the properties that
watch them.

## 2. Modules

```
ReviewPolicy        what human review promises (abstract)
   ^ implemented by
EventReview  ----- extends EventRecord      a row and the ways to change it
   ^ implemented by (while sessions take turns)
ReviewRace          overlapping READ COMMITTED transactions
   EventReview is also extended by
ReadSide            what readers are shown of the records

ExtractionCascade   the calls made for one document
   ^ extended by
ProcessingQueue     several workers over one backlog
Clustering          what those workers' transactions do to clusters and entities

SourceRegistry      a source's row and the operator's script
   ^ extended by
Ingestion           several workers polling the sources

HttpFetcher         one fetcher: robots cache, retry loop
   ^ extended by
WorkerLoop          the process the fetcher lives in

NormalText          canonical text, search for a quote
   ^ extended by
Passages            one text stored, chunked and cited

Evaluation          evaluation jobs beside the worker and each other

MC<module>          instances for TLC
EventReviewProofs, RecordProofs, ProcessingQueueProofs, WorkerLoopProofs,
IngestionProofs, ClusteringProofs, EvaluationProofs, PassagesProofs   theorems, section 4
```

**EventRecord** has operators only: `NewRow` (publishing), `Merged` (a later
report), `Decided` (a human decision), `Score`/`AssessedConfidence` (the scoring
of `confidence.py`) and `ChecksAccept` (the two CHECK constraints of
`models/event.py`). Confidence is an integer in ten-thousandths, one digit more
than the column stores, so that `round(confidence, 3)` is visible: the flag is
computed before the rounding, the constraint sees the value after it. Texts are
members of small sets; of a report the model keeps its values and which names and
labels its verified quotes support, since nothing else decides anything.
`FlushedEarly` is the intermediate row the database sees when
`_get_or_create_entity` queries in the merge loop.

**EventReview** lets whole transactions interleave: `Publish`, `MergeReport`,
`RefuseReport` (the merge whose early flush breaks a CHECK: its savepoint is
rolled back), `OpenPage`, `PostDecision`. Opening and posting are two requests;
`screen[h].current` says whether the page still shows what the record says.
`cleared` and `refused` are history variables: how the present content of a
record came to be cleared, and which events lost a report.

**ReviewPolicy** is the abstract promise: each record is nowhere, in the feed, in
the queue or rejected; only a human takes a record out of the queue; the program
by itself shows only records that are not serious. `EventReview` implements it
under the mapping in its `Policy` instance (property `ReviewPolicyHolds`).

**ReviewRace** splits each transaction in two: a session reads the row, computes,
and later writes the columns that differ from what it *read* over whatever is
committed by then (SQLAlchemy's unit of work at READ COMMITTED, no lock on the
event's row). Merges into one event take turns because `assign_to_cluster` has
updated, hence locked, their cluster's row. `serial` chooses at the start whether
sessions on one event take turns, in which case the module implements
`EventReview`; `mixed` remembers the events on which a merge and a decision were
open at once.

**ReadSide** adds to each record the columns only readers use (the days it was
first seen and last updated, the names its stored quotes mention) and defines the
views: `Feed`, `Hits` (search), `Counted` (location counts), `Queue`, `Detail` (the
record's own page) and, for a day, `Candidates`, `Briefed` and `Withheld`. A
report's date is its publisher's word: older than an earlier report's or in the
future. Each view is one snapshot.

**ExtractionCascade** maps the sequence of answers of one attempt (`verified`,
`weak`, `unquoted`, `abstained`, `outside`, `refused`, `unreachable`, `nothing`)
to what the code derives from it: whether to escalate, which call is kept, the
label of each `extractions` row, the document's outcome and the cost.

**ProcessingQueue** is `process_pending`, statement by statement where others can
come in between: `StartTick` (the list), `CheckBudget`, `SkipLocked` or
`TakeDocument`, `CallModel` once or twice, `Store` (savepoint released and
committed) or one of the ways to raise (`RefuseTooLong`, `CallRaises`,
`StoreRaises`: savepoint rolled back, loop goes on), `EndTick`; `Abort` is a lost
connection or process, `Midnight` the change of UTC day. `tx` remembers whether a
worker's transaction began before the last midnight, because `created_at` is the
transaction's start while the budget's sum starts at the clock's midnight.
`errors`, `answered` and `linked` are what the queries of the code ask of the
`extractions` and `event_documents` tables. `raised` and `repaid` are histories.
Whether a document already has an answer is not asked when its lock is taken,
which is what the code does.

**Clustering** is the transaction of one document from the search for its cluster
to the commit: `Look` (the nearest clusters, the time window; a document without a
match opens a cluster), `Join` (the flush that takes the row's lock and writes the
count and the day computed from what was read), `Lookup`/`Insert` for each
organisation (a SELECT, then an INSERT that waits for another transaction's key),
`Clash` (that transaction has committed: unique violation, everything undone),
`Victim` (PostgreSQL breaks a cycle of waits), `Commit`. Similarity is the
equivalence `TopicOf`, the candidate limit keeps the similar clusters first. A
cluster and its event are created and merged together, so one cluster is one record.

**SourceRegistry** is the row of a source, its CHECK constraints (`GateAccepts`)
and what `review_source_terms.py` makes of it (`AfterReview`): a refused
`--enable` returns from inside the transaction, so the rest of the form is kept.

**Ingestion** is the tick of `run_once` up to its first commit: `StartTick` locks
every enabled source and keeps the due ones, then per source `Load` (the row as
the session has it), `Ask` (run inserted, request sent) and one of `Block`,
`FailFetch`, `SkipUnchanged`, `Ingest`; `EndTick` commits everything at once.
`RaiseOnFeed`, `Raise` and `Die` roll everything back; after the first two the
loop goes on with the sources it has left, now without locks and with rows read
afresh, and nobody asks again whether they are enabled or due. Three kinds of
row locks matter and are kept apart: `locked` (FOR UPDATE), `draft` (an UPDATE not
yet committed) and `shared` (the foreign key of an inserted run, which only a FOR
UPDATE minds). `Written` applies to the committed row the columns that differ
from the row the session read. Inserting a document another transaction has
inserted waits (`Ingest`); that two such waits may deadlock is one of the causes
of `Raise`. Time is kept as ages; `elapsed` is the age of a tick, because
`last_fetched_at` is the tick's start and not the request's. Editions stand for
what a feed contains and for the validator it is served with. `refusing`,
`sinceAsked` and `disturbed` are histories. An operator's script is one step:
between its read and its write nothing else happens unless the row is locked, in
which case it waits before both; the few milliseconds in which it might read a
row and then wait are not modelled.

**HttpFetcher** is one `HttpFetcher`: `ReadRobots` (once per origin and life; a
robots.txt that cannot be read counts as permission, and stays so), `Forbid`,
`Admit`, and the loop of attempts: `Refuse`, `NotModified`, `Reject`, `Succeed`,
`TryAgain` (transport error or retryable status, with the back-off or the
publisher's Retry-After, capped; a negative number makes `sleep` raise).
**WorkerLoop** is the process around it: `Start`/`FailToStart` (the database check
before the loop has no handler), `Tick`, `NextSource`, `EndIngestion`,
`EndProcessing`, `Sleep` in slices, `DatabaseError` (survived), `Escape` (any other
exception: the end), `Signal`, `Stop`, `Restart` by an operator (docker-compose has
no restart policy). `banned`, `unread` and `asked` are histories of the fetcher.

**NormalText** knows the kinds of characters `normalise_text` tells apart: a base
letter and an accent that NFKC composes, the invisible ones taken out after that,
two kinds of blanks, a sentence's terminator. `VerifyQuote` is the search for a
quote, its length test before normalisation included. **Passages** follows one
text: `Store`, then one turn of `chunk_text`'s loop per step (`BeginChunk`,
`Extend`, `Cut`, `Finish` with its merge of a short tail), then `Cite`. `Looks` is
what a reader of the publisher's page sees, the reference for a citation.

**Evaluation** runs jobs of different revisions of the code, scripted or live,
beside each other and the worker: `ProcessDocument` (one document of one scenario;
after the last one the savepoint is rolled back), `LookForDataset`,
`InsertDataset`, `ClashOfDatasets` (two first runs of a version), `Record` (the
examples, the run, its results, the exit code, one commit), `Fail` anywhere,
`PublishReal` for the worker. What a report's relation is (`Relation`) depends on
what its cluster has, committed or not.

Facts about libraries the modules build on: SQLAlchemy's autoflush is on and
writes only changed columns; instances of earlier documents are gone when the
next document is processed, so its reads come from the database; PostgreSQL's
`now()` is the start of the transaction; `FOR UPDATE SKIP LOCKED` returns no row
while another transaction holds it; an INSERT of a key another transaction has
inserted waits for that transaction's end.

## 3. Runs

All expectations below are checked; sizes are distinct states.

| Run | Instance | Shows |
|---|---|---|
| `event_review` (49,978) | `ReadSide`: one event, two reviewers, two days, nine reports: one for each way a document can relate to a record (duplicate, weak, just under the threshold before rounding, disputing, severity with and without a quote, new names with and without support) | types; every record in exactly one place; CHECKs satisfied at the end of each transaction; a clearance never outlives its content; the log explains the status; the review policy is implemented; briefings miss nothing, names are supported, the views agree |
| `review_race` (564,936) | one event, two workers, two reviewers, two reports, overlapping or taking turns | confidence never rises; a record is lost from every page only where a merge and a decision overlapped; sessions that take turns are atomic (`EventReview`) |
| `queue` (379,292) | two workers, three documents for a tick of two: one too long and always in front, one that may raise after paying; a budget that one model call uses up, one abort, any number of midnights | exclusion; bounded spending, retries and repayments; under fairness what can be processed is settled |
| `clusters` (102,131) | two workers, four reports on one topic (one event twice, a straggler, another season), two organisations in opposite order, one crash | one cluster per event unless transactions overlapped or too many clusters compete; cluster rows tell the truth or fall short in known ways; a document is undone at most once per name; under fairness every document lands |
| `ingest` (156,748) | two workers, two sources: one edits its feed, one has broken its own; reviews, refused and granted, in any order; one exception or death anywhere | a stored validator hides nothing; nothing before a review; one worker per source, polite polling and lasting blocks for sources no rolled-back tick had in hand |
| `ingest_arrives` (197,786) | as `ingest`, feeds break and are mended | under fairness, what a source keeps publishing while it is not broken is stored |
| `worker` (531,904) | one worker, two feeds at two origins, three attempts, Retry-After too long or negative, one uncaught exception, one restart | robots rules, how fetches end, bounded waits; the worker polls again after database errors and stops when asked |
| `passages` (2,060,517) | every text of up to four characters and every text of up to five sentences of four sizes, three overlaps, every quote of up to three characters | chunks cover the text and are bounded; offsets locate quotes; a verified quote can be seen on the page |
| `evaluation` (454,350) | two jobs of any two of three revisions (two versions of the set, one regression), scripted or live, one real event meanwhile, a death anywhere | nothing synthetic stays; the gate tells of the revision alone; runs are whole and stay explained; one example per document |
| `report_refused` | `EventReview` alone | a severity raise that also names a new organisation is lost to a CHECK |
| `queue_retries` | one worker, one document that raises | attempts that raise are not counted, so they never end |
| `quote_short` | as `passages` | a letter and an invisible character are a quote of two characters, and verify as one |

The last three are expected to be violated: each states a sentence of the
documentation or of a comment, quoted in `PROJECT.json` under `findings`, that
the code does not keep.

More consequences of the same code show in the models without a run of their own:

- *Review.* A decision clears content that arrived after the page was opened, though
  ADR-0004 (lines 76-77) wants an approval of what was seen; a rejected record becomes
  established again by an edit (README.md:140-141 and `review.py`:58-59 call a
  rejection final). A merge's `pending` can meet a decision's cleared flag: such a
  record is on no page, though README.md:141 says pending records are visible in the
  queue. A merge that read the record before an approval commits its content after
  it and leaves the approval standing (`ApprovalCoversContent` holds in
  `EventReview` and fails in `ReviewRace`). Two overlapping decisions can leave a
  rejected record with a clear flag (it stays hidden).
- *Queue.* The cost of attempts that raise is never recorded, so a day's bill is not
  bounded by the budget; only what is *recorded* is. As many documents that can
  never be processed as a tick takes fill every tick, since they stay the oldest
  pending ones, although `queue.py`:62-63 has it that "a backlog drains in order";
  `BacklogDrains` speaks of documents with fewer than `Limit` such ones in front. With
  two workers, the one with the older list pays again.
- *Ingestion.* A rollback undoes fetch times and blocks and frees locks, so a
  publisher may be asked twice within its interval, by two workers, or after it
  refused: hence the exception for `disturbed` sources in `OneWorkerPerSource` and
  `PollingIsPolite`. A feed that always raises takes what the sources before it stored
  back in every tick, although `runner.py`:133 says "one bad source must not stop
  the tick". The `running` row is flushed and not committed, so a crash leaves no
  trace of the run.
- *Fetcher.* A robots.txt that could not be read once is permission for the life of
  the worker; docs/source-provenance-policy.md:199 wants it re-checked.
- *Read side.* A rejected record is in no briefing and not counted as withheld: the
  comment at `briefing.py`:84-86 and `test_briefing.py`:174 want that, while the module's
  docstring (lines 17-18) has a rejected record "withheld, but *counted*". `ViewsAgree`
  states what the code does, that the count is of the records in the queue. The
  record's own page is served whatever the status. A report dated
  ahead, then a decision, moves `last_updated_at` back, so the day it named has no
  trace of the record in its briefing; a past day's briefing loses a record that is
  updated again. A duplicate makes a record "updated" under an old change note.
- *Text.* Normalising is not idempotent (`test_normalise.test_is_idempotent` tries no
  such text): an invisible character between a letter and an accent is taken out after
  composition. Offsets in twice-normalised text may then miss. A quote of invisible
  characters alone is verified at the start of any text, even of an empty one
  (`haystack.find("")`, `verify.py`:104); it looks like nothing, so `VerifiedIsVisible`
  asks nothing of it and `VerifiedQuotesAreLong` leaves it out.
- *Evaluation.* The labelled set belongs to its version: an edit without a new
  version rewrites the examples older results were judged by (`dataset.py`:32-33 asks
  for the bump), and removed documents keep their examples. Of two first runs of a
  version one ends in a traceback, after its live calls were paid for. An empty set
  would pass.

Bounds and why they are enough. Events do not interact, so one is enough for
the record's properties. Two severity levels (one always reviewed), two values
for disputes and titles and one name each let every branch of `Merged` and
`Decided` be taken in both directions; two days tell an old report from a new and
from one dated ahead. `ReviewRace` uses fewer values, since a
column can only be changed or not by each of two sessions; three sessions of
both kinds overlap, and one of its two reports brings a sector as it brings a name.
For the queue, two workers give every stale list and every contention for a lock;
`Limit` 2 keeps the third document out of a list until the second is settled, and the
first, too long, has a place in every one; `MaxAttempts` is 1 and `queue_retries` has
another; the budget is crossed by a document's first call or by its second. A weak
answer may be followed by an escalation that fails.
`MaxAborts` bounds ticks cut short, `Counted` is where the history `raised`
saturates (0 where no property of the run reads it). In `clusters`, the candidate
limit is 2, so that three clusters on one topic are one more than are looked at, and
two workers with two names in opposite order make the smallest deadlock. For
ingestion, two sources give an earlier and a later one in each tick, `Interval` 1
separates due from not due, two editions a validator that is current from one that
is not, and `MaxCrashes` bounds what may go wrong anywhere, feeds that break apart.
In `worker`, 3 attempts make a first, a middle and a last one, one slice of sleep a
signal before, during and after it; `MaxEscapes` and `MaxStarts` bound uncaught
exceptions and restarts. In `passages` a chunk has at most 8 characters and a tail
fewer than 4, so that sentences of 2, 3, 4 and 7 fall on both sides of every limit;
texts of up to 4 characters hold every pair composition, stripping and collapsing
look at. In `evaluation` a version has at most three scenarios of at most two
documents: a lone one, an update, a duplicate, a background notice. TLC treats
the two workers, reviewers or jobs as interchangeable in safety runs only.
Deadlock checking is off in `clusters`, `passages` and `evaluation`, where documents
and jobs run out; elsewhere days keep passing and pages can always be opened.

Fairness. `FairSpec` of `ProcessingQueue` (run `queue`): weak fairness
of every worker's step, because the loop in `worker/main.py` runs for ever and no
step waits for another worker (`SKIP LOCKED`, no retry loops), and of `Midnight`,
because days pass. Aborts are bounded: a worker that dies in every tick drains
nothing. Nothing is assumed of human reviewers or of the model's answers: an
attempt may always end in an error, and `MAX_ATTEMPTS` settles the document.
`FairSpec` of `Ingestion`: weak fairness of every worker's step (the loop runs for
ever and the HTTP client has a timeout and bounded retries) and of the clock, and
strong fairness of `Ask`, which may have to wait for a row lock that others take in
turns: PostgreSQL serves those who wait in order. Publishers that answer at all
are an assumption of the runs (`Replies`); operators owe nothing. `FairSpec` of
`WorkerLoop`: weak fairness of the process (every request and model call has a
timeout); nothing of signals, restarts or databases. `FairSpec` of `Clustering`:
weak fairness of some worker taking a step, the deadlock detector among them.
`EveryDocumentLands` presumes that deadlocks do not recur for ever: that would take
the same documents to meet in the same order after each tick's model calls.

Every property of a passing run has a mutant in `PROJECT.json`: an operator,
marked as a mutant in its module, that changes a definition the way a plausible
bug would and that makes TLC report the property violated.

## 4. Theorems

Checked by TLAPS for every value of the constants that satisfies the named
assumptions (which TLC evaluates in the runs).

*EventReviewProofs.* The properties of `event_review` are not inductive one by
one: that a merge keeps the CHECKs needs the flag and the status to agree, and
that the log explains the status needs nothing to be logged or on screen before
the record exists. `IInv` in `EventReview` is their conjunction with these two
facts; `Init => IInv` and `IInv /\ [Next]_vars => IInv'` are proved from three
lemmas about the row operators (`NewRowSound`, `MergedSound`, `DecidedSound`), of
which `Rounding` is the arithmetical heart: rounding to three decimals lifts no
score over the review threshold from below without its having been flagged.
From `IInv`: `TypeCorrect`, `PlacesSafe`, `CheckSafe`, `ApprovalSafe`,
`AuditSafe`, `ConfidenceSafe` (an action property) and `PolicySafe`, the
refinement of `ReviewPolicy`: initial states map to initial states and every
step to a step of the policy or a stutter.

*RecordProofs* on `ReviewRace`, for any number of workers and reviewers:
The invariant `RaceInv` says what an open session knows of its event, graded by who
may be in flight with whom:
- `RaceConfidenceSafe`: no step raises confidence. Merges into one event never
  overlap and decisions leave confidence alone, so the row a merge read still has the
  confidence it had (`SessionsSound`).
- `MixedSafe`: only a merge and a decision that overlapped lose a record. Outside
  `mixed` a merge works on the row as it is, and only merges make a record pending
  (`UnmixedSound`).
- `SerialSafe`: sessions that take turns implement `EventReview`. A decision too works
  on the row as it is (`SerialSound`), and a session's differences written over the
  very row it read are what it computed (`WriteBackAlone`).

*ProcessingQueueProofs*, for any finite set of documents and workers, any limit,
budget, prices and number of attempts:
- `QueueTypeCorrect`; with `Engaged`, that a worker past the top of its loop has a
  document, the type invariant is inductive. It includes that a linked document
  is an answered one (`EventsAreExtracted`).
- `LockSafe`: no two workers process one document. `HoldsOnlyGrowByTaking` says
  how a document comes into a worker's hands at all.
- `BudgetSafe`: a day's recorded spending is below the budget plus one document
  per worker. The invariant `SpendInv` counts the workers with no document in
  hand: each may have used up one allowance, the others have theirs still to use.
- `RepaymentsBounded`: after an answer is recorded, every other worker pays at
  most once more. `RepayInv` trades repayments against the workers whose list
  still has the document and that have not paid. `LoneWorkerPaysOnce` follows.
- `RetriesBounded`: recorded errors never exceed those of `MAX_ATTEMPTS` attempts
  plus one attempt for each further worker. `RetryInv` trades errors against
  lists, and needs that an attempt without an answer leaves exactly two rows
  (`ErrorRowsBounded`), so that an unanswered document has an even number.

*WorkerLoopProofs*, for any feeds, origins, attempts, back-off and Retry-After values:
`WorkerTypeCorrect`; `RobotsSafe` (what has been forbidden since the fetcher was built
is in its cache, or the origin's file could not be read; what it asks for the cache
allows); `OutcomeSafe` (the answers before the last are transient ones, and how the
fetch ended fits the last); `WaitsSafe` (the time slept is at most `MaxBackoff` per
answer had).

*IngestionProofs*, for any finite set of numbered sources, any workers, editions and
items. `IngestInv` adds to the types:
- `Hands` (what a worker may hold at each point of its tick) and `Exclusion` (what two
  workers never hold both: the three kinds of row locks). `ExclusionSafe` follows,
  since what a tick that was never rolled back still has to do is locked.
- `Reviewed`: only reviewed sources are ever in hand, and they stay so (`ReviewSafe`).
- `Validated`: a validator, committed or not, comes with the documents of its edition
  in the same transaction (`ValidatorsSafe`).
- `Timed` and `Heeded`: what is left to ask has not been asked for an interval, the
  row's age is never older than the request's, and who refused is disabled or about to
  be (`PoliteSafe`, an action property).

That a tick has a next source at all needs the least element of a finite set, which is
proved from the well-foundedness of strict inclusion (`LeastExists`).

*ClusteringProofs*, for any documents, topics, days, names and any number of workers.
`Flight` says what a transaction knows: it opens its own cluster or joins one there is
(`Placed`); the row it read is the row there is, unless its document has raced with a
member (`Reading`); of every cluster on its topic it left out it knows a reason that
stays one, since clusters and their members only grow (`Opening`); a name it is about to
insert was not in the table when it looked (`Naming`). A commit changes what the others
have read only if it raced with them, and two documents in flight together always have
(`Apart`). From these: `OneClusterSafe`, `RowsSafe` and, each clash having met another
name, `ClashesSafe`.

*RecordProofs* on `ReadSide`, for any number of records, days, reports and reviewers. `Underlying`
(`ReadSpec => Spec`) makes `ReadSide` an implementation of `EventReview`, whose theorems
then hold of the records readers see (`ReadPolicySafe`). `Supported` relates the names
of a record to its quotes (`NamesSafe`), `Dated` its last update to the newest day
anything was said of it (`BriefingsSafe`); `ViewsSafe` needs from the rows that a flag
and a status agree.

*EvaluationProofs*, for any number of jobs, revisions, versions, scenarios and
documents, given that scored documents have distinct keys (`KeysAssumption`, a test of
the repository). `Standing` and `Scoring` say where a job is in its labelled set and
that it has scored exactly the documents behind it, each once; `Datasets` and
`Examples` what the commits of others leave it. From these: `SyntheticSafe`,
`RunsSafe` (totals count the results because places and scored documents are in
bijection) and `ExamplesSafe`.

`GateSafe` needs to know why a label is right. `GateIsRight` speaks of a finished job,
so `GateInv` says what an unfinished one knows: as long as its revision has got nothing
wrong (`Unbroken`), the events in its transaction are those of the last report before
the document in hand (`Held`, `Remembers`) and every score passes; once something is
wrong, a failing score shows it, or the wrong document sets up the one in hand, which
will find no event and fail (`Shows`). Two assumptions say of labelled sets what
`dataset.py` fills them with: `LabelsAssumption`, that a scored document is labelled by
its own output and the reports before it in its scenario (`Labels`), and that a set-up
document is the first of a scenario whose second is an update or a duplicate of it
(lines 234 and 272); `ClustersAssumption`, that a document is not a cluster. TLC
evaluates both in the run.

*PassagesProofs*, for any texts and any limits with `MinChunk <= MaxChars` and overlaps
below `MaxChars` (`SizesAssumption`; `chunk_text` raises otherwise, and 80 is below
800). What a finished list of chunks promises is not kept while it is packed, so
`Packed` says what holds of the finished chunks and the one in hand: each has become
too long with the sentence that follows (`Follows`), and is within the limit or one
sentence more than the chunk before (`Bounded`). A first sentence, a further one and a
new chunk keep this (`FirstChunk`, `LongerChunk`, `NextChunk`), and folding a short tail
into its predecessor turns it into the promise (`Folded`): `CoverSafe`, `BoundSafe`.
That what is chunked is a text at all rests on the lemmas about normalisation, whose
heart is `LeftOver`: counting the characters up to each that is left numbers them
without a gap. `QuoteFound` says of every quote and document that a verified quote lies
within the text, is what was searched for, and is its first occurrence.

What normalising does in another order, or once more, cannot be said of characters, since
each operation renumbers them. `Reads(text, K, g)` says that a text reads, in order, the
places `K` of the publisher's text, with what the table `g` has there; each operation
takes places away and rewrites the table (`ComposeReads`, `VisibleReads`,
`CollapseReads`, `StripReads`), and texts that read the same places alike are equal
(`OneReading`). Then:
- blanks around a text may go first (`StripFirst`), so that what `verify_quote` searches
  is the normalised quote; with `QuoteFound`, `OffsetsSafe`;
- normalising twice is what a reader sees (`NormalTwice`): composing once more makes up
  for what was invisible between a letter and its accent (`ShownFirst`), and spaces may
  be collapsed before or after letters compose (`SpacedFirst`);
- what a reader sees has no accent right behind a base letter (`LooksSettled`), so
  neither has a quote found in it, which is therefore normal (`NormalFixed`) and looks
  like what was found: `VisibleSafe`.

Both start from `CiteInv`: the text kept is the normalised body, and what is said of a
quote is what `VerifyQuote` says of the two.

The type invariants of these modules are stated by theorems (`IngestTypeCorrect`,
`ClusteringTypeCorrect`, `ReadTypeCorrect`, `EvaluationTypeCorrect`, `WorkerTypeCorrect`,
`PassagesTypeCorrect`) instead of runs.

Only model-checked: liveness (`BacklogDrains`, `GoodFeedsArrive`, `KeepsPolling`,
`ShutdownHonoured`, `EveryDocumentLands`), which is out of the prover's reach.
Every invariant and every action property of the passing runs, and each of their
refinements, is stated by a theorem above.

## 5. What could follow

A larger instance of `clusters` with three workers,
whose deadlocks are cycles of three; the parsing of feeds.

## 6. Components and status

`PROJECT.json` lists every component with what is modelled of it. *Modelled*:
event records, human review, processing queue, extraction cascade, ingestion, HTTP
fetcher, chunker, clustering, citation check, worker loop, read side, evaluation.
*Partly*: the source gate (not the re-seeding of descriptive columns),
adapters and normalisation (not the parsing), schemas and taxonomy (the value sets
that decide something). *Not modelled*: embedding, persistence models beyond their
constraints, prompts, logging and configuration.

## 7. Not modelled

Prompt texts, token counts and embeddings: external and numeric, no control
depends on them beyond the answer's kind. Parsing of feeds and HTML: pure text
work with its own tests. Validation of review forms that changes nothing: an
invalid post is an error page. A source's URL: a re-seed may move an enabled
source to a URL nobody confirmed (listed as a hazard), but no decision depends on
it; redirects are followed without a robots check of their target. The row of the
prompt (`_get_or_create_prompt`), inserted with the first document of a prompt version
as an organisation is: a worker that waits for another's insert, and loses, has not
called the model yet, and once the row is committed it is only read.
`ingestion_runs` and the failure counter: written, never read. Order and paging of
lists: paging by offset skips or repeats records when the list changes between two
requests; a page composed of several statements may mix two snapshots, and search
passes `%` and `_` on unescaped. Logging, templates, configuration, migrations:
wiring; the constraints that matter are in the modules that meet them. The many
fields an evaluation compares besides the relation: they depend on the report
alone. `floor`-type details of `Decimal` rounding: a tie rounds up in the model,
and no property depends on the direction.

------------------------------ MODULE WorkerLoop -------------------------------
(***************************************************************************)
(* The worker process (worker/main.py): it checks the database, then ticks *)
(* -- ingest what is due, process what is new, sleep -- until a signal     *)
(* asks it to stop. Its HttpFetcher, and so the robots.txt cache, lives    *)
(* exactly as long as the process. What a tick does to the database is     *)
(* Ingestion's and ProcessingQueue's matter; here its requests are made    *)
(* and its exceptions raised.                                              *)
(***************************************************************************)
EXTENDS HttpFetcher

CONSTANTS
    Slices,        \* TICK_SECONDS, the one-second sleeps between two ticks
    MaxEscapes,    \* bound: exceptions other than SQLAlchemyError
    MaxStarts      \* bound: how often an operator starts the worker again

ASSUME SlicesAssumption == Slices \in Nat /\ MaxEscapes \in Nat /\ MaxStarts \in Nat

VARIABLES
    phase,       \* where the process stands
    todo,        \* the due sources this tick has left
    slept,       \* the seconds slept since the tick
    shutdown,    \* _shutdown
    escapes,     \* exceptions so far that nothing in the loop catches
    starts       \* restarts so far

loop == <<phase, todo, slept, shutdown, escapes, starts>>
workerVars == <<robots, rules, fetch, conduct, loop>>

Phases == {"starting", "between", "ingesting", "processing", "sleeping", "stopped", "dead"}
Running == phase \notin {"stopped", "dead"}

WorkerTypeOK ==
    /\ FetcherTypeOK
    /\ phase \in Phases
    /\ todo \in SUBSET Urls
    /\ slept \in 0 .. Slices
    /\ shutdown \in BOOLEAN
    /\ escapes \in 0 .. MaxEscapes
    /\ starts \in 0 .. MaxStarts

WorkerInit ==
    /\ FetcherInit
    /\ phase = "starting" /\ todo = {} /\ slept = 0
    /\ shutdown = FALSE /\ escapes = 0 /\ starts = 0

Go(to) == phase' = to /\ UNCHANGED <<todo, slept, shutdown, escapes, starts>>

-----------------------------------------------------------------------------
\* check_database before the loop: no handler there, any error is the end.
Start == phase = "starting" /\ Go("between") /\ UNCHANGED <<robots, rules, fetch, conduct>>

FailToStart == phase = "starting" /\ Go("dead") /\ UNCHANGED <<robots, rules, fetch, conduct>>

\* Mutant: the loop does not look at the flag.
WantedForever == TRUE

Wanted == ~shutdown

Tick ==
    /\ phase = "between" /\ Wanted
    /\ phase' = "ingesting" /\ todo' \in SUBSET Urls
    /\ UNCHANGED <<robots, rules, fetch, conduct, slept, shutdown, escapes, starts>>

Stop == phase = "between" /\ ~Wanted /\ Go("stopped") /\ UNCHANGED <<robots, rules, fetch, conduct>>

\* ingest_due_sources: one fetch after the other, whatever became of it.
NextSource ==
    /\ phase = "ingesting"
    /\ \E u \in todo : BeginFetch(u) /\ todo' = todo \ {u}
    /\ UNCHANGED <<phase, slept, shutdown, escapes, starts>>

Fetching == phase = "ingesting" /\ FetchStep /\ UNCHANGED loop

\* The ingestion commits; processing follows if money and a key are there.
EndIngestion ==
    /\ phase = "ingesting" /\ todo = {} /\ step = "idle"
    /\ Go("processing") \/ Go("sleeping")
    /\ UNCHANGED <<robots, rules, fetch, conduct>>

EndProcessing ==
    phase = "processing" /\ Go("sleeping") /\ UNCHANGED <<robots, rules, fetch, conduct>>

\* Mutant: an error of the database ends the worker.
AfterDatabaseErrorDead == "dead"

AfterDatabaseError == "sleeping"

\* SQLAlchemyError out of run_once. Within a fetch nothing asks the database.
DatabaseError ==
    /\ phase \in {"ingesting", "processing"} /\ step = "idle"
    /\ phase' = AfterDatabaseError /\ todo' = {}
    /\ UNCHANGED <<robots, rules, fetch, conduct, slept, shutdown, escapes, starts>>

\* Any other exception out of run_once. What a fetch raises is caught earlier.
Escape ==
    /\ phase \in {"ingesting", "processing"} /\ step = "idle"
    /\ escapes < MaxEscapes
    /\ escapes' = escapes + 1
    /\ phase' = "dead" /\ todo' = {}
    /\ UNCHANGED <<robots, rules, fetch, conduct, slept, shutdown, starts>>

Awake == slept = Slices \/ shutdown

Sleep ==
    /\ phase = "sleeping" /\ ~Awake
    /\ slept' = slept + 1
    /\ UNCHANGED <<robots, rules, fetch, conduct, phase, todo, shutdown, escapes, starts>>

Wake ==
    /\ phase = "sleeping" /\ Awake
    /\ phase' = "between" /\ slept' = 0
    /\ UNCHANGED <<robots, rules, fetch, conduct, todo, shutdown, escapes, starts>>

-----------------------------------------------------------------------------
(* The world *)

\* SIGTERM or SIGINT, at any time.
Signal ==
    /\ Running /\ ~shutdown
    /\ shutdown' = TRUE
    /\ UNCHANGED <<robots, rules, fetch, conduct, phase, todo, slept, escapes, starts>>

\* A new process with a new fetcher: nothing restarts the worker by itself.
Restart ==
    /\ ~Running /\ starts < MaxStarts
    /\ starts' = starts + 1
    /\ phase' = "starting" /\ slept' = 0 /\ shutdown' = FALSE
    /\ known' = {} /\ cache' = [o \in Origins |-> {}]
    /\ banned' = Disallowed(robots) /\ unread' = {} /\ asked' = {}
    /\ UNCHANGED <<robots, fetch, todo, escapes>>

Edit ==
    /\ \E o \in Origins : \E paths \in Rules(o) : EditRobots(o, paths)
    /\ UNCHANGED loop

Work ==
    \/ Start \/ Tick \/ Stop \/ NextSource \/ Fetching \/ EndIngestion \/ EndProcessing
    \/ Sleep \/ Wake

Next == Work \/ FailToStart \/ DatabaseError \/ Escape \/ Signal \/ Restart \/ Edit

Spec == WorkerInit /\ [][Next]_workerVars

\* The process is scheduled; every request and every model call has a timeout.
FairSpec == Spec /\ WF_workerVars(Work)

-----------------------------------------------------------------------------
(* Liveness *)

\* However the database fails, a worker that nobody stops and nothing else
\* kills polls again ("a database blip should not take the worker down").
KeepsPolling ==
    (phase \in {"ingesting", "processing"})
        ~> (phase = "between" \/ shutdown \/ escapes > 0)

\* Asked to stop, the worker stops, whatever it is doing and however the
\* publishers answer it.
ShutdownHonoured == shutdown ~> ~Running
=============================================================================

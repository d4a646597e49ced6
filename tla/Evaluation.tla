------------------------------- MODULE Evaluation -------------------------------
(***************************************************************************)
(* The evaluation harness (evaluation/harness.py, scripts/                 *)
(* run_evaluation.py): CI jobs and operators run the labelled set through  *)
(* the real pipeline, beside each other and beside the worker, in the      *)
(* database the feed is read from. A job is one transaction. Each of its   *)
(* scenarios runs in a savepoint that is rolled back; then the run is      *)
(* recorded and committed, and the exit code is the verdict.               *)
(*                                                                         *)
(* An outcome is reduced to its relation: what else is compared depends on *)
(* the report alone. A revision of the code may get documents wrong. The   *)
(* labelled set belongs to its version, as dataset.py:32 asks.             *)
(***************************************************************************)
EXTENDS Integers, Sequences, FiniteSets, Functions

CONSTANTS
    Jobs,
    Revisions,     \* revisions of the code a job may run
    Version,       \* the DATASET_VERSION of each
    Broken,        \* the documents whose outcome each gets wrong
    Scenarios,     \* the sequence of scenarios of each version
    Documents,
    Setup,         \* those that are not scored
    Contents,      \* what a report may say
    Script,        \* the hand-written model output of each document
    Expected,      \* the relation each should be found to have
    NoJob,
    MaxReports     \* bound: real events the worker publishes meanwhile

Versions == {Version[r] : r \in Revisions}
Relations == {"none", "new_event", "update", "duplicate"}

ASSUME DocumentsAssumption ==
    /\ Setup \subseteq Documents
    /\ Script \in [Documents -> Contents \cup {"background"}]
    /\ Expected \in [Documents -> Relations]
ASSUME RevisionsAssumption == Broken \in [Revisions -> SUBSET Documents]
ASSUME ScenariosAssumption ==
    \A v \in Versions :
        Scenarios[v] \in Seq([same_cluster : BOOLEAN, documents : Seq(Documents) \ {<<>>}])

\* test_every_scored_document_key_is_unique
ASSUME KeysAssumption ==
    \A v \in Versions : \A i, j \in DOMAIN Scenarios[v] :
        \A k \in DOMAIN Scenarios[v][i].documents, l \in DOMAIN Scenarios[v][j].documents :
            LET d == Scenarios[v][i].documents[k] IN
            d \notin Setup /\ d = Scenarios[v][j].documents[l] => i = j /\ k = l

\* The reports in a scenario that a later one may be about the event of.
Earlier(s, k) == {j \in 1 .. k - 1 : s.same_cluster /\ Script[s.documents[j]] # "background"}

\* What the reports before it make of the report at a place.
Labels(s, k, relation) ==
    \/ Script[s.documents[k]] = "background" /\ relation = "none"
    \/ /\ Script[s.documents[k]] # "background"
       /\ \/ Earlier(s, k) = {} /\ relation = "new_event"
          \/ \E j \in Earlier(s, k) :
                /\ \A i \in Earlier(s, k) : i <= j
                /\ relation = IF Script[s.documents[j]] = Script[s.documents[k]]
                              THEN "duplicate" ELSE "update"

\* dataset.py: scored documents are labelled by their output and the reports before
\* them; a set-up document opens a scenario whose next document is about its event.
ASSUME LabelsAssumption ==
    \A v \in Versions : \A i \in DOMAIN Scenarios[v] :
        LET s == Scenarios[v][i] IN
        \A k \in DOMAIN s.documents :
            /\ s.documents[k] \notin Setup => Labels(s, k, Expected[s.documents[k]])
            /\ s.documents[k] \in Setup =>
                  /\ k = 1 /\ 2 \in DOMAIN s.documents
                  /\ s.documents[2] \notin Setup
                  /\ Expected[s.documents[2]] \in {"update", "duplicate"}

\* A cluster is named by what makes vectors alike: the fixed vector of
\* SameVectorProvider, the text itself, or the meaning of a real document.
Event == [cluster : {"same", "real"} \cup Documents, says : Contents]
Job == [revision : Revisions, live : BOOLEAN]
Place == [scenario : Nat \ {0}, document : Nat \ {0}]
Example == [version : Versions, external_ref : Documents, by : Jobs, expected : Relations]

ASSUME ClustersAssumption == Documents \cap {"same", "real"} = {}
ASSUME NoJobAssumption == NoJob \notin Job
ASSUME ReportsAssumption == MaxReports \in Nat

VARIABLES
    feed,          \* committed events
    datasets,      \* committed rows: the version and who inserted it
    examples, runs, results,
    job,           \* the revision and mode of each process
    stage,         \* where it stands
    at,            \* the scenario and the document in hand
    made,          \* events its transaction holds
    outcomes,      \* what it has scored, in order
    owned,         \* versions whose dataset row it has inserted and not committed
    verdict,       \* its exit code, "raised" for a traceback
    reports

table == <<feed, datasets, examples, runs, results>>
process == <<job, stage, at, made, outcomes, owned, verdict>>
vars == <<table, process, reports>>

Outcome == [document : Documents \ Setup, actual : Relations \cup {"wrong"}]
EvaluationRun == [id : Jobs, version : Versions, total : Nat, passed : Nat]
EvaluationResult == [run : Jobs, example : Example, passed : BOOLEAN,
                     actual : Relations \cup {"wrong"}]

EvaluationTypeOK ==
    /\ feed \subseteq Event
    /\ datasets \subseteq [version : Versions, by : Jobs]
    /\ examples \subseteq Example
    /\ runs \subseteq EvaluationRun
    /\ results \subseteq EvaluationResult
    /\ job \in [Jobs -> Job \cup {NoJob}]
    /\ stage \in [Jobs -> {"idle", "running", "absent", "present", "over"}]
    /\ \A w \in Jobs : stage[w] \in {"running", "absent", "present"} => job[w] # NoJob
    /\ at \in [Jobs -> Place]
    /\ made \in [Jobs -> SUBSET Event]
    /\ owned \in [Jobs -> SUBSET Versions]
    /\ outcomes \in [Jobs -> Seq(Outcome)]
    /\ verdict \in [Jobs -> {"none", "raised", "success", "failure"}]
    /\ reports \in 0 .. MaxReports

Init ==
    /\ feed = {} /\ datasets = {} /\ examples = {} /\ runs = {} /\ results = {}
    /\ job = [w \in Jobs |-> NoJob]
    /\ stage = [w \in Jobs |-> "idle"]
    /\ at = [w \in Jobs |-> [scenario |-> 1, document |-> 1]]
    /\ made = [w \in Jobs |-> {}]
    /\ outcomes = [w \in Jobs |-> <<>>]
    /\ owned = [w \in Jobs |-> {}]
    /\ verdict = [w \in Jobs |-> "none"]
    /\ reports = 0

-----------------------------------------------------------------------------
(* The labelled set *)

Scored(v) ==
    {d \in Documents \ Setup :
        \E i \in DOMAIN Scenarios[v] : d \in Range(Scenarios[v][i].documents)}

VersionOf(w) == Version[job[w].revision]
Scenario(w) == Scenarios[VersionOf(w)][at[w].scenario]
Current(w) == Scenario(w).documents[at[w].document]

\* A scripted provider hands out what was written for the document; a real
\* model may say anything.
Extracted(w) ==
    IF job[w].live THEN Contents \cup {"background"} ELSE {Script[Current(w)]}

-----------------------------------------------------------------------------
(* One scenario *)

ClusterOf(w) == IF Scenario(w).same_cluster THEN "same" ELSE Current(w)

\* What process_document finds in the document's cluster: committed events
\* and those of its own transaction.
Known(w) == {e \in feed \cup made[w] : e.cluster = ClusterOf(w)}

\* PipelineResult.relation.
Relation(w, says) ==
    CASE Current(w) \in Broken[job[w].revision] -> "wrong"
      [] Current(w) \notin Broken[job[w].revision] /\ says = "background" -> "none"
      [] OTHER -> IF Known(w) = {} THEN "new_event"
                  ELSE IF \E e \in Known(w) : e.says = says THEN "duplicate" ELSE "update"

\* The events of the transaction after the document: a first report creates
\* one, an update rewrites it.
Processed(w, says) ==
    LET new == [cluster |-> ClusterOf(w), says |-> says] IN
    CASE Relation(w, says) = "new_event" -> made[w] \cup {new}
      [] Relation(w, says) = "update" -> (made[w] \ Known(w)) \cup {new}
      [] OTHER -> made[w]

\* Mutant: the savepoint is released.
ReleasedSavepoint(w, events) == events

\* What is left of a scenario: nested.rollback().
AfterScenario(w, events) == {}

Score(w, says) ==
    IF Current(w) \in Setup THEN outcomes[w]
    ELSE Append(outcomes[w], [document |-> Current(w), actual |-> Relation(w, says)])

Passes(o) == o.actual = Expected[o.document]
Passed(scored) == {n \in DOMAIN scored : Passes(scored[n])}

LastDocument(w) == at[w].document = Len(Scenario(w).documents)

Start(w) ==
    /\ stage[w] = "idle"
    /\ \E j \in Job : job' = [job EXCEPT ![w] = j]
    /\ stage' = [stage EXCEPT ![w] = "running"]
    /\ UNCHANGED <<table, at, made, outcomes, owned, verdict, reports>>

\* One document of run_scenario; after the last one the savepoint goes.
ProcessDocument(w) ==
    /\ stage[w] = "running"
    /\ at[w].scenario <= Len(Scenarios[VersionOf(w)])
    /\ \E says \in Extracted(w) :
          /\ outcomes' = [outcomes EXCEPT ![w] = Score(w, says)]
          /\ made' = [made EXCEPT ![w] =
                IF LastDocument(w) THEN AfterScenario(w, Processed(w, says))
                ELSE Processed(w, says)]
    /\ at' = [at EXCEPT ![w] =
          IF LastDocument(w) THEN [scenario |-> @.scenario + 1, document |-> 1]
          ELSE [scenario |-> @.scenario, document |-> @.document + 1]]
    /\ UNCHANGED <<table, job, stage, owned, verdict, reports>>

-----------------------------------------------------------------------------
(* Recording *)

\* Mutant: a run may be recorded after any of its scenarios.
AfterAnyScenario(w) == at[w].document = 1 /\ at[w].scenario > 1

\* run_all is over.
AllRun(w) == at[w].scenario > Len(Scenarios[VersionOf(w)])

\* The SELECT of _get_or_create_dataset.
LookForDataset(w) ==
    /\ stage[w] = "running" /\ AllRun(w)
    /\ stage' = [stage EXCEPT ![w] =
          IF \E d \in datasets : d.version = VersionOf(w) THEN "present" ELSE "absent"]
    /\ UNCHANGED <<table, job, at, made, outcomes, owned, verdict, reports>>

\* Mutant: no uq_evaluation_datasets_name_version.
NeverTaken(w) == FALSE

\* The row has been committed since it was looked for.
Taken(w) == \E d \in datasets : d.version = VersionOf(w)

\* Its INSERT, which waits while another transaction holds the same key.
InsertDataset(w) ==
    /\ stage[w] = "absent"
    /\ \A v \in Jobs \ {w} : VersionOf(w) \notin owned[v]
    /\ ~Taken(w)
    /\ owned' = [owned EXCEPT ![w] = {VersionOf(w)}]
    /\ stage' = [stage EXCEPT ![w] = "present"]
    /\ UNCHANGED <<table, job, at, made, outcomes, verdict, reports>>

\* session_scope rolls everything back and the script ends with a traceback.
Ends(w, code) ==
    /\ stage' = [stage EXCEPT ![w] = "over"]
    /\ verdict' = [verdict EXCEPT ![w] = code]
    /\ made' = [made EXCEPT ![w] = {}]
    /\ owned' = [owned EXCEPT ![w] = {}]
    /\ UNCHANGED <<job, at, outcomes, reports>>

ClashOfDatasets(w) ==
    /\ stage[w] = "absent" /\ Taken(w)
    /\ Ends(w, "raised")
    /\ UNCHANGED table

Found(w, d) == {x \in examples : x.version = VersionOf(w) /\ x.external_ref = d}

\* _sync_examples: the row of a scored document, refreshed or inserted, and
\* the rows it takes the place of. Rows are found by version and external_ref.
Synced(w, d) ==
    IF Found(w, d) = {}
    THEN [version |-> VersionOf(w), external_ref |-> d, by |-> w, expected |-> Expected[d]]
    ELSE [(CHOOSE x \in Found(w, d) : TRUE) EXCEPT !.expected = Expected[d]]
Replaced(w) == UNION {Found(w, d) : d \in Scored(VersionOf(w))}

\* Mutant: the gate asks whether anything passed.
AnyPassed(w) ==
    IF job[w].live \/ \E o \in Range(outcomes[w]) : Passes(o) THEN "success" ELSE "failure"

\* main's return value.
ExitCode(w) ==
    IF job[w].live \/ \A o \in Range(outcomes[w]) : Passes(o) THEN "success" ELSE "failure"

\* record_run and the commit of session_scope.
Record(w) ==
    /\ stage[w] = "present"
    /\ feed' = feed \cup made[w]
    /\ datasets' = datasets \cup [version : owned[w], by : {w}]
    /\ examples' = (examples \ Replaced(w))
                     \cup {Synced(w, d) : d \in Scored(VersionOf(w))}
    /\ runs' = runs \cup {[id |-> w, version |-> VersionOf(w), total |-> Len(outcomes[w]),
                           passed |-> Cardinality(Passed(outcomes[w]))]}
    /\ results' = results \cup
          {[run |-> w, example |-> Synced(w, o.document), passed |-> Passes(o),
            actual |-> o.actual] : o \in Range(outcomes[w])}
    /\ Ends(w, ExitCode(w))

-----------------------------------------------------------------------------
(* The rest of the world *)

\* An exception anywhere, or the process is killed.
Fail(w) ==
    /\ stage[w] \in {"running", "absent", "present"}
    /\ Ends(w, "raised")
    /\ UNCHANGED table

\* The worker publishes what a real document reports.
PublishReal ==
    /\ reports < MaxReports
    /\ reports' = reports + 1
    /\ \E c \in Contents : feed' = feed \cup {[cluster |-> "real", says |-> c]}
    /\ UNCHANGED <<datasets, examples, runs, results, process>>

Next ==
    \/ \E w \in Jobs :
          \/ Start(w) \/ ProcessDocument(w)
          \/ LookForDataset(w) \/ InsertDataset(w) \/ ClashOfDatasets(w) \/ Record(w)
          \/ Fail(w)
    \/ PublishReal

Spec == Init /\ [][Next]_vars

-----------------------------------------------------------------------------
(* Properties *)

\* test_evaluation.py's core guarantee: whatever is recorded, killed or run
\* side by side, no synthetic event is ever committed to the feed.
NothingSyntheticStays == \A e \in feed : e.cluster = "real"

\* run_evaluation.py's promise that "any mismatch is a genuine regression": a
\* scripted job succeeds or fails by its own revision alone, whatever other
\* scenarios, other jobs and the worker have in the database. A live job never
\* fails the build.
GateIsRight ==
    \A w \in Jobs : verdict[w] \in {"success", "failure"} =>
        (verdict[w] = "failure" <=> /\ ~job[w].live
                            /\ \E i \in DOMAIN Scenarios[VersionOf(w)] :
                                  \E d \in Range(Scenarios[VersionOf(w)][i].documents) :
                                      d \in Broken[job[w].revision])

\* A recorded run is whole: one result for each scored document of its version,
\* on that version's example, and totals that count them; and its verdicts stay
\* explained, whatever later runs do to the examples: the one a result points to is
\* in the table and still expects what the result was judged by.
RunsAreWhole ==
    \A r \in runs :
        LET of == {x \in results : x.run = r.id} IN
        /\ {x.example.external_ref : x \in of} = Scored(r.version)
        /\ \A x \in of :
              /\ x.example.version = r.version /\ x.example \in examples
              /\ x.passed <=> x.actual = x.example.expected
        /\ r.total = Cardinality(of) /\ r.total = Cardinality(Scored(r.version))
        /\ r.passed = Cardinality({x \in of : x.passed})

\* However many jobs record for the first time at once, a version has one
\* dataset row and one example for each of its scored documents.
OneExamplePerDocument ==
    \A v \in Versions :
        /\ Cardinality({d \in datasets : d.version = v}) <= 1
        /\ \A d \in Documents :
              Cardinality({x \in examples : x.version = v /\ x.external_ref = d})
                = IF d \in Scored(v) /\ \E s \in datasets : s.version = v THEN 1 ELSE 0
=============================================================================

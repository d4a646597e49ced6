---------------------------- MODULE EvaluationProofs ----------------------------
(***************************************************************************)
(* The evaluation harness for any number of jobs, revisions, scenarios and *)
(* documents. The invariant follows a job through its labelled set:        *)
(* `Standing' says where it is, `Scoring' what it has scored by then, and  *)
(* `Datasets' and `Examples' what the recording of others leaves it.       *)
(***************************************************************************)
EXTENDS Evaluation, FiniteSetTheorems, TLAPS

AtWork(w) == stage[w] \in {"running", "absent", "present"}

Labelled(w) == Scenarios[VersionOf(w)]

\* The places of the labelled set a job has behind it.
Behind(w, i, k) ==
    \/ i < at[w].scenario
    \/ i = at[w].scenario /\ k < at[w].document

\* A job that is not at work holds nothing, and between scenarios none holds events.
Holding(w) ==
    /\ stage[w] \in {"idle", "over"} => made[w] = {}
    /\ at[w].document = 1 => made[w] = {}
    /\ stage[w] = "idle" => outcomes[w] = <<>> /\ at[w] = [scenario |-> 1, document |-> 1]
    /\ stage[w] # "present" => owned[w] = {}
    /\ stage[w] = "present" => owned[w] \subseteq {VersionOf(w)}

\* A job is at a document of its labelled set or past the last one.
Standing(w) ==
    /\ at[w].scenario \in 1 .. Len(Labelled(w)) =>
          at[w].document \in 1 .. Len(Labelled(w)[at[w].scenario].documents)
    /\ at[w].scenario > Len(Labelled(w)) => at[w].document = 1
    /\ stage[w] # "running" => at[w].scenario > Len(Labelled(w))

\* What a job has scored are the documents behind it, each once.
Scoring(w) ==
    /\ \A n \in DOMAIN outcomes[w] :
          \E i \in DOMAIN Labelled(w) : \E k \in DOMAIN Labelled(w)[i].documents :
              Behind(w, i, k) /\ outcomes[w][n].document = Labelled(w)[i].documents[k]
    /\ \A i \in DOMAIN Labelled(w) : \A k \in DOMAIN Labelled(w)[i].documents :
          Behind(w, i, k) /\ Labelled(w)[i].documents[k] \notin Setup =>
              \E n \in DOMAIN outcomes[w] :
                  outcomes[w][n].document = Labelled(w)[i].documents[k]
    /\ \A m, n \in DOMAIN outcomes[w] :
          outcomes[w][m].document = outcomes[w][n].document => m = n

\* A dataset row somebody has inserted is nobody else's and not committed; who goes on
\* to record has one.
Datasets ==
    /\ \A w \in Jobs : \A v \in owned[w] : \A d \in datasets : d.version # v
    /\ \A u, w \in Jobs : u # w => owned[u] \cap owned[w] = {}
    /\ \A w \in Jobs : stage[w] = "present" /\ owned[w] = {} => Taken(w)
    /\ \A c, d \in datasets : c.version = d.version => c = d

\* The examples of a version are its scored documents, each once, with what is expected.
Examples ==
    /\ \A x \in examples :
          /\ x.expected = Expected[x.external_ref]
          /\ x.external_ref \in Scored(x.version)
          /\ \E d \in datasets : d.version = x.version
    /\ \A x, y \in examples :
          x.version = y.version /\ x.external_ref = y.external_ref => x = y
    /\ \A d \in datasets : \A r \in Scored(d.version) :
          \E x \in examples : x.version = d.version /\ x.external_ref = r

\* Only a job that is over has recorded a run.
Recorded ==
    /\ \A r \in runs : stage[r.id] = "over"
    /\ \A x \in results : stage[x.run] = "over"

EvalInv ==
    /\ EvaluationTypeOK
    /\ NothingSyntheticStays
    /\ \A w \in Jobs : Holding(w)
    /\ \A w \in Jobs : AtWork(w) => Standing(w) /\ Scoring(w)
    /\ Datasets
    /\ Examples
    /\ Recorded
    /\ RunsAreWhole

-----------------------------------------------------------------------------
(* The labelled set and the start *)

LEMMA LabelledSet ==
    ASSUME NEW v \in Versions
    PROVE  /\ DOMAIN Scenarios[v] = 1 .. Len(Scenarios[v]) /\ Len(Scenarios[v]) \in Nat
           /\ \A i \in DOMAIN Scenarios[v] :
                 /\ Scenarios[v][i].same_cluster \in BOOLEAN
                 /\ Len(Scenarios[v][i].documents) \in Nat \ {0}
                 /\ DOMAIN Scenarios[v][i].documents = 1 .. Len(Scenarios[v][i].documents)
                 /\ \A k \in DOMAIN Scenarios[v][i].documents :
                       Scenarios[v][i].documents[k] \in Documents
<1>1. Scenarios[v] \in Seq([same_cluster : BOOLEAN, documents : Seq(Documents) \ {<<>>}])
  BY ScenariosAssumption
<1>2. DOMAIN Scenarios[v] = 1 .. Len(Scenarios[v]) /\ Len(Scenarios[v]) \in Nat
  BY <1>1
<1>3. ASSUME NEW i \in DOMAIN Scenarios[v]
      PROVE  /\ Scenarios[v][i].same_cluster \in BOOLEAN
             /\ Scenarios[v][i].documents \in Seq(Documents)
             /\ Scenarios[v][i].documents # <<>>
  <2> DEFINE Scenario0 == [same_cluster : BOOLEAN, documents : Seq(Documents) \ {<<>>}]
  <2>1. ASSUME NEW T, NEW s \in Seq(T), NEW n \in DOMAIN s
        PROVE  s[n] \in T
    BY <2>1
  <2>2. Scenarios[v][i] \in Scenario0
    BY <1>1, <1>3, <2>1
  <2>3. QED
    BY <2>2
<1>4. ASSUME NEW docs \in Seq(Documents), docs # <<>>
      PROVE  /\ Len(docs) \in Nat \ {0} /\ DOMAIN docs = 1 .. Len(docs)
             /\ \A k \in DOMAIN docs : docs[k] \in Documents
  BY <1>4
<1>5. QED
  BY <1>2, <1>3, <1>4

\* What a version scores, place by place.
LEMMA ScoredPlaces ==
    ASSUME NEW v \in Versions
    PROVE  /\ Scored(v) \subseteq Documents \ Setup
           /\ \A d : d \in Scored(v) <=>
                 /\ d \notin Setup
                 /\ \E i \in DOMAIN Scenarios[v] : \E k \in DOMAIN Scenarios[v][i].documents :
                       d = Scenarios[v][i].documents[k]
<1>1. ASSUME NEW f, NEW d
      PROVE  d \in Range(f) <=> \E k \in DOMAIN f : d = f[k]
  BY Zenon DEF Range
<1>2. \A i \in DOMAIN Scenarios[v] : \A d \in Range(Scenarios[v][i].documents) :
          d \in Documents
  BY <1>1, LabelledSet
<1>3. ASSUME NEW d
      PROVE  d \in Scored(v) <=>
                 /\ d \notin Setup
                 /\ \E i \in DOMAIN Scenarios[v] : \E k \in DOMAIN Scenarios[v][i].documents :
                       d = Scenarios[v][i].documents[k]
  <2>1. d \in Scored(v) <=>
           d \notin Setup /\ \E i \in DOMAIN Scenarios[v] : d \in Range(Scenarios[v][i].documents)
    BY <1>2 DEF Scored
  <2>2. QED
    BY <1>1, <2>1
<1>4. QED
  BY <1>3 DEF Scored

\* Whatever a job works on has a version.
LEMMA VersionTyped ==
    ASSUME EvaluationTypeOK, NEW w \in Jobs, AtWork(w)
    PROVE  job[w] \in Job /\ VersionOf(w) \in Versions /\ Labelled(w) = Scenarios[VersionOf(w)]
<1>1. job[w] \in Job
  BY DEF EvaluationTypeOK, AtWork
<1>2. QED
  BY <1>1 DEF Job, VersionOf, Versions, Labelled

LEMMA StartsInv == Init => EvalInv
<1> SUFFICES ASSUME Init
             PROVE  EvalInv
  OBVIOUS
<1>1. EvaluationTypeOK
  <2>1. <<>> \in Seq(Outcome) /\ [scenario |-> 1, document |-> 1] \in Place
    BY DEF Place
  <2>2. 0 \in 0 .. MaxReports
    BY ReportsAssumption
  <2>3. QED
    BY <2>1, <2>2 DEF Init, EvaluationTypeOK
<1>2. /\ \A w \in Jobs : ~AtWork(w) /\ Holding(w)
  BY DEF Init, AtWork, Holding
<1>3. /\ NothingSyntheticStays /\ Datasets /\ Examples /\ Recorded /\ RunsAreWhole
  BY DEF Init, NothingSyntheticStays, Datasets, Examples, Recorded, RunsAreWhole
<1>4. QED
  BY <1>1, <1>2, <1>3 DEF EvalInv

\* What a job has to do with itself stays true while others move.
LEMMA JobFrame ==
    ASSUME NEW u \in Jobs, job'[u] = job[u], stage'[u] = stage[u], at'[u] = at[u],
           made'[u] = made[u], outcomes'[u] = outcomes[u], owned'[u] = owned[u]
    PROVE  /\ VersionOf(u)' = VersionOf(u) /\ Labelled(u)' = Labelled(u)
           /\ AtWork(u)' = AtWork(u)
           /\ Holding(u) => Holding(u)'
           /\ Standing(u) => Standing(u)'
           /\ Scoring(u) => Scoring(u)'
<1>1. VersionOf(u)' = VersionOf(u) /\ Labelled(u)' = Labelled(u)
  BY DEF VersionOf, Labelled
<1>2. AtWork(u)' = AtWork(u)
  BY DEF AtWork
<1>3. Holding(u) => Holding(u)'
  BY <1>1 DEF Holding
<1>4. Standing(u) => Standing(u)'
  BY <1>1 DEF Standing
<1>5. Scoring(u) => Scoring(u)'
  BY <1>1 DEF Scoring, Behind
<1>6. QED
  BY <1>1, <1>2, <1>3, <1>4, <1>5

\* So only the job that moves has to be looked at, as long as the tables stay.
LEMMA MoveInv ==
    ASSUME EvalInv, NEW w \in Jobs, UNCHANGED table, EvaluationTypeOK',
           stage[w] # "over", Holding(w)', AtWork(w)' => Standing(w)' /\ Scoring(w)',
           \A u \in Jobs \ {w} :
               /\ job'[u] = job[u] /\ stage'[u] = stage[u] /\ at'[u] = at[u]
               /\ made'[u] = made[u] /\ outcomes'[u] = outcomes[u] /\ owned'[u] = owned[u],
           \A v \in owned'[w] : /\ \A d \in datasets : d.version # v
                                /\ \A u \in Jobs \ {w} : v \notin owned[u],
           stage'[w] = "present" /\ owned'[w] = {} => Taken(w)'
    PROVE  EvalInv'
<1>1. \A u \in Jobs : Holding(u)'
  BY JobFrame DEF EvalInv
<1>2. \A u \in Jobs : AtWork(u)' => Standing(u)' /\ Scoring(u)'
  BY JobFrame DEF EvalInv
<1>3. Datasets'
  <2>1. \A u \in Jobs \ {w} : Taken(u)' = Taken(u)
    BY JobFrame DEF Taken, table
  <2>2. QED
    BY <2>1 DEF EvalInv, Datasets, table
<1>4. /\ NothingSyntheticStays' /\ Examples' /\ RunsAreWhole'
  <2>1. NothingSyntheticStays'
    BY DEF EvalInv, NothingSyntheticStays, table
  <2>2. Examples'
    BY DEF EvalInv, Examples, table
  <2>3. RunsAreWhole'
    <3>1. runs' = runs /\ results' = results /\ examples' = examples
      BY DEF table
    <3>2. RunsAreWhole
      BY DEF EvalInv
    <3>3. QED
      BY <3>1, <3>2 DEF RunsAreWhole
  <2>4. QED
    BY <2>1, <2>2, <2>3
<1>5. Recorded'
  <2>1. /\ \A r \in runs : r.id \in Jobs
        /\ \A x \in results : x.run \in Jobs
    BY DEF EvalInv, EvaluationTypeOK, EvaluationRun, EvaluationResult
  <2>2. QED
    BY <2>1 DEF EvalInv, Recorded, table
<1>6. QED
  BY <1>1, <1>2, <1>3, <1>4, <1>5 DEF EvalInv

-----------------------------------------------------------------------------
(* Running *)

LEMMA StartInv ==
    ASSUME EvalInv, NEW w \in Jobs, Start(w)
    PROVE  EvalInv'
<1>1. PICK j \in Job : job' = [job EXCEPT ![w] = j]
  BY DEF Start
<1>2. /\ stage[w] = "idle" /\ stage' = [stage EXCEPT ![w] = "running"]
      /\ UNCHANGED <<table, at, made, outcomes, owned, verdict, reports>>
  BY DEF Start
<1>3. EvaluationTypeOK /\ Holding(w)
  BY DEF EvalInv
<1>4. EvaluationTypeOK'
  BY <1>1, <1>2, <1>3, NoJobAssumption DEF EvaluationTypeOK, table
<1>5. /\ job'[w] = j /\ stage'[w] = "running" /\ AtWork(w)'
      /\ \A u \in Jobs \ {w} : job'[u] = job[u] /\ stage'[u] = stage[u]
      /\ at'[w] = [scenario |-> 1, document |-> 1] /\ outcomes'[w] = <<>>
      /\ made'[w] = {} /\ owned'[w] = {}
  BY <1>1, <1>2, <1>3 DEF EvaluationTypeOK, AtWork, Holding
<1>6. Holding(w)'
  BY <1>5 DEF Holding
<1>7. Version[j.revision] \in Versions /\ Labelled(w)' = Scenarios[Version[j.revision]]
  BY <1>5 DEF Job, Versions, Labelled, VersionOf
<1>8. Standing(w)' /\ Scoring(w)'
  <2> DEFINE set == Scenarios[Version[j.revision]]
  <2>1. /\ Len(set) \in Nat /\ DOMAIN set = 1 .. Len(set)
        /\ \A i \in DOMAIN set : /\ Len(set[i].documents) \in Nat \ {0}
                                /\ DOMAIN set[i].documents = 1 .. Len(set[i].documents)
    BY <1>7, LabelledSet
  <2> HIDE DEF set
  <2>2. Labelled(w)' = set
    BY <1>7 DEF set
  <2>3. at'[w].scenario = 1 /\ at'[w].document = 1
    BY <1>5
  <2>4. Standing(w)'
    BY <1>5, <2>1, <2>2, <2>3 DEF Standing
  <2>5. \A i \in DOMAIN set : \A k \in DOMAIN set[i].documents : ~Behind(w, i, k)'
    BY <2>1, <2>3 DEF Behind
  <2>6. Scoring(w)'
    BY <1>5, <2>2, <2>5 DEF Scoring
  <2>7. QED
    BY <2>4, <2>6
<1>9. QED
  BY <1>2, <1>4, <1>5, <1>6, <1>8, MoveInv

\* A job that has its outcome ends with nothing in hand.
LEMMA EndsInv ==
    ASSUME EvalInv, NEW w \in Jobs, NEW code \in {"raised", "success", "failure"},
           Ends(w, code), AtWork(w)
    PROVE  /\ stage' = [stage EXCEPT ![w] = "over"] /\ stage'[w] = "over" /\ owned'[w] = {}
           /\ \A u \in Jobs \ {w} :
                 /\ job'[u] = job[u] /\ stage'[u] = stage[u] /\ at'[u] = at[u]
                 /\ made'[u] = made[u] /\ outcomes'[u] = outcomes[u] /\ owned'[u] = owned[u]
           /\ \A u \in Jobs : Holding(u)'
           /\ \A u \in Jobs : AtWork(u)' => Standing(u)' /\ Scoring(u)'
           /\ job' \in [Jobs -> Job \cup {NoJob}]
           /\ stage' \in [Jobs -> {"idle", "running", "absent", "present", "over"}]
           /\ \A u \in Jobs :
                 stage'[u] \in {"running", "absent", "present"} => job'[u] # NoJob
           /\ at' \in [Jobs -> Place]
           /\ made' \in [Jobs -> SUBSET Event]
           /\ owned' \in [Jobs -> SUBSET Versions]
           /\ outcomes' \in [Jobs -> Seq(Outcome)]
           /\ verdict' \in [Jobs -> {"none", "raised", "success", "failure"}]
           /\ reports' \in 0 .. MaxReports
<1>1. EvaluationTypeOK
  BY DEF EvalInv
<1>2. /\ stage' = [stage EXCEPT ![w] = "over"]
      /\ verdict' = [verdict EXCEPT ![w] = code]
      /\ made' = [made EXCEPT ![w] = {}]
      /\ owned' = [owned EXCEPT ![w] = {}]
      /\ job' = job /\ at' = at /\ outcomes' = outcomes /\ reports' = reports
  BY DEF Ends
<1>3. /\ job' \in [Jobs -> Job \cup {NoJob}]
      /\ stage' \in [Jobs -> {"idle", "running", "absent", "present", "over"}]
      /\ \A u \in Jobs :
            stage'[u] \in {"running", "absent", "present"} => job'[u] # NoJob
      /\ at' \in [Jobs -> Place]
      /\ outcomes' \in [Jobs -> Seq(Outcome)]
      /\ reports' \in 0 .. MaxReports
  BY <1>1, <1>2 DEF EvaluationTypeOK
<1>4. /\ made' \in [Jobs -> SUBSET Event]
      /\ owned' \in [Jobs -> SUBSET Versions]
      /\ verdict' \in [Jobs -> {"none", "raised", "success", "failure"}]
  BY <1>1, <1>2 DEF EvaluationTypeOK
<1>5. /\ stage'[w] = "over" /\ owned'[w] = {} /\ made'[w] = {}
      /\ \A u \in Jobs \ {w} :
            /\ job'[u] = job[u] /\ stage'[u] = stage[u] /\ at'[u] = at[u]
            /\ made'[u] = made[u] /\ outcomes'[u] = outcomes[u] /\ owned'[u] = owned[u]
  BY <1>1, <1>2 DEF EvaluationTypeOK
<1>6. Holding(w)' /\ ~AtWork(w)'
  BY <1>5 DEF Holding, AtWork
<1>7. /\ \A u \in Jobs : Holding(u)'
      /\ \A u \in Jobs : AtWork(u)' => Standing(u)' /\ Scoring(u)'
  BY <1>5, <1>6, JobFrame DEF EvalInv
<1>8. QED
  BY <1>2, <1>3, <1>4, <1>5, <1>7

LEMMA RaisedInv ==
    ASSUME EvalInv, NEW w \in Jobs, AtWork(w), Ends(w, "raised"), UNCHANGED table
    PROVE  EvalInv'
<1>1. EvaluationTypeOK'
  BY EndsInv DEF EvalInv, EvaluationTypeOK, table
<1>2. /\ stage'[w] = "over" /\ owned'[w] = {}
      /\ \A u \in Jobs \ {w} :
            /\ job'[u] = job[u] /\ stage'[u] = stage[u] /\ at'[u] = at[u]
            /\ made'[u] = made[u] /\ outcomes'[u] = outcomes[u] /\ owned'[u] = owned[u]
      /\ Holding(w)' /\ ~AtWork(w)'
  BY EndsInv DEF AtWork
<1>3. stage[w] # "over"
  BY DEF AtWork
<1>4. QED
  BY <1>1, <1>2, <1>3, MoveInv

-----------------------------------------------------------------------------
(* One document *)

\* What a document leaves in the transaction are events.
LEMMA ProcessedTyped ==
    ASSUME EvaluationTypeOK, NEW w \in Jobs, AtWork(w), Current(w) \in Documents,
           Scenario(w).same_cluster \in BOOLEAN,
           NEW says \in Extracted(w)
    PROVE  /\ Processed(w, says) \in SUBSET Event
           /\ Relation(w, says) \in Relations \cup {"wrong"}
<1>1. says \in Contents \cup {"background"}
  BY DocumentsAssumption DEF Extracted
<1>2. ClusterOf(w) \in {"same", "real"} \cup Documents
  BY DEF ClusterOf
<1>3. Relation(w, says) \in Relations \cup {"wrong"}
  BY DEF Relation, Relations
<1>4. Relation(w, says) \in {"new_event", "update"} => says \in Contents
  BY <1>1 DEF Relation
<1>5. made[w] \in SUBSET Event
  BY DEF EvaluationTypeOK
<1>6. says \in Contents => [cluster |-> ClusterOf(w), says |-> says] \in Event
  BY <1>2 DEF Event
<1>7. Processed(w, says) \in SUBSET Event
  BY <1>4, <1>5, <1>6 DEF Processed
<1>8. QED
  BY <1>3, <1>7

LEMMA ProcessDocumentInv ==
    ASSUME EvalInv, NEW w \in Jobs, ProcessDocument(w)
    PROVE  EvalInv'
<1>1. /\ stage[w] = "running" /\ AtWork(w) /\ EvaluationTypeOK
      /\ Holding(w) /\ Standing(w) /\ Scoring(w)
      /\ at[w].scenario <= Len(Labelled(w))
  BY DEF ProcessDocument, EvalInv, AtWork, Labelled
<1> DEFINE set == Labelled(w)
           s == at[w].scenario
           d == at[w].document
           docs == set[s].documents
<1>2. /\ VersionOf(w) \in Versions /\ set = Scenarios[VersionOf(w)]
      /\ job[w] \in Job
  BY <1>1, VersionTyped
<1>3. /\ Len(set) \in Nat /\ DOMAIN set = 1 .. Len(set)
      /\ \A i \in DOMAIN set :
            /\ set[i].same_cluster \in BOOLEAN
            /\ Len(set[i].documents) \in Nat \ {0}
            /\ DOMAIN set[i].documents = 1 .. Len(set[i].documents)
            /\ \A k \in DOMAIN set[i].documents : set[i].documents[k] \in Documents
  BY <1>2, LabelledSet
<1>4. at[w] \in Place /\ s \in Nat \ {0} /\ d \in Nat \ {0}
      /\ at[w] = [scenario |-> s, document |-> d]
  BY <1>1 DEF EvaluationTypeOK, Place
<1>5. s \in 1 .. Len(set) /\ d \in 1 .. Len(docs) /\ Len(docs) \in Nat \ {0}
  BY <1>1, <1>3, <1>4 DEF Standing
<1>6. /\ Scenario(w) = set[s] /\ Current(w) = docs[d] /\ Current(w) \in Documents
      /\ Scenario(w).same_cluster \in BOOLEAN
      /\ LastDocument(w) <=> d = Len(docs)
  BY <1>2, <1>3, <1>5 DEF Scenario, Current, LastDocument
<1>7. PICK says \in Extracted(w) :
          /\ outcomes' = [outcomes EXCEPT ![w] = Score(w, says)]
          /\ made' = [made EXCEPT ![w] =
                IF LastDocument(w) THEN AfterScenario(w, Processed(w, says))
                ELSE Processed(w, says)]
  BY DEF ProcessDocument
<1>8. /\ at' = [at EXCEPT ![w] =
            IF LastDocument(w) THEN [scenario |-> @.scenario + 1, document |-> 1]
            ELSE [scenario |-> @.scenario, document |-> @.document + 1]]
      /\ UNCHANGED <<table, job, stage, owned, verdict, reports>>
  BY DEF ProcessDocument
<1> DEFINE next == IF d = Len(docs) THEN [scenario |-> s + 1, document |-> 1]
                   ELSE [scenario |-> s, document |-> d + 1]
<1>9. at' = [at EXCEPT ![w] = next] /\ next \in Place
  <2>1. next \in Place
    BY <1>4, <1>5 DEF Place
  <2>2. QED
    BY <1>6, <1>8, <2>1
<1>10. /\ Processed(w, says) \in SUBSET Event
       /\ Relation(w, says) \in Relations \cup {"wrong"}
  BY <1>1, <1>6, ProcessedTyped
<1> DEFINE o == [document |-> docs[d], actual |-> Relation(w, says)]
           old == outcomes[w]
<1>11. old \in Seq(Outcome) /\ (docs[d] \notin Setup => o \in Outcome)
  BY <1>1, <1>6, <1>10 DEF EvaluationTypeOK, Outcome
<1>12. Score(w, says) = IF docs[d] \in Setup THEN old ELSE Append(old, o)
  BY <1>6 DEF Score
<1>13. EvaluationTypeOK'
  <2>1. outcomes' \in [Jobs -> Seq(Outcome)]
    BY <1>1, <1>7, <1>11, <1>12 DEF EvaluationTypeOK
  <2>2. made' \in [Jobs -> SUBSET Event]
    BY <1>1, <1>7, <1>10 DEF EvaluationTypeOK, AfterScenario
  <2>3. at' \in [Jobs -> Place]
    BY <1>1, <1>9 DEF EvaluationTypeOK
  <2>4. QED
    BY <1>1, <1>8, <2>1, <2>2, <2>3 DEF EvaluationTypeOK, table
<1>14. /\ at'[w] = next /\ outcomes'[w] = Score(w, says)
       /\ made'[w] = IF d = Len(docs) THEN {} ELSE Processed(w, says)
       /\ job' = job /\ stage' = stage /\ owned' = owned
       /\ \A u \in Jobs \ {w} :
             at'[u] = at[u] /\ made'[u] = made[u] /\ outcomes'[u] = outcomes[u]
  BY <1>1, <1>6, <1>7, <1>8, <1>9 DEF EvaluationTypeOK, AfterScenario
<1>15. Labelled(w)' = set /\ VersionOf(w)' = VersionOf(w)
  BY <1>14 DEF Labelled, VersionOf
<1>16. Holding(w)'
  <2>1. next.document = 1 => d = Len(docs)
    BY <1>4
  <2>2. QED
    BY <1>1, <1>14, <1>15, <2>1 DEF Holding
<1>17. Standing(w)'
  <2>1. CASE d = Len(docs)
    <3>1. at'[w].scenario = s + 1 /\ at'[w].document = 1
      BY <1>14, <2>1
    <3> HIDE DEF next, docs
    <3>2. s + 1 \in 1 .. Len(set) => Len(set[s + 1].documents) \in Nat \ {0}
      BY <1>3
    <3> HIDE DEF set, s, d
    <3>3. QED
      BY <1>1, <1>14, <1>15, <3>1, <3>2 DEF Standing
  <2>2. CASE d # Len(docs)
    <3>1. at'[w].scenario = s /\ at'[w].document = d + 1 /\ d + 1 \in 1 .. Len(docs)
      BY <1>5, <1>14, <2>2
    <3>2. ~(s > Len(set)) /\ stage'[w] = "running"
      BY <1>1, <1>3, <1>5, <1>14
    <3>3. QED
      BY <1>15, <3>1, <3>2 DEF Standing
  <2>3. QED
    BY <2>1, <2>2
<1>18. ASSUME NEW i \in DOMAIN set, NEW k \in DOMAIN set[i].documents
       PROVE  Behind(w, i, k)' <=> Behind(w, i, k) \/ (i = s /\ k = d)
  <2>1. i \in Nat /\ k \in Nat /\ (i = s => k <= Len(docs))
    BY <1>3
  <2>2. Behind(w, i, k) <=> i < s \/ (i = s /\ k < d)
    BY DEF Behind
  <2>3. Behind(w, i, k)' <=> i < next.scenario \/ (i = next.scenario /\ k < next.document)
    BY <1>14 DEF Behind
  <2>4. k \in 1 .. Len(set[i].documents)
    BY <1>3
  <2>5. CASE d = Len(docs)
    <3>1. Behind(w, i, k)' <=> i < s + 1 \/ (i = s + 1 /\ k < 1)
      BY <2>3, <2>5
    <3> HIDE DEF set, s, d, docs
    <3>2. QED
      BY <1>4, <1>5, <2>1, <2>2, <2>4, <2>5, <3>1
  <2>6. CASE d # Len(docs)
    <3>1. Behind(w, i, k)' <=> i < s \/ (i = s /\ k < d + 1)
      BY <2>3, <2>6
    <3> HIDE DEF set, s, d, docs
    <3>2. QED
      BY <1>4, <1>5, <2>1, <2>2, <3>1
  <2>7. QED
    BY <2>5, <2>6
<1>19. Scoring(w)'
  <2> DEFINE new == outcomes'[w]
  <2>1. s \in DOMAIN set /\ d \in DOMAIN set[s].documents
    BY <1>3, <1>5
  <2>2. /\ ~Behind(w, s, d)
        /\ \E i \in DOMAIN set : \E k \in DOMAIN set[i].documents :
              i = s /\ k = d /\ Behind(w, i, k)'
    BY <1>4, <1>18, <2>1 DEF Behind
  <2>3. ASSUME docs[d] \notin Setup, NEW n \in DOMAIN old
        PROVE  old[n].document # docs[d]
    <3>1. PICK i \in DOMAIN set : \E k \in DOMAIN set[i].documents :
              Behind(w, i, k) /\ old[n].document = set[i].documents[k]
      BY <1>1, <2>3 DEF Scoring
    <3>2. PICK k \in DOMAIN set[i].documents :
              Behind(w, i, k) /\ old[n].document = set[i].documents[k]
      BY <3>1
    <3>3. set[s].documents[d] = set[i].documents[k] => s = i /\ d = k
      BY <1>2, <2>1, <2>3, KeysAssumption
    <3>4. QED
      BY <2>2, <3>2, <3>3
  <2>4. CASE docs[d] \in Setup
    <3>1. new = old
      BY <1>12, <1>14, <2>4
    <3>2. QED
      BY <1>1, <1>15, <1>18, <2>4, <3>1 DEF Scoring
  <2>5. CASE docs[d] \notin Setup
    <3>1. new = Append(old, o)
      BY <1>12, <1>14, <2>5
    <3>2. /\ DOMAIN old = 1 .. Len(old) /\ Len(old) \in Nat
          /\ DOMAIN new = 1 .. Len(old) + 1
          /\ \A n \in DOMAIN old : n \in DOMAIN new /\ new[n] = old[n]
          /\ new[Len(old) + 1].document = docs[d]
      <4>1. o \in Outcome
        BY <1>11, <2>5
      <4> HIDE DEF o, new
      <4>2. /\ DOMAIN old = 1 .. Len(old) /\ Len(old) \in Nat
            /\ DOMAIN new = 1 .. Len(old) + 1
            /\ \A n \in DOMAIN old : n \in DOMAIN new /\ new[n] = old[n]
            /\ new[Len(old) + 1] = o
        BY <1>11, <3>1, <4>1
      <4>3. QED
        BY <4>2 DEF o
    <3>3. \A n \in DOMAIN new : n \in DOMAIN old \/ n = Len(old) + 1
      BY <3>2
    <3> HIDE DEF new, old, set, s, d, docs, o
    <3>4. /\ \A n \in DOMAIN old :
               \E i \in DOMAIN set : \E k \in DOMAIN set[i].documents :
                   Behind(w, i, k) /\ old[n].document = set[i].documents[k]
          /\ \A i \in DOMAIN set : \A k \in DOMAIN set[i].documents :
                Behind(w, i, k) /\ set[i].documents[k] \notin Setup =>
                    \E n \in DOMAIN old : old[n].document = set[i].documents[k]
          /\ \A m, n \in DOMAIN old : old[m].document = old[n].document => m = n
      BY <1>1 DEF Scoring, set, old
    <3>5. docs = set[s].documents
      BY DEF docs
    <3>6. \A n \in DOMAIN new :
             \E i \in DOMAIN set : \E k \in DOMAIN set[i].documents :
                 Behind(w, i, k)' /\ new[n].document = set[i].documents[k]
      <4>1. ASSUME NEW n \in DOMAIN old
            PROVE  \E i \in DOMAIN set : \E k \in DOMAIN set[i].documents :
                       Behind(w, i, k)' /\ new[n].document = set[i].documents[k]
        BY <1>18, <3>2, <3>4
      <4>2. \E i \in DOMAIN set : \E k \in DOMAIN set[i].documents :
                Behind(w, i, k)' /\ new[Len(old) + 1].document = set[i].documents[k]
        BY <2>2, <3>2, <3>5
      <4>3. QED
        BY <3>3, <4>1, <4>2
    <3>7. \A i \in DOMAIN set : \A k \in DOMAIN set[i].documents :
             Behind(w, i, k)' /\ set[i].documents[k] \notin Setup =>
                 \E n \in DOMAIN new : new[n].document = set[i].documents[k]
      <4>1. ASSUME NEW i \in DOMAIN set, NEW k \in DOMAIN set[i].documents,
                   Behind(w, i, k), set[i].documents[k] \notin Setup
            PROVE  \E n \in DOMAIN new : new[n].document = set[i].documents[k]
        BY <3>2, <3>4, <4>1
      <4>2. Len(old) + 1 \in DOMAIN new
        BY <3>2
      <4>3. QED
        BY <1>18, <3>2, <3>5, <4>1, <4>2
    <3>8. \A m, n \in DOMAIN new : new[m].document = new[n].document => m = n
      BY <2>3, <2>5, <3>2, <3>3, <3>4
    <3>9. QED
      BY <1>15, <3>6, <3>7, <3>8 DEF Scoring, new
  <2>6. QED
    BY <2>4, <2>5
<1>20. owned'[w] = {} /\ stage'[w] = "running"
  BY <1>1, <1>14 DEF Holding
<1>21. QED
  BY <1>1, <1>8, <1>13, <1>14, <1>16, <1>17, <1>19, <1>20, MoveInv

-----------------------------------------------------------------------------
(* Recording *)

\* Looking for the row and inserting it move the job only.
LEMMA StageMoves ==
    ASSUME EvalInv, NEW w \in Jobs, AtWork(w),
           NEW stg \in {"absent", "present"}, stage' = [stage EXCEPT ![w] = stg],
           at[w].scenario > Len(Labelled(w)),
           NEW own \in SUBSET {VersionOf(w)}, owned' = [owned EXCEPT ![w] = own],
           own # {} => stg = "present" /\ ~Taken(w)
                          /\ \A v \in Jobs \ {w} : VersionOf(w) \notin owned[v],
           own = {} /\ stg = "present" => Taken(w),
           UNCHANGED <<table, job, at, made, outcomes, verdict, reports>>
    PROVE  EvalInv'
<1>1. EvaluationTypeOK /\ Holding(w) /\ Standing(w) /\ Scoring(w)
  BY DEF EvalInv
<1>2. job[w] \in Job /\ VersionOf(w) \in Versions
  BY <1>1, VersionTyped
<1>3. EvaluationTypeOK'
  <2>1. /\ stage' \in [Jobs -> {"idle", "running", "absent", "present", "over"}]
        /\ owned' \in [Jobs -> SUBSET Versions]
    BY <1>1, <1>2 DEF EvaluationTypeOK
  <2>2. \A u \in Jobs : stage'[u] \in {"running", "absent", "present"} => job'[u] # NoJob
    BY <1>1 DEF EvaluationTypeOK, AtWork
  <2>3. QED
    BY <1>1, <2>1, <2>2 DEF EvaluationTypeOK, table
<1>4. /\ stage'[w] = stg /\ owned'[w] = own
      /\ \A u \in Jobs \ {w} : stage'[u] = stage[u] /\ owned'[u] = owned[u]
  BY <1>1 DEF EvaluationTypeOK
<1>5. VersionOf(w)' = VersionOf(w) /\ Labelled(w)' = Labelled(w) /\ Taken(w)' = Taken(w)
  BY DEF VersionOf, Labelled, Taken, table
<1>6. Holding(w)'
  BY <1>1, <1>4, <1>5 DEF Holding
<1>7. Standing(w)' /\ Scoring(w)'
  <2>1. Standing(w)'
    BY <1>1, <1>5 DEF Standing
  <2>2. Scoring(w)'
    BY <1>1, <1>5 DEF Scoring, Behind
  <2>3. QED
    BY <2>1, <2>2
<1>8. \A v \in owned'[w] : /\ \A d \in datasets : d.version # v
                           /\ \A u \in Jobs \ {w} : v \notin owned[u]
  BY <1>4 DEF Taken
<1>9. stage[w] # "over"
  BY DEF AtWork
<1>10. QED
  BY <1>3, <1>4, <1>5, <1>6, <1>7, <1>8, <1>9, MoveInv

LEMMA LookForDatasetInv ==
    ASSUME EvalInv, NEW w \in Jobs, LookForDataset(w)
    PROVE  EvalInv'
<1> DEFINE stg == IF \E d \in datasets : d.version = VersionOf(w) THEN "present" ELSE "absent"
<1>1. /\ AtWork(w) /\ at[w].scenario > Len(Labelled(w))
      /\ stage' = [stage EXCEPT ![w] = stg] /\ stg \in {"absent", "present"}
      /\ UNCHANGED <<table, job, at, made, outcomes, owned, verdict, reports>>
  BY DEF LookForDataset, AtWork, AllRun, Labelled
<1>2. owned[w] = {} /\ owned \in [Jobs -> SUBSET Versions]
  BY DEF LookForDataset, EvalInv, Holding, EvaluationTypeOK
<1>3. owned' = [owned EXCEPT ![w] = {}]
  BY <1>1, <1>2
<1>4. stg = "present" => Taken(w)
  BY DEF Taken
<1> HIDE DEF stg
<1>5. {} \in SUBSET {VersionOf(w)}
  OBVIOUS
<1>6. QED
  BY <1>1, <1>3, <1>4, <1>5, StageMoves

LEMMA InsertDatasetInv ==
    ASSUME EvalInv, NEW w \in Jobs, InsertDataset(w)
    PROVE  EvalInv'
<1>1. /\ AtWork(w) /\ stage[w] = "absent"
      /\ stage' = [stage EXCEPT ![w] = "present"]
      /\ owned' = [owned EXCEPT ![w] = {VersionOf(w)}] /\ ~Taken(w)
      /\ \A v \in Jobs \ {w} : VersionOf(w) \notin owned[v]
      /\ UNCHANGED <<table, job, at, made, outcomes, verdict, reports>>
  BY DEF InsertDataset, AtWork
<1>2. at[w].scenario > Len(Labelled(w))
  BY <1>1 DEF EvalInv, Standing
<1>3. {VersionOf(w)} \in SUBSET {VersionOf(w)} /\ {VersionOf(w)} # {}
  OBVIOUS
<1>4. QED
  BY <1>1, <1>2, <1>3, StageMoves

\* The row of a scored document after the refresh is the one it had, if it had one:
\* nothing an earlier result points to changes.
LEMMA SyncedRow ==
    ASSUME EvalInv, NEW w \in Jobs, AtWork(w), NEW d \in Scored(VersionOf(w))
    PROVE  /\ Synced(w, d) \in Example
           /\ Synced(w, d).version = VersionOf(w) /\ Synced(w, d).external_ref = d
           /\ Synced(w, d).expected = Expected[d]
           /\ \A x \in Found(w, d) : Synced(w, d) = x
<1>1. EvaluationTypeOK /\ VersionOf(w) \in Versions /\ d \in Documents
      /\ Expected[d] \in Relations
  BY VersionTyped, ScoredPlaces, DocumentsAssumption DEF EvalInv
<1>2. CASE Found(w, d) = {}
  BY <1>1, <1>2 DEF Synced, Example
<1>3. CASE Found(w, d) # {}
  <2> DEFINE x == CHOOSE x \in Found(w, d) : TRUE
  <2>1. x \in Found(w, d)
    BY <1>3
  <2> HIDE DEF x
  <2>2. /\ x \in Example /\ x.version = VersionOf(w) /\ x.external_ref = d
        /\ x.expected = Expected[d]
    BY <1>1, <2>1 DEF Found, EvaluationTypeOK, EvalInv, Examples
  <2>3. [x EXCEPT !.expected = Expected[d]] = x
    BY <2>2 DEF Example
  <2>4. Synced(w, d) = x
    BY <1>3, <2>3 DEF Synced, x
  <2>5. \A y \in Found(w, d) : y = x
    BY <2>1, <2>2 DEF Found, EvalInv, Examples
  <2>6. QED
    BY <2>2, <2>4, <2>5
<1>4. QED
  BY <1>2, <1>3

\* So recording only adds examples.
LEMMA SyncedExamples ==
    ASSUME EvalInv, NEW w \in Jobs, AtWork(w)
    PROVE  (examples \ Replaced(w)) \cup {Synced(w, d) : d \in Scored(VersionOf(w))}
             = examples \cup {Synced(w, d) : d \in Scored(VersionOf(w))}
<1>1. ASSUME NEW x \in Replaced(w)
      PROVE  x \in {Synced(w, d) : d \in Scored(VersionOf(w))}
  <2>1. PICK d \in Scored(VersionOf(w)) : x \in Found(w, d)
    BY <1>1 DEF Replaced
  <2>2. x = Synced(w, d)
    BY <2>1, SyncedRow
  <2>3. QED
    BY <2>1, <2>2
<1>2. QED
  BY <1>1

\* What a job has scored when it is past its labelled set is all there is to score.
LEMMA AllScored ==
    ASSUME EvalInv, NEW w \in Jobs, stage[w] = "present"
    PROVE  /\ outcomes[w] \in Seq(Outcome) /\ DOMAIN outcomes[w] = 1 .. Len(outcomes[w])
           /\ Len(outcomes[w]) \in Nat
           /\ \A n \in DOMAIN outcomes[w] :
                 outcomes[w][n] \in Outcome /\ outcomes[w][n].document \in Scored(VersionOf(w))
           /\ \A d \in Scored(VersionOf(w)) :
                 \E n \in DOMAIN outcomes[w] : outcomes[w][n].document = d
           /\ \A m, n \in DOMAIN outcomes[w] :
                 outcomes[w][m].document = outcomes[w][n].document => m = n
<1>1. AtWork(w) /\ EvaluationTypeOK /\ Standing(w) /\ Scoring(w)
  BY DEF AtWork, EvalInv
<1>2. VersionOf(w) \in Versions /\ Labelled(w) = Scenarios[VersionOf(w)]
  BY <1>1, VersionTyped
<1>3. outcomes[w] \in Seq(Outcome)
  BY <1>1 DEF EvaluationTypeOK
<1>4. /\ DOMAIN outcomes[w] = 1 .. Len(outcomes[w]) /\ Len(outcomes[w]) \in Nat
      /\ \A n \in DOMAIN outcomes[w] : outcomes[w][n] \in Outcome
  BY <1>3
<1>5. at[w].scenario > Len(Labelled(w)) /\ at[w].scenario \in Nat
  BY <1>1 DEF Standing, EvaluationTypeOK, Place
<1>6. \A i \in DOMAIN Labelled(w) : i < at[w].scenario
  BY <1>2, <1>5, LabelledSet
<1>7. ASSUME NEW n \in DOMAIN outcomes[w]
      PROVE  outcomes[w][n].document \in Scored(VersionOf(w))
  <2>1. outcomes[w][n].document \notin Setup
    BY <1>4, <1>7 DEF Outcome
  <2>2. \E i \in DOMAIN Labelled(w) : \E k \in DOMAIN Labelled(w)[i].documents :
            outcomes[w][n].document = Labelled(w)[i].documents[k]
    BY <1>1, <1>7 DEF Scoring
  <2>3. QED
    BY <1>2, <2>1, <2>2, ScoredPlaces
<1>8. ASSUME NEW d \in Scored(VersionOf(w))
      PROVE  \E n \in DOMAIN outcomes[w] : outcomes[w][n].document = d
  <2>1. d \notin Setup
    BY <1>2, <1>8, ScoredPlaces
  <2>2. \E i \in DOMAIN Labelled(w) : \E k \in DOMAIN Labelled(w)[i].documents :
            d = Labelled(w)[i].documents[k]
    BY <1>2, <1>8, ScoredPlaces
  <2>3. PICK i \in DOMAIN Labelled(w) : \E k \in DOMAIN Labelled(w)[i].documents :
            d = Labelled(w)[i].documents[k]
    BY <2>2
  <2>4. PICK k \in DOMAIN Labelled(w)[i].documents : d = Labelled(w)[i].documents[k]
    BY <2>3
  <2>5. Behind(w, i, k)
    BY <1>6 DEF Behind
  <2>6. QED
    BY <1>1, <2>1, <2>4, <2>5 DEF Scoring
<1>9. \A m, n \in DOMAIN outcomes[w] :
          outcomes[w][m].document = outcomes[w][n].document => m = n
  BY <1>1 DEF Scoring
<1>10. QED
  BY <1>3, <1>4, <1>7, <1>8, <1>9

\* Sets in step with each other count the same.
LEMMA SameCount ==
    ASSUME NEW S, NEW T, IsFiniteSet(S), NEW f, DOMAIN f = S,
           \A x \in S : f[x] \in T,
           \A y \in T : \E x \in S : f[x] = y,
           \A x, y \in S : f[x] = f[y] => x = y
    PROVE  Cardinality(T) = Cardinality(S) /\ Cardinality(S) \in Nat
<1> DEFINE g == [x \in S |-> f[x]]
<1>2. g \in Bijection(S, T)
  BY DEF Bijection, Injection, Surjection, IsInjective
<1>3. ExistsBijection(S, T)
  BY <1>2 DEF ExistsBijection
<1>4. QED
  BY <1>3, FS_Bijection, FS_CardinalityType

\* The tables after a run is recorded.
LEMMA RecordTables ==
    ASSUME EvalInv, NEW w \in Jobs, Record(w)
    PROVE  /\ AtWork(w) /\ stage[w] = "present" /\ made[w] = {} /\ feed' = feed
           /\ VersionOf(w) \in Versions
           /\ datasets' = datasets \cup [version : owned[w], by : {w}]
           /\ examples' = examples \cup {Synced(w, d) : d \in Scored(VersionOf(w))}
           /\ runs' = runs \cup {[id |-> w, version |-> VersionOf(w), total |-> Len(outcomes[w]),
                                  passed |-> Cardinality(Passed(outcomes[w]))]}
           /\ results' = results \cup
                {[run |-> w, example |-> Synced(w, o.document), passed |-> Passes(o),
                  actual |-> o.actual] : o \in Range(outcomes[w])}
           /\ Ends(w, ExitCode(w)) /\ ExitCode(w) \in {"success", "failure"}
<1>1. AtWork(w) /\ stage[w] = "present" /\ feed' = feed \cup made[w]
  BY DEF Record, AtWork
<1>2. at[w].document = 1
  BY <1>1 DEF EvalInv, Standing
<1>3. made[w] = {}
  BY <1>2 DEF EvalInv, Holding
<1>4. VersionOf(w) \in Versions
  BY <1>1, VersionTyped DEF EvalInv
<1>5. ExitCode(w) \in {"success", "failure"}
  BY DEF ExitCode
<1>6. QED
  BY <1>1, <1>3, <1>4, <1>5, SyncedExamples DEF Record

LEMMA RecordTyped ==
    ASSUME EvalInv, NEW w \in Jobs, Record(w)
    PROVE  EvaluationTypeOK'
<1>1. EvaluationTypeOK
  BY DEF EvalInv
<1>2. datasets' \subseteq [version : Versions, by : Jobs]
  BY <1>1, RecordTables DEF EvaluationTypeOK
<1>3. examples' \subseteq Example
  BY <1>1, RecordTables, SyncedRow DEF EvaluationTypeOK
<1>4. runs' \subseteq EvaluationRun
  <2>1. IsFiniteSet(Passed(outcomes[w])) /\ Len(outcomes[w]) \in Nat
    <3>1. Passed(outcomes[w]) \in SUBSET (1 .. Len(outcomes[w])) /\ Len(outcomes[w]) \in Nat
      BY RecordTables, AllScored DEF Passed
    <3>2. IsFiniteSet(1 .. Len(outcomes[w]))
      BY <3>1, FS_Interval
    <3>3. QED
      BY <3>1, <3>2, FS_Subset
  <2>2. Cardinality(Passed(outcomes[w])) \in Nat
    BY <2>1, FS_CardinalityType
  <2>3. QED
    BY <1>1, <2>1, <2>2, RecordTables DEF EvaluationTypeOK, EvaluationRun
<1>5. results' \subseteq EvaluationResult
  <2>1. ASSUME NEW n \in DOMAIN outcomes[w]
        PROVE  /\ outcomes[w][n].document \in Scored(VersionOf(w))
               /\ outcomes[w][n].actual \in Relations \cup {"wrong"}
    BY <2>1, RecordTables, AllScored DEF Outcome
  <2>2. \A o \in Range(outcomes[w]) : \E n \in DOMAIN outcomes[w] : o = outcomes[w][n]
    BY DEF Range
  <2>3. \A o \in Range(outcomes[w]) :
            /\ Synced(w, o.document) \in Example /\ o.actual \in Relations \cup {"wrong"}
            /\ Passes(o) \in BOOLEAN
    BY <2>1, <2>2, RecordTables, SyncedRow DEF Passes
  <2>4. \A o \in Range(outcomes[w]) :
            [run |-> w, example |-> Synced(w, o.document), passed |-> Passes(o),
             actual |-> o.actual] \in EvaluationResult
    BY <2>3 DEF EvaluationResult
  <2>5. results \subseteq EvaluationResult
    BY <1>1 DEF EvaluationTypeOK
  <2>6. QED
    BY <2>4, <2>5, RecordTables
<1>6. feed' \subseteq Event
  BY <1>1, RecordTables DEF EvaluationTypeOK
<1>7. QED
  BY <1>2, <1>3, <1>4, <1>5, <1>6, RecordTables, EndsInv DEF EvaluationTypeOK

LEMMA RecordDatasets ==
    ASSUME EvalInv, NEW w \in Jobs, Record(w)
    PROVE  /\ Datasets'
           /\ \E d \in datasets' : d.version = VersionOf(w)
           /\ \A d \in datasets' : d \in datasets \/ d.version = VersionOf(w)
<1>1. /\ stage[w] = "present" /\ datasets' = datasets \cup [version : owned[w], by : {w}]
      /\ owned[w] \subseteq {VersionOf(w)} /\ Datasets
  BY RecordTables DEF EvalInv, Holding
<1>2. /\ stage'[w] = "over" /\ owned'[w] = {}
      /\ \A u \in Jobs \ {w} : stage'[u] = stage[u] /\ owned'[u] = owned[u] /\ job'[u] = job[u]
  BY RecordTables, EndsInv
<1>3. \A u \in Jobs \ {w} : Taken(u) => Taken(u)'
  BY <1>1, <1>2 DEF Taken, VersionOf
<1>4. \A d \in datasets' : \/ d \in datasets
                           \/ d = [version |-> VersionOf(w), by |-> w] /\ VersionOf(w) \in owned[w]
  BY <1>1
<1>5. \A u \in Jobs : \A v \in owned'[u] : \A d \in datasets' : d.version # v
  BY <1>1, <1>2, <1>4 DEF Datasets
<1>6. \A t, u \in Jobs : t # u => owned'[t] \cap owned'[u] = {}
  BY <1>1, <1>2 DEF Datasets
<1>7. \A u \in Jobs : stage'[u] = "present" /\ owned'[u] = {} => Taken(u)'
  BY <1>1, <1>2, <1>3 DEF Datasets
<1>8. \A c, d \in datasets' : c.version = d.version => c = d
  BY <1>1, <1>4 DEF Datasets
<1>9. \E d \in datasets' : d.version = VersionOf(w)
  <2>1. CASE owned[w] = {}
    BY <1>1, <2>1 DEF Datasets, Taken
  <2>2. CASE owned[w] # {}
    <3>1. [version |-> VersionOf(w), by |-> w] \in datasets'
      BY <1>1, <2>2
    <3>2. QED
      BY <3>1
  <2>3. QED
    BY <2>1, <2>2
<1>10. Datasets'
  BY <1>5, <1>6, <1>7, <1>8 DEF Datasets
<1>11. QED
  BY <1>4, <1>9, <1>10

LEMMA RecordExamples ==
    ASSUME EvalInv, NEW w \in Jobs, Record(w)
    PROVE  Examples'
<1> DEFINE v == VersionOf(w)
<1>1. /\ examples' = examples \cup {Synced(w, d) : d \in Scored(v)} /\ AtWork(w) /\ Examples
      /\ datasets \subseteq datasets'
  BY RecordTables DEF EvalInv
<1>2. ASSUME NEW d \in Scored(v)
      PROVE  /\ Synced(w, d).version = v /\ Synced(w, d).external_ref = d
             /\ Synced(w, d).expected = Expected[d]
             /\ \A x \in examples : x.version = v /\ x.external_ref = d => x = Synced(w, d)
  BY <1>1, <1>2, SyncedRow DEF Found
<1>3. /\ \E d \in datasets' : d.version = v
      /\ \A d \in datasets' : d \in datasets \/ d.version = v
  BY RecordDatasets
<1> HIDE DEF v
<1>4. \A x \in examples' :
          /\ x.expected = Expected[x.external_ref]
          /\ x.external_ref \in Scored(x.version)
          /\ \E d \in datasets' : d.version = x.version
  BY <1>1, <1>2, <1>3 DEF Examples
<1>5. \A x, y \in examples' :
          x.version = y.version /\ x.external_ref = y.external_ref => x = y
  BY <1>1, <1>2 DEF Examples
<1>6. \A d \in datasets' : \A r \in Scored(d.version) :
          \E x \in examples' : x.version = d.version /\ x.external_ref = r
  <2>1. ASSUME NEW d \in datasets', NEW r \in Scored(d.version)
        PROVE  \E x \in examples' : x.version = d.version /\ x.external_ref = r
    <3>1. CASE d \in datasets
      BY <1>1, <2>1, <3>1 DEF Examples
    <3>2. CASE d.version = v
      <4>1. Synced(w, r) \in examples' /\ Synced(w, r).version = v
            /\ Synced(w, r).external_ref = r
        BY <1>1, <1>2, <2>1, <3>2
      <4>2. QED
        BY <3>2, <4>1
    <3>3. QED
      BY <1>3, <2>1, <3>1, <3>2
  <2>2. QED
    BY <2>1
<1>7. QED
  BY <1>4, <1>5, <1>6 DEF Examples

\* A run just recorded is whole.
LEMMA NewRunWhole ==
    ASSUME EvalInv, NEW w \in Jobs, stage[w] = "present",
           NEW of, of = {[run |-> w, example |-> Synced(w, o.document), passed |-> Passes(o),
                          actual |-> o.actual] : o \in Range(outcomes[w])}
    PROVE  /\ {x.example.external_ref : x \in of} = Scored(VersionOf(w))
           /\ \A x \in of :
                 /\ x.example.version = VersionOf(w)
                 /\ x.example \in {Synced(w, d) : d \in Scored(VersionOf(w))}
                 /\ x.passed <=> x.actual = x.example.expected
           /\ Len(outcomes[w]) = Cardinality(of)
           /\ Len(outcomes[w]) = Cardinality(Scored(VersionOf(w)))
           /\ Cardinality(Passed(outcomes[w])) = Cardinality({x \in of : x.passed})
<1> DEFINE out == outcomes[w]
           v == VersionOf(w)
           res(n) == [run |-> w, example |-> Synced(w, out[n].document),
                      passed |-> Passes(out[n]), actual |-> out[n].actual]
<1>1. AtWork(w)
  BY DEF AtWork
<1>2. /\ DOMAIN out = 1 .. Len(out) /\ Len(out) \in Nat
      /\ \A n \in DOMAIN out : out[n] \in Outcome /\ out[n].document \in Scored(v)
      /\ \A d \in Scored(v) : \E n \in DOMAIN out : out[n].document = d
      /\ \A m, n \in DOMAIN out : out[m].document = out[n].document => m = n
  BY AllScored
<1>3. of = {res(n) : n \in DOMAIN out}
  BY DEF Range
<1>4. ASSUME NEW n \in DOMAIN out
      PROVE  /\ res(n).example = Synced(w, out[n].document)
             /\ res(n).example.version = v
             /\ res(n).example.external_ref = out[n].document
             /\ res(n).example.expected = Expected[out[n].document]
             /\ res(n).actual = out[n].actual
             /\ res(n).passed <=> Passes(out[n])
  BY <1>1, <1>2, <1>4, SyncedRow
<1> HIDE DEF out, v, res
<1>5. {x.example.external_ref : x \in of} = Scored(v)
  <2>1. \A x \in of : x.example.external_ref \in Scored(v)
    BY <1>2, <1>3, <1>4
  <2>2. ASSUME NEW d \in Scored(v)
        PROVE  \E x \in of : x.example.external_ref = d
    <3>1. PICK n \in DOMAIN out : out[n].document = d
      BY <1>2, <2>2
    <3>2. res(n) \in of /\ res(n).example.external_ref = d
      BY <1>3, <1>4, <3>1
    <3>3. QED
      BY <3>2
  <2>3. QED
    BY <2>1, <2>2
<1>6. \A x \in of :
          /\ x.example.version = v
          /\ x.example \in {Synced(w, d) : d \in Scored(v)}
          /\ x.passed <=> x.actual = x.example.expected
  BY <1>2, <1>3, <1>4 DEF Passes
<1>7. IsFiniteSet(DOMAIN out) /\ Cardinality(DOMAIN out) = Len(out)
  <2>1. IsFiniteSet(1 .. Len(out))
        /\ Cardinality(1 .. Len(out)) = IF 1 > Len(out) THEN 0 ELSE Len(out) - 1 + 1
    BY <1>2, FS_Interval
  <2>2. QED
    BY <1>2, <2>1
<1>8. Cardinality(of) = Len(out)
  <2> DEFINE f == [n \in DOMAIN out |-> res(n)]
  <2>1. /\ DOMAIN f = DOMAIN out
        /\ \A n \in DOMAIN out : f[n] \in of
        /\ \A x \in of : \E n \in DOMAIN out : f[n] = x
        /\ \A m, n \in DOMAIN out : f[m] = f[n] => m = n
    BY <1>2, <1>3, <1>4
  <2> HIDE DEF f
  <2>2. QED
    BY <1>7, <2>1, SameCount
<1>9. Cardinality(Scored(v)) = Len(out)
  <2> DEFINE f == [n \in DOMAIN out |-> out[n].document]
  <2>1. /\ DOMAIN f = DOMAIN out
        /\ \A n \in DOMAIN out : f[n] \in Scored(v)
        /\ \A d \in Scored(v) : \E n \in DOMAIN out : f[n] = d
        /\ \A m, n \in DOMAIN out : f[m] = f[n] => m = n
    BY <1>2
  <2> HIDE DEF f
  <2>2. QED
    BY <1>7, <2>1, SameCount
<1>10. Cardinality(Passed(out)) = Cardinality({x \in of : x.passed})
  <2> DEFINE f == [n \in Passed(out) |-> res(n)]
             good == {x \in of : x.passed}
  <2>1. Passed(out) \subseteq DOMAIN out
    BY DEF Passed
  <2>2. /\ DOMAIN f = Passed(out)
        /\ \A n \in Passed(out) : f[n] \in good
        /\ \A x \in good : \E n \in Passed(out) : f[n] = x
        /\ \A m, n \in Passed(out) : f[m] = f[n] => m = n
    <3>1. \A n \in Passed(out) : f[n] = res(n) /\ f[n] \in good
      BY <1>3, <1>4 DEF Passed
    <3>2. \A x \in good : \E n \in Passed(out) : f[n] = x
      BY <1>3, <1>4 DEF Passed
    <3>3. \A m, n \in Passed(out) : f[m] = f[n] => m = n
      BY <1>2, <1>4, <2>1, <3>1
    <3>4. QED
      BY <3>1, <3>2, <3>3
  <2>3. IsFiniteSet(Passed(out))
    BY <1>7, <2>1, FS_Subset
  <2> HIDE DEF f, good
  <2>4. Cardinality(good) = Cardinality(Passed(out))
    BY <2>2, <2>3, SameCount
  <2>5. QED
    BY <2>4 DEF good
<1>11. QED
  BY <1>5, <1>6, <1>8, <1>9, <1>10 DEF out, v

LEMMA RecordRuns ==
    ASSUME EvalInv, NEW w \in Jobs, Record(w)
    PROVE  RunsAreWhole' /\ Recorded'
<1> DEFINE mine == {[run |-> w, example |-> Synced(w, o.document), passed |-> Passes(o),
                     actual |-> o.actual] : o \in Range(outcomes[w])}
           run == [id |-> w, version |-> VersionOf(w), total |-> Len(outcomes[w]),
                   passed |-> Cardinality(Passed(outcomes[w]))]
<1>1. /\ stage[w] = "present" /\ results' = results \cup mine /\ runs' = runs \cup {run}
      /\ examples' = examples \cup {Synced(w, d) : d \in Scored(VersionOf(w))}
  BY RecordTables
<1>2. \A x \in mine : x.run = w
  OBVIOUS
<1>3. run.id = w /\ run.version = VersionOf(w) /\ run.total = Len(outcomes[w])
      /\ run.passed = Cardinality(Passed(outcomes[w]))
  OBVIOUS
<1>4. /\ \A r \in runs : r.id # w /\ r.id \in Jobs
      /\ \A x \in results : x.run # w /\ x.run \in Jobs
  BY <1>1 DEF EvalInv, Recorded, EvaluationTypeOK, EvaluationRun, EvaluationResult
<1>5. /\ {x.example.external_ref : x \in mine} = Scored(VersionOf(w))
      /\ \A x \in mine :
            /\ x.example.version = VersionOf(w)
            /\ x.example \in {Synced(w, d) : d \in Scored(VersionOf(w))}
            /\ x.passed <=> x.actual = x.example.expected
      /\ Len(outcomes[w]) = Cardinality(mine)
      /\ Len(outcomes[w]) = Cardinality(Scored(VersionOf(w)))
      /\ Cardinality(Passed(outcomes[w])) = Cardinality({x \in mine : x.passed})
  BY <1>1, NewRunWhole
<1> HIDE DEF mine, run
<1>6. {x \in results' : x.run = w} = mine
  BY <1>1, <1>2, <1>4
<1>7. ASSUME NEW r \in runs
      PROVE  {x \in results' : x.run = r.id} = {x \in results : x.run = r.id}
  BY <1>1, <1>2, <1>4, <1>7
<1>8. RunsAreWhole
  BY DEF EvalInv
<1>9. ASSUME NEW r \in runs',
             NEW of, of = {x \in results' : x.run = r.id}
      PROVE  /\ {x.example.external_ref : x \in of} = Scored(r.version)
             /\ \A x \in of :
                   /\ x.example.version = r.version /\ x.example \in examples'
                   /\ x.passed <=> x.actual = x.example.expected
             /\ r.total = Cardinality(of) /\ r.total = Cardinality(Scored(r.version))
             /\ r.passed = Cardinality({x \in of : x.passed})
  <2>1. CASE r \in runs
    <3>1. of = {x \in results : x.run = r.id}
      BY <1>7, <1>9, <2>1
    <3>2. /\ {x.example.external_ref : x \in of} = Scored(r.version)
          /\ \A x \in of :
                /\ x.example.version = r.version /\ x.example \in examples
                /\ x.passed <=> x.actual = x.example.expected
          /\ r.total = Cardinality(of) /\ r.total = Cardinality(Scored(r.version))
          /\ r.passed = Cardinality({x \in of : x.passed})
      BY <1>8, <2>1, <3>1 DEF RunsAreWhole
    <3>3. QED
      BY <1>1, <3>2
  <2>2. CASE r = run
    <3>1. of = mine
      BY <1>3, <1>6, <1>9, <2>2
    <3>2. QED
      BY <1>1, <1>3, <1>5, <2>2, <3>1
  <2>3. QED
    BY <1>1, <2>1, <2>2
<1>10. RunsAreWhole'
  BY <1>9 DEF RunsAreWhole
<1>11. /\ stage'[w] = "over" /\ \A u \in Jobs \ {w} : stage'[u] = stage[u]
  BY RecordTables, EndsInv
<1>12. Recorded'
  BY <1>1, <1>2, <1>3, <1>4, <1>11 DEF EvalInv, Recorded
<1>13. QED
  BY <1>10, <1>12

LEMMA RecordInv ==
    ASSUME EvalInv, NEW w \in Jobs, Record(w)
    PROVE  EvalInv'
<1>1. NothingSyntheticStays'
  BY RecordTables DEF EvalInv, NothingSyntheticStays
<1>2. /\ \A u \in Jobs : Holding(u)'
      /\ \A u \in Jobs : AtWork(u)' => Standing(u)' /\ Scoring(u)'
  BY RecordTables, EndsInv
<1>3. QED
  BY <1>1, <1>2, RecordTyped, RecordDatasets, RecordExamples, RecordRuns DEF EvalInv

-----------------------------------------------------------------------------
(* The worker, and all of it together *)

LEMMA PublishRealInv == EvalInv /\ PublishReal => EvalInv'
<1> SUFFICES ASSUME EvalInv, PublishReal
             PROVE  EvalInv'
  OBVIOUS
<1>1. PICK c \in Contents : feed' = feed \cup {[cluster |-> "real", says |-> c]}
  BY DEF PublishReal
<1>2. /\ reports < MaxReports /\ reports' = reports + 1
      /\ datasets' = datasets /\ examples' = examples /\ runs' = runs /\ results' = results
      /\ job' = job /\ stage' = stage /\ at' = at /\ made' = made /\ outcomes' = outcomes
      /\ owned' = owned /\ verdict' = verdict
  BY DEF PublishReal, process
<1>3. EvaluationTypeOK /\ NothingSyntheticStays
  BY DEF EvalInv
<1>4. reports' \in 0 .. MaxReports
  BY <1>2, <1>3, ReportsAssumption DEF EvaluationTypeOK
<1>5. [cluster |-> "real", says |-> c] \in Event
  BY DEF Event
<1>6. EvaluationTypeOK'
  BY <1>1, <1>2, <1>3, <1>4, <1>5 DEF EvaluationTypeOK
<1>7. NothingSyntheticStays'
  BY <1>1, <1>3 DEF NothingSyntheticStays
<1>8. /\ \A u \in Jobs : Holding(u)'
      /\ \A u \in Jobs : AtWork(u)' => Standing(u)' /\ Scoring(u)'
  BY <1>2, JobFrame DEF EvalInv
<1>9. \A u \in Jobs : Taken(u)' = Taken(u)
  BY <1>2 DEF Taken, VersionOf
<1>10. Datasets' /\ Examples' /\ Recorded'
  BY <1>2, <1>9 DEF EvalInv, Datasets, Examples, Recorded
<1>11. RunsAreWhole'
  <2>1. RunsAreWhole
    BY DEF EvalInv
  <2>2. QED
    BY <1>2, <2>1 DEF RunsAreWhole
<1>12. QED
  BY <1>6, <1>7, <1>8, <1>10, <1>11 DEF EvalInv

LEMMA StutterInv == EvalInv /\ UNCHANGED vars => EvalInv'
<1> SUFFICES ASSUME EvalInv, UNCHANGED vars
             PROVE  EvalInv'
  OBVIOUS
<1>1. /\ feed' = feed /\ datasets' = datasets /\ examples' = examples /\ runs' = runs
      /\ results' = results
      /\ job' = job /\ stage' = stage /\ at' = at /\ made' = made /\ outcomes' = outcomes
      /\ owned' = owned /\ verdict' = verdict /\ reports' = reports
  BY DEF vars, table, process
<1>2. EvaluationTypeOK' /\ NothingSyntheticStays'
  BY <1>1 DEF EvalInv, EvaluationTypeOK, NothingSyntheticStays
<1>3. /\ \A u \in Jobs : Holding(u)'
      /\ \A u \in Jobs : AtWork(u)' => Standing(u)' /\ Scoring(u)'
  BY <1>1, JobFrame DEF EvalInv
<1>4. \A u \in Jobs : Taken(u)' = Taken(u)
  BY <1>1 DEF Taken, VersionOf
<1>5. Datasets' /\ Examples' /\ Recorded'
  BY <1>1, <1>4 DEF EvalInv, Datasets, Examples, Recorded
<1>6. RunsAreWhole'
  <2>1. RunsAreWhole
    BY DEF EvalInv
  <2>2. QED
    BY <1>1, <2>1 DEF RunsAreWhole
<1>7. QED
  BY <1>2, <1>3, <1>5, <1>6 DEF EvalInv

LEMMA NextInv == EvalInv /\ [Next]_vars => EvalInv'
<1> SUFFICES ASSUME EvalInv, [Next]_vars
             PROVE  EvalInv'
  OBVIOUS
<1>1. ASSUME NEW w \in Jobs, Start(w) PROVE EvalInv'
  BY <1>1, StartInv
<1>2. ASSUME NEW w \in Jobs, ProcessDocument(w) PROVE EvalInv'
  BY <1>2, ProcessDocumentInv
<1>3. ASSUME NEW w \in Jobs, LookForDataset(w) PROVE EvalInv'
  BY <1>3, LookForDatasetInv
<1>4. ASSUME NEW w \in Jobs, InsertDataset(w) PROVE EvalInv'
  BY <1>4, InsertDatasetInv
<1>5. ASSUME NEW w \in Jobs, ClashOfDatasets(w) PROVE EvalInv'
  BY <1>5, RaisedInv DEF ClashOfDatasets, AtWork
<1>6. ASSUME NEW w \in Jobs, Fail(w) PROVE EvalInv'
  BY <1>6, RaisedInv DEF Fail, AtWork
<1>7. ASSUME NEW w \in Jobs, Record(w) PROVE EvalInv'
  BY <1>7, RecordInv
<1>8. QED
  BY <1>1, <1>2, <1>3, <1>4, <1>5, <1>6, <1>7, PublishRealInv, StutterInv DEF Next

\* The conjunction of all invariants holds throughout.
THEOREM EvaluationInvariance == Spec => []EvalInv
  BY StartsInv, NextInv, PTL DEF Spec

\* Tables and processes keep their types.
THEOREM EvaluationTypeCorrect == Spec => []EvaluationTypeOK
<1>1. EvalInv => EvaluationTypeOK
  BY DEF EvalInv
<1>2. QED
  BY <1>1, EvaluationInvariance, PTL

\* Whatever is run, recorded or killed, no synthetic event is ever committed to the
\* feed (test_evaluation.py's core guarantee, harness.py's nested.rollback).
THEOREM SyntheticSafe == Spec => []NothingSyntheticStays
<1>1. EvalInv => NothingSyntheticStays
  BY DEF EvalInv
<1>2. QED
  BY <1>1, EvaluationInvariance, PTL

\* A recorded run has one result for each scored document of its version and keeps
\* its verdicts explained (record_run, _sync_examples).
THEOREM RunsSafe == Spec => []RunsAreWhole
<1>1. EvalInv => RunsAreWhole
  BY DEF EvalInv
<1>2. QED
  BY <1>1, EvaluationInvariance, PTL

\* However many jobs record at once, a version has one dataset row and one example for
\* each of its scored documents (uq_evaluation_datasets_name_version).
THEOREM ExamplesSafe == Spec => []OneExamplePerDocument
<1>1. EvalInv => OneExamplePerDocument
  <2> SUFFICES ASSUME EvalInv, NEW v \in Versions
               PROVE  /\ Cardinality({d \in datasets : d.version = v}) <= 1
                      /\ \A d \in Documents :
                            Cardinality({x \in examples : x.version = v /\ x.external_ref = d})
                              = IF d \in Scored(v) /\ \E s \in datasets : s.version = v
                                THEN 1 ELSE 0
    BY DEF OneExamplePerDocument
  <2>1. ASSUME NEW S, \A x, y \in S : x = y
        PROVE  Cardinality(S) = IF S = {} THEN 0 ELSE 1
    <3>1. CASE S = {}
      BY <3>1, FS_EmptySet
    <3>2. CASE S # {}
      <4>1. PICK x \in S : TRUE
        BY <3>2
      <4>2. S = {x}
        BY <2>1, <4>1
      <4>3. QED
        BY <4>2, FS_Singleton
    <3>3. QED
      BY <3>1, <3>2
  <2>2. Cardinality({d \in datasets : d.version = v}) <= 1
    <3>1. \A c, d \in {d \in datasets : d.version = v} : c = d
      BY DEF EvalInv, Datasets
    <3>2. QED
      BY <2>1, <3>1
  <2>3. ASSUME NEW d \in Documents
        PROVE  Cardinality({x \in examples : x.version = v /\ x.external_ref = d})
                 = IF d \in Scored(v) /\ \E s \in datasets : s.version = v THEN 1 ELSE 0
    <3> DEFINE S == {x \in examples : x.version = v /\ x.external_ref = d}
    <3>1. \A x, y \in S : x = y
      BY DEF EvalInv, Examples
    <3>2. S # {} <=> d \in Scored(v) /\ \E s \in datasets : s.version = v
      BY DEF EvalInv, Examples
    <3>3. QED
      BY <2>1, <3>1, <3>2
  <2>4. QED
    BY <2>2, <2>3
<1>2. QED
  BY <1>1, EvaluationInvariance, PTL

-----------------------------------------------------------------------------
(* The gate *)

\* The events a transaction holds when all before place k of scenario s went right.
Held(events, s, k) ==
    IF s.same_cluster
    THEN \/ Earlier(s, k) = {} /\ events = {}
         \/ \E j \in Earlier(s, k) :
               /\ \A i \in Earlier(s, k) : i <= j
               /\ events = {[cluster |-> "same", says |-> Script[s.documents[j]]]}
    ELSE \A e \in events : \E j \in 1 .. k - 1 : e.cluster = s.documents[j]

\* The job's revision got nothing wrong so far.
Unbroken(w) ==
    \A i \in DOMAIN Labelled(w) : \A k \in DOMAIN Labelled(w)[i].documents :
        Behind(w, i, k) => Labelled(w)[i].documents[k] \notin Broken[job[w].revision]

Remembers(w) ==
    \A i \in DOMAIN Labelled(w) : \A k \in DOMAIN Labelled(w)[i].documents :
        at[w].scenario = i /\ at[w].document = k => Held(made[w], Labelled(w)[i], k)

\* A wrong document is scored as wrong, or it is a set-up document whose event the
\* document in hand is going to miss.
Shows(w) ==
    \/ \E n \in DOMAIN outcomes[w] : ~Passes(outcomes[w][n])
    \/ /\ at[w].document = 2 /\ made[w] = {}
       /\ \E i \in DOMAIN Labelled(w) :
             at[w].scenario = i /\ Labelled(w)[i].documents[1] \in Setup

Judging(w) ==
    /\ Unbroken(w) => Remembers(w) /\ \A n \in DOMAIN outcomes[w] : Passes(outcomes[w][n])
    /\ ~Unbroken(w) => Shows(w)

\* GateIsRight of one job.
GateRight(w) ==
    verdict[w] \in {"success", "failure"} =>
        (verdict[w] = "failure" <=>
            /\ ~job[w].live
            /\ \E i \in DOMAIN Scenarios[VersionOf(w)] :
                  \E d \in Range(Scenarios[VersionOf(w)][i].documents) :
                      d \in Broken[job[w].revision])

GateInv ==
    /\ \A w \in Jobs : AtWork(w) /\ ~job[w].live => Judging(w)
    /\ \A w \in Jobs : verdict[w] # "none" => stage[w] = "over"
    /\ GateIsRight

\* A place has one right label.
LEMMA OneLabel ==
    ASSUME NEW s, NEW k \in Nat, NEW p, NEW q, Labels(s, k, p), Labels(s, k, q)
    PROVE  p = q
<1>1. \A i, j \in Earlier(s, k) : i <= j /\ j <= i => i = j
  BY DEF Earlier
<1>2. QED
  BY <1>1 DEF Labels

\* What the next document finds before it: this report too, if it is one.
LEMMA EarlierGrows ==
    ASSUME NEW s, NEW k \in Nat \ {0}
    PROVE  /\ Earlier(s, k) \subseteq 1 .. k - 1
           /\ Earlier(s, k + 1) = Earlier(s, k) \cup
                 (IF s.same_cluster /\ Script[s.documents[k]] # "background" THEN {k} ELSE {})
<1>1. 1 .. (k + 1) - 1 = (1 .. k - 1) \cup {k}
  OBVIOUS
<1>2. QED
  BY <1>1 DEF Earlier

\* In its scenario, a document is found once before another is set up.
LEMMA PlacesDiffer ==
    ASSUME NEW v \in Versions, NEW i \in DOMAIN Scenarios[v],
           NEW j \in DOMAIN Scenarios[v][i].documents,
           NEW k \in DOMAIN Scenarios[v][i].documents, j < k
    PROVE  Scenarios[v][i].documents[j] # Scenarios[v][i].documents[k]
<1> DEFINE docs == Scenarios[v][i].documents
<1>1. SUFFICES ASSUME docs[j] = docs[k]
               PROVE  FALSE
  OBVIOUS
<1>2. DOMAIN docs = 1 .. Len(docs) /\ j \in Nat \ {0} /\ k \in Nat \ {0}
  BY LabelledSet
<1>3. CASE docs[k] \in Setup
  <2>1. k = 1
    BY <1>3, LabelsAssumption
  <2>2. QED
    BY <1>2, <2>1
<1>4. CASE docs[k] \notin Setup
  <2>1. k = j
    BY <1>1, <1>4, KeysAssumption
  <2>2. QED
    BY <1>2, <2>1
<1>5. QED
  BY <1>3, <1>4

\* Where a job stands when it takes a document, and where it stands after.
LEMMA DocumentMoves ==
    ASSUME EvalInv, NEW w \in Jobs, ProcessDocument(w)
    PROVE  \E s \in DOMAIN Labelled(w) : \E k \in DOMAIN Labelled(w)[s].documents :
              /\ s \in Nat \ {0} /\ k \in Nat \ {0} /\ VersionOf(w) \in Versions
              /\ Labelled(w) = Scenarios[VersionOf(w)]
              /\ at[w].scenario = s /\ at[w].document = k
              /\ Scenario(w) = Labelled(w)[s] /\ Current(w) = Labelled(w)[s].documents[k]
              /\ AtWork(w) /\ AtWork(w)' /\ Labelled(w)' = Labelled(w) /\ job' = job
              /\ \A i \in DOMAIN Labelled(w) : \A l \in DOMAIN Labelled(w)[i].documents :
                    Behind(w, i, l)' <=> Behind(w, i, l) \/ (i = s /\ l = k)
              /\ ~Behind(w, s, k)
              /\ k = Len(Labelled(w)[s].documents) =>
                    made'[w] = {} /\ at'[w].scenario = s + 1 /\ at'[w].document = 1
              /\ k # Len(Labelled(w)[s].documents) =>
                    at'[w].scenario = s /\ at'[w].document = k + 1
              /\ \E says \in Extracted(w) :
                    /\ outcomes'[w] = Score(w, says)
                    /\ k # Len(Labelled(w)[s].documents) => made'[w] = Processed(w, says)
              /\ \A u \in Jobs \ {w} :
                    at'[u] = at[u] /\ made'[u] = made[u] /\ outcomes'[u] = outcomes[u]
              /\ stage' = stage /\ verdict' = verdict
<1>1. /\ stage[w] = "running" /\ AtWork(w) /\ EvaluationTypeOK /\ Standing(w)
      /\ at[w].scenario <= Len(Labelled(w))
  BY DEF ProcessDocument, EvalInv, AtWork, Labelled
<1> DEFINE set == Labelled(w)
           s == at[w].scenario
           k == at[w].document
           docs == set[s].documents
<1>2. VersionOf(w) \in Versions /\ set = Scenarios[VersionOf(w)]
  BY <1>1, VersionTyped
<1>3. /\ Len(set) \in Nat /\ DOMAIN set = 1 .. Len(set)
      /\ \A i \in DOMAIN set : /\ Len(set[i].documents) \in Nat \ {0}
                              /\ DOMAIN set[i].documents = 1 .. Len(set[i].documents)
  BY <1>2, LabelledSet
<1>4. s \in Nat \ {0} /\ k \in Nat \ {0}
  BY <1>1 DEF EvaluationTypeOK, Place
<1>5. s \in 1 .. Len(set) /\ k \in 1 .. Len(docs) /\ Len(docs) \in Nat \ {0}
  BY <1>1, <1>3, <1>4 DEF Standing
<1>6. /\ s \in DOMAIN set /\ k \in DOMAIN docs
      /\ Scenario(w) = set[s] /\ Current(w) = docs[k]
      /\ LastDocument(w) <=> k = Len(docs)
  BY <1>2, <1>3, <1>5 DEF Scenario, Current, LastDocument
<1>7. PICK says \in Extracted(w) :
          /\ outcomes' = [outcomes EXCEPT ![w] = Score(w, says)]
          /\ made' = [made EXCEPT ![w] =
                IF LastDocument(w) THEN AfterScenario(w, Processed(w, says))
                ELSE Processed(w, says)]
  BY DEF ProcessDocument
<1> DEFINE next == IF k = Len(docs) THEN [scenario |-> s + 1, document |-> 1]
                   ELSE [scenario |-> s, document |-> k + 1]
<1>8. /\ at' = [at EXCEPT ![w] = next]
      /\ UNCHANGED <<table, job, stage, owned, verdict, reports>>
  BY <1>6 DEF ProcessDocument
<1>9. /\ at'[w] = next /\ outcomes'[w] = Score(w, says)
      /\ made'[w] = IF k = Len(docs) THEN {} ELSE Processed(w, says)
      /\ job' = job /\ stage' = stage /\ verdict' = verdict
      /\ \A u \in Jobs \ {w} :
            at'[u] = at[u] /\ made'[u] = made[u] /\ outcomes'[u] = outcomes[u]
  BY <1>1, <1>6, <1>7, <1>8 DEF EvaluationTypeOK, AfterScenario
<1>10. Labelled(w)' = set /\ AtWork(w)'
  BY <1>1, <1>9 DEF Labelled, VersionOf, AtWork
<1>11. ASSUME NEW i \in DOMAIN set, NEW l \in DOMAIN set[i].documents
       PROVE  Behind(w, i, l)' <=> Behind(w, i, l) \/ (i = s /\ l = k)
  <2>1. i \in Nat /\ l \in Nat /\ (i = s => l <= Len(docs)) /\ l >= 1
    BY <1>3
  <2>2. Behind(w, i, l) <=> i < s \/ (i = s /\ l < k)
    BY DEF Behind
  <2>3. Behind(w, i, l)' <=> i < next.scenario \/ (i = next.scenario /\ l < next.document)
    BY <1>9 DEF Behind
  <2>4. CASE k = Len(docs)
    <3>1. Behind(w, i, l)' <=> i < s + 1 \/ (i = s + 1 /\ l < 1)
      BY <2>3, <2>4
    <3> HIDE DEF set, s, k, docs
    <3>2. QED
      BY <1>4, <1>5, <2>1, <2>2, <2>4, <3>1
  <2>5. CASE k # Len(docs)
    <3>1. Behind(w, i, l)' <=> i < s \/ (i = s /\ l < k + 1)
      BY <2>3, <2>5
    <3> HIDE DEF set, s, k, docs
    <3>2. QED
      BY <1>4, <1>5, <2>1, <2>2, <3>1
  <2>6. QED
    BY <2>4, <2>5
<1>12. ~Behind(w, s, k)
  BY <1>4 DEF Behind
<1>13. /\ k = Len(docs) => made'[w] = {} /\ at'[w].scenario = s + 1 /\ at'[w].document = 1
       /\ k # Len(docs) => /\ at'[w].scenario = s /\ at'[w].document = k + 1
                           /\ made'[w] = Processed(w, says)
  BY <1>9
<1> HIDE DEF set, s, k, docs, next
<1>14. \E x \in Extracted(w) : /\ outcomes'[w] = Score(w, x)
                               /\ k # Len(docs) => made'[w] = Processed(w, x)
  BY <1>9, <1>13
<1>15. at[w].scenario = s /\ at[w].document = k /\ Labelled(w) = set /\ docs = set[s].documents
  BY DEF s, k, set, docs
<1>16. QED
  BY <1>1, <1>2, <1>4, <1>6, <1>9, <1>10, <1>11, <1>12, <1>13, <1>14, <1>15

\* A scripted document that is not wrong is found to be what its label says, and the
\* transaction holds what the next one should find, whatever is in the feed.
LEMMA RelationRight ==
    ASSUME EvalInv, NEW w \in Jobs, AtWork(w), NEW s \in DOMAIN Labelled(w),
           NEW k \in DOMAIN Labelled(w)[s].documents,
           Scenario(w) = Labelled(w)[s], Current(w) = Labelled(w)[s].documents[k],
           Held(made[w], Labelled(w)[s], k),
           Current(w) \notin Broken[job[w].revision]
    PROVE  LET says == Script[Current(w)] IN
           /\ Labels(Labelled(w)[s], k, Relation(w, says))
           /\ Held(Processed(w, says), Labelled(w)[s], k + 1)
<1> DEFINE scn == Labelled(w)[s]
           docs == scn.documents
           says == Script[docs[k]]
           before == Earlier(scn, k)
           new == [cluster |-> ClusterOf(w), says |-> says]
<1>1. /\ VersionOf(w) \in Versions /\ Labelled(w) = Scenarios[VersionOf(w)]
      /\ NothingSyntheticStays
  BY VersionTyped DEF EvalInv
<1>2. /\ DOMAIN docs = 1 .. Len(docs) /\ Len(docs) \in Nat /\ k \in Nat \ {0}
      /\ \A j \in DOMAIN docs : docs[j] \in Documents
      /\ scn.same_cluster \in BOOLEAN
  BY <1>1, LabelledSet
<1>3. /\ before \subseteq 1 .. k - 1
      /\ Earlier(scn, k + 1) = before \cup
            (IF scn.same_cluster /\ says # "background" THEN {k} ELSE {})
  BY <1>2, EarlierGrows
<1>4. ClusterOf(w) = IF scn.same_cluster THEN "same" ELSE docs[k]
  BY DEF ClusterOf
<1>5. \A e \in feed : e.cluster # ClusterOf(w)
  BY <1>1, <1>2, <1>4, ClustersAssumption DEF NothingSyntheticStays
<1>6. Script[Current(w)] = says
  OBVIOUS
<1>7. Relation(w, says) = IF says = "background" THEN "none"
                          ELSE IF Known(w) = {} THEN "new_event"
                          ELSE IF \E e \in Known(w) : e.says = says THEN "duplicate" ELSE "update"
  BY DEF Relation
<1>8. Processed(w, says) = CASE Relation(w, says) = "new_event" -> made[w] \cup {new}
                             [] Relation(w, says) = "update" -> (made[w] \ Known(w)) \cup {new}
                             [] OTHER -> made[w]
  BY DEF Processed
<1>9. ASSUME scn.same_cluster
      PROVE  Labels(scn, k, Relation(w, says)) /\ Held(Processed(w, says), scn, k + 1)
  <2>1. Known(w) = made[w]
    <3>1. \A e \in made[w] : e.cluster = "same"
      BY <1>9 DEF Held
    <3>2. QED
      BY <1>4, <1>5, <1>9, <3>1 DEF Known
  <2>2. new = [cluster |-> "same", says |-> says]
    BY <1>4, <1>9
  <2>3. \/ before = {} /\ made[w] = {}
        \/ \E j \in before :
             /\ \A i \in before : i <= j
             /\ made[w] = {[cluster |-> "same", says |-> Script[docs[j]]]}
    BY <1>9 DEF Held
  <2>4. Held(Processed(w, says), scn, k + 1) <=>
           \/ Earlier(scn, k + 1) = {} /\ Processed(w, says) = {}
           \/ \E j \in Earlier(scn, k + 1) :
                /\ \A i \in Earlier(scn, k + 1) : i <= j
                /\ Processed(w, says) = {[cluster |-> "same", says |-> Script[docs[j]]]}
    BY <1>9 DEF Held
  <2>5. Labels(scn, k, Relation(w, says)) <=>
           \/ says = "background" /\ Relation(w, says) = "none"
           \/ /\ says # "background"
              /\ \/ before = {} /\ Relation(w, says) = "new_event"
                 \/ \E j \in before :
                       /\ \A i \in before : i <= j
                       /\ Relation(w, says) = IF Script[docs[j]] = says
                                              THEN "duplicate" ELSE "update"
    BY DEF Labels
  <2> HIDE DEF before, new, scn, docs, says
  <2>6. CASE says = "background"
    <3>1. Relation(w, says) = "none" /\ Processed(w, says) = made[w]
      BY <1>7, <1>8, <2>6
    <3>2. Earlier(scn, k + 1) = before
      BY <1>3, <2>6
    <3>3. QED
      BY <2>3, <2>4, <2>5, <2>6, <3>1, <3>2
  <2>7. CASE says # "background"
    <3>1. Earlier(scn, k + 1) = before \cup {k} /\ \A i \in before \cup {k} : i <= k
      BY <1>2, <1>3, <1>9, <2>7
    <3>2. CASE before = {} /\ made[w] = {}
      <4>1. Relation(w, says) = "new_event" /\ Processed(w, says) = {new}
        BY <1>7, <1>8, <2>1, <2>7, <3>2
      <4>2. QED
        <5>1. Labels(scn, k, Relation(w, says))
          BY <2>5, <2>7, <3>2, <4>1
        <5>2. k \in Earlier(scn, k + 1) /\ Processed(w, says) = {[cluster |-> "same", says |-> Script[docs[k]]]}
          BY <2>2, <3>1, <4>1 DEF says
        <5>3. QED
          BY <2>4, <3>1, <5>1, <5>2
    <3>3. ASSUME NEW j \in before, \A i \in before : i <= j,
                 made[w] = {[cluster |-> "same", says |-> Script[docs[j]]]}
          PROVE  /\ Labels(scn, k, Relation(w, says))
                 /\ Held(Processed(w, says), scn, k + 1)
      <4>1. Relation(w, says) = IF Script[docs[j]] = says THEN "duplicate" ELSE "update"
        <5>1. \A e \in Known(w) : e.says = Script[docs[j]]
          BY <2>1, <3>3
        <5>2. Known(w) # {}
          BY <2>1, <3>3
        <5>3. QED
          BY <1>7, <2>7, <5>1, <5>2
      <4>2. Processed(w, says) = {new}
        BY <1>8, <2>1, <2>2, <3>3, <4>1
      <4>3. QED
        <5>1. Labels(scn, k, Relation(w, says))
          BY <2>5, <2>7, <3>3, <4>1
        <5>2. k \in Earlier(scn, k + 1) /\ Processed(w, says) = {[cluster |-> "same", says |-> Script[docs[k]]]}
          BY <2>2, <3>1, <4>2 DEF says
        <5>3. QED
          BY <2>4, <3>1, <5>1, <5>2
    <3>4. QED
      BY <2>3, <3>2, <3>3
  <2>8. QED
    BY <2>6, <2>7
<1>10. ASSUME ~scn.same_cluster
       PROVE  Labels(scn, k, Relation(w, says)) /\ Held(Processed(w, says), scn, k + 1)
  <2>1. \A j \in 1 .. k - 1 : docs[j] # docs[k]
    BY <1>1, <1>2, PlacesDiffer
  <2>2. \A e \in made[w] : \E j \in 1 .. k - 1 : e.cluster = docs[j]
    BY <1>10 DEF Held
  <2>3. Known(w) = {}
    BY <1>4, <1>5, <1>10, <2>1, <2>2 DEF Known
  <2>4. before = {}
    BY <1>10 DEF Earlier
  <2>5. Labels(scn, k, Relation(w, says))
    BY <1>7, <2>3, <2>4 DEF Labels
  <2>6. Processed(w, says) \subseteq made[w] \cup {new} /\ new.cluster = docs[k]
    BY <1>4, <1>8, <1>10
  <2>7. ASSUME NEW e \in Processed(w, says)
        PROVE  \E j \in 1 .. (k + 1) - 1 : e.cluster = docs[j]
    <3> HIDE DEF docs, new
    <3>1. k \in 1 .. (k + 1) - 1 /\ 1 .. k - 1 \subseteq 1 .. (k + 1) - 1
      BY <1>2
    <3>2. QED
      BY <2>2, <2>6, <2>7, <3>1
  <2>8. Held(Processed(w, says), scn, k + 1)
    BY <1>10, <2>7 DEF Held
  <2>9. QED
    BY <2>5, <2>8
<1>11. QED
  BY <1>2, <1>9, <1>10

LEMMA Appended ==
    ASSUME NEW T, NEW old \in Seq(T), NEW o \in T
    PROVE  /\ DOMAIN old = 1 .. Len(old) /\ Len(old) \in Nat
           /\ DOMAIN Append(old, o) = 1 .. Len(old) + 1
           /\ \A n \in DOMAIN old : n \in DOMAIN Append(old, o) /\ Append(old, o)[n] = old[n]
           /\ Append(old, o)[Len(old) + 1] = o /\ Len(old) + 1 \in DOMAIN Append(old, o)
           /\ \A n \in DOMAIN Append(old, o) : n \in DOMAIN old \/ n = Len(old) + 1
  OBVIOUS

\* What scoring adds to the outcomes of a job.
LEMMA ScoreAdds ==
    ASSUME EvaluationTypeOK, NEW w \in Jobs, AtWork(w), Current(w) \in Documents,
           Scenario(w).same_cluster \in BOOLEAN, NEW says \in Extracted(w)
    PROVE  /\ Current(w) \in Setup => Score(w, says) = outcomes[w]
           /\ \A n \in DOMAIN outcomes[w] :
                 n \in DOMAIN Score(w, says) /\ Score(w, says)[n] = outcomes[w][n]
           /\ Current(w) \notin Setup =>
                 \E n \in DOMAIN Score(w, says) :
                     /\ Passes(Score(w, says)[n]) <=> Relation(w, says) = Expected[Current(w)]
                     /\ \A m \in DOMAIN Score(w, says) : m \in DOMAIN outcomes[w] \/ m = n
<1> DEFINE o == [document |-> Current(w), actual |-> Relation(w, says)]
           old == outcomes[w]
<1>1. CASE Current(w) \in Setup
  BY <1>1 DEF Score
<1>2. CASE Current(w) \notin Setup
  <2>1. Score(w, says) = Append(old, o)
    BY <1>2 DEF Score
  <2>2. old \in Seq(Outcome)
    BY DEF EvaluationTypeOK
  <2>3. o \in Outcome
    BY <1>2, ProcessedTyped DEF Outcome
  <2>4. Passes(o) <=> Relation(w, says) = Expected[Current(w)]
    BY DEF Passes
  <2> HIDE DEF o, old
  <2>5. /\ \A n \in DOMAIN old : n \in DOMAIN Append(old, o) /\ Append(old, o)[n] = old[n]
        /\ Append(old, o)[Len(old) + 1] = o /\ Len(old) + 1 \in DOMAIN Append(old, o)
        /\ \A n \in DOMAIN Append(old, o) : n \in DOMAIN old \/ n = Len(old) + 1
    BY <2>2, <2>3, Appended
  <2>6. \A n \in DOMAIN outcomes[w] :
            n \in DOMAIN Score(w, says) /\ Score(w, says)[n] = outcomes[w][n]
    BY <2>1, <2>5 DEF old
  <2>7. \E n \in DOMAIN Score(w, says) :
            /\ Passes(Score(w, says)[n]) <=> Relation(w, says) = Expected[Current(w)]
            /\ \A m \in DOMAIN Score(w, says) : m \in DOMAIN outcomes[w] \/ m = n
    BY <2>1, <2>4, <2>5 DEF old
  <2>8. QED
    BY <1>2, <2>6, <2>7
<1>3. QED
  BY <1>1, <1>2

\* A scripted job goes on judging by its revision alone.
LEMMA DocumentJudged ==
    ASSUME EvalInv, NEW w \in Jobs, ProcessDocument(w), ~job[w].live, Judging(w)
    PROVE  Judging(w)'
<1>1. PICK s \in DOMAIN Labelled(w) : \E k \in DOMAIN Labelled(w)[s].documents :
              /\ s \in Nat \ {0} /\ k \in Nat \ {0} /\ VersionOf(w) \in Versions
              /\ Labelled(w) = Scenarios[VersionOf(w)]
              /\ at[w].scenario = s /\ at[w].document = k
              /\ Scenario(w) = Labelled(w)[s] /\ Current(w) = Labelled(w)[s].documents[k]
              /\ AtWork(w) /\ AtWork(w)' /\ Labelled(w)' = Labelled(w) /\ job' = job
              /\ \A i \in DOMAIN Labelled(w) : \A l \in DOMAIN Labelled(w)[i].documents :
                    Behind(w, i, l)' <=> Behind(w, i, l) \/ (i = s /\ l = k)
              /\ ~Behind(w, s, k)
              /\ k = Len(Labelled(w)[s].documents) =>
                    made'[w] = {} /\ at'[w].scenario = s + 1 /\ at'[w].document = 1
              /\ k # Len(Labelled(w)[s].documents) =>
                    at'[w].scenario = s /\ at'[w].document = k + 1
              /\ \E says \in Extracted(w) :
                    /\ outcomes'[w] = Score(w, says)
                    /\ k # Len(Labelled(w)[s].documents) => made'[w] = Processed(w, says)
  BY DocumentMoves
<1>2. PICK k \in DOMAIN Labelled(w)[s].documents :
              /\ s \in Nat \ {0} /\ k \in Nat \ {0} /\ VersionOf(w) \in Versions
              /\ Labelled(w) = Scenarios[VersionOf(w)]
              /\ at[w].scenario = s /\ at[w].document = k
              /\ Scenario(w) = Labelled(w)[s] /\ Current(w) = Labelled(w)[s].documents[k]
              /\ AtWork(w) /\ AtWork(w)' /\ Labelled(w)' = Labelled(w) /\ job' = job
              /\ \A i \in DOMAIN Labelled(w) : \A l \in DOMAIN Labelled(w)[i].documents :
                    Behind(w, i, l)' <=> Behind(w, i, l) \/ (i = s /\ l = k)
              /\ ~Behind(w, s, k)
              /\ k = Len(Labelled(w)[s].documents) =>
                    made'[w] = {} /\ at'[w].scenario = s + 1 /\ at'[w].document = 1
              /\ k # Len(Labelled(w)[s].documents) =>
                    at'[w].scenario = s /\ at'[w].document = k + 1
              /\ \E says \in Extracted(w) :
                    /\ outcomes'[w] = Score(w, says)
                    /\ k # Len(Labelled(w)[s].documents) => made'[w] = Processed(w, says)
  BY <1>1
<1> DEFINE set == Labelled(w)
           docs == set[s].documents
           wrong == Broken[job[w].revision]
           says == Script[Current(w)]
<1>3. Extracted(w) = {says}
  BY DEF Extracted
<1>4. /\ outcomes'[w] = Score(w, says)
      /\ k # Len(docs) => made'[w] = Processed(w, says)
  BY <1>2, <1>3
<1>5. /\ EvaluationTypeOK /\ Holding(w)
      /\ Current(w) \in Documents /\ Scenario(w).same_cluster \in BOOLEAN
      /\ DOMAIN docs = 1 .. Len(docs) /\ Len(docs) \in Nat
  BY <1>2, LabelledSet DEF EvalInv
<1>6. /\ docs[k] \in Setup => outcomes'[w] = outcomes[w]
      /\ \A n \in DOMAIN outcomes[w] : n \in DOMAIN outcomes'[w] /\ outcomes'[w][n] = outcomes[w][n]
      /\ docs[k] \notin Setup =>
            \E n \in DOMAIN outcomes'[w] :
                /\ Passes(outcomes'[w][n]) <=> Relation(w, says) = Expected[docs[k]]
                /\ \A m \in DOMAIN outcomes'[w] : m \in DOMAIN outcomes[w] \/ m = n
  <2>1. Current(w) = docs[k] /\ AtWork(w)
    BY <1>2
  <2>2. says \in Extracted(w) /\ outcomes'[w] = Score(w, says)
    BY <1>3, <1>4
  <2>3. EvaluationTypeOK /\ Current(w) \in Documents /\ Scenario(w).same_cluster \in BOOLEAN
    BY <1>5
  <2> HIDE DEF says, docs
  <2>4. QED
    BY <2>1, <2>2, <2>3, ScoreAdds
<1>7. Unbroken(w)' <=> Unbroken(w) /\ docs[k] \notin wrong
  BY <1>2 DEF Unbroken
<1>8. /\ Expected[docs[k]] \in Relations
      /\ docs[k] \in wrong => Relation(w, says) = "wrong" /\ Processed(w, says) = made[w]
  BY <1>2, <1>5, DocumentsAssumption DEF Relation, Processed
<1>9. ASSUME \E n \in DOMAIN outcomes'[w] : ~Passes(outcomes'[w][n])
      PROVE  Shows(w)'
  BY <1>9 DEF Shows, Passes
<1>10. ASSUME Unbroken(w), docs[k] \notin wrong
       PROVE  Judging(w)'
  <2>1. Remembers(w) /\ \A n \in DOMAIN outcomes[w] : Passes(outcomes[w][n])
    BY <1>10 DEF Judging
  <2>2. Held(made[w], set[s], k)
    BY <1>2, <2>1 DEF Remembers
  <2>3. Labels(set[s], k, Relation(w, says)) /\ Held(Processed(w, says), set[s], k + 1)
    BY <1>2, <1>10, <2>2, RelationRight
  <2>4. docs[k] \notin Setup => Relation(w, says) = Expected[docs[k]]
    <3>1. docs[k] \notin Setup => Labels(set[s], k, Expected[docs[k]])
      BY <1>2, LabelsAssumption
    <3>2. QED
      BY <1>2, <2>3, <3>1, OneLabel
  <2>5. \A n \in DOMAIN outcomes'[w] : Passes(outcomes'[w][n])
    BY <1>6, <2>1, <2>4
  <2>6. Remembers(w)'
    <3>1. SUFFICES ASSUME NEW i \in DOMAIN set, NEW l \in DOMAIN set[i].documents,
                          at'[w].scenario = i, at'[w].document = l
                   PROVE  Held(made'[w], set[i], l)
      BY <1>2 DEF Remembers, Held, Earlier
    <3>2. CASE k = Len(docs)
      <4>1. l = 1 /\ made'[w] = {}
        BY <1>2, <3>1, <3>2
      <4>2. Earlier(set[i], l) = {}
        BY <4>1 DEF Earlier
      <4>3. QED
        BY <4>1, <4>2 DEF Held
    <3>3. CASE k # Len(docs)
      <4>1. i = s /\ l = k + 1 /\ made'[w] = Processed(w, says)
        BY <1>2, <1>4, <3>1, <3>3
      <4>2. QED
        BY <2>3, <4>1
    <3>4. QED
      BY <3>2, <3>3
  <2>7. (\A n \in DOMAIN outcomes[w] : Passes(outcomes[w][n]))'
    BY <2>5 DEF Passes
  <2>8. QED
    BY <1>7, <1>10, <2>6, <2>7 DEF Judging
<1>11. ASSUME docs[k] \in wrong, docs[k] \notin Setup
       PROVE  Shows(w)'
  <2>1. Relation(w, says) # Expected[docs[k]]
    BY <1>8, <1>11 DEF Relations
  <2>2. QED
    BY <1>6, <1>9, <1>11, <2>1
<1>12. ASSUME docs[k] \in wrong, docs[k] \in Setup
       PROVE  Shows(w)'
  <2>1. k = 1 /\ 2 \in DOMAIN docs
    BY <1>2, <1>12, LabelsAssumption
  <2>2. k # Len(docs) /\ made[w] = {}
    <3>1. made[w] = {}
      BY <1>2, <1>5, <2>1 DEF Holding
    <3> HIDE DEF docs
    <3>2. k # Len(docs)
      BY <1>5, <2>1
    <3>3. QED
      BY <3>1, <3>2
  <2>3. at'[w].document = 2 /\ made'[w] = {} /\ at'[w].scenario = s
    BY <1>2, <1>4, <1>8, <1>12, <2>1, <2>2
  <2>4. QED
    BY <1>2, <1>12, <2>1, <2>3 DEF Shows
<1>13. ASSUME ~Unbroken(w)
       PROVE  Shows(w)'
  <2>1. CASE \E n \in DOMAIN outcomes[w] : ~Passes(outcomes[w][n])
    BY <1>6, <1>9, <2>1
  <2>2. ASSUME at[w].document = 2, made[w] = {}, set[s].documents[1] \in Setup
        PROVE  Shows(w)'
    <3>1. k = 2 /\ 1 \in DOMAIN docs
      BY <1>2, <1>5, <2>2
    <3>2. docs[2] \notin Setup /\ Expected[docs[2]] \in {"update", "duplicate"}
      BY <1>2, <2>2, <3>1, LabelsAssumption
    <3>3. Labels(set[s], 2, Expected[docs[2]])
      BY <1>2, <3>1, <3>2, LabelsAssumption
    <3>4. set[s].same_cluster /\ says # "background"
      BY <1>2, <3>1, <3>2, <3>3 DEF Labels, Earlier
    <3>5. Known(w) = {}
      <4>1. ClusterOf(w) = "same"
        BY <1>2, <3>4 DEF ClusterOf
      <4>2. \A e \in feed : e.cluster = "real"
        BY DEF EvalInv, NothingSyntheticStays
      <4>3. QED
        BY <2>2, <4>1, <4>2 DEF Known
    <3>6. Relation(w, says) \in {"wrong", "new_event"}
      BY <3>4, <3>5 DEF Relation
    <3>7. Relation(w, says) # Expected[docs[k]]
      BY <3>1, <3>2, <3>6
    <3>8. QED
      BY <1>6, <1>9, <3>1, <3>2, <3>7
  <2>3. Shows(w)
    BY <1>13 DEF Judging
  <2>4. QED
    BY <1>2, <2>1, <2>2, <2>3 DEF Shows
<1>14. QED
  BY <1>7, <1>10, <1>11, <1>12, <1>13 DEF Judging

LEMMA StartJudged ==
    ASSUME EvalInv, NEW w \in Jobs, Start(w)
    PROVE  Judging(w)'
<1>1. PICK j \in Job : job' = [job EXCEPT ![w] = j]
  BY DEF Start
<1>2. /\ at'[w] = [scenario |-> 1, document |-> 1] /\ outcomes'[w] = <<>> /\ made'[w] = {}
      /\ job'[w] = j
  BY <1>1 DEF Start, EvalInv, Holding, EvaluationTypeOK
<1>3. Version[j.revision] \in Versions /\ Labelled(w)' = Scenarios[Version[j.revision]]
  BY <1>2 DEF Job, Versions, Labelled, VersionOf
<1> DEFINE set == Scenarios[Version[j.revision]]
<1>4. \A i \in DOMAIN set : \A k \in DOMAIN set[i].documents :
         i \in Nat \ {0} /\ k \in Nat \ {0}
  BY <1>3, LabelledSet
<1>5. \A i \in DOMAIN set : \A k \in DOMAIN set[i].documents : ~Behind(w, i, k)'
  <2> HIDE DEF set
  <2>1. at'[w].scenario = 1 /\ at'[w].document = 1
    BY <1>2
  <2>2. QED
    BY <1>4, <2>1 DEF Behind
<1>6. Unbroken(w)'
  BY <1>3, <1>5 DEF Unbroken
<1>7. \A s : Earlier(s, 1) = {}
  BY DEF Earlier
<1>8. Remembers(w)'
  BY <1>2, <1>3, <1>7 DEF Remembers, Held, Earlier
<1>9. QED
  BY <1>2, <1>6, <1>8 DEF Judging

\* A job that has scored everything fails exactly when its revision got something wrong.
LEMMA VerdictRight ==
    ASSUME EvalInv, GateInv, NEW w \in Jobs, stage[w] = "present"
    PROVE  ExitCode(w) = "failure" <=>
              /\ ~job[w].live
              /\ \E i \in DOMAIN Scenarios[VersionOf(w)] :
                    \E d \in Range(Scenarios[VersionOf(w)][i].documents) :
                        d \in Broken[job[w].revision]
<1>1. /\ AtWork(w) /\ EvaluationTypeOK /\ Standing(w)
      /\ at[w].scenario > Len(Labelled(w)) /\ at[w].document = 1 /\ at[w].scenario \in Nat
  BY DEF AtWork, EvalInv, Standing, EvaluationTypeOK, Place
<1>2. VersionOf(w) \in Versions /\ Labelled(w) = Scenarios[VersionOf(w)]
  BY <1>1, VersionTyped
<1> DEFINE set == Labelled(w)
<1>3. \A i \in DOMAIN set : \A k \in DOMAIN set[i].documents : Behind(w, i, k)
  BY <1>1, <1>2, LabelledSet DEF Behind
<1>4. ASSUME NEW f, NEW d
      PROVE  d \in Range(f) <=> \E k \in DOMAIN f : d = f[k]
  BY Zenon DEF Range
<1>5. (\E i \in DOMAIN set : \E d \in Range(set[i].documents) : d \in Broken[job[w].revision])
        <=> ~Unbroken(w)
  BY <1>3, <1>4 DEF Unbroken
<1>6. CASE job[w].live
  BY <1>6 DEF ExitCode
<1>7. CASE ~job[w].live
  <2>1. Judging(w)
    BY <1>1, <1>7 DEF GateInv
  <2>2. Unbroken(w) <=> \A n \in DOMAIN outcomes[w] : Passes(outcomes[w][n])
    BY <1>1, <2>1 DEF Judging, Shows
  <2>3. (\A o \in Range(outcomes[w]) : Passes(o)) <=> Unbroken(w)
    BY <1>4, <2>2
  <2>4. ExitCode(w) = IF Unbroken(w) THEN "success" ELSE "failure"
    BY <1>7, <2>3 DEF ExitCode
  <2>5. QED
    BY <1>2, <1>5, <1>7, <2>4
<1>8. QED
  BY <1>6, <1>7

\* Nothing else a job does while others move touches its judging.
LEMMA JudgingFrame ==
    ASSUME NEW u \in Jobs, job'[u] = job[u], at'[u] = at[u], made'[u] = made[u],
           outcomes'[u] = outcomes[u], Judging(u)
    PROVE  Judging(u)'
<1>1. Labelled(u)' = Labelled(u)
  BY DEF Labelled, VersionOf
<1>2. Unbroken(u)' = Unbroken(u)
  BY <1>1 DEF Unbroken, Behind
<1>3. Remembers(u)' = Remembers(u)
  BY <1>1 DEF Remembers, Held, Earlier
<1>4. Shows(u)' = Shows(u)
  BY <1>1 DEF Shows, Passes
<1>5. QED
  BY <1>2, <1>3, <1>4 DEF Judging, Passes

LEMMA GateFrame ==
    ASSUME NEW u \in Jobs, job'[u] = job[u], verdict'[u] = verdict[u]
    PROVE  GateRight(u)' = GateRight(u)
  BY DEF GateRight, VersionOf

LEMMA GateMoves ==
    ASSUME GateInv, NEW w \in Jobs,
           \A u \in Jobs \ {w} :
               /\ job'[u] = job[u] /\ stage'[u] = stage[u] /\ at'[u] = at[u]
               /\ made'[u] = made[u] /\ outcomes'[u] = outcomes[u] /\ verdict'[u] = verdict[u],
           AtWork(w)' /\ ~job'[w].live => Judging(w)',
           verdict'[w] # "none" => stage'[w] = "over",
           GateRight(w)'
    PROVE  GateInv'
<1>1. ASSUME NEW u \in Jobs
      PROVE  /\ AtWork(u)' /\ ~job'[u].live => Judging(u)'
             /\ verdict'[u] # "none" => stage'[u] = "over"
             /\ GateRight(u)'
  <2>1. CASE u = w
    BY <2>1
  <2>2. CASE u # w
    <3>1. /\ job'[u] = job[u] /\ stage'[u] = stage[u] /\ at'[u] = at[u]
          /\ made'[u] = made[u] /\ outcomes'[u] = outcomes[u] /\ verdict'[u] = verdict[u]
      BY <2>2
    <3>2. AtWork(u)' = AtWork(u)
      BY <3>1 DEF AtWork
    <3>3. GateRight(u)
      BY DEF GateInv, GateIsRight, GateRight
    <3>4. QED
      BY <3>1, <3>2, <3>3, JudgingFrame, GateFrame DEF GateInv
  <2>3. QED
    BY <2>1, <2>2
<1>2. GateIsRight'
  BY <1>1 DEF GateIsRight, GateRight
<1>3. QED
  BY <1>1, <1>2 DEF GateInv

\* A job that ends has the verdict it was given; the others keep theirs.
LEMMA EndsGate ==
    ASSUME EvalInv, GateInv, NEW w \in Jobs, NEW code \in {"raised", "success", "failure"},
           Ends(w, code), AtWork(w),
           code \in {"success", "failure"} => stage[w] = "present" /\ code = ExitCode(w)
    PROVE  GateInv'
<1>1. /\ stage'[w] = "over" /\ verdict'[w] = code /\ job' = job
      /\ \A u \in Jobs \ {w} :
            /\ job'[u] = job[u] /\ stage'[u] = stage[u] /\ at'[u] = at[u]
            /\ made'[u] = made[u] /\ outcomes'[u] = outcomes[u] /\ verdict'[u] = verdict[u]
  BY DEF Ends, EvalInv, EvaluationTypeOK
<1>2. VersionOf(w)' = VersionOf(w)
  BY <1>1 DEF VersionOf
<1>3. GateRight(w)'
  <2>1. CASE code = "raised"
    BY <1>1, <2>1 DEF GateRight
  <2>2. CASE code \in {"success", "failure"}
    BY <1>1, <1>2, <2>2, VerdictRight DEF GateRight
  <2>3. QED
    BY <2>1, <2>2
<1>4. ~AtWork(w)'
  BY <1>1 DEF AtWork
<1>5. QED
  BY <1>1, <1>3, <1>4, GateMoves

\* A job that has no verdict moves within its labelled set or looks at the tables.
LEMMA WorkGate ==
    ASSUME EvalInv, GateInv, NEW w \in Jobs,
           Start(w) \/ ProcessDocument(w) \/ LookForDataset(w) \/ InsertDataset(w)
    PROVE  GateInv'
<1>1. /\ verdict' = verdict /\ stage[w] # "over" /\ verdict[w] = "none"
      /\ \A u \in Jobs \ {w} :
            /\ job'[u] = job[u] /\ stage'[u] = stage[u] /\ at'[u] = at[u]
            /\ made'[u] = made[u] /\ outcomes'[u] = outcomes[u]
  <2>1. verdict' = verdict /\ stage[w] # "over"
    BY DEF Start, ProcessDocument, LookForDataset, InsertDataset
  <2>2. ASSUME NEW u \in Jobs \ {w}
        PROVE  /\ job'[u] = job[u] /\ stage'[u] = stage[u] /\ at'[u] = at[u]
               /\ made'[u] = made[u] /\ outcomes'[u] = outcomes[u]
    BY DEF Start, ProcessDocument, LookForDataset, InsertDataset, EvalInv, EvaluationTypeOK
  <2>3. QED
    BY <2>1, <2>2 DEF GateInv
<1>2. GateRight(w)' /\ (verdict'[w] # "none" => stage'[w] = "over")
  BY <1>1 DEF GateRight
<1>3. ASSUME AtWork(w)', ~job'[w].live
      PROVE  Judging(w)'
  <2>1. CASE Start(w)
    BY <2>1, StartJudged
  <2>2. CASE ProcessDocument(w)
    <3>1. AtWork(w) /\ job' = job
      BY <2>2 DEF ProcessDocument, AtWork
    <3>2. QED
      BY <1>3, <2>2, <3>1, DocumentJudged DEF GateInv
  <2>3. CASE LookForDataset(w) \/ InsertDataset(w)
    <3>1. AtWork(w) /\ job' = job /\ at' = at /\ made' = made /\ outcomes' = outcomes
      BY <2>3 DEF LookForDataset, InsertDataset, AtWork
    <3>2. Judging(w)
      BY <1>3, <3>1 DEF GateInv
    <3>3. QED
      BY <3>1, <3>2, JudgingFrame
  <2>4. QED
    BY <2>1, <2>2, <2>3
<1>4. QED
  BY <1>1, <1>2, <1>3, GateMoves

LEMMA GateNext == EvalInv /\ GateInv /\ [Next]_vars => GateInv'
<1> SUFFICES ASSUME EvalInv, GateInv, [Next]_vars
             PROVE  GateInv'
  OBVIOUS
<1>1. ASSUME NEW w \in Jobs, ClashOfDatasets(w) \/ Fail(w)
      PROVE  GateInv'
  <2>1. Ends(w, "raised") /\ AtWork(w)
    BY <1>1 DEF ClashOfDatasets, Fail, AtWork
  <2>2. QED
    BY <2>1, EndsGate
<1>2. ASSUME NEW w \in Jobs, Record(w)
      PROVE  GateInv'
  <2>1. Ends(w, ExitCode(w)) /\ AtWork(w) /\ stage[w] = "present"
    BY <1>2 DEF Record, AtWork
  <2>2. ExitCode(w) \in {"success", "failure"}
    BY DEF ExitCode
  <2>3. QED
    BY <2>1, <2>2, EndsGate
<1>3. ASSUME UNCHANGED process
      PROVE  GateInv'
  <2>1. ASSUME NEW u \in Jobs
        PROVE  /\ job'[u] = job[u] /\ stage'[u] = stage[u] /\ at'[u] = at[u]
               /\ made'[u] = made[u] /\ outcomes'[u] = outcomes[u] /\ verdict'[u] = verdict[u]
    BY <1>3 DEF process
  <2>2. CASE Jobs = {}
    BY <2>2 DEF GateInv, GateIsRight
  <2>3. CASE Jobs # {}
    <3>1. PICK w \in Jobs : TRUE
      BY <2>3
    <3>2. AtWork(w)' = AtWork(w)
      BY <2>1 DEF AtWork
    <3>3. GateRight(w)' /\ (AtWork(w)' /\ ~job'[w].live => Judging(w)')
      <4>1. GateRight(w)
        BY DEF GateInv, GateIsRight, GateRight
      <4>2. QED
        BY <2>1, <3>2, <4>1, JudgingFrame, GateFrame DEF GateInv
    <3>4. verdict'[w] # "none" => stage'[w] = "over"
      BY <2>1 DEF GateInv
    <3>5. QED
      BY <2>1, <3>3, <3>4, GateMoves
  <2>4. QED
    BY <2>2, <2>3
<1>4. CASE PublishReal \/ UNCHANGED vars
  BY <1>3, <1>4 DEF PublishReal, vars
<1>5. QED
  BY <1>1, <1>2, <1>4, WorkGate DEF Next

\* A scripted job fails the build exactly when its own revision gets a document wrong,
\* whatever other jobs, other scenarios and the worker have in the database; a live one
\* never does (run_evaluation.py's main, harness.py's nested.rollback).
THEOREM GateSafe == Spec => []GateIsRight
<1>1. Init => GateInv
  <2> SUFFICES ASSUME Init
               PROVE  GateInv
    OBVIOUS
  <2>1. \A w \in Jobs : ~AtWork(w) /\ verdict[w] = "none"
    BY DEF Init, AtWork
  <2>2. QED
    BY <2>1 DEF GateInv, GateIsRight
<1>2. GateInv => GateIsRight
  BY DEF GateInv
<1>3. QED
  BY <1>1, <1>2, GateNext, EvaluationInvariance, PTL DEF Spec
=============================================================================

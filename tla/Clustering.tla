------------------------------ MODULE Clustering ------------------------------
(***************************************************************************)
(* How documents become members of clusters (processing/cluster.py) and    *)
(* organisations become entities (pipeline._get_or_create_entity) when     *)
(* several workers process documents in overlapping transactions at READ   *)
(* COMMITTED: each reads what is committed, writes what only it can see,   *)
(* waits for row and key locks, and is rolled back as a whole when a       *)
(* constraint or the deadlock detector says so.                            *)
(*                                                                         *)
(* Similarity is an equivalence, TopicOf; a document without an embedding  *)
(* is a topic of its own. A cluster is known by the document that opened   *)
(* it, and so is its event: both are inserted in one transaction, and a    *)
(* match merges into it. What a merge does to the event is EventReview's   *)
(* matter, the budget and the calls before it are ProcessingQueue's.       *)
(***************************************************************************)
EXTENDS Integers, Sequences, FiniteSets

CONSTANTS
    Documents,       \* documents whose extraction is verified
    TopicOf,         \* what a document is about
    PublishedAt,     \* the day it was published
    NamesOf,         \* the organisations it names, in the model's order
    Workers,
    Names,
    Window,          \* TIME_WINDOW
    CandidateLimit,  \* CANDIDATE_LIMIT
    NoDocument,
    MaxCrashes       \* bound: transactions lost with their worker

ASSUME DocumentsAssumption == IsFiniteSet(Documents) /\ NoDocument \notin Documents
ASSUME PublishedAssumption == PublishedAt \in [Documents -> Nat]
ASSUME NamesAssumption == NamesOf \in [Documents -> Seq(Names)]
ASSUME LimitsAssumption ==
    Window \in Nat /\ CandidateLimit \in Nat \ {0} /\ MaxCrashes \in Nat

VARIABLES
    home,       \* the cluster each document is a member of
    count,      \* member_count of each cluster
    last,       \* its last_updated_at
    roster,     \* the organisations its event names
    entities,   \* canonical names in the entities table
    phase,      \* where each worker stands in its transaction
    doc,        \* the document it has locked
    target,     \* the cluster it joins or opens
    read,       \* count and last of that row, as it read them
    left,       \* the organisations it has still to write
    minted,     \* the entities it has inserted and not committed
    crashes,    \* transactions lost so far
    clashes,    \* history: how often a key already taken undid each document
    beside      \* history: what was in flight when each document looked for its cluster

tables == <<home, count, last, roster, entities>>
worker == <<phase, doc, target, read, left, minted>>
vars == <<tables, worker, crashes, clashes, beside>>

Phases == {"idle", "joining", "naming", "inserting"}
Rows == [count : Nat, last : Nat]

ClusteringTypeOK ==
    /\ home \in [Documents -> Documents \cup {NoDocument}]
    /\ count \in [Documents -> Nat] /\ last \in [Documents -> Nat]
    /\ roster \in [Documents -> SUBSET Names]
    /\ entities \in SUBSET Names
    /\ phase \in [Workers -> Phases]
    /\ doc \in [Workers -> Documents \cup {NoDocument}]
    /\ target \in [Workers -> Documents \cup {NoDocument}]
    /\ read \in [Workers -> Rows]
    /\ left \in [Workers -> Seq(Names)]
    /\ minted \in [Workers -> SUBSET Names]
    /\ crashes \in 0 .. MaxCrashes
    /\ clashes \in [Documents -> Nat]
    /\ beside \in [Documents -> SUBSET Documents]
    /\ \A w \in Workers : doc[w] = NoDocument <=> phase[w] = "idle"

Init ==
    /\ home = [d \in Documents |-> NoDocument]
    /\ count = [d \in Documents |-> 0] /\ last = [d \in Documents |-> 0]
    /\ roster = [d \in Documents |-> {}]
    /\ entities = {}
    /\ phase = [w \in Workers |-> "idle"]
    /\ doc = [w \in Workers |-> NoDocument]
    /\ target = [w \in Workers |-> NoDocument]
    /\ read = [w \in Workers |-> [count |-> 0, last |-> 0]]
    /\ left = [w \in Workers |-> <<>>]
    /\ minted = [w \in Workers |-> {}]
    /\ crashes = 0
    /\ clashes = [d \in Documents |-> 0]
    /\ beside = [d \in Documents |-> {}]

-----------------------------------------------------------------------------
Cluster == {c \in Documents : home[c] = c}
Members(c) == {d \in Documents : home[d] = c}
Active == {w \in Workers : phase[w] # "idle"}
InFlight == {doc[w] : w \in Active}
Later(a, b) == IF a > b THEN a ELSE b

\* Mutant: an old report does not count as recent.
NearOneSided(day, latest) == day - latest <= Window /\ day >= latest

Near(day, latest) == day - latest <= Window /\ latest - day <= Window

Similar(d) == {c \in Cluster : TopicOf[c] = TopicOf[d]}

\* The nearest clusters, of which the similar ones come first.
Candidates(d) ==
    {S \in SUBSET Similar(d) :
        \/ S = Similar(d) /\ Cardinality(S) <= CandidateLimit
        \/ Cardinality(S) = CandidateLimit}

\* Mutant: a document that failed once is not taken again.
PendingOnce(d) == home[d] = NoDocument /\ clashes[d] = 0

Pending(d) == home[d] = NoDocument

-----------------------------------------------------------------------------
(* The transaction of one document *)

\* find_matching_cluster, under the lock of the document's row; a row without
\* a match is opened with its event at once.
Look(w, d) ==
    /\ phase[w] = "idle" /\ Pending(d) /\ d \notin InFlight
    /\ doc' = [doc EXCEPT ![w] = d]
    /\ beside' = [k \in Documents |-> IF k = d THEN InFlight ELSE beside[k] \ {d}]
    /\ UNCHANGED <<tables, minted, crashes, clashes>>
    /\ \E S \in Candidates(d) :
          LET close == {c \in S : Near(PublishedAt[d], last[c])}
          IN  \/ \E c \in close :
                    /\ phase' = [phase EXCEPT ![w] = "joining"]
                    /\ target' = [target EXCEPT ![w] = c]
                    /\ read' = [read EXCEPT ![w] = [count |-> count[c], last |-> last[c]]]
                    /\ UNCHANGED left
              \/ /\ close = {}
                 /\ phase' = [phase EXCEPT ![w] = "naming"]
                 /\ target' = [target EXCEPT ![w] = d]
                 /\ read' = [read EXCEPT ![w] = [count |-> 0, last |-> PublishedAt[d]]]
                 /\ left' = [left EXCEPT ![w] = NamesOf[d]]

\* Mutant: the day of whoever came last.
UpdatedByArrival(w) == [count |-> read[w].count + 1, last |-> PublishedAt[doc[w]]]

Updated(w) == [count |-> read[w].count + 1,
               last |-> Later(read[w].last, PublishedAt[doc[w]])]

\* The cluster row is locked by whoever has flushed its update of it.
Flushed(w) == phase[w] \in {"naming", "inserting"}
Blocks(v, w) == v # w /\ Flushed(v) /\ target[v] = target[w]

\* The flush takes the row lock; only then is the event read, as committed.
Join(w) ==
    /\ phase[w] = "joining"
    /\ \A v \in Workers : ~Blocks(v, w)
    /\ phase' = [phase EXCEPT ![w] = "naming"]
    /\ left' = [left EXCEPT ![w] = NamesOf[doc[w]]]
    /\ UNCHANGED <<tables, doc, target, read, minted, crashes, clashes, beside>>

\* Mutant: the table is not asked.
ExistsUnasked(w, n) == n \in minted[w]

Exists(w, n) == n \in entities \cup minted[w]

\* The event names it already; its row is locked, so its roster stays.
Listed(w, n) == n \in roster[target[w]]

\* The SELECT of _get_or_create_entity for a name the event has not got.
Lookup(w) ==
    /\ phase[w] = "naming" /\ left[w] # <<>>
    /\ LET n == Head(left[w]) IN
       \/ /\ Listed(w, n) \/ Exists(w, n)
          /\ left' = [left EXCEPT ![w] = Tail(@)] /\ UNCHANGED phase
       \/ /\ ~(Listed(w, n) \/ Exists(w, n))
          /\ phase' = [phase EXCEPT ![w] = "inserting"] /\ UNCHANGED left
    /\ UNCHANGED <<tables, doc, target, read, minted, crashes, clashes, beside>>

Taken(w, n) == \E v \in Workers \ {w} : n \in minted[v]

\* Its INSERT, which waits for another's of the same name.
Insert(w) ==
    /\ phase[w] = "inserting"
    /\ ~Taken(w, Head(left[w])) /\ Head(left[w]) \notin entities
    /\ minted' = [minted EXCEPT ![w] = @ \cup {Head(left[w])}]
    /\ left' = [left EXCEPT ![w] = Tail(@)]
    /\ phase' = [phase EXCEPT ![w] = "naming"]
    /\ UNCHANGED <<tables, doc, target, read, crashes, clashes, beside>>

\* The savepoint is rolled back and the document's locks go with it.
Undone(w) ==
    /\ phase' = [phase EXCEPT ![w] = "idle"]
    /\ doc' = [doc EXCEPT ![w] = NoDocument]
    /\ target' = [target EXCEPT ![w] = NoDocument]
    /\ left' = [left EXCEPT ![w] = <<>>]
    /\ minted' = [minted EXCEPT ![w] = {}]
    /\ UNCHANGED <<tables, read>>

\* The other transaction has committed: uq_entities_canonical_name_entity_type.
Clash(w) ==
    /\ phase[w] = "inserting" /\ Head(left[w]) \in entities
    /\ Undone(w)
    /\ clashes' = [clashes EXCEPT ![doc[w]] = @ + 1]
    /\ UNCHANGED <<crashes, beside>>

WaitsFor(w, v) ==
    \/ phase[w] = "joining" /\ Blocks(v, w)
    \/ phase[w] = "inserting" /\ v # w /\ Head(left[w]) \in minted[v]

\* A cycle of transactions that wait for each other.
Deadlocked(S) ==
    \A w \in S : (\E v \in S : WaitsFor(w, v)) /\ (\E v \in S : WaitsFor(v, w))

\* PostgreSQL cancels one of them.
Victim(w) ==
    /\ \E S \in SUBSET Workers : w \in S /\ Deadlocked(S)
    /\ Undone(w)
    /\ UNCHANGED <<crashes, clashes, beside>>

\* commit_each
Commit(w) ==
    /\ phase[w] = "naming" /\ left[w] = <<>>
    /\ LET d == doc[w]
           c == target[w]
       IN  /\ home' = [home EXCEPT ![d] = c]
           /\ count' = [count EXCEPT ![c] = Updated(w).count]
           /\ last' = [last EXCEPT ![c] = Updated(w).last]
           /\ roster' = [roster EXCEPT ![c] = @ \cup {NamesOf[d][i] : i \in DOMAIN NamesOf[d]}]
    /\ entities' = entities \cup minted[w]
    /\ phase' = [phase EXCEPT ![w] = "idle"]
    /\ doc' = [doc EXCEPT ![w] = NoDocument]
    /\ target' = [target EXCEPT ![w] = NoDocument]
    /\ minted' = [minted EXCEPT ![w] = {}]
    /\ UNCHANGED <<read, left, crashes, clashes, beside>>

\* The connection or the process is lost; the worker starts over.
Crash(w) ==
    /\ phase[w] # "idle" /\ crashes < MaxCrashes
    /\ crashes' = crashes + 1
    /\ Undone(w)
    /\ UNCHANGED <<clashes, beside>>

Step(w) ==
    \/ \E d \in Documents : Look(w, d)
    \/ Join(w) \/ Lookup(w) \/ Insert(w) \/ Clash(w) \/ Victim(w) \/ Commit(w)

Next == \E w \in Workers : Step(w) \/ Crash(w)

Spec == Init /\ [][Next]_vars

\* Workers are scheduled and the deadlock detector does not sleep.
FairSpec == Spec /\ WF_vars(\E w \in Workers : Step(w))

-----------------------------------------------------------------------------
(* Safety *)

Raced(a, b) == a \in beside[b] \/ b \in beside[a]

Close(a, b) == PublishedAt[a] - PublishedAt[b] \in -Window .. Window

\* Reports of one event end up in one cluster, and so in one record: two clusters
\* on one topic whose members are all close in time come only from transactions
\* that overlapped, or from a topic with more clusters than are looked at.
OneClusterPerEvent ==
    \A a, b \in Cluster :
        \/ a = b \/ TopicOf[a] # TopicOf[b] \/ Raced(a, b)
        \/ Cardinality(Similar(a)) > CandidateLimit
        \/ \E x, y \in Members(a) \cup Members(b) : ~Close(x, y)

\* No two members of a cluster were in flight together.
Orderly(c) == \A a, b \in Members(c) : ~Raced(a, b)

\* A cluster's row tells how many members it has and when the last of them was
\* published, unless two of them overlapped; then an update may be lost, but the
\* row never claims a member or a day that is not there. Every organisation its
\* event names is in the entities table, whoever inserted it and whatever became
\* of that transaction.
ClusterRowsTrue ==
    \A c \in Cluster :
        /\ count[c] \in 1 .. Cardinality(Members(c))
        /\ last[c] \in {PublishedAt[d] : d \in Members(c)}
        /\ roster[c] \subseteq entities
        /\ Orderly(c) => /\ count[c] = Cardinality(Members(c))
                         /\ \A d \in Members(c) : PublishedAt[d] <= last[c]

\* A document is undone by a name someone else committed at most once per name it
\* has, so the extraction paid for it again is bounded.
ClashesBounded == \A d \in Documents : clashes[d] <= Len(NamesOf[d])

-----------------------------------------------------------------------------
(* Liveness *)

\* Every document ends in a cluster: waits end, deadlocks are broken, and what
\* was undone is taken up again -- unless the same documents deadlock for ever,
\* which takes a survivor that is still waiting when its victim returns, a tick
\* and its model calls later.
EveryDocumentLands ==
    <>[][\A w \in Workers : ~Victim(w)]_vars => <>(\A d \in Documents : home[d] # NoDocument)
=============================================================================

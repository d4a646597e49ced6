---------------------------- MODULE ClusteringProofs ----------------------------
(***************************************************************************)
(* Clustering by any number of workers, of any documents. The invariant    *)
(* says of every transaction in flight what it knows that is no longer     *)
(* true, and that this is always owed to a document it has raced with.     *)
(***************************************************************************)
EXTENDS Clustering, FiniteSetTheorems, TLAPS

\* The names a document has, and those of them the table has.
NamesIn(d) == Range(NamesOf[d])
Met(d) == NamesIn(d) \cap entities

\* Who is in a cluster is in one that exists; events name what the table has.
Homes ==
    /\ \A d \in Documents : home[d] # NoDocument => home[d] \in Cluster
    /\ \A d \in Documents : roster[d] \subseteq entities

\* Documents in flight together have raced.
Apart ==
    \A v, w \in Active : v # w => doc[v] # doc[w] /\ Raced(doc[v], doc[w])

\* Document d in flight is in no cluster yet; it opens its own or joins one there is.
Placed(w, d, c) ==
    /\ home[d] = NoDocument
    /\ c \in Cluster \cup {d}
    /\ phase[w] = "joining" => c \in Cluster

\* What its transaction has read was true of row c once, and is unless d has raced
\* with a member.
Reading(w, d, c) ==
    /\ c = d => read[w] = [count |-> 0, last |-> PublishedAt[d]]
    /\ c \in Cluster =>
          /\ read[w].count \in 1 .. Cardinality(Members(c))
          /\ \E x \in Members(c) : read[w].last = PublishedAt[x]
          /\ \/ read[w] = [count |-> count[c], last |-> last[c]]
             \/ \E x \in Members(c) : Raced(x, d)

\* What keeps d from joining a cluster k on its topic.
Unlike(d, k) ==
    \/ Raced(k, d)
    \/ Cardinality(Similar(d)) > CandidateLimit
    \/ \E x \in Members(k) : ~Close(d, x)

Opening(d, c) ==
    c = d => \A k \in Cluster : TopicOf[k] = TopicOf[d] => Unlike(d, k)

\* Every name of the document is in the table, inserted or still to come; a name about
\* to be inserted was not there when it was looked up.
Naming(w, d) ==
    Flushed(w) =>
        /\ NamesIn(d) \subseteq entities \cup minted[w] \cup Range(left[w])
        /\ Range(left[w]) \subseteq NamesIn(d)
        /\ phase[w] = "inserting" =>
              /\ left[w] # <<>>
              /\ clashes[d] <= Cardinality(Met(d) \ {Head(left[w])})

Flight(w) ==
    \E d, c \in Documents :
        /\ doc[w] = d /\ target[w] = c
        /\ Placed(w, d, c) /\ Reading(w, d, c) /\ Opening(d, c) /\ Naming(w, d)

\* Each clash was with another name.
Clashed == \A d \in Documents : clashes[d] <= Cardinality(Met(d))

ClusterInv ==
    /\ ClusteringTypeOK
    /\ Homes
    /\ ClusterRowsTrue
    /\ OneClusterPerEvent
    /\ Apart
    /\ \A w \in Active : Flight(w)
    /\ Clashed

-----------------------------------------------------------------------------

-----------------------------------------------------------------------------
(* Names and counts *)

LEMMA NamesTyped ==
    ASSUME NEW d \in Documents
    PROVE  /\ NamesOf[d] \in Seq(Names) /\ NamesIn(d) \subseteq Names
           /\ NamesIn(d) = {NamesOf[d][i] : i \in DOMAIN NamesOf[d]}
           /\ IsFiniteSet(NamesIn(d)) /\ Cardinality(NamesIn(d)) <= Len(NamesOf[d])
<1>1. NamesOf[d] \in Seq(Names)
  BY NamesAssumption
<1>2. /\ Len(NamesOf[d]) \in Nat /\ DOMAIN NamesOf[d] = 1 .. Len(NamesOf[d])
      /\ \A i \in DOMAIN NamesOf[d] : NamesOf[d][i] \in Names
  BY <1>1
<1>3. NamesIn(d) = {NamesOf[d][i] : i \in DOMAIN NamesOf[d]}
  BY DEF NamesIn, Range
<1> DEFINE f == [i \in 1 .. Len(NamesOf[d]) |-> NamesOf[d][i]]
<1>4. f \in Surjection(1 .. Len(NamesOf[d]), NamesIn(d))
  BY <1>2, <1>3 DEF Surjection
<1>5. ExistsSurjection(1 .. Len(NamesOf[d]), NamesIn(d))
  BY <1>4 DEF ExistsSurjection
<1>6. IsFiniteSet(NamesIn(d))
  BY <1>2, <1>5, FS_NatSurjection
<1>7. Cardinality(NamesIn(d)) <= Len(NamesOf[d])
  BY <1>2, <1>5, FS_SurjCardinalityBound
<1>8. QED
  BY <1>1, <1>2, <1>3, <1>6, <1>7

\* Taking the first of some names leaves the others.
LEMMA TakeFirst ==
    ASSUME NEW s \in Seq(Names), s # <<>>
    PROVE  /\ Head(s) \in Names /\ Tail(s) \in Seq(Names)
           /\ Head(s) \in Range(s) /\ Range(Tail(s)) \subseteq Range(s)
           /\ Range(s) \subseteq {Head(s)} \cup Range(Tail(s))
<1>1. /\ Len(s) \in Nat \ {0} /\ DOMAIN s = 1 .. Len(s) /\ Head(s) = s[1]
      /\ Tail(s) \in Seq(Names) /\ Len(Tail(s)) = Len(s) - 1
      /\ DOMAIN Tail(s) = 1 .. Len(s) - 1
      /\ \A i \in 1 .. Len(s) - 1 : Tail(s)[i] = s[i + 1]
      /\ Head(s) \in Names
  OBVIOUS
<1>2. 1 \in DOMAIN s /\ Head(s) = s[1]
  BY <1>1
<1>3. Head(s) \in Range(s)
  BY <1>2 DEF Range
<1>4. \A i \in DOMAIN Tail(s) : i + 1 \in DOMAIN s /\ Tail(s)[i] = s[i + 1]
  BY <1>1
<1>5. Range(Tail(s)) \subseteq Range(s)
  BY <1>4 DEF Range
<1>6. \A i \in DOMAIN s : i = 1 \/ (i - 1 \in DOMAIN Tail(s) /\ Tail(s)[i - 1] = s[i])
  BY <1>1
<1>7. Range(s) \subseteq {Head(s)} \cup Range(Tail(s))
  BY <1>2, <1>6 DEF Range
<1>8. QED
  BY <1>1, <1>3, <1>5, <1>7

\* The names met are counted, and more of them count at least as much.
LEMMA MetCounts ==
    ASSUME NEW d \in Documents, NEW S \in SUBSET NamesIn(d), NEW T \in SUBSET S
    PROVE  /\ IsFiniteSet(S) /\ IsFiniteSet(T)
           /\ Cardinality(T) \in Nat /\ Cardinality(S) \in Nat
           /\ Cardinality(T) <= Cardinality(S)
           /\ Cardinality(S) <= Len(NamesOf[d])
<1>1. IsFiniteSet(NamesIn(d)) /\ Cardinality(NamesIn(d)) <= Len(NamesOf[d])
      /\ Len(NamesOf[d]) \in Nat
  BY NamesTyped
<1>2. IsFiniteSet(S) /\ Cardinality(S) <= Cardinality(NamesIn(d))
  BY <1>1, FS_Subset
<1>3. IsFiniteSet(T) /\ Cardinality(T) <= Cardinality(S)
  BY <1>2, FS_Subset
<1>4. Cardinality(T) \in Nat /\ Cardinality(S) \in Nat /\ Cardinality(NamesIn(d)) \in Nat
  BY <1>1, <1>2, <1>3, FS_CardinalityType
<1> DEFINE a == Cardinality(S)
           b == Cardinality(NamesIn(d))
           c == Len(NamesOf[d])
<1>5. a \in Nat /\ b \in Nat /\ c \in Nat /\ a <= b /\ b <= c
  BY <1>1, <1>2, <1>4
<1> HIDE DEF a, b, c
<1>6. a <= c
  BY <1>5
<1>7. QED
  BY <1>2, <1>3, <1>4, <1>6 DEF a, c

\* Sets of documents are finite.
LEMMA DocumentCounts ==
    ASSUME NEW S \in SUBSET Documents, NEW T \in SUBSET S
    PROVE  /\ IsFiniteSet(S) /\ IsFiniteSet(T)
           /\ Cardinality(S) \in Nat /\ Cardinality(T) \in Nat
           /\ Cardinality(T) <= Cardinality(S)
           /\ Cardinality(S) = Cardinality(T) => S = T
<1>1. IsFiniteSet(S)
  BY DocumentsAssumption, FS_Subset
<1>2. QED
  BY <1>1, FS_Subset, FS_CardinalityType

LEMMA StartsInv == Init => ClusterInv
<1> SUFFICES ASSUME Init
             PROVE  ClusterInv
  OBVIOUS
<1>1. Cluster = {} /\ Active = {}
  BY DocumentsAssumption DEF Init, Cluster, Active
<1>2. ClusteringTypeOK
  <2>1. <<>> \in Seq(Names) /\ [count |-> 0, last |-> 0] \in Rows /\ 0 \in 0 .. MaxCrashes
    BY LimitsAssumption DEF Rows
  <2>2. QED
    BY <2>1 DEF Init, ClusteringTypeOK, Phases
<1>3. Homes /\ ClusterRowsTrue /\ OneClusterPerEvent
  BY <1>1 DEF Init, Homes, ClusterRowsTrue, OneClusterPerEvent
<1>4. Clashed
  <2>1. ASSUME NEW d \in Documents
        PROVE  clashes[d] = 0 /\ Cardinality(Met(d)) \in Nat
    BY MetCounts DEF Init, Met
  <2>2. QED
    BY <2>1 DEF Clashed
<1>5. QED
  BY <1>1, <1>2, <1>3, <1>4 DEF ClusterInv, Apart


-----------------------------------------------------------------------------
(* Steps that leave the tables alone *)

LEMMA SameClusters ==
    ASSUME UNCHANGED tables
    PROVE  /\ Cluster' = Cluster
           /\ \A d \in Documents : /\ Members(d)' = Members(d)
                                   /\ Similar(d)' = Similar(d)
                                   /\ Met(d)' = Met(d)
<1>1. home' = home /\ entities' = entities
  BY DEF tables
<1>2. Cluster' = Cluster
  BY <1>1 DEF Cluster
<1>3. ASSUME NEW d \in Documents
      PROVE  /\ Members(d)' = Members(d)
             /\ Similar(d)' = Similar(d)
             /\ Met(d)' = Met(d)
  BY <1>1, <1>2 DEF Members, Similar, Met
<1>4. QED
  BY <1>2, <1>3

\* Members have a home, clusters are documents.
LEMMA Housed ==
    /\ Cluster \subseteq Documents
    /\ \A c \in Cluster : home[c] # NoDocument /\ c \in Members(c)
    /\ \A c \in Documents : \A x \in Members(c) : x \in Documents /\ home[x] # NoDocument
  BY DocumentsAssumption DEF Cluster, Members

LEMMA TablesKept ==
    ASSUME ClusterInv, UNCHANGED tables,
           \A a, b \in Documents : home[a] # NoDocument /\ home[b] # NoDocument =>
               (Raced(a, b)' <=> Raced(a, b))
    PROVE  Homes' /\ ClusterRowsTrue' /\ OneClusterPerEvent'
<1>1. /\ home' = home /\ count' = count /\ last' = last /\ roster' = roster
      /\ entities' = entities
  BY DEF tables
<1>2. Cluster' = Cluster /\ \A d \in Documents : /\ Members(d)' = Members(d)
                                                 /\ Similar(d)' = Similar(d)
  BY SameClusters
<1>3. Homes'
  BY <1>1, <1>2 DEF ClusterInv, Homes
<1>4. \A c \in Cluster : Orderly(c)' <=> Orderly(c)
  BY <1>2, Housed DEF Orderly
<1>5. ClusterRowsTrue'
  BY <1>1, <1>2, <1>4, Housed DEF ClusterInv, ClusterRowsTrue
<1>6. OneClusterPerEvent'
  BY <1>2, Housed DEF ClusterInv, OneClusterPerEvent
<1>7. QED
  BY <1>3, <1>5, <1>6

\* A transaction that is not touched keeps what it knows.
LEMMA FlightKept ==
    ASSUME UNCHANGED tables, NEW w \in Workers, Flight(w),
           doc'[w] = doc[w], target'[w] = target[w], read'[w] = read[w],
           phase'[w] = phase[w], left'[w] = left[w], minted'[w] = minted[w],
           clashes'[doc[w]] = clashes[doc[w]],
           \A a, b \in Documents : home[a] # NoDocument /\ b = doc[w] =>
               (Raced(a, b)' <=> Raced(a, b))
    PROVE  Flight(w)'
<1>1. PICK d \in Documents, c \in Documents :
          /\ doc[w] = d /\ target[w] = c
          /\ Placed(w, d, c) /\ Reading(w, d, c) /\ Opening(d, c) /\ Naming(w, d)
  BY DEF Flight
<1>2. /\ home' = home /\ count' = count /\ last' = last /\ roster' = roster
      /\ entities' = entities
  BY DEF tables
<1>3. Cluster' = Cluster /\ \A k \in Documents : /\ Members(k)' = Members(k)
                                                 /\ Similar(k)' = Similar(k)
                                                 /\ Met(k)' = Met(k)
  BY SameClusters
<1>4. \A a \in Documents : home[a] # NoDocument => (Raced(a, d)' <=> Raced(a, d))
  BY <1>1
<1>5. Placed(w, d, c)'
  BY <1>1, <1>2, <1>3 DEF Placed
<1>6. Reading(w, d, c)'
  BY <1>1, <1>2, <1>3, <1>4, Housed DEF Reading
<1>7. Opening(d, c)'
  <2>1. \A k \in Cluster : Unlike(d, k)' <=> Unlike(d, k)
    BY <1>3, <1>4, Housed DEF Unlike
  <2>2. QED
    BY <1>1, <1>3, <2>1 DEF Opening
<1>8. Naming(w, d)'
  BY <1>1, <1>2, <1>3 DEF Naming, Flushed
<1>9. QED
  BY <1>1, <1>5, <1>6, <1>7, <1>8 DEF Flight

\* Met names and clashes of the others stay as they are.
LEMMA ClashedKept ==
    ASSUME ClusterInv, UNCHANGED tables, UNCHANGED clashes
    PROVE  Clashed'
  BY SameClusters DEF ClusterInv, Clashed

\* One worker goes on in its transaction.
LEMMA MoveInv ==
    ASSUME ClusterInv, ClusteringTypeOK', NEW w \in Active,
           UNCHANGED <<tables, doc, target, read, clashes, beside>>,
           phase'[w] # "idle",
           \A v \in Workers \ {w} : /\ phase'[v] = phase[v] /\ left'[v] = left[v]
                                    /\ minted'[v] = minted[v],
           Flight(w)'
    PROVE  ClusterInv'
<1>1. \A a, b \in Documents : Raced(a, b)' <=> Raced(a, b)
  BY DEF Raced
<1>2. Homes' /\ ClusterRowsTrue' /\ OneClusterPerEvent'
  BY <1>1, TablesKept
<1>3. Active' = Active
  BY DEF Active
<1>4. Apart'
  BY <1>3 DEF ClusterInv, Apart, Raced
<1>5. ASSUME NEW v \in Active', v # w
      PROVE  Flight(v)'
  <2>1. v \in Workers /\ Flight(v)
    BY <1>3, <1>5 DEF Active, ClusterInv
  <2>2. QED
    BY <1>1, <1>5, <2>1, FlightKept
<1>6. Clashed'
  BY ClashedKept
<1>7. QED
  BY <1>2, <1>4, <1>5, <1>6 DEF ClusterInv

\* One worker gives its transaction up.
LEMMA LeaveInv ==
    ASSUME ClusterInv, ClusteringTypeOK', NEW w \in Active, Undone(w), UNCHANGED beside,
           \A d \in Documents : d # doc[w] => clashes'[d] = clashes[d],
           Clashed'
    PROVE  ClusterInv'
<1>1. \A a, b \in Documents : Raced(a, b)' <=> Raced(a, b)
  BY DEF Raced
<1>2. UNCHANGED tables
  BY DEF Undone
<1>3. Homes' /\ ClusterRowsTrue' /\ OneClusterPerEvent'
  BY <1>1, <1>2, TablesKept
<1>4. ASSUME NEW v \in Active'
      PROVE  /\ v \in Active /\ v # w
             /\ doc'[v] = doc[v] /\ target'[v] = target[v] /\ read'[v] = read[v]
             /\ phase'[v] = phase[v] /\ left'[v] = left[v] /\ minted'[v] = minted[v]
  <2>1. v \in Workers /\ phase'[v] # "idle"
    BY DEF Active
  <2>2. v # w
    BY <2>1 DEF Undone, ClusterInv, ClusteringTypeOK, Active
  <2>3. QED
    BY <2>1, <2>2 DEF Undone, ClusterInv, ClusteringTypeOK, Active
<1>5. Apart'
  BY <1>4 DEF ClusterInv, Apart, Raced
<1>6. ASSUME NEW v \in Active'
      PROVE  Flight(v)'
  <2>1. v \in Active /\ v # w /\ v \in Workers /\ Flight(v)
    BY <1>4 DEF Active, ClusterInv
  <2>2. doc[v] # doc[w] /\ doc[v] \in Documents
    BY <2>1 DEF ClusterInv, Apart, Flight
  <2>3. clashes'[doc[v]] = clashes[doc[v]]
    BY <2>2
  <2>4. QED
    BY <1>1, <1>2, <1>4, <2>1, <2>3, FlightKept
<1>7. QED
  BY <1>3, <1>5, <1>6 DEF ClusterInv

-----------------------------------------------------------------------------
(* The steps of a transaction *)

\* The two ways a search ends.
LEMMA LookEnds ==
    ASSUME ClusterInv, NEW w \in Workers, NEW d \in Documents, Look(w, d)
    PROVE  \E c \in Documents, r \in Rows, s \in Seq(Names) :
              /\ target' = [target EXCEPT ![w] = c]
              /\ read' = [read EXCEPT ![w] = r]
              /\ left' = [left EXCEPT ![w] = s]
              /\ \/ /\ phase' = [phase EXCEPT ![w] = "joining"]
                    /\ c \in Cluster /\ r = [count |-> count[c], last |-> last[c]]
                 \/ /\ phase' = [phase EXCEPT ![w] = "naming"]
                    /\ c = d /\ r = [count |-> 0, last |-> PublishedAt[d]]
                    /\ s = NamesOf[d]
                    /\ \E S \in Candidates(d) :
                          \A k \in S : ~Near(PublishedAt[d], last[k])
<1>1. PICK S \in Candidates(d) :
          \/ \E c \in S :
                /\ phase' = [phase EXCEPT ![w] = "joining"]
                /\ target' = [target EXCEPT ![w] = c]
                /\ read' = [read EXCEPT ![w] = [count |-> count[c], last |-> last[c]]]
                /\ left' = left
          \/ /\ \A k \in S : ~Near(PublishedAt[d], last[k])
             /\ phase' = [phase EXCEPT ![w] = "naming"]
             /\ target' = [target EXCEPT ![w] = d]
             /\ read' = [read EXCEPT ![w] = [count |-> 0, last |-> PublishedAt[d]]]
             /\ left' = [left EXCEPT ![w] = NamesOf[d]]
  BY DEF Look
<1>2. S \subseteq Cluster /\ Cluster \subseteq Documents
  BY DEF Candidates, Similar, Cluster
<1>3. left \in [Workers -> Seq(Names)]
  BY DEF ClusterInv, ClusteringTypeOK
<1>4. CASE \E c \in S :
              /\ phase' = [phase EXCEPT ![w] = "joining"]
              /\ target' = [target EXCEPT ![w] = c]
              /\ read' = [read EXCEPT ![w] = [count |-> count[c], last |-> last[c]]]
              /\ left' = left
  <2>1. PICK c \in S :
            /\ phase' = [phase EXCEPT ![w] = "joining"]
            /\ target' = [target EXCEPT ![w] = c]
            /\ read' = [read EXCEPT ![w] = [count |-> count[c], last |-> last[c]]]
            /\ left' = left
    BY <1>4
  <2>2. c \in Cluster /\ c \in Documents
    BY <1>2
  <2>3. [count |-> count[c], last |-> last[c]] \in Rows
    BY <2>2 DEF ClusterInv, ClusteringTypeOK, Rows
  <2>4. left[w] \in Seq(Names) /\ left' = [left EXCEPT ![w] = left[w]]
    BY <1>3, <2>1
  <2>5. QED
    BY <2>1, <2>2, <2>3, <2>4
<1>5. CASE /\ \A k \in S : ~Near(PublishedAt[d], last[k])
           /\ phase' = [phase EXCEPT ![w] = "naming"]
           /\ target' = [target EXCEPT ![w] = d]
           /\ read' = [read EXCEPT ![w] = [count |-> 0, last |-> PublishedAt[d]]]
           /\ left' = [left EXCEPT ![w] = NamesOf[d]]
  <2>1. [count |-> 0, last |-> PublishedAt[d]] \in Rows /\ NamesOf[d] \in Seq(Names)
    BY PublishedAssumption, NamesAssumption DEF Rows
  <2>2. QED
    BY <1>5, <2>1
<1>6. QED
  BY <1>1, <1>4, <1>5

LEMMA LookInv ==
    ASSUME ClusterInv, NEW w \in Workers, NEW d \in Documents, Look(w, d)
    PROVE  ClusterInv'
<1>1. /\ phase[w] = "idle" /\ home[d] = NoDocument /\ d \notin InFlight
      /\ doc' = [doc EXCEPT ![w] = d]
      /\ beside' = [k \in Documents |-> IF k = d THEN InFlight ELSE beside[k] \ {d}]
      /\ UNCHANGED tables /\ UNCHANGED minted /\ UNCHANGED crashes /\ UNCHANGED clashes
  BY DEF Look, Pending
<1>2. PICK c \in Documents, r \in Rows, s \in Seq(Names) :
          /\ target' = [target EXCEPT ![w] = c]
          /\ read' = [read EXCEPT ![w] = r]
          /\ left' = [left EXCEPT ![w] = s]
          /\ \/ /\ phase' = [phase EXCEPT ![w] = "joining"]
                /\ c \in Cluster /\ r = [count |-> count[c], last |-> last[c]]
             \/ /\ phase' = [phase EXCEPT ![w] = "naming"]
                /\ c = d /\ r = [count |-> 0, last |-> PublishedAt[d]]
                /\ s = NamesOf[d]
                /\ \E S \in Candidates(d) :
                      \A k \in S : ~Near(PublishedAt[d], last[k])
  BY LookEnds
<1>3. /\ home' = home /\ count' = count /\ last' = last /\ roster' = roster
      /\ entities' = entities
  BY <1>1 DEF tables
<1>4. ClusteringTypeOK /\ InFlight \subseteq Documents
  <2>1. ClusteringTypeOK
    BY DEF ClusterInv
  <2>2. InFlight \subseteq Documents
    BY <2>1 DEF ClusteringTypeOK, InFlight, Active
  <2>3. QED
    BY <2>1, <2>2
<1>5. ClusteringTypeOK'
  <2>1. /\ phase' \in [Workers -> Phases] /\ phase'[w] # "idle"
        /\ \A v \in Workers \ {w} : phase'[v] = phase[v]
    BY <1>2, <1>4 DEF ClusteringTypeOK, Phases
  <2>2. beside' \in [Documents -> SUBSET Documents]
    BY <1>1, <1>4 DEF ClusteringTypeOK
  <2>3. /\ doc' \in [Workers -> Documents \cup {NoDocument}]
        /\ target' \in [Workers -> Documents \cup {NoDocument}]
        /\ read' \in [Workers -> Rows] /\ left' \in [Workers -> Seq(Names)]
        /\ doc'[w] = d /\ \A v \in Workers \ {w} : doc'[v] = doc[v]
    BY <1>1, <1>2, <1>4 DEF ClusteringTypeOK
  <2>4. \A v \in Workers : doc'[v] = NoDocument <=> phase'[v] = "idle"
    BY <1>4, <2>1, <2>3, DocumentsAssumption DEF ClusteringTypeOK
  <2>5. QED
    BY <1>1, <1>3, <1>4, <2>1, <2>2, <2>3, <2>4 DEF ClusteringTypeOK
<1>6. /\ \A a, b \in Documents : a # d /\ b # d => (Raced(a, b)' <=> Raced(a, b))
      /\ \A a \in InFlight : a # d /\ Raced(a, d)' /\ Raced(d, a)'
  BY <1>1, <1>4 DEF Raced
<1>7. Homes' /\ ClusterRowsTrue' /\ OneClusterPerEvent'
  <2>1. \A a, b \in Documents : home[a] # NoDocument /\ home[b] # NoDocument =>
            (Raced(a, b)' <=> Raced(a, b))
    BY <1>1, <1>6
  <2>2. QED
    BY <1>1, <2>1, TablesKept
<1>8. Active' = Active \cup {w} /\ w \notin Active
  BY <1>1, <1>2, <1>4 DEF Active, ClusteringTypeOK
<1>9. \A v \in Active : v # w /\ v \in Workers /\ doc'[v] = doc[v] /\ doc[v] \in InFlight
  BY <1>1, <1>4, <1>8 DEF InFlight, ClusteringTypeOK, Active
<1>10. doc'[w] = d
  BY <1>1, <1>4 DEF ClusteringTypeOK
<1>11. Apart'
  <2>1. ASSUME NEW u \in Active, NEW v \in Active, u # v
        PROVE  doc'[u] # doc'[v] /\ (doc'[u] \in beside'[doc'[v]] \/ doc'[v] \in beside'[doc'[u]])
    <3>1. PICK a \in Documents, b \in Documents : a = doc[u] /\ b = doc[v]
      BY <1>4, <1>9
    <3>2. a # b /\ Raced(a, b)
      BY <2>1, <3>1 DEF ClusterInv, Apart
    <3>3. a # d /\ b # d
      BY <1>1, <1>9, <3>1
    <3>4. Raced(a, b)'
      BY <1>6, <3>2, <3>3
    <3>5. QED
      BY <1>9, <3>1, <3>2, <3>4 DEF Raced
  <2>2. ASSUME NEW v \in Active
        PROVE  /\ doc'[v] # d
               /\ doc'[v] \in beside'[d] \/ d \in beside'[doc'[v]]
    <3>1. PICK a \in InFlight : a = doc[v]
      BY <1>9
    <3>2. a # d /\ Raced(a, d)'
      BY <1>6
    <3>3. QED
      BY <1>9, <3>1, <3>2 DEF Raced
  <2>3. QED
    BY <1>8, <1>10, <2>1, <2>2 DEF Apart, Raced
<1>12. ASSUME NEW v \in Active
       PROVE  Flight(v)'
  <2>1. v \in Workers /\ v # w /\ Flight(v) /\ doc[v] \in Documents /\ doc[v] # d
    BY <1>1, <1>4, <1>9 DEF ClusterInv
  <2>2. /\ doc'[v] = doc[v] /\ target'[v] = target[v] /\ read'[v] = read[v]
        /\ phase'[v] = phase[v] /\ left'[v] = left[v] /\ minted'[v] = minted[v]
        /\ clashes'[doc[v]] = clashes[doc[v]]
    BY <1>1, <1>2, <1>4, <2>1 DEF ClusteringTypeOK
  <2>3. \A a, b \in Documents : home[a] # NoDocument /\ b = doc[v] =>
            (Raced(a, b)' <=> Raced(a, b))
    BY <1>1, <1>6, <2>1
  <2>4. QED
    BY <1>1, <2>1, <2>2, <2>3, FlightKept
<1>13. Flight(w)'
  <2>1. Cluster' = Cluster /\ \A k \in Documents : /\ Members(k)' = Members(k)
                                                   /\ Similar(k)' = Similar(k)
    BY <1>1, SameClusters
  <2>2. /\ target'[w] = c /\ read'[w] = r /\ left'[w] = s
        /\ phase'[w] \in {"joining", "naming"}
    BY <1>2, <1>4 DEF ClusteringTypeOK
  <2>3. d \notin Cluster
    BY <1>1, Housed
  <2>4. CASE /\ phase' = [phase EXCEPT ![w] = "joining"]
             /\ c \in Cluster /\ r = [count |-> count[c], last |-> last[c]]
    <3>1. phase'[w] = "joining" /\ c # d
      BY <1>4, <2>3, <2>4 DEF ClusteringTypeOK
    <3>2. Placed(w, d, c)'
      BY <1>1, <1>3, <2>1, <2>4 DEF Placed
    <3>3. /\ count[c] \in 1 .. Cardinality(Members(c))
          /\ \E x \in Members(c) : last[c] = PublishedAt[x]
      BY <2>4 DEF ClusterInv, ClusterRowsTrue
    <3>4. Reading(w, d, c)'
      BY <1>3, <2>1, <2>2, <2>4, <3>1, <3>3 DEF Reading
    <3>5. Opening(d, c)' /\ Naming(w, d)'
      BY <3>1 DEF Opening, Naming, Flushed
    <3>6. QED
      BY <1>10, <2>2, <3>2, <3>4, <3>5 DEF Flight
  <2>5. CASE /\ phase' = [phase EXCEPT ![w] = "naming"]
             /\ c = d /\ r = [count |-> 0, last |-> PublishedAt[d]]
             /\ s = NamesOf[d]
             /\ \E S \in Candidates(d) : \A k \in S : ~Near(PublishedAt[d], last[k])
    <3>1. phase'[w] = "naming"
      BY <1>4, <2>5 DEF ClusteringTypeOK
    <3>2. Placed(w, d, c)'
      BY <1>1, <1>3, <2>5, <3>1 DEF Placed
    <3>3. Reading(w, d, c)'
      BY <2>1, <2>2, <2>3, <2>5 DEF Reading
    <3>4. Naming(w, d)'
      BY <2>2, <2>5, <3>1 DEF Naming, NamesIn
    <3>5. ASSUME NEW k \in Cluster, TopicOf[k] = TopicOf[d],
                 ~(Cardinality(Similar(d)) > CandidateLimit)
          PROVE  \E x \in Members(k) : ~Close(d, x)
      <4>1. PICK S \in Candidates(d) : \A j \in S : ~Near(PublishedAt[d], last[j])
        BY <2>5
      <4>2. Similar(d) \subseteq Documents /\ S \subseteq Similar(d) /\ k \in Similar(d)
        BY <3>5 DEF Candidates, Similar, Cluster
      <4>3. S = Similar(d)
        <5>1. /\ Cardinality(S) \in Nat /\ Cardinality(Similar(d)) \in Nat
              /\ Cardinality(S) <= Cardinality(Similar(d))
              /\ Cardinality(Similar(d)) = Cardinality(S) => Similar(d) = S
          BY <4>2, DocumentCounts
        <5>2. CASE Cardinality(S) = CandidateLimit
          BY <3>5, <5>1, <5>2
        <5>3. QED
          BY <5>2 DEF Candidates
      <4>4. ~Near(PublishedAt[d], last[k])
        BY <4>1, <4>2, <4>3
      <4>5. PICK x \in Members(k) : last[k] = PublishedAt[x]
        BY DEF ClusterInv, ClusterRowsTrue
      <4>6. PublishedAt[d] \in Nat /\ PublishedAt[x] \in Nat
        BY PublishedAssumption, Housed DEF Members
      <4>7. ~Close(d, x)
        BY <4>4, <4>5, <4>6, LimitsAssumption DEF Close, Near
      <4>8. QED
        BY <4>7
    <3>6. ASSUME NEW k \in Cluster', TopicOf[k] = TopicOf[d]
          PROVE  Unlike(d, k)'
      <4>1. k \in Cluster /\ k \in Documents
        BY <2>1, Housed
      <4>2. \/ Cardinality(Similar(d)) > CandidateLimit
            \/ \E x \in Members(k) : ~Close(d, x)
        BY <3>5, <3>6, <4>1
      <4>3. QED
        BY <2>1, <4>1, <4>2 DEF Unlike
    <3>7. Opening(d, c)'
      BY <3>6 DEF Opening
    <3>8. QED
      BY <1>10, <2>2, <3>2, <3>3, <3>4, <3>7 DEF Flight
  <2>6. QED
    BY <1>2, <2>4, <2>5
<1>14. Clashed'
  BY <1>1, ClashedKept
<1>15. QED
  BY <1>5, <1>7, <1>8, <1>11, <1>12, <1>13, <1>14 DEF ClusterInv

\* What is known of a worker in flight.
LEMMA InHand ==
    ASSUME ClusterInv, NEW w \in Workers, phase[w] # "idle"
    PROVE  /\ w \in Active
           /\ \E d, c \in Documents :
                 /\ doc[w] = d /\ target[w] = c
                 /\ Placed(w, d, c) /\ Reading(w, d, c) /\ Opening(d, c) /\ Naming(w, d)
<1>1. w \in Active
  BY DEF Active
<1>2. QED
  BY <1>1 DEF ClusterInv, Flight

\* A step inside a transaction that only goes on with the names.
LEMMA GoOn ==
    ASSUME ClusterInv, NEW w \in Workers, phase[w] # "idle",
           UNCHANGED <<tables, doc, target, read, crashes, clashes, beside>>,
           NEW p \in {"naming", "inserting"}, NEW s \in Seq(Names), NEW m \in SUBSET Names,
           phase' = [phase EXCEPT ![w] = p], left' = [left EXCEPT ![w] = s],
           minted' = [minted EXCEPT ![w] = m],
           NEW d \in Documents, doc[w] = d,
           /\ NamesIn(d) \subseteq entities \cup m \cup Range(s)
           /\ Range(s) \subseteq NamesIn(d)
           /\ p = "inserting" =>
                 s # <<>> /\ clashes[d] <= Cardinality(Met(d) \ {Head(s)})
    PROVE  ClusterInv'
<1>1. ClusteringTypeOK
  BY DEF ClusterInv
<1>2. /\ phase'[w] = p /\ left'[w] = s /\ minted'[w] = m
      /\ \A v \in Workers \ {w} : /\ phase'[v] = phase[v] /\ left'[v] = left[v]
                                  /\ minted'[v] = minted[v]
      /\ phase' \in [Workers -> Phases] /\ left' \in [Workers -> Seq(Names)]
      /\ minted' \in [Workers -> SUBSET Names]
  BY <1>1 DEF ClusteringTypeOK, Phases
<1>3. ClusteringTypeOK'
  <2>1. \A v \in Workers : doc'[v] = NoDocument <=> phase'[v] = "idle"
    BY <1>1, <1>2, DocumentsAssumption DEF ClusteringTypeOK
  <2>2. QED
    BY <1>1, <1>2, <2>1 DEF ClusteringTypeOK, tables
<1>4. PICK c \in Documents :
          target[w] = c /\ Placed(w, d, c) /\ Reading(w, d, c) /\ Opening(d, c)
  BY InHand
<1>5. /\ home' = home /\ count' = count /\ last' = last /\ entities' = entities
      /\ read' = read /\ doc' = doc /\ target' = target /\ clashes' = clashes
      /\ beside' = beside
  BY DEF tables
<1>6. Cluster' = Cluster /\ \A k \in Documents : /\ Members(k)' = Members(k)
                                                 /\ Similar(k)' = Similar(k)
                                                 /\ Met(k)' = Met(k)
  BY SameClusters
<1>7. \A a, b \in Documents : Raced(a, b)' <=> Raced(a, b)
  BY <1>5 DEF Raced
<1>8. Placed(w, d, c)'
  BY <1>2, <1>4, <1>5, <1>6 DEF Placed
<1>9. Reading(w, d, c)'
  BY <1>4, <1>5, <1>6, <1>7, Housed DEF Reading
<1>10. Opening(d, c)'
  <2>1. \A k \in Cluster : Unlike(d, k)' <=> Unlike(d, k)
    BY <1>6, <1>7, Housed DEF Unlike
  <2>2. QED
    BY <1>4, <1>6, <2>1 DEF Opening
<1>11. Naming(w, d)'
  BY <1>2, <1>5, <1>6 DEF Naming
<1>12. Flight(w)'
  BY <1>4, <1>5, <1>8, <1>9, <1>10, <1>11 DEF Flight
<1>13. QED
  BY <1>2, <1>3, <1>12, InHand, MoveInv

LEMMA JoinInv ==
    ASSUME ClusterInv, NEW w \in Workers, Join(w)
    PROVE  ClusterInv'
<1>1. ClusteringTypeOK
  BY DEF ClusterInv
<1>2. phase[w] = "joining"
  BY DEF Join
<1>3. PICK d \in Documents : doc[w] = d
  BY <1>2, InHand
<1>4. NamesOf[d] \in Seq(Names) /\ minted[w] \in SUBSET Names
      /\ minted' = [minted EXCEPT ![w] = minted[w]]
  BY <1>1, NamesTyped DEF Join, ClusteringTypeOK
<1>5. QED
  BY <1>2, <1>3, <1>4, GoOn DEF Join, NamesIn

LEMMA LookupInv ==
    ASSUME ClusterInv, NEW w \in Workers, Lookup(w)
    PROVE  ClusterInv'
<1>1. ClusteringTypeOK
  BY DEF ClusterInv
<1>2. /\ phase[w] = "naming" /\ left[w] # <<>> /\ left[w] \in Seq(Names)
      /\ minted[w] \in SUBSET Names
      /\ UNCHANGED <<tables, doc, target, read, minted, crashes, clashes, beside>>
      /\ minted' = [minted EXCEPT ![w] = minted[w]]
  BY <1>1 DEF Lookup, ClusteringTypeOK
<1>3. PICK d \in Documents, c \in Documents :
          doc[w] = d /\ target[w] = c /\ Naming(w, d)
  BY <1>2, InHand
<1>4. /\ NamesIn(d) \subseteq entities \cup minted[w] \cup Range(left[w])
      /\ Range(left[w]) \subseteq NamesIn(d)
  BY <1>2, <1>3 DEF Naming, Flushed
<1> DEFINE n == Head(left[w])
<1>5. /\ n \in Names /\ Tail(left[w]) \in Seq(Names)
      /\ n \in Range(left[w]) /\ Range(Tail(left[w])) \subseteq Range(left[w])
      /\ Range(left[w]) \subseteq {n} \cup Range(Tail(left[w]))
  BY <1>2, TakeFirst
<1>6. CASE /\ Listed(w, n) \/ Exists(w, n)
           /\ left' = [left EXCEPT ![w] = Tail(@)] /\ UNCHANGED phase
  <2>1. n \in entities \cup minted[w]
    BY <1>3, <1>6 DEF Listed, Exists, ClusterInv, Homes
  <2>2. /\ left' = [left EXCEPT ![w] = Tail(left[w])]
        /\ phase' = [phase EXCEPT ![w] = "naming"]
    BY <1>1, <1>2, <1>6 DEF ClusteringTypeOK
  <2>3. /\ NamesIn(d) \subseteq entities \cup minted[w] \cup Range(Tail(left[w]))
        /\ Range(Tail(left[w])) \subseteq NamesIn(d)
    BY <1>4, <1>5, <2>1
  <2>4. QED
    BY <1>2, <1>3, <1>5, <2>2, <2>3, GoOn
<1>7. CASE /\ ~(Listed(w, n) \/ Exists(w, n))
           /\ phase' = [phase EXCEPT ![w] = "inserting"] /\ UNCHANGED left
  <2>1. n \notin entities
    BY <1>7 DEF Exists
  <2>2. Met(d) \ {n} = Met(d)
    BY <2>1 DEF Met
  <2>3. clashes[d] <= Cardinality(Met(d) \ {n})
    BY <2>2 DEF ClusterInv, Clashed
  <2>4. left' = [left EXCEPT ![w] = left[w]]
    BY <1>1, <1>7 DEF ClusteringTypeOK
  <2>5. QED
    BY <1>2, <1>3, <1>4, <1>7, <2>3, <2>4, GoOn
<1>8. QED
  BY <1>6, <1>7 DEF Lookup

LEMMA InsertInv ==
    ASSUME ClusterInv, NEW w \in Workers, Insert(w)
    PROVE  ClusterInv'
<1>1. ClusteringTypeOK
  BY DEF ClusterInv
<1>2. /\ phase[w] = "inserting" /\ left[w] \in Seq(Names) /\ minted[w] \in SUBSET Names
      /\ UNCHANGED <<tables, doc, target, read, crashes, clashes, beside>>
      /\ minted' = [minted EXCEPT ![w] = minted[w] \cup {Head(left[w])}]
      /\ left' = [left EXCEPT ![w] = Tail(left[w])]
      /\ phase' = [phase EXCEPT ![w] = "naming"]
  BY <1>1 DEF Insert, ClusteringTypeOK
<1>3. PICK d \in Documents : doc[w] = d /\ Naming(w, d)
  BY <1>2, InHand
<1>4. /\ NamesIn(d) \subseteq entities \cup minted[w] \cup Range(left[w])
      /\ Range(left[w]) \subseteq NamesIn(d) /\ left[w] # <<>>
  BY <1>2, <1>3 DEF Naming, Flushed
<1>5. /\ Head(left[w]) \in Names /\ Tail(left[w]) \in Seq(Names)
      /\ Range(Tail(left[w])) \subseteq Range(left[w])
      /\ Range(left[w]) \subseteq {Head(left[w])} \cup Range(Tail(left[w]))
  BY <1>2, <1>4, TakeFirst
<1>6. minted[w] \cup {Head(left[w])} \in SUBSET Names
  BY <1>2, <1>5
<1>7. /\ NamesIn(d) \subseteq entities \cup (minted[w] \cup {Head(left[w])})
                                 \cup Range(Tail(left[w]))
      /\ Range(Tail(left[w])) \subseteq NamesIn(d)
  BY <1>4, <1>5
<1>8. QED
  BY <1>2, <1>3, <1>5, <1>6, <1>7, GoOn

\* Undoing keeps the types.
LEMMA UndoneTyped ==
    ASSUME ClusterInv, NEW w \in Workers, Undone(w), UNCHANGED beside,
           crashes' \in 0 .. MaxCrashes, clashes' \in [Documents -> Nat]
    PROVE  ClusteringTypeOK'
<1>1. ClusteringTypeOK /\ <<>> \in Seq(Names)
  BY DEF ClusterInv
<1>2. /\ phase' \in [Workers -> Phases]
      /\ doc' \in [Workers -> Documents \cup {NoDocument}]
      /\ target' \in [Workers -> Documents \cup {NoDocument}]
      /\ left' \in [Workers -> Seq(Names)] /\ minted' \in [Workers -> SUBSET Names]
  BY <1>1 DEF Undone, ClusteringTypeOK, Phases
<1>3. \A v \in Workers : doc'[v] = NoDocument <=> phase'[v] = "idle"
  BY <1>1 DEF Undone, ClusteringTypeOK
<1>4. QED
  BY <1>1, <1>2, <1>3 DEF Undone, ClusteringTypeOK, tables

LEMMA ClashInv ==
    ASSUME ClusterInv, NEW w \in Workers, Clash(w)
    PROVE  ClusterInv'
<1>1. ClusteringTypeOK
  BY DEF ClusterInv
<1>2. PICK d \in Documents : doc[w] = d /\ Naming(w, d)
  BY InHand DEF Clash
<1>3. /\ Range(left[w]) \subseteq NamesIn(d) /\ left[w] # <<>> /\ left[w] \in Seq(Names)
      /\ clashes[d] <= Cardinality(Met(d) \ {Head(left[w])})
  BY <1>1, <1>2 DEF Clash, Naming, Flushed, ClusteringTypeOK
<1> DEFINE n == Head(left[w])
<1>4. n \in Met(d)
  <2>1. n \in Range(left[w])
    BY <1>3, TakeFirst
  <2>2. QED
    BY <1>3, <2>1 DEF Clash, Met
<1>5. Cardinality(Met(d) \ {n}) = Cardinality(Met(d)) - 1 /\ Cardinality(Met(d)) \in Nat
  <2>1. IsFiniteSet(Met(d)) /\ Cardinality(Met(d)) \in Nat
    BY MetCounts DEF Met
  <2>2. QED
    BY <1>4, <2>1, FS_RemoveElement
<1>6. /\ clashes' = [clashes EXCEPT ![d] = clashes[d] + 1] /\ clashes[d] \in Nat
      /\ clashes' \in [Documents -> Nat]
  BY <1>1, <1>2 DEF Clash, ClusteringTypeOK
<1>7. UNCHANGED tables /\ Undone(w) /\ UNCHANGED beside /\ UNCHANGED crashes
  BY DEF Clash, Undone
<1>8. Clashed'
  <2>1. ASSUME NEW e \in Documents
        PROVE  clashes'[e] <= Cardinality(Met(e)')
    <3>1. Met(e)' = Met(e) /\ clashes[e] <= Cardinality(Met(e))
      BY <1>7, SameClusters DEF ClusterInv, Clashed
    <3>2. CASE e = d
      <4>1. clashes'[d] = clashes[d] + 1
        BY <1>1, <1>6 DEF ClusteringTypeOK
      <4>2. clashes[d] + 1 <= Cardinality(Met(d))
        BY <1>3, <1>5, <1>6
      <4>3. QED
        BY <3>1, <3>2, <4>1, <4>2
    <3>3. CASE e # d
      BY <1>1, <1>6, <3>1, <3>3 DEF ClusteringTypeOK
    <3>4. QED
      BY <3>2, <3>3
  <2>2. QED
    BY <2>1 DEF Clashed
<1>9. ClusteringTypeOK'
  BY <1>1, <1>6, <1>7, UndoneTyped DEF ClusteringTypeOK
<1>10. \A e \in Documents : e # doc[w] => clashes'[e] = clashes[e]
  BY <1>1, <1>2, <1>6 DEF ClusteringTypeOK
<1>11. w \in Active
  BY DEF Clash, Active
<1>12. QED
  BY <1>7, <1>8, <1>9, <1>10, <1>11, LeaveInv

\* A transaction that is cancelled or dies.
LEMMA UndoneInv ==
    ASSUME ClusterInv, NEW w \in Workers, Victim(w) \/ Crash(w)
    PROVE  ClusterInv'
<1>1. Undone(w) /\ UNCHANGED clashes /\ UNCHANGED beside /\ UNCHANGED tables
  BY DEF Victim, Crash, Undone
<1>2. ClusteringTypeOK
  BY DEF ClusterInv
<1>3. crashes' \in 0 .. MaxCrashes
  BY <1>2, LimitsAssumption DEF Victim, Crash, ClusteringTypeOK
<1>4. ClusteringTypeOK'
  BY <1>1, <1>2, <1>3, UndoneTyped DEF ClusteringTypeOK
<1>5. phase[w] # "idle"
  <2>1. CASE Victim(w)
    <3>1. PICK S \in SUBSET Workers : w \in S /\ Deadlocked(S)
      BY <2>1 DEF Victim
    <3>2. PICK v \in S : WaitsFor(w, v)
      BY <3>1 DEF Deadlocked
    <3>3. QED
      BY <3>2 DEF WaitsFor
  <2>2. CASE Crash(w)
    BY <2>2 DEF Crash
  <2>3. QED
    BY <2>1, <2>2
<1>6. Clashed'
  BY <1>1, ClashedKept
<1>7. QED
  BY <1>1, <1>4, <1>5, <1>6, LeaveInv DEF Active

-----------------------------------------------------------------------------
(* The commit *)

\* What the tables hold after document d of worker w became a member of cluster c.
LEMMA CommitTables ==
    ASSUME ClusterInv, NEW w \in Workers, Commit(w), NEW d \in Documents, NEW c \in Documents,
           doc[w] = d, target[w] = c, home[d] = NoDocument, c \in Cluster \cup {d}
    PROVE  /\ Cluster' = Cluster \cup (IF c = d THEN {d} ELSE {})
           /\ d \notin Cluster
           /\ \A k \in Documents : Members(k)' = Members(k) \cup (IF k = c THEN {d} ELSE {})
           /\ \A k \in Documents : d \notin Members(k)
           /\ \A k \in Documents : Similar(k) \subseteq Similar(k)'
           /\ count'[c] = read[w].count + 1
           /\ last'[c] = Later(read[w].last, PublishedAt[d])
           /\ roster'[c] = roster[c] \cup NamesIn(d)
           /\ \A k \in Documents : k # c =>
                 count'[k] = count[k] /\ last'[k] = last[k] /\ roster'[k] = roster[k]
           /\ entities' = entities \cup minted[w]
           /\ home'[d] = c /\ \A k \in Documents : k # d => home'[k] = home[k]
           /\ \A a, b \in Documents : Raced(a, b)' <=> Raced(a, b)
<1>1. ClusteringTypeOK
  BY DEF ClusterInv
<1>2. /\ home' = [home EXCEPT ![d] = c]
      /\ count' = [count EXCEPT ![c] = read[w].count + 1]
      /\ last' = [last EXCEPT ![c] = Later(read[w].last, PublishedAt[d])]
      /\ roster' = [roster EXCEPT ![c] = @ \cup {NamesOf[d][i] : i \in DOMAIN NamesOf[d]}]
      /\ entities' = entities \cup minted[w] /\ beside' = beside
  BY DEF Commit, Updated
<1>3. home'[d] = c /\ \A k \in Documents : k # d => home'[k] = home[k]
  BY <1>1, <1>2 DEF ClusteringTypeOK
<1>4. d \notin Cluster /\ \A k \in Documents : d \notin Members(k)
  BY DocumentsAssumption DEF Cluster, Members
<1>5. Cluster' = Cluster \cup (IF c = d THEN {d} ELSE {})
  BY <1>3, <1>4 DEF Cluster
<1>6. \A k \in Documents : Members(k)' = Members(k) \cup (IF k = c THEN {d} ELSE {})
  BY <1>3, DocumentsAssumption DEF Members
<1>7. \A k \in Documents : Similar(k) \subseteq Similar(k)'
  BY <1>5 DEF Similar
<1>8. /\ count'[c] = read[w].count + 1
      /\ last'[c] = Later(read[w].last, PublishedAt[d])
      /\ roster'[c] = roster[c] \cup NamesIn(d)
      /\ \A k \in Documents : k # c =>
            count'[k] = count[k] /\ last'[k] = last[k] /\ roster'[k] = roster[k]
  BY <1>1, <1>2, NamesTyped DEF ClusteringTypeOK
<1>9. \A a, b \in Documents : Raced(a, b)' <=> Raced(a, b)
  BY <1>2 DEF Raced
<1>10. QED
  BY <1>2, <1>3, <1>4, <1>5, <1>6, <1>7, <1>8, <1>9

\* The row that was written tells the truth, as far as the transaction knew it.
LEMMA CommitRow ==
    ASSUME ClusterInv, NEW w \in Workers, Commit(w), NEW d \in Documents, NEW c \in Documents,
           doc[w] = d, target[w] = c, Placed(w, d, c), Reading(w, d, c)
    PROVE  /\ count'[c] \in 1 .. Cardinality(Members(c)')
           /\ last'[c] \in {PublishedAt[x] : x \in Members(c)'}
           /\ Orderly(c)' => /\ count'[c] = Cardinality(Members(c)')
                             /\ \A x \in Members(c)' : PublishedAt[x] <= last'[c]
<1>1. /\ Members(c)' = Members(c) \cup {d} /\ d \notin Members(c)
      /\ count'[c] = read[w].count + 1
      /\ last'[c] = Later(read[w].last, PublishedAt[d])
      /\ \A a, b \in Documents : Raced(a, b)' <=> Raced(a, b)
      /\ d \notin Cluster
  BY CommitTables DEF Placed
<1>2. Members(c) \subseteq Documents /\ IsFiniteSet(Members(c))
      /\ Cardinality(Members(c)) \in Nat
      /\ Cardinality(Members(c)') = Cardinality(Members(c)) + 1
  <2>1. Members(c) \subseteq Documents
    BY DEF Members
  <2>2. IsFiniteSet(Members(c)) /\ Cardinality(Members(c)) \in Nat
    BY <2>1, DocumentCounts
  <2>3. Cardinality(Members(c) \cup {d}) = Cardinality(Members(c)) + 1
    BY <1>1, <2>2, FS_AddElement
  <2>4. QED
    BY <1>1, <2>1, <2>2, <2>3
<1>3. \A x \in Documents : PublishedAt[x] \in Nat
  BY PublishedAssumption
<1>4. CASE c = d
  <2>1. read[w].count = 0 /\ read[w].last = PublishedAt[d]
    BY <1>4 DEF Reading
  <2>2. Members(c) = {}
    <3>1. ASSUME NEW x \in Members(c)
          PROVE  FALSE
      <4>1. x \in Documents /\ home[x] = c /\ home[x] # NoDocument
        BY <3>1, Housed DEF Members
      <4>2. c \in Cluster
        BY <4>1 DEF ClusterInv, Homes
      <4>3. QED
        BY <1>1, <1>4, <4>2
    <3>2. QED
      BY <3>1
  <2>3. Cardinality(Members(c)) = 0
    BY <2>2, FS_EmptySet
  <2>4. count'[c] = 1 /\ last'[c] = PublishedAt[d] /\ Members(c)' = {d}
    BY <1>1, <1>3, <2>1, <2>2 DEF Later
  <2>5. QED
    BY <1>2, <1>3, <2>3, <2>4
<1>5. CASE c # d
  <2>1. c \in Cluster
    BY <1>5 DEF Placed
  <2>2. /\ read[w].count \in 1 .. Cardinality(Members(c))
        /\ \E x \in Members(c) : read[w].last = PublishedAt[x]
        /\ \/ read[w] = [count |-> count[c], last |-> last[c]]
           \/ \E x \in Members(c) : Raced(x, d)
    BY <2>1 DEF Reading
  <2>3. PICK y \in Members(c) : read[w].last = PublishedAt[y]
    BY <2>2
  <2>4. /\ last'[c] \in {PublishedAt[y], PublishedAt[d]}
        /\ PublishedAt[y] <= last'[c] /\ PublishedAt[d] <= last'[c] /\ last'[c] \in Nat
    BY <1>1, <1>2, <1>3, <2>3 DEF Later
  <2>5. count'[c] \in 1 .. Cardinality(Members(c)')
    BY <1>1, <1>2, <2>2
  <2>6. last'[c] \in {PublishedAt[x] : x \in Members(c)'}
    BY <1>1, <2>3, <2>4
  <2>7. ASSUME Orderly(c)'
        PROVE  /\ count'[c] = Cardinality(Members(c)')
               /\ \A x \in Members(c)' : PublishedAt[x] <= last'[c]
    <3>1. Orderly(c) /\ \A x \in Members(c) : ~Raced(x, d)
      BY <1>1, <1>2, <2>7 DEF Orderly
    <3>2. read[w].count = count[c] /\ read[w].last = last[c]
      BY <2>2, <3>1
    <3>3. /\ count[c] = Cardinality(Members(c))
          /\ \A x \in Members(c) : PublishedAt[x] <= last[c]
      BY <2>1, <3>1 DEF ClusterInv, ClusterRowsTrue
    <3>4. count'[c] = Cardinality(Members(c)')
      BY <1>1, <1>2, <3>2, <3>3
    <3>5. ASSUME NEW x \in Members(c)
          PROVE  PublishedAt[x] <= last'[c]
      <4>1. PublishedAt[x] \in Nat /\ PublishedAt[x] <= last[c] /\ last[c] = PublishedAt[y]
        BY <1>2, <1>3, <2>3, <3>2, <3>3
      <4>2. PublishedAt[y] \in Nat
        BY <1>2, <1>3
      <4>3. QED
        BY <2>4, <4>1, <4>2
    <3>6. QED
      BY <1>1, <2>4, <3>4, <3>5
  <2>8. QED
    BY <2>5, <2>6, <2>7
<1>6. QED
  BY <1>4, <1>5

\* Sets of documents that grow count more.
LEMMA Growing ==
    ASSUME ClusterInv, NEW w \in Workers, Commit(w), NEW d \in Documents, NEW c \in Documents,
           doc[w] = d, target[w] = c, Placed(w, d, c)
    PROVE  \A k \in Documents :
              /\ Members(k) \subseteq Members(k)'
              /\ Cardinality(Members(k)) \in Nat /\ Cardinality(Members(k)') \in Nat
              /\ Cardinality(Members(k)) <= Cardinality(Members(k)')
              /\ Cardinality(Similar(k)) \in Nat /\ Cardinality(Similar(k)') \in Nat
              /\ Cardinality(Similar(k)) <= Cardinality(Similar(k)')
<1> SUFFICES ASSUME NEW k \in Documents
             PROVE  /\ Members(k) \subseteq Members(k)'
                    /\ Cardinality(Members(k)) \in Nat /\ Cardinality(Members(k)') \in Nat
                    /\ Cardinality(Members(k)) <= Cardinality(Members(k)')
                    /\ Cardinality(Similar(k)) \in Nat /\ Cardinality(Similar(k)') \in Nat
                    /\ Cardinality(Similar(k)) <= Cardinality(Similar(k)')
  OBVIOUS
<1>1. Members(k) \subseteq Members(k)' /\ Similar(k) \subseteq Similar(k)'
  BY CommitTables DEF Placed
<1>2. Members(k)' \subseteq Documents /\ Similar(k)' \subseteq Documents
  BY DEF Members, Similar, Cluster
<1>3. QED
  BY <1>1, <1>2, DocumentCounts

\* A new cluster is unlike every other, or has raced with it.
LEMMA CommitClusters ==
    ASSUME ClusterInv, NEW w \in Workers, Commit(w), NEW d \in Documents, NEW c \in Documents,
           doc[w] = d, target[w] = c, Placed(w, d, c), Opening(d, c)
    PROVE  OneClusterPerEvent'
<1>1. /\ Cluster' = Cluster \cup (IF c = d THEN {d} ELSE {})
      /\ \A k \in Documents : Members(k)' = Members(k) \cup (IF k = c THEN {d} ELSE {})
      /\ \A a, b \in Documents : Raced(a, b)' <=> Raced(a, b)
      /\ CandidateLimit \in Nat
  BY CommitTables, LimitsAssumption DEF Placed
<1>2. \A k \in Documents :
          /\ Members(k) \subseteq Members(k)'
          /\ Cardinality(Similar(k)) \in Nat /\ Cardinality(Similar(k)') \in Nat
          /\ Cardinality(Similar(k)) <= Cardinality(Similar(k)')
  BY Growing
<1>3. \A k \in Documents : Cardinality(Similar(k)) > CandidateLimit
                              => Cardinality(Similar(k)') > CandidateLimit
  BY <1>1, <1>2
<1> DEFINE Told(a, b) ==
        \/ a = b \/ TopicOf[a] # TopicOf[b] \/ Raced(a, b)'
        \/ Cardinality(Similar(a)') > CandidateLimit
        \/ \E x, y \in Members(a)' \cup Members(b)' : ~Close(x, y)
<1>4. ASSUME NEW a \in Cluster, NEW b \in Cluster
      PROVE  Told(a, b)
  <2>1. a \in Documents /\ b \in Documents
    BY Housed
  <2>2. \/ a = b \/ TopicOf[a] # TopicOf[b] \/ Raced(a, b)
        \/ Cardinality(Similar(a)) > CandidateLimit
        \/ \E x, y \in Members(a) \cup Members(b) : ~Close(x, y)
    BY DEF ClusterInv, OneClusterPerEvent
  <2>3. QED
    BY <1>1, <1>2, <1>3, <2>1, <2>2
<1>5. ASSUME c = d, NEW k \in Cluster
      PROVE  Told(d, k) /\ Told(k, d)
  <2>1. k \in Documents /\ d \in Members(d)'
    BY <1>1, <1>5, Housed
  <2>2. CASE TopicOf[k] # TopicOf[d]
    BY <2>2
  <2>3. CASE TopicOf[k] = TopicOf[d]
    <3>1. Unlike(d, k)
      BY <1>5, <2>3 DEF Opening
    <3>2. CASE Raced(k, d)
      <4>1. Raced(d, k)
        BY <3>2 DEF Raced
      <4>2. QED
        BY <1>1, <2>1, <3>2, <4>1
    <3>3. CASE Cardinality(Similar(d)) > CandidateLimit
      <4>1. Similar(k) = Similar(d)
        BY <2>3 DEF Similar
      <4>2. QED
        BY <1>3, <2>1, <3>3, <4>1
    <3>4. CASE \E x \in Members(k) : ~Close(d, x)
      BY <1>2, <2>1, <3>4
    <3>5. QED
      BY <3>1, <3>2, <3>3, <3>4 DEF Unlike
  <2>4. QED
    BY <2>2, <2>3
<1>6. Told(d, d)
  OBVIOUS
<1>7. \A a, b \in Cluster' : Told(a, b)
  BY <1>1, <1>4, <1>5, <1>6
<1>8. QED
  BY <1>7 DEF OneClusterPerEvent

\* The others are still in flight; if they have read the row, they have raced.
LEMMA CommitFlight ==
    ASSUME ClusterInv, NEW w \in Workers, Commit(w), NEW d \in Documents, NEW c \in Documents,
           doc[w] = d, target[w] = c, Placed(w, d, c), NEW v \in Active, v # w
    PROVE  Flight(v)'
<1>1. ClusteringTypeOK /\ w \in Active /\ v \in Workers /\ Flight(v)
  BY DEF ClusterInv, Active, Commit
<1>2. PICK e \in Documents, k \in Documents :
          /\ doc[v] = e /\ target[v] = k
          /\ Placed(v, e, k) /\ Reading(v, e, k) /\ Opening(e, k) /\ Naming(v, e)
  BY <1>1 DEF Flight
<1>3. e # d /\ Raced(d, e)
  BY <1>1, <1>2 DEF ClusterInv, Apart
<1>4. /\ Cluster' = Cluster \cup (IF c = d THEN {d} ELSE {})
      /\ d \notin Cluster
      /\ \A x \in Documents : Members(x)' = Members(x) \cup (IF x = c THEN {d} ELSE {})
      /\ \A x \in Documents : x # c => count'[x] = count[x] /\ last'[x] = last[x]
      /\ entities' = entities \cup minted[w]
      /\ home'[e] = home[e]
      /\ \A a, b \in Documents : Raced(a, b)' <=> Raced(a, b)
      /\ CandidateLimit \in Nat
  BY <1>3, CommitTables, LimitsAssumption DEF Placed
<1>5. \A x \in Documents :
          /\ Members(x) \subseteq Members(x)'
          /\ Cardinality(Members(x)) \in Nat /\ Cardinality(Members(x)') \in Nat
          /\ Cardinality(Members(x)) <= Cardinality(Members(x)')
          /\ Cardinality(Similar(x)) \in Nat /\ Cardinality(Similar(x)') \in Nat
          /\ Cardinality(Similar(x)) <= Cardinality(Similar(x)')
  BY Growing
<1>6. /\ doc'[v] = e /\ target'[v] = k /\ read'[v] = read[v] /\ phase'[v] = phase[v]
      /\ left'[v] = left[v] /\ minted'[v] = minted[v] /\ clashes' = clashes
  BY <1>1, <1>2 DEF Commit, ClusteringTypeOK
<1>7. Placed(v, e, k)'
  BY <1>2, <1>4, <1>6 DEF Placed
<1>8. Reading(v, e, k)'
  <2>1. ASSUME k \in Cluster'
        PROVE  /\ read[v].count \in 1 .. Cardinality(Members(k)')
               /\ \E x \in Members(k)' : read[v].last = PublishedAt[x]
               /\ \/ read[v] = [count |-> count'[k], last |-> last'[k]]
                  \/ \E x \in Members(k)' : Raced(x, e)'
    <3>1. k \in Cluster
      BY <1>2, <1>3, <1>4, <2>1 DEF Placed
    <3>2. /\ read[v].count \in 1 .. Cardinality(Members(k))
          /\ \E x \in Members(k) : read[v].last = PublishedAt[x]
          /\ \/ read[v] = [count |-> count[k], last |-> last[k]]
             \/ \E x \in Members(k) : Raced(x, e)
      BY <1>2, <3>1 DEF Reading
    <3>3. read[v].count \in 1 .. Cardinality(Members(k)')
      <4>1. /\ read[v].count \in 1 .. Cardinality(Members(k))
            /\ Cardinality(Members(k)) \in Nat /\ Cardinality(Members(k)') \in Nat
            /\ Cardinality(Members(k)) <= Cardinality(Members(k)')
        BY <1>5, <3>2
      <4>2. QED
        BY <4>1
    <3>4. \E x \in Members(k)' : read[v].last = PublishedAt[x]
      BY <1>5, <3>2
    <3>5. CASE k = c
      <4>1. d \in Members(k)' /\ Raced(d, e)'
        BY <1>3, <1>4, <3>5
      <4>2. QED
        BY <3>3, <3>4, <4>1
    <3>6. CASE k # c
      <4>1. count'[k] = count[k] /\ last'[k] = last[k]
        BY <1>4, <3>6
      <4>2. \A x \in Members(k) : x \in Members(k)' /\ (Raced(x, e) => Raced(x, e)')
        BY <1>4, <1>5, Housed
      <4>3. QED
        BY <3>2, <3>3, <3>4, <4>1, <4>2
    <3>7. QED
      BY <3>5, <3>6
  <2>2. k = e => read[v] = [count |-> 0, last |-> PublishedAt[e]]
    BY <1>2 DEF Reading
  <2>3. QED
    BY <1>6, <2>1, <2>2 DEF Reading
<1>9. Opening(e, k)'
  <2>1. ASSUME k = e, NEW j \in Cluster', TopicOf[j] = TopicOf[e]
        PROVE  Unlike(e, j)'
    <3>1. CASE j = d
      BY <1>3, <1>4, <3>1 DEF Unlike
    <3>2. CASE j # d
      <4>1. j \in Cluster /\ j \in Documents
        BY <1>4, <3>2, Housed
      <4>2. Unlike(e, j)
        BY <1>2, <2>1, <4>1 DEF Opening
      <4>3. Cardinality(Similar(e)) > CandidateLimit
                => Cardinality(Similar(e)') > CandidateLimit
        BY <1>4, <1>5
      <4>4. QED
        BY <1>4, <1>5, <4>1, <4>2, <4>3 DEF Unlike
    <3>3. QED
      BY <3>1, <3>2
  <2>2. QED
    BY <2>1 DEF Opening
<1>10. Naming(v, e)'
  <2>1. ASSUME Flushed(v)
        PROVE  /\ NamesIn(e) \subseteq entities' \cup minted[v] \cup Range(left[v])
               /\ Range(left[v]) \subseteq NamesIn(e)
    BY <1>2, <1>4, <2>1 DEF Naming
  <2>2. ASSUME phase[v] = "inserting"
        PROVE  /\ left[v] # <<>>
               /\ clashes[e] <= Cardinality(Met(e)' \ {Head(left[v])})
    <3>1. left[v] # <<>> /\ clashes[e] <= Cardinality(Met(e) \ {Head(left[v])})
      BY <1>2, <2>2 DEF Naming, Flushed
    <3>2. /\ Met(e) \ {Head(left[v])} \subseteq Met(e)' \ {Head(left[v])}
          /\ Met(e)' \ {Head(left[v])} \subseteq NamesIn(e)
      BY <1>4 DEF Met
    <3>3. /\ Cardinality(Met(e) \ {Head(left[v])}) \in Nat
          /\ Cardinality(Met(e)' \ {Head(left[v])}) \in Nat
          /\ Cardinality(Met(e) \ {Head(left[v])}) <= Cardinality(Met(e)' \ {Head(left[v])})
      BY <3>2, MetCounts
    <3>4. clashes[e] \in Nat
      BY <1>1 DEF ClusteringTypeOK
    <3>5. QED
      BY <3>1, <3>3, <3>4
  <2>3. QED
    BY <1>6, <2>1, <2>2 DEF Naming, Flushed
<1>11. QED
  BY <1>6, <1>7, <1>8, <1>9, <1>10 DEF Flight

LEMMA CommitTyped ==
    ASSUME ClusterInv, NEW w \in Workers, Commit(w), NEW d \in Documents, NEW c \in Documents,
           doc[w] = d, target[w] = c
    PROVE  ClusteringTypeOK'
<1>1. ClusteringTypeOK
  BY DEF ClusterInv
<1>2. read[w].count \in Nat /\ read[w].last \in Nat /\ PublishedAt[d] \in Nat
  BY <1>1, PublishedAssumption DEF ClusteringTypeOK, Rows
<1>3. read[w].count + 1 \in Nat /\ Later(read[w].last, PublishedAt[d]) \in Nat
  BY <1>2 DEF Later
<1>4. NamesIn(d) \subseteq Names /\ NamesIn(d) = {NamesOf[d][i] : i \in DOMAIN NamesOf[d]}
  BY NamesTyped
<1>5. /\ home' = [home EXCEPT ![d] = c]
      /\ count' = [count EXCEPT ![c] = read[w].count + 1]
      /\ last' = [last EXCEPT ![c] = Later(read[w].last, PublishedAt[d])]
      /\ roster' = [roster EXCEPT ![c] = roster[c] \cup NamesIn(d)]
      /\ entities' = entities \cup minted[w]
      /\ phase' = [phase EXCEPT ![w] = "idle"]
      /\ doc' = [doc EXCEPT ![w] = NoDocument]
      /\ target' = [target EXCEPT ![w] = NoDocument]
      /\ minted' = [minted EXCEPT ![w] = {}]
      /\ read' = read /\ left' = left /\ crashes' = crashes /\ clashes' = clashes
      /\ beside' = beside
  BY <1>1, <1>4 DEF Commit, Updated, ClusteringTypeOK
<1>6. /\ home' \in [Documents -> Documents \cup {NoDocument}]
      /\ count' \in [Documents -> Nat] /\ last' \in [Documents -> Nat]
      /\ roster' \in [Documents -> SUBSET Names] /\ entities' \in SUBSET Names
  BY <1>1, <1>3, <1>4, <1>5 DEF ClusteringTypeOK
<1>7. /\ phase' \in [Workers -> Phases]
      /\ doc' \in [Workers -> Documents \cup {NoDocument}]
      /\ target' \in [Workers -> Documents \cup {NoDocument}]
      /\ minted' \in [Workers -> SUBSET Names]
      /\ \A v \in Workers : doc'[v] = NoDocument <=> phase'[v] = "idle"
  BY <1>1, <1>5 DEF ClusteringTypeOK, Phases
<1>8. QED
  BY <1>1, <1>5, <1>6, <1>7 DEF ClusteringTypeOK

LEMMA CommitInv ==
    ASSUME ClusterInv, NEW w \in Workers, Commit(w)
    PROVE  ClusterInv'
<1>1. ClusteringTypeOK /\ phase[w] = "naming" /\ left[w] = <<>>
  BY DEF ClusterInv, Commit
<1>2. PICK d \in Documents, c \in Documents :
          /\ doc[w] = d /\ target[w] = c
          /\ Placed(w, d, c) /\ Reading(w, d, c) /\ Opening(d, c) /\ Naming(w, d)
  BY <1>1, InHand
<1>3. ClusteringTypeOK'
  BY <1>2, CommitTyped
<1>4. /\ Cluster' = Cluster \cup (IF c = d THEN {d} ELSE {})
      /\ \A k \in Documents : Members(k)' = Members(k) \cup (IF k = c THEN {d} ELSE {})
      /\ roster'[c] = roster[c] \cup NamesIn(d)
      /\ \A k \in Documents : k # c =>
            count'[k] = count[k] /\ last'[k] = last[k] /\ roster'[k] = roster[k]
      /\ entities' = entities \cup minted[w]
      /\ home'[d] = c /\ \A k \in Documents : k # d => home'[k] = home[k]
      /\ \A a, b \in Documents : Raced(a, b)' <=> Raced(a, b)
  BY <1>2, CommitTables DEF Placed
<1>5. NamesIn(d) \subseteq entities \cup minted[w]
  <2>1. NamesIn(d) \subseteq entities \cup minted[w] \cup Range(left[w])
    BY <1>1, <1>2 DEF Naming, Flushed
  <2>2. Range(left[w]) = {}
    BY <1>1 DEF Range
  <2>3. QED
    BY <2>1, <2>2
<1>6. Homes'
  <2>1. ASSUME NEW k \in Documents, home'[k] # NoDocument
        PROVE  home'[k] \in Cluster'
    <3>1. CASE k = d
      BY <1>2, <1>4, <3>1 DEF Placed
    <3>2. CASE k # d
      BY <1>4, <2>1, <3>2 DEF ClusterInv, Homes
    <3>3. QED
      BY <3>1, <3>2
  <2>2. ASSUME NEW k \in Documents
        PROVE  roster'[k] \subseteq entities'
    BY <1>4, <1>5 DEF ClusterInv, Homes
  <2>3. QED
    BY <2>1, <2>2 DEF Homes
<1>7. ClusterRowsTrue'
  <2>1. ASSUME NEW k \in Cluster', k = c
        PROVE  /\ count'[k] \in 1 .. Cardinality(Members(k)')
               /\ last'[k] \in {PublishedAt[x] : x \in Members(k)'}
               /\ Orderly(k)' => /\ count'[k] = Cardinality(Members(k)')
                                 /\ \A x \in Members(k)' : PublishedAt[x] <= last'[k]
    BY <1>2, <2>1, CommitRow
  <2>2. ASSUME NEW k \in Cluster', k # c
        PROVE  /\ count'[k] \in 1 .. Cardinality(Members(k)')
               /\ last'[k] \in {PublishedAt[x] : x \in Members(k)'}
               /\ Orderly(k)' => /\ count'[k] = Cardinality(Members(k)')
                                 /\ \A x \in Members(k)' : PublishedAt[x] <= last'[k]
    <3>1. k \in Cluster /\ k \in Documents
      <4>1. k \in Cluster \/ (c = d /\ k = d)
        BY <1>4
      <4>2. QED
        BY <2>2, <4>1, Housed
    <3>2. Members(k)' = Members(k)
      <4>1. Members(k)' = Members(k) \cup (IF k = c THEN {d} ELSE {})
        BY <1>4, <3>1
      <4>2. QED
        BY <2>2, <4>1
    <3>3. count'[k] = count[k] /\ last'[k] = last[k]
      BY <1>4, <2>2, <3>1
    <3>4. Orderly(k)' => Orderly(k)
      BY <1>4, <3>1, <3>2, Housed DEF Orderly
    <3>5. QED
      BY <3>1, <3>2, <3>3, <3>4 DEF ClusterInv, ClusterRowsTrue
  <2>3. \A k \in Cluster' : roster'[k] \subseteq entities'
    BY <1>6 DEF Homes, Cluster
  <2>4. QED
    BY <2>1, <2>2, <2>3 DEF ClusterRowsTrue
<1>8. OneClusterPerEvent'
  BY <1>2, CommitClusters
<1>9. ASSUME NEW v \in Active'
      PROVE  v \in Active /\ v # w /\ doc'[v] = doc[v]
  <2>1. phase' = [phase EXCEPT ![w] = "idle"] /\ doc' = [doc EXCEPT ![w] = NoDocument]
    BY DEF Commit
  <2>2. v \in Workers /\ phase'[v] # "idle"
    BY DEF Active
  <2>3. v # w
    BY <1>1, <2>1, <2>2 DEF ClusteringTypeOK
  <2>4. QED
    BY <1>1, <2>1, <2>2, <2>3 DEF ClusteringTypeOK, Active
<1>10. Apart'
  <2>1. beside' = beside
    BY DEF Commit
  <2>2. QED
    BY <1>9, <2>1 DEF ClusterInv, Apart, Raced
<1>11. \A v \in Active' : Flight(v)'
  BY <1>2, <1>9, CommitFlight
<1>12. Clashed'
  <2>1. ASSUME NEW k \in Documents
        PROVE  clashes'[k] <= Cardinality(Met(k)')
    <3>1. clashes'[k] = clashes[k] /\ clashes[k] \in Nat /\ clashes[k] <= Cardinality(Met(k))
      BY <1>1 DEF Commit, ClusterInv, Clashed, ClusteringTypeOK
    <3>2. Met(k) \subseteq Met(k)' /\ Met(k)' \subseteq NamesIn(k)
      BY <1>4 DEF Met
    <3>3. /\ Cardinality(Met(k)) \in Nat /\ Cardinality(Met(k)') \in Nat
          /\ Cardinality(Met(k)) <= Cardinality(Met(k)')
      BY <3>2, MetCounts
    <3>4. QED
      BY <3>1, <3>3
  <2>2. QED
    BY <2>1 DEF Clashed
<1>13. QED
  BY <1>3, <1>6, <1>7, <1>8, <1>10, <1>11, <1>12 DEF ClusterInv

-----------------------------------------------------------------------------
(* The theorems *)

LEMMA StutterInv == ClusterInv /\ UNCHANGED vars => ClusterInv'
<1> SUFFICES ASSUME ClusterInv, UNCHANGED vars
             PROVE  ClusterInv'
  OBVIOUS
<1>1. /\ UNCHANGED tables /\ UNCHANGED worker /\ UNCHANGED crashes
      /\ UNCHANGED clashes /\ UNCHANGED beside
  BY DEF vars
<1>2. /\ phase' = phase /\ doc' = doc /\ target' = target /\ read' = read
      /\ left' = left /\ minted' = minted
  BY <1>1 DEF worker
<1>3. \A a, b \in Documents : Raced(a, b)' <=> Raced(a, b)
  BY <1>1 DEF Raced
<1>4. Homes' /\ ClusterRowsTrue' /\ OneClusterPerEvent' /\ Clashed'
  BY <1>1, <1>3, TablesKept, ClashedKept
<1>5. Active' = Active
  BY <1>2 DEF Active
<1>6. Apart'
  BY <1>1, <1>2, <1>5 DEF ClusterInv, Apart, Raced
<1>7. ASSUME NEW v \in Active'
      PROVE  Flight(v)'
  <2>1. v \in Workers /\ Flight(v)
    BY <1>5 DEF ClusterInv, Active
  <2>2. QED
    BY <1>1, <1>2, <1>3, <2>1, FlightKept
<1>8. ClusteringTypeOK'
  BY <1>1, <1>2 DEF ClusterInv, ClusteringTypeOK, tables
<1>9. QED
  BY <1>4, <1>6, <1>7, <1>8 DEF ClusterInv

LEMMA NextInv == ClusterInv /\ [Next]_vars => ClusterInv'
<1> SUFFICES ASSUME ClusterInv, [Next]_vars
             PROVE  ClusterInv'
  OBVIOUS
<1>1. CASE UNCHANGED vars
  BY <1>1, StutterInv
<1>2. ASSUME NEW w \in Workers, NEW d \in Documents, Look(w, d)
      PROVE  ClusterInv'
  BY <1>2, LookInv
<1>3. ASSUME NEW w \in Workers, Join(w)
      PROVE  ClusterInv'
  BY <1>3, JoinInv
<1>4. ASSUME NEW w \in Workers, Lookup(w)
      PROVE  ClusterInv'
  BY <1>4, LookupInv
<1>5. ASSUME NEW w \in Workers, Insert(w)
      PROVE  ClusterInv'
  BY <1>5, InsertInv
<1>6. ASSUME NEW w \in Workers, Clash(w)
      PROVE  ClusterInv'
  BY <1>6, ClashInv
<1>7. ASSUME NEW w \in Workers, Victim(w) \/ Crash(w)
      PROVE  ClusterInv'
  BY <1>7, UndoneInv
<1>8. ASSUME NEW w \in Workers, Commit(w)
      PROVE  ClusterInv'
  BY <1>8, CommitInv
<1>9. QED
  BY <1>1, <1>2, <1>3, <1>4, <1>5, <1>6, <1>7, <1>8 DEF Next, Step

\* The invariant holds of every behaviour of the workers (process_pending).
THEOREM ClusterInvariance == Spec => []ClusterInv
  BY StartsInv, NextInv, PTL DEF Spec

\* The tables and the transactions over them keep their types.
THEOREM ClusteringTypeCorrect == Spec => []ClusteringTypeOK
<1>1. ClusterInv => ClusteringTypeOK
  BY DEF ClusterInv
<1>2. QED
  BY <1>1, ClusterInvariance, PTL

\* For any workers, documents and organisations, two clusters on one topic whose
\* members are close come from transactions that overlapped or from a crowded topic
\* (find_matching_cluster).
THEOREM OneClusterSafe == Spec => []OneClusterPerEvent
<1>1. ClusterInv => OneClusterPerEvent
  BY DEF ClusterInv
<1>2. QED
  BY <1>1, ClusterInvariance, PTL

\* A cluster's row never claims more than its members, and without overlaps it is exact
\* (assign_to_cluster); the names of an event are entities (_get_or_create_entity).
THEOREM RowsSafe == Spec => []ClusterRowsTrue
<1>1. ClusterInv => ClusterRowsTrue
  BY DEF ClusterInv
<1>2. QED
  BY <1>1, ClusterInvariance, PTL

\* Whoever inserts names in whatever order, a document is undone by a key already taken
\* at most once per name it has.
THEOREM ClashesSafe == Spec => []ClashesBounded
<1>1. ASSUME ClusterInv, NEW d \in Documents
      PROVE  clashes[d] <= Len(NamesOf[d])
  <2>1. clashes[d] <= Cardinality(Met(d)) /\ clashes[d] \in Nat
    BY <1>1 DEF ClusterInv, Clashed, ClusteringTypeOK
  <2>2. Met(d) \subseteq NamesIn(d)
    BY DEF Met
  <2>3. Cardinality(Met(d)) \in Nat /\ Cardinality(Met(d)) <= Len(NamesOf[d])
    BY <2>2, MetCounts
  <2>4. NamesOf[d] \in Seq(Names)
    BY NamesTyped
  <2>5. Len(NamesOf[d]) \in Nat
    BY <2>4
  <2>6. QED
    BY <2>1, <2>3, <2>5
<1>2. ClusterInv => ClashesBounded
  BY <1>1 DEF ClashesBounded
<1>3. QED
  BY <1>2, ClusterInvariance, PTL
=============================================================================

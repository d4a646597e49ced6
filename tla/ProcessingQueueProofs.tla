------------------------- MODULE ProcessingQueueProofs -------------------------
(***************************************************************************)
(* Theorems about ProcessingQueue, for any number of documents and         *)
(* workers, any limit, budget and prices.                                  *)
(***************************************************************************)
EXTENDS ProcessingQueue, FiniteSetTheorems, WellFoundedInduction, TLAPS

-----------------------------------------------------------------------------
(* Lemmas about the operators *)

\* Every list of documents has an oldest one.
LEMMA OldestExists ==
  ASSUME NEW T \in SUBSET Nat, T # {}
  PROVE  \E d \in T : \A c \in T : d <= c
<1>1. PICK x \in T : \A y \in T : ~ (<<y, x>> \in OpToRel(<, Nat))
  BY NatLessThanWellFounded, WFMin
<1>2. \A y \in T : x <= y
  <2>. TAKE y \in T
  <2>1. ~ (<<y, x>> \in OpToRel(<, Nat))
    BY <1>1
  <2>2. ~ (y < x)
    BY <2>1 DEF OpToRel
  <2>. QED
    BY <2>2
<1>. QED
  BY <1>2

LEMMA CurrentListed ==
  ASSUME NEW w \in Workers, QueueTypeOK, todo[w] # {}
  PROVE  Current(w) \in todo[w] /\ Current(w) \in Documents
<1>1. todo[w] \in SUBSET Documents /\ todo[w] \in SUBSET Nat
  BY DocumentsAssumption DEF QueueTypeOK
<1>. QED
  BY <1>1, OldestExists DEF Current

LEMMA CostBounded ==
  ASSUME NEW made \in Seq(Answers)
  PROVE  Cost(made) \in Nat /\ Cost(made) <= DocumentCost
<1>1. \A a : Billed(a, FirstPrice) \in Nat /\ Billed(a, FirstPrice) <= FirstPrice
  BY PriceAssumption DEF Billed
<1>2. \A a : Billed(a, SecondPrice) \in Nat /\ Billed(a, SecondPrice) <= SecondPrice
  BY PriceAssumption DEF Billed
<1>3. FirstPrice \in Nat /\ SecondPrice \in Nat
  BY PriceAssumption
<1>. QED
  BY <1>1, <1>2, <1>3 DEF Cost, DocumentCost

LEMMA ErrorRowsCount ==
  ASSUME NEW made \in Seq(Answers)
  PROVE  ErrorRows(made) \in Nat
<1>. DEFINE S == {i \in DOMAIN made : Label(made, i) = "error"}
<1>1. IsFiniteSet(DOMAIN made)
  BY FS_Interval
<1>2. IsFiniteSet(S)
  BY <1>1, FS_Subset
<1>3. Cardinality(S) \in Nat
  BY <1>2, FS_CardinalityType
<1>. QED
  BY <1>3 DEF ErrorRows

\* The last call with a result, if any has one.
LEMMA LastExists ==
  ASSUME NEW n \in Nat, NEW S \in SUBSET (1 .. n), S # {}
  PROVE  \E i \in S : \A j \in S : j <= i
<1>. DEFINE T == {n - i : i \in S}
<1>1. T \in SUBSET Nat /\ T # {}
  <2>1. \A i \in S : n - i \in Nat
    OBVIOUS
  <2>2. PICK i \in S : TRUE
    OBVIOUS
  <2>3. n - i \in T
    OBVIOUS
  <2>. QED
    BY <2>1, <2>3
<1>2. PICK t \in T : \A c \in T : t <= c
  <2>. HIDE DEF T
  <2>. QED
    BY <1>1, OldestExists
<1>3. PICK i \in S : t = n - i
  OBVIOUS
<1>4. \A j \in S : j <= i
  <2>. TAKE j \in S
  <2>1. n - j \in T
    OBVIOUS
  <2>2. n - i <= n - j
    BY <1>2, <1>3, <2>1
  <2>3. i \in Int /\ j \in Int
    OBVIOUS
  <2>. HIDE DEF T
  <2>. QED
    BY <2>2, <2>3
<1>. QED
  BY <1>4

\* A document linked to an event has an answer: the row of the call that was
\* kept is neither an error nor a failed citation, as the CHECK
\* published_requires_valid_schema_and_citations asks.
LEMMA EventsAreExtracted ==
  ASSUME NEW made \in Seq(Answers), made # <<>>, Outcome(made) = "event"
  PROVE  /\ Final(made) \in DOMAIN made
         /\ Label(made, Final(made)) = "extracted"
         /\ Terminal(made)
<1>. DEFINE good == {i \in DOMAIN made : made[i] \in Results}
            f == Final(made)
<1>1. f \in DOMAIN made
  <2>1. CASE good = {}
    <3>1. f = Len(made)
      BY <2>1 DEF Final
    <3>2. Len(made) \in DOMAIN made
      OBVIOUS
    <3>. QED
      BY <3>1, <3>2
  <2>2. CASE good # {}
    <3>1. good \in SUBSET (1 .. Len(made)) /\ Len(made) \in Nat
      OBVIOUS
    <3>2. f = CHOOSE i \in good : \A j \in good : j <= i
      BY <2>2 DEF Final
    <3>3. \E i \in good : \A j \in good : j <= i
      BY <2>2, <3>1, LastExists
    <3>. QED
      BY <3>2, <3>3
  <2>. QED
    BY <2>1, <2>2
<1>2. made[f] \in Answers
  BY <1>1
<1>3. made[f] \in {"verified", "weak"}
  BY <1>2 DEF Outcome, Answers, Results, Errors
<1>4. Label(made, f) = "extracted"
  BY <1>3 DEF Label, Errors
<1>5. Terminal(made)
  BY <1>1, <1>4 DEF Terminal
<1>. QED
  BY <1>1, <1>4, <1>5

LEMMA Appending ==
  ASSUME NEW S, NEW s \in Seq(S), NEW a \in S
  PROVE  Append(s, a) \in Seq(S) /\ Append(s, a) # <<>>
BY SMTT(60)

-----------------------------------------------------------------------------
(* Type correctness *)

\* A worker past the top of its loop has a document, and calls behind it when
\* it stores.
Engaged ==
    \A w \in Workers :
        /\ phase[w] \in {"checked", "calling", "storing"} => todo[w] # {}
        /\ phase[w] = "storing" => calls[w] # <<>>

TypeInv == QueueTypeOK /\ Engaged

LEMMA TypeInit == Init => TypeInv
  BY BoundsAssumption DEF Init, TypeInv, QueueTypeOK, Engaged, Phases

LEMMA Counting ==
  ASSUME NEW n \in Nat
  PROVE  CountedUpTo(n) \in 0 .. Counted
BY BoundsAssumption DEF CountedUpTo

\* The three ways a worker goes on without touching the tables.
LEMMA LeaveTyped ==
  ASSUME NEW w \in Workers, TypeInv, Leave(w)
  PROVE  /\ phase' \in [Workers -> Phases]
         /\ todo' \in [Workers -> SUBSET Documents]
         /\ calls' \in [Workers -> Seq(Answers)]
         /\ tx' \in [Workers -> {"none", "today", "earlier"}]
         /\ Engaged'
<1>1. <<>> \in Seq(Answers)
  OBVIOUS
<1>. QED
  BY <1>1 DEF TypeInv, QueueTypeOK, Engaged, Leave, Phases

LEMMA NextDocumentTyped ==
  ASSUME NEW w \in Workers, TypeInv, NextDocument(w)
  PROVE  /\ phase' \in [Workers -> Phases]
         /\ todo' \in [Workers -> SUBSET Documents]
         /\ calls' \in [Workers -> Seq(Answers)]
         /\ Engaged'
<1>1. <<>> \in Seq(Answers)
  OBVIOUS
<1>. QED
  BY <1>1 DEF TypeInv, QueueTypeOK, Engaged, NextDocument, Phases

LEMMA RaiseTyped ==
  ASSUME NEW w \in Workers, TypeInv, todo[w] # {}, Raise(w),
         repaid' \in [Documents -> Nat]
  PROVE  TypeInv'
<1>1. Current(w) \in Documents
  BY CurrentListed DEF TypeInv
<1>2. raised' \in [Documents -> 0 .. Counted]
  <2>1. raised[Current(w)] + 1 \in Nat
    BY <1>1 DEF TypeInv, QueueTypeOK
  <2>2. CountedUpTo(raised[Current(w)] + 1) \in 0 .. Counted
    BY <2>1, Counting
  <2>. QED
    BY <2>2 DEF Raise, TypeInv, QueueTypeOK
<1>3. NextDocument(w)
  BY DEF Raise
<1>. QED
  BY <1>2, <1>3, NextDocumentTyped DEF Raise, table, TypeInv, QueueTypeOK

LEMMA RepayingTyped ==
  ASSUME NEW w \in Workers, TypeInv, todo[w] # {}, Repaying(w)
  PROVE  repaid' \in [Documents -> Nat]
<1>1. Current(w) \in Documents /\ repaid \in [Documents -> Nat]
  BY CurrentListed DEF TypeInv, QueueTypeOK
<1>. QED
  BY <1>1 DEF Repaying

LEMMA TypeNext == TypeInv /\ [Next]_vars => TypeInv'
<1>. SUFFICES ASSUME TypeInv, [Next]_vars
              PROVE  TypeInv'
  OBVIOUS
<1>. USE DEF TypeInv
<1>1. ASSUME NEW w \in Workers, StartTick(w)
      PROVE  TypeInv'
  <2>1. Batch \in SUBSET Documents
    BY DEF Batch, Pending
  <2>. QED
    BY <1>1, <2>1 DEF StartTick, QueueTypeOK, Engaged, Phases, table, history
<1>2. ASSUME NEW w \in Workers, EndTick(w)
      PROVE  TypeInv'
  BY <1>2, LeaveTyped DEF EndTick, QueueTypeOK, table, history
<1>3. ASSUME NEW w \in Workers, CheckBudget(w)
      PROVE  TypeInv'
  BY <1>3 DEF CheckBudget, QueueTypeOK, Engaged, Phases, table, history
<1>4. ASSUME NEW w \in Workers, SkipLocked(w)
      PROVE  TypeInv'
  BY <1>4, NextDocumentTyped DEF SkipLocked, QueueTypeOK, table, history
<1>5. ASSUME NEW w \in Workers, TakeDocument(w)
      PROVE  TypeInv'
  BY <1>5 DEF TakeDocument, QueueTypeOK, Engaged, Phases, table, history
<1>6. ASSUME NEW w \in Workers, CallModel(w)
      PROVE  TypeInv'
  <2>1. PICK a \in Heard :
          LET made == Append(calls[w], a)
          IN  /\ calls' = [calls EXCEPT ![w] = made]
              /\ phase' = [phase EXCEPT
                             ![w] = IF Unfinished(made) THEN "calling" ELSE "storing"]
    BY <1>6 DEF CallModel
  <2>2. /\ Append(calls[w], a) \in Seq(Answers)
        /\ Append(calls[w], a) # <<>>
    <3>1. calls[w] \in Seq(Answers) /\ a \in Answers
      BY HeardAssumption DEF QueueTypeOK
    <3>. QED
      BY <3>1, Appending
  <2>3. /\ calls' \in [Workers -> Seq(Answers)]
        /\ phase' \in [Workers -> Phases]
    BY <2>1, <2>2 DEF QueueTypeOK, Phases
  <2>4. Engaged'
    BY <1>6, <2>1, <2>2 DEF CallModel, QueueTypeOK, Engaged
  <2>5. repaid' \in [Documents -> Nat]
    BY <1>6, RepayingTyped DEF CallModel, Engaged
  <2>. QED
    BY <1>6, <2>3, <2>4, <2>5 DEF CallModel, QueueTypeOK, table
<1>7. ASSUME NEW w \in Workers, Store(w)
      PROVE  TypeInv'
  <2>1. /\ Current(w) \in Documents
        /\ calls[w] \in Seq(Answers) /\ calls[w] # <<>>
    BY <1>7, CurrentListed DEF Store, QueueTypeOK, Engaged
  <2>2. errors' \in [Documents -> Nat]
    <3>1. errors[Current(w)] + ErrorRows(calls[w]) \in Nat
      BY <2>1, ErrorRowsCount DEF QueueTypeOK
    <3>. QED
      BY <1>7, <3>1 DEF Store, QueueTypeOK
  <2>3. answered' \in SUBSET Documents /\ linked' \in SUBSET answered'
    BY <1>7, <2>1, EventsAreExtracted DEF Store, QueueTypeOK
  <2>4. spent' \in Nat
    BY <1>7, <2>1, CostBounded DEF Store, QueueTypeOK
  <2>5. tx' \in [Workers -> {"none", "today", "earlier"}]
    BY <1>7 DEF Store, QueueTypeOK
  <2>6. NextDocument(w) /\ UNCHANGED history
    BY <1>7 DEF Store
  <2>. QED
    BY <2>2, <2>3, <2>4, <2>5, <2>6, NextDocumentTyped DEF QueueTypeOK, history
<1>8. ASSUME NEW w \in Workers, RefuseTooLong(w) \/ StoreRaises(w)
      PROVE  TypeInv'
  <2>1. todo[w] # {} /\ Raise(w) /\ repaid' \in [Documents -> Nat]
    BY <1>8 DEF RefuseTooLong, StoreRaises, Engaged, QueueTypeOK
  <2>. QED
    BY <2>1, RaiseTyped
<1>9. ASSUME NEW w \in Workers, CallRaises(w)
      PROVE  TypeInv'
  <2>1. todo[w] # {} /\ Raise(w) /\ repaid' \in [Documents -> Nat]
    BY <1>9, RepayingTyped DEF CallRaises, Engaged
  <2>. QED
    BY <2>1, RaiseTyped
<1>10. ASSUME NEW w \in Workers, Abort(w)
       PROVE  TypeInv'
  <2>1. aborts' \in 0 .. MaxAborts
    BY <1>10, BoundsAssumption DEF Abort, QueueTypeOK
  <2>2. Leave(w)
    BY <1>10 DEF Abort
  <2>. QED
    BY <1>10, <2>1, <2>2, LeaveTyped DEF Abort, QueueTypeOK, table
<1>11. CASE Midnight
  BY <1>11, BoundsAssumption DEF Midnight, QueueTypeOK, Engaged
<1>12. CASE UNCHANGED vars
  BY <1>12 DEF vars, table, worker, history, QueueTypeOK, Engaged
<1>. QED
  BY <1>1, <1>2, <1>3, <1>4, <1>5, <1>6, <1>7, <1>8, <1>9, <1>10, <1>11, <1>12
     DEF Next, Step

LEMMA TypeInvariance == Spec => []TypeInv
<1>. QED
  BY TypeInit, TypeNext, PTL DEF Spec

\* The tables, the workers and their transactions keep their shape; a document
\* linked to an event always has an answer on record.
THEOREM QueueTypeCorrect == Spec => []QueueTypeOK
<1>1. TypeInv => QueueTypeOK
  BY DEF TypeInv
<1>. QED
  BY <1>1, TypeInvariance, PTL

-----------------------------------------------------------------------------
(* The row lock *)

\* A step of worker w lets nobody but w take hold of a document, and w only of
\* one that no other worker holds.
LEMMA HoldsOnlyGrowByTaking ==
  ASSUME TypeInv, NEW w \in Workers, Step(w) \/ Abort(w),
         NEW v \in Workers, NEW d \in Documents, Holds(v, d)'
  PROVE  Holds(v, d) \/ (v = w /\ ~Locked(w, d))
<1>. USE DEF TypeInv, QueueTypeOK, Holds, Current
<1>1. CASE v # w
  <2>1. phase'[v] = phase[v] /\ todo'[v] = todo[v]
    BY <1>1 DEF Step, StartTick, CheckBudget, EndTick, SkipLocked, TakeDocument,
         CallModel, Store, RefuseTooLong, CallRaises, StoreRaises, Raise, Abort,
         Leave, NextDocument
  <2>. QED
    BY <2>1
<1>2. CASE v = w
  <2>1. CASE TakeDocument(w)
    BY <1>2, <2>1 DEF TakeDocument
  <2>2. CASE CallModel(w)
    BY <1>2, <2>2 DEF CallModel
  <2>3. CASE \/ StartTick(w) \/ CheckBudget(w) \/ EndTick(w) \/ SkipLocked(w)
             \/ Store(w) \/ RefuseTooLong(w) \/ CallRaises(w) \/ StoreRaises(w) \/ Abort(w)
    <3>1. phase'[w] \notin {"calling", "storing"}
      BY <2>3 DEF StartTick, CheckBudget, EndTick, SkipLocked, Store, RefuseTooLong,
           CallRaises, StoreRaises, Raise, Abort, Leave, NextDocument
    <3>. QED
      BY <1>2, <3>1
  <2>. QED
    BY <2>1, <2>2, <2>3 DEF Step
<1>. QED
  BY <1>1, <1>2

LEMMA ExclusionNext ==
  TypeInv /\ OneWorkerPerDocument /\ [Next]_vars => OneWorkerPerDocument'
<1>. SUFFICES ASSUME TypeInv, OneWorkerPerDocument, [Next]_vars,
                     NEW d \in Documents, NEW u \in Workers, NEW v \in Workers,
                     Holds(u, d)', Holds(v, d)'
              PROVE  u = v
  BY DEF OneWorkerPerDocument
<1>1. ASSUME NEW w \in Workers, Step(w) \/ Abort(w)
      PROVE  u = v
  <2>1. Holds(u, d) \/ (u = w /\ ~Locked(w, d))
    BY <1>1, HoldsOnlyGrowByTaking
  <2>2. Holds(v, d) \/ (v = w /\ ~Locked(w, d))
    BY <1>1, HoldsOnlyGrowByTaking
  <2>. QED
    BY <2>1, <2>2 DEF Locked, OneWorkerPerDocument
<1>2. CASE Midnight \/ UNCHANGED vars
  <2>1. Holds(u, d) /\ Holds(v, d)
    BY <1>2 DEF Midnight, vars, worker, Holds, Current
  <2>. QED
    BY <2>1 DEF OneWorkerPerDocument
<1>. QED
  BY <1>1, <1>2 DEF Next

\* No two workers ever process the same document at the same time.
THEOREM LockSafe == Spec => []OneWorkerPerDocument
<1>1. Init => OneWorkerPerDocument
  BY DEF Init, OneWorkerPerDocument, Holds
<1>. QED
  BY <1>1, TypeInvariance, ExclusionNext, PTL DEF Spec

-----------------------------------------------------------------------------
(* The budget *)

\* Workers with no document in hand.
Free == {w \in Workers : phase[w] \in {"idle", "listed"}}

\* Every worker with a document in hand has yet to use what its budget check
\* allowed; the others have used up at most one document's cost each.
SpendInv == spent < Budget + Cardinality(Free) * DocumentCost

LEMMA ProductGrows ==
  ASSUME NEW m \in Nat, NEW n \in Nat, NEW c \in Nat, m <= n
  PROVE  /\ m * c \in Nat /\ n * c \in Nat
         /\ m * c <= n * c
         /\ (m + 1) * c = m * c + c
<1>1. PICK k \in Nat : n = m + k
  <2>1. n - m \in Nat /\ n = m + (n - m)
    OBVIOUS
  <2>. QED
    BY <2>1
<1>2. m * c \in Nat /\ k * c \in Nat
  OBVIOUS
<1>3. (m + k) * c = m * c + k * c /\ (m + 1) * c = m * c + c
  OBVIOUS
<1>. QED
  BY <1>1, <1>2, <1>3

LEMMA FreeFinite ==
  /\ IsFiniteSet(Free) /\ Cardinality(Free) \in Nat
  /\ Cardinality(Free) <= Cardinality(Workers) /\ Cardinality(Workers) \in Nat
<1>1. Free \subseteq Workers
  BY DEF Free
<1>. QED
  BY <1>1, WorkersAssumption, FS_Subset, FS_CardinalityType

\* The bound is not lowered by a step that leaves the money alone.
LEMMA FreeGrows ==
  ASSUME TypeInv, SpendInv, Free \subseteq Free', spent' = spent
  PROVE  SpendInv'
<1>1. DocumentCost \in Nat /\ spent \in Nat /\ Budget \in Nat
  BY PriceAssumption, SettingsAssumption DEF DocumentCost, TypeInv, QueueTypeOK
<1>2. IsFiniteSet(Free') /\ Cardinality(Free') \in Nat
  <2>1. Free' \subseteq Workers
    BY DEF Free
  <2>. QED
    BY <2>1, WorkersAssumption, FS_Subset, FS_CardinalityType
<1>3. Cardinality(Free) \in Nat /\ Cardinality(Free) <= Cardinality(Free')
  BY <1>2, FreeFinite, FS_Subset
<1>4. Cardinality(Free) * DocumentCost <= Cardinality(Free') * DocumentCost
  BY <1>1, <1>2, <1>3, ProductGrows
<1>5. /\ Cardinality(Free) * DocumentCost \in Nat
      /\ Cardinality(Free') * DocumentCost \in Nat
  BY <1>1, <1>2, <1>3, ProductGrows
<1>. DEFINE a == Cardinality(Free) * DocumentCost
            b == Cardinality(Free') * DocumentCost
<1>6. a \in Nat /\ b \in Nat /\ a <= b /\ spent < Budget + a
  BY <1>4, <1>5 DEF SpendInv
<1>7. spent' < Budget + b
  <2>. HIDE DEF a, b
  <2>. QED
    BY <1>1, <1>6
<1>8. DocumentCost' = DocumentCost
  BY DEF DocumentCost
<1>. QED
  BY <1>7, <1>8 DEF SpendInv

LEMMA SpendStored ==
  ASSUME TypeInv, SpendInv, NEW w \in Workers, Store(w)
  PROVE  SpendInv'
<1>1. /\ DocumentCost \in Nat /\ spent \in Nat /\ Budget \in Nat
      /\ Cost(calls[w]) \in Nat /\ Cost(calls[w]) <= DocumentCost
  BY PriceAssumption, SettingsAssumption, CostBounded
     DEF DocumentCost, TypeInv, QueueTypeOK
<1>2. spent' \in Nat /\ spent' <= spent + DocumentCost
  BY <1>1 DEF Store
<1>3. Free' = Free \cup {w} /\ w \notin Free
  BY DEF Store, NextDocument, Free, TypeInv, QueueTypeOK
<1>4. Cardinality(Free') = Cardinality(Free) + 1 /\ Cardinality(Free) \in Nat
  BY <1>3, FreeFinite, FS_AddElement
<1>. DEFINE a == Cardinality(Free) * DocumentCost
            b == Cardinality(Free') * DocumentCost
<1>5. a \in Nat /\ b = a + DocumentCost
  BY <1>1, <1>4, ProductGrows
<1>6. spent < Budget + a
  BY DEF SpendInv
<1>7. spent' < Budget + b
  <2>. HIDE DEF a, b
  <2>. QED
    BY <1>1, <1>2, <1>5, <1>6
<1>8. DocumentCost' = DocumentCost
  BY DEF DocumentCost
<1>. QED
  BY <1>7, <1>8 DEF SpendInv

\* After a budget check that passed, what is recorded is below the budget.
LEMMA SpendChecked ==
  ASSUME TypeInv, spent' < Budget, spent' \in Nat
  PROVE  SpendInv'
<1>1. DocumentCost \in Nat /\ Budget \in Nat
  BY PriceAssumption, SettingsAssumption DEF DocumentCost
<1>2. Cardinality(Free') \in Nat
  <2>1. Free' \subseteq Workers
    BY DEF Free
  <2>. QED
    BY <2>1, WorkersAssumption, FS_Subset, FS_CardinalityType
<1>. DEFINE b == Cardinality(Free') * DocumentCost
<1>3. b \in Nat
  BY <1>1, <1>2, ProductGrows
<1>4. spent' < Budget + b
  <2>. HIDE DEF b
  <2>. QED
    BY <1>1, <1>3
<1>5. DocumentCost' = DocumentCost
  BY DEF DocumentCost
<1>. QED
  BY <1>4, <1>5 DEF SpendInv

LEMMA SpendNext == TypeInv /\ SpendInv /\ [Next]_vars => SpendInv'
<1>. SUFFICES ASSUME TypeInv, SpendInv, [Next]_vars
              PROVE  SpendInv'
  OBVIOUS
<1>1. ASSUME NEW w \in Workers, CheckBudget(w)
      PROVE  SpendInv'
  <2>1. spent' = spent /\ spent \in Nat /\ Budget \in Nat /\ ~ (spent >= Budget)
    BY <1>1, SettingsAssumption DEF CheckBudget, OverBudget, table, TypeInv, QueueTypeOK
  <2>2. spent' < Budget /\ spent' \in Nat
    BY <2>1
  <2>. QED
    BY <2>2, SpendChecked
<1>2. ASSUME NEW w \in Workers, Store(w)
      PROVE  SpendInv'
  BY <1>2, SpendStored
<1>3. ASSUME NEW w \in Workers,
             \/ StartTick(w) \/ EndTick(w) \/ SkipLocked(w) \/ TakeDocument(w)
             \/ CallModel(w) \/ RefuseTooLong(w) \/ CallRaises(w) \/ StoreRaises(w)
             \/ Abort(w)
      PROVE  SpendInv'
  <2>1. spent' = spent
    BY <1>3 DEF StartTick, EndTick, SkipLocked, TakeDocument, CallModel, RefuseTooLong,
         CallRaises, StoreRaises, Raise, Abort, table
  <2>2. Free \subseteq Free'
    BY <1>3 DEF StartTick, EndTick, SkipLocked, TakeDocument, CallModel, RefuseTooLong,
         CallRaises, StoreRaises, Raise, Abort, Leave, NextDocument, Free, TypeInv,
         QueueTypeOK
  <2>. QED
    BY <2>1, <2>2, FreeGrows
<1>4. CASE Midnight
  <2>1. spent' < Budget /\ spent' \in Nat
    BY <1>4, SettingsAssumption DEF Midnight
  <2>. QED
    BY <2>1, SpendChecked
<1>5. CASE UNCHANGED vars
  <2>1. spent' = spent /\ Free' = Free
    BY <1>5 DEF vars, table, worker, Free
  <2>. QED
    BY <2>1, FreeGrows
<1>. QED
  BY <1>1, <1>2, <1>3, <1>4, <1>5 DEF Next, Step

LEMMA SpendBounds == TypeInv /\ SpendInv => SpendingStaysNearBudget
<1>. SUFFICES ASSUME TypeInv, SpendInv
              PROVE  SpendingStaysNearBudget
  OBVIOUS
<1>1. DocumentCost \in Nat /\ spent \in Nat /\ Budget \in Nat
  BY PriceAssumption, SettingsAssumption DEF DocumentCost, TypeInv, QueueTypeOK
<1>. DEFINE a == Cardinality(Free) * DocumentCost
            b == Cardinality(Workers) * DocumentCost
<1>2. a \in Nat /\ b \in Nat /\ a <= b
  BY <1>1, FreeFinite, ProductGrows
<1>3. spent < Budget + a
  BY DEF SpendInv
<1>4. spent < Budget + b
  <2>. HIDE DEF a, b
  <2>. QED
    BY <1>1, <1>2, <1>3
<1>. QED
  BY <1>4 DEF SpendingStaysNearBudget

\* The spending recorded in a day exceeds the budget by less than one document
\* per worker, however many workers there are and whatever documents cost.
THEOREM BudgetSafe == Spec => []SpendingStaysNearBudget
<1>1. Init => SpendInv
  <2>. SUFFICES ASSUME Init
                PROVE  SpendInv
    OBVIOUS
  <2>1. DocumentCost \in Nat /\ Budget \in Nat \ {0}
    BY PriceAssumption, SettingsAssumption DEF DocumentCost
  <2>. DEFINE a == Cardinality(Free) * DocumentCost
  <2>2. a \in Nat
    BY <2>1, FreeFinite, ProductGrows
  <2>3. 0 < Budget + a
    <3>. HIDE DEF a
    <3>. QED
      BY <2>1, <2>2
  <2>. QED
    BY <2>3 DEF Init, SpendInv
<1>. QED
  BY <1>1, TypeInvariance, SpendNext, SpendBounds, PTL DEF Spec

-----------------------------------------------------------------------------
(* Lists that are out of date *)

\* Workers whose list has d.
Listing(d) == {w \in Workers : d \in todo[w]}

\* Those of them that have not yet paid for d in this tick.
Unpaid(d) == {w \in Listing(d) : ~ (Holds(w, d) /\ calls[w] # <<>>)}

LEMMA WorkerSets ==
  ASSUME NEW A \in SUBSET Workers, NEW B \in SUBSET A
  PROVE  /\ Cardinality(A) \in Nat /\ Cardinality(B) \in Nat
         /\ Cardinality(Workers) \in Nat /\ Cardinality(Workers) >= 1
         /\ Cardinality(B) <= Cardinality(A)
         /\ Cardinality(A) <= Cardinality(Workers)
<1>1. IsFiniteSet(Workers) /\ IsFiniteSet(A) /\ IsFiniteSet(B)
  BY WorkersAssumption, FS_Subset
<1>2. Cardinality(Workers) # 0
  BY WorkersAssumption, FS_EmptySet
<1>. QED
  BY <1>1, <1>2, FS_Subset, FS_CardinalityType

LEMMA WorkerRemoved ==
  ASSUME NEW A \in SUBSET Workers, NEW w \in A, NEW B \in SUBSET (A \ {w})
  PROVE  /\ Cardinality(A) \in Nat /\ Cardinality(B) \in Nat
         /\ Cardinality(B) + 1 <= Cardinality(A)
<1>1. IsFiniteSet(A) /\ Cardinality(A) \in Nat
  BY WorkersAssumption, FS_Subset, FS_CardinalityType
<1>2. Cardinality(A \ {w}) = Cardinality(A) - 1 /\ IsFiniteSet(A \ {w})
  BY <1>1, FS_RemoveElement
<1>3. Cardinality(B) \in Nat /\ Cardinality(B) <= Cardinality(A \ {w})
  BY <1>2, FS_Subset, FS_CardinalityType
<1>. QED
  BY <1>1, <1>2, <1>3

LEMMA OthersUntouched ==
  ASSUME TypeInv, NEW w \in Workers, Step(w) \/ Abort(w), NEW v \in Workers, v # w
  PROVE  phase'[v] = phase[v] /\ todo'[v] = todo[v] /\ calls'[v] = calls[v]
BY DEF Step, StartTick, CheckBudget, EndTick, SkipLocked, TakeDocument, CallModel, Store,
   RefuseTooLong, CallRaises, StoreRaises, Raise, Abort, Leave, NextDocument, TypeInv,
   QueueTypeOK

LEMMA TodoShrinks ==
  ASSUME TypeInv, NEW w \in Workers,
         Leave(w) \/ NextDocument(w) \/ todo' = todo
  PROVE  \A v \in Workers : todo'[v] \subseteq todo[v]
<1>1. CASE Leave(w)
  BY <1>1 DEF Leave, TypeInv, QueueTypeOK
<1>2. CASE NextDocument(w)
  BY <1>2 DEF NextDocument, TypeInv, QueueTypeOK
<1>3. CASE todo' = todo
  BY <1>3
<1>. QED
  BY <1>1, <1>2, <1>3

\* Only a new tick puts documents on a list, and only pending ones.
LEMMA ListsShrink ==
  ASSUME TypeInv, NEW w \in Workers, Step(w) \/ Abort(w), NEW d \in Documents,
         StartTick(w) => d \notin Batch
  PROVE  Listing(d)' \subseteq Listing(d)
<1>1. CASE StartTick(w)
  BY <1>1 DEF StartTick, Listing, TypeInv, QueueTypeOK
<1>2. CASE ~ StartTick(w)
  <2>1. Leave(w) \/ NextDocument(w) \/ todo' = todo
    BY <1>2 DEF Step, CheckBudget, EndTick, SkipLocked, TakeDocument, CallModel, Store,
       RefuseTooLong, CallRaises, StoreRaises, Raise, Abort
  <2>2. \A v \in Workers : todo'[v] \subseteq todo[v]
    BY <2>1, TodoShrinks
  <2>. QED
    BY <2>2 DEF Listing
<1>. QED
  BY <1>1, <1>2

-----------------------------------------------------------------------------
(* Paying twice *)

\* A worker may pay again for an answered document only while it is on its list
\* and not yet paid for; the worker that recorded the answer has dropped it.
RepayInv ==
    \A d \in Documents :
        IF d \in answered
        THEN repaid[d] + Cardinality(Unpaid(d)) <= Cardinality(Workers) - 1
        ELSE repaid[d] = 0

LEMMA UnpaidShrinks ==
  ASSUME TypeInv, NEW w \in Workers, Step(w) \/ Abort(w), NEW d \in Documents,
         d \in answered
  PROVE  Unpaid(d)' \subseteq Unpaid(d)
<1>1. Listing(d)' \subseteq Listing(d)
  BY ListsShrink DEF Batch, Pending
<1>. SUFFICES ASSUME NEW v \in Unpaid(d)', v \notin Unpaid(d)
              PROVE  FALSE
  OBVIOUS
<1>2. v \in Listing(d) /\ d \in todo'[v] /\ Holds(v, d) /\ calls[v] # <<>>
  BY <1>1 DEF Unpaid, Listing
<1>3. v = w
  <2>1. CASE v # w
    <3>1. phase'[v] = phase[v] /\ todo'[v] = todo[v] /\ calls'[v] = calls[v]
      BY <2>1, OthersUntouched DEF Listing, Unpaid
    <3>. QED
      BY <1>2, <3>1 DEF Unpaid, Holds, Current
  <2>. QED
    BY <2>1
<1>4. phase[w] \in {"calling", "storing"} /\ Current(w) = d /\ calls[w] \in Seq(Answers)
  BY <1>2, <1>3 DEF Holds, TypeInv, QueueTypeOK
<1>5. CASE CallModel(w)
  <2>1. /\ todo' = todo /\ phase'[w] \in {"calling", "storing"} /\ calls'[w] # <<>>
    <3>1. PICK a \in Heard :
            LET made == Append(calls[w], a)
            IN  /\ calls' = [calls EXCEPT ![w] = made]
                /\ phase' = [phase EXCEPT
                               ![w] = IF Unfinished(made) THEN "calling" ELSE "storing"]
      BY <1>5 DEF CallModel
    <3>2. Append(calls[w], a) # <<>>
      BY <1>4, HeardAssumption, Appending
    <3>. QED
      BY <1>5, <3>1, <3>2 DEF CallModel, TypeInv, QueueTypeOK
  <2>2. Holds(w, d)' /\ calls'[w] # <<>>
    BY <1>2, <1>3, <1>4, <2>1 DEF Holds, Current, Listing
  <2>. QED
    BY <1>3, <2>2 DEF Unpaid
<1>6. CASE \/ Store(w) \/ RefuseTooLong(w) \/ CallRaises(w) \/ StoreRaises(w) \/ Abort(w)
  <2>1. d \notin todo'[w]
    BY <1>4, <1>6 DEF Store, RefuseTooLong, CallRaises, StoreRaises, Raise, Abort, Leave,
       NextDocument, TypeInv, QueueTypeOK
  <2>. QED
    BY <1>2, <1>3, <2>1
<1>. QED
  BY <1>4, <1>5, <1>6 DEF Step, StartTick, CheckBudget, EndTick, SkipLocked, TakeDocument

\* The first call for an answered document uses up the worker's place in Unpaid.
LEMMA PayingCounts ==
  ASSUME TypeInv, NEW w \in Workers, NEW d \in Documents, d \in answered,
         CallModel(w) \/ CallRaises(w), repaid'[d] # repaid[d]
  PROVE  /\ repaid'[d] = repaid[d] + 1
         /\ w \in Unpaid(d) /\ w \notin Unpaid(d)'
<1>1. /\ d = Current(w) /\ calls[w] = <<>> /\ repaid'[d] = repaid[d] + 1
  BY DEF CallModel, CallRaises, Repaying, TypeInv, QueueTypeOK
<1>2. todo[w] # {} /\ phase[w] = "calling" /\ d \in todo[w]
  BY <1>1, CurrentListed DEF CallModel, CallRaises, TypeInv, Engaged
<1>3. w \in Unpaid(d)
  BY <1>1, <1>2 DEF Unpaid, Listing
<1>4. CASE CallModel(w)
  <2>1. PICK a \in Heard :
          LET made == Append(calls[w], a)
          IN  /\ calls' = [calls EXCEPT ![w] = made]
              /\ phase' = [phase EXCEPT
                             ![w] = IF Unfinished(made) THEN "calling" ELSE "storing"]
    BY <1>4 DEF CallModel
  <2>2. Append(calls[w], a) # <<>>
    BY HeardAssumption, Appending DEF TypeInv, QueueTypeOK
  <2>3. todo' = todo /\ phase'[w] \in {"calling", "storing"} /\ calls'[w] # <<>>
    BY <1>4, <2>1, <2>2 DEF CallModel, TypeInv, QueueTypeOK
  <2>4. Holds(w, d)'
    BY <1>1, <1>2, <2>3 DEF Holds, Current
  <2>. QED
    BY <1>1, <1>3, <2>3, <2>4 DEF Unpaid
<1>5. CASE CallRaises(w)
  <2>1. d \notin todo'[w]
    BY <1>1, <1>5 DEF CallRaises, Raise, NextDocument, TypeInv, QueueTypeOK
  <2>. QED
    BY <1>1, <1>3, <2>1 DEF Unpaid, Listing
<1>. QED
  BY <1>4, <1>5

LEMMA RepayNext == TypeInv /\ RepayInv /\ [Next]_vars => RepayInv'
<1>. SUFFICES ASSUME TypeInv, RepayInv, [Next]_vars, NEW d \in Documents
              PROVE  IF d \in answered'
                     THEN repaid'[d] + Cardinality(Unpaid(d)') <= Cardinality(Workers) - 1
                     ELSE repaid'[d] = 0
  BY DEF RepayInv
<1>0. repaid[d] \in Nat /\ Unpaid(d) \in SUBSET Workers /\ Unpaid(d)' \in SUBSET Workers
  BY DEF Unpaid, Listing, TypeInv, QueueTypeOK
<1>1. ASSUME NEW w \in Workers, Step(w) \/ Abort(w), d \in answered
      PROVE  /\ d \in answered'
             /\ repaid'[d] + Cardinality(Unpaid(d)') <= Cardinality(Workers) - 1
  <2>1. d \in answered'
    BY <1>1 DEF Step, StartTick, CheckBudget, EndTick, SkipLocked, TakeDocument, CallModel,
       Store, RefuseTooLong, CallRaises, StoreRaises, Raise, Abort, table
  <2>2. Unpaid(d)' \subseteq Unpaid(d)
    BY <1>1, UnpaidShrinks
  <2>3. repaid[d] + Cardinality(Unpaid(d)) <= Cardinality(Workers) - 1
    BY <1>1 DEF RepayInv
  <2>4. CASE repaid'[d] = repaid[d]
    <3>1. /\ Cardinality(Unpaid(d)') <= Cardinality(Unpaid(d))
          /\ Cardinality(Unpaid(d)') \in Nat /\ Cardinality(Unpaid(d)) \in Nat
          /\ Cardinality(Workers) \in Nat
      BY <1>0, <2>2, WorkerSets
    <3>. QED
      BY <1>0, <2>1, <2>3, <2>4, <3>1
  <2>5. CASE repaid'[d] # repaid[d]
    <3>1. CallModel(w) \/ CallRaises(w)
      BY <1>1, <2>5 DEF Step, StartTick, CheckBudget, EndTick, SkipLocked, TakeDocument,
         Store, RefuseTooLong, StoreRaises, Raise, Abort, history
    <3>2. repaid'[d] = repaid[d] + 1 /\ w \in Unpaid(d) /\ w \notin Unpaid(d)'
      BY <1>1, <2>5, <3>1, PayingCounts
    <3>3. /\ Cardinality(Unpaid(d)') + 1 <= Cardinality(Unpaid(d))
          /\ Cardinality(Unpaid(d)') \in Nat /\ Cardinality(Unpaid(d)) \in Nat
      BY <1>0, <2>2, <3>2, WorkerRemoved
    <3>4. Cardinality(Workers) \in Nat
      BY WorkersAssumption, FS_CardinalityType
    <3>. QED
      BY <1>0, <2>1, <2>3, <3>2, <3>3, <3>4
  <2>. QED
    BY <2>4, <2>5, <2>1
<1>2. ASSUME NEW w \in Workers, Step(w) \/ Abort(w), d \notin answered
      PROVE  /\ repaid'[d] = 0
             /\ d \in answered' => Cardinality(Unpaid(d)') <= Cardinality(Workers) - 1
  <2>1. repaid[d] = 0
    BY <1>2 DEF RepayInv
  <2>2. repaid'[d] = repaid[d]
    BY <1>2 DEF Step, StartTick, CheckBudget, EndTick, SkipLocked, TakeDocument, CallModel,
       Store, RefuseTooLong, CallRaises, StoreRaises, Raise, Repaying, Abort, history,
       TypeInv, QueueTypeOK
  <2>3. ASSUME d \in answered'
        PROVE  w \notin Unpaid(d)'
    <3>1. Store(w) /\ d = Current(w)
      BY <1>2, <2>3 DEF Step, StartTick, CheckBudget, EndTick, SkipLocked, TakeDocument,
         CallModel, Store, RefuseTooLong, CallRaises, StoreRaises, Raise, Abort, table
    <3>2. d \notin todo'[w]
      BY <3>1 DEF Store, NextDocument, TypeInv, QueueTypeOK
    <3>. QED
      BY <3>2 DEF Unpaid, Listing
  <2>4. ASSUME d \in answered'
        PROVE  Cardinality(Unpaid(d)') <= Cardinality(Workers) - 1
    <3>1. Unpaid(d)' \in SUBSET (Workers \ {w})
      BY <1>0, <2>3, <2>4
    <3>2. /\ Cardinality(Unpaid(d)') + 1 <= Cardinality(Workers)
          /\ Cardinality(Unpaid(d)') \in Nat /\ Cardinality(Workers) \in Nat
      BY <3>1, WorkerRemoved
    <3>. QED
      BY <3>2
  <2>. QED
    BY <2>1, <2>2, <2>4
<1>3. CASE Midnight \/ UNCHANGED vars
  <2>1. answered' = answered /\ repaid' = repaid /\ Unpaid(d)' = Unpaid(d)
    BY <1>3 DEF Midnight, vars, table, worker, history, Unpaid, Listing, Holds, Current
  <2>. QED
    BY <2>1 DEF RepayInv
<1>4. ASSUME NEW w \in Workers, Step(w) \/ Abort(w)
      PROVE  IF d \in answered'
             THEN repaid'[d] + Cardinality(Unpaid(d)') <= Cardinality(Workers) - 1
             ELSE repaid'[d] = 0
  <2>1. CASE d \in answered
    BY <1>1, <1>4, <2>1
  <2>2. CASE d \notin answered
    <3>1. Cardinality(Unpaid(d)') \in Nat
      BY <1>0, WorkerSets
    <3>. QED
      BY <1>2, <1>4, <2>2, <3>1
  <2>. QED
    BY <2>1, <2>2
<1>. QED
  BY <1>3, <1>4 DEF Next

\* A document with an answer is paid for again at most once by every other
\* worker, whatever fails and wherever ticks are cut short.
THEOREM RepaymentsBounded == Spec => []RepaymentsStayBounded
<1>1. Init => RepayInv
  BY DEF Init, RepayInv
<1>2. TypeInv /\ RepayInv => RepaymentsStayBounded
  <2>. SUFFICES ASSUME TypeInv, RepayInv, NEW d \in Documents
                PROVE  repaid[d] <= Cardinality(Workers) - 1
    BY DEF RepaymentsStayBounded
  <2>1. Unpaid(d) \in SUBSET Workers /\ repaid[d] \in Nat
    BY DEF Unpaid, Listing, TypeInv, QueueTypeOK
  <2>2. /\ Cardinality(Unpaid(d)) \in Nat /\ Cardinality(Workers) \in Nat
        /\ Cardinality(Workers) >= 1
    BY <2>1, WorkerSets
  <2>. QED
    BY <2>1, <2>2 DEF RepayInv
<1>. QED
  BY <1>1, <1>2, TypeInvariance, RepayNext, PTL DEF Spec

\* So a single worker never pays again for a document that has an answer.
COROLLARY LoneWorkerPaysOnce ==
  ASSUME Cardinality(Workers) = 1
  PROVE  Spec => []PaidOnce
<1>1. TypeInv /\ RepaymentsStayBounded => PaidOnce
  BY DEF RepaymentsStayBounded, PaidOnce, TypeInv, QueueTypeOK
<1>. QED
  BY <1>1, RepaymentsBounded, TypeInvariance, PTL

-----------------------------------------------------------------------------
(* Retries *)

\* extract_document stops after the second call at the latest.
CallsInv ==
    \A w \in Workers :
        /\ phase[w] \in {"idle", "listed", "checked"} => calls[w] = <<>>
        /\ phase[w] = "calling" => Unfinished(calls[w])
        /\ phase[w] = "storing" => ~ Unfinished(calls[w]) /\ Len(calls[w]) \in {1, 2}

LEMMA CallsNext == TypeInv /\ CallsInv /\ [Next]_vars => CallsInv'
<1>. SUFFICES ASSUME TypeInv, CallsInv, [Next]_vars
              PROVE  CallsInv'
  OBVIOUS
<1>1. ASSUME NEW w \in Workers, CallModel(w)
      PROVE  CallsInv'
  <2>1. PICK a \in Heard :
          LET made == Append(calls[w], a)
          IN  /\ calls' = [calls EXCEPT ![w] = made]
              /\ phase' = [phase EXCEPT
                             ![w] = IF Unfinished(made) THEN "calling" ELSE "storing"]
    BY <1>1 DEF CallModel
  <2>. DEFINE made == Append(calls[w], a)
  <2>2. calls[w] \in Seq(Answers) /\ Unfinished(calls[w]) /\ a \in Answers
    BY <1>1, HeardAssumption DEF CallModel, CallsInv, TypeInv, QueueTypeOK
  <2>3. Len(made) \in {1, 2}
    <3>1. Len(calls[w]) \in {0, 1}
      BY <2>2 DEF Unfinished
    <3>2. Len(made) = Len(calls[w]) + 1
      BY <2>2
    <3>3. \A m : m \in {0, 1} => m + 1 \in {1, 2}
      OBVIOUS
    <3>. HIDE DEF made
    <3>. QED
      BY <3>1, <3>2, <3>3, Zenon
  <2>4. /\ calls'[w] = made
        /\ phase'[w] = IF Unfinished(made) THEN "calling" ELSE "storing"
    BY <2>1 DEF TypeInv, QueueTypeOK
  <2>5. \A v \in Workers \ {w} : calls'[v] = calls[v] /\ phase'[v] = phase[v]
    BY <2>1 DEF TypeInv, QueueTypeOK
  <2>. HIDE DEF made
  <2>. QED
    BY <2>3, <2>4, <2>5 DEF CallsInv
<1>2. ASSUME NEW w \in Workers,
             \/ StartTick(w) \/ CheckBudget(w) \/ EndTick(w) \/ SkipLocked(w)
             \/ TakeDocument(w) \/ Store(w) \/ RefuseTooLong(w) \/ CallRaises(w)
             \/ StoreRaises(w) \/ Abort(w)
      PROVE  CallsInv'
  <2>1. /\ calls'[w] = <<>>
        /\ phase'[w] \in {"idle", "listed", "checked", "calling"}
    BY <1>2 DEF StartTick, CheckBudget, EndTick, SkipLocked, TakeDocument, Store,
       RefuseTooLong, CallRaises, StoreRaises, Raise, Abort, Leave, NextDocument, CallsInv,
       TypeInv, QueueTypeOK
  <2>2. Unfinished(<<>>)
    BY DEF Unfinished
  <2>3. \A v \in Workers \ {w} : calls'[v] = calls[v] /\ phase'[v] = phase[v]
    BY <1>2, OthersUntouched DEF Step
  <2>. QED
    BY <2>1, <2>2, <2>3 DEF CallsInv
<1>3. CASE Midnight \/ UNCHANGED vars
  BY <1>3 DEF Midnight, vars, worker, CallsInv
<1>. QED
  BY <1>1, <1>2, <1>3 DEF Next, Step

\* What an attempt stores: at most two error rows, and exactly two unless it
\* also stores an answer.
LEMMA ErrorRowsBounded ==
  ASSUME NEW made \in Seq(Answers), ~ Unfinished(made), Len(made) \in {1, 2}
  PROVE  /\ ErrorRows(made) \in 0 .. 2
         /\ ~ Terminal(made) => ErrorRows(made) = 2
<1>. DEFINE S == {i \in DOMAIN made : Label(made, i) = "error"}
<1>1. /\ IsFiniteSet(DOMAIN made) /\ Cardinality(DOMAIN made) = Len(made)
  <2>1. DOMAIN made = 1 .. Len(made)
    OBVIOUS
  <2>. QED
    BY <2>1, FS_Interval
<1>2. ErrorRows(made) \in 0 .. 2
  <2>1. S \subseteq DOMAIN made
    OBVIOUS
  <2>2. Cardinality(S) \in Nat /\ Cardinality(S) <= Len(made)
    BY <1>1, <2>1, FS_Subset, FS_CardinalityType
  <2>3. ErrorRows(made) = Cardinality(S)
    BY DEF ErrorRows
  <2>4. Len(made) \in Nat /\ Len(made) <= 2
    <3>1. \A n \in {1, 2} : n \in Nat /\ n <= 2
      OBVIOUS
    <3>. QED
      BY <3>1, Zenon
  <2>. HIDE DEF S
  <2>. QED
    BY <2>2, <2>3, <2>4
<1>3. ASSUME ~ Terminal(made)
      PROVE  ErrorRows(made) = 2
  <2>1. S = DOMAIN made
    BY <1>3 DEF Terminal
  <2>2. Len(made) = 2
    <3>1. SUFFICES ASSUME Len(made) = 1
                   PROVE  FALSE
      OBVIOUS
    <3>2. 1 \in S
      BY <2>1, <3>1
    <3>3. made[1] \in Errors
      BY <3>2 DEF Label
    <3>4. Escalates(made[1])
      BY <3>3 DEF Escalates, Errors
    <3>. QED
      BY <3>1, <3>4 DEF Unfinished
  <2>. QED
    BY <1>1, <2>1, <2>2 DEF ErrorRows
<1>. QED
  BY <1>2, <1>3

\* Every worker whose list has d may still store two error rows for it; a new
\* list has d only while an attempt is left; an unanswered document has its
\* error rows in pairs.
RetryInv ==
    \A d \in Documents :
        /\ errors[d] + 2 * Cardinality(Listing(d))
             <= MaxErrorRows - 2 + 2 * Cardinality(Workers)
        /\ d \notin answered => \E k \in Nat : errors[d] = 2 * k

LEMMA RetryStarted ==
  ASSUME TypeInv, RetryInv, NEW w \in Workers, StartTick(w), NEW d \in Documents
  PROVE  errors[d] + 2 * Cardinality(Listing(d)')
           <= MaxErrorRows - 2 + 2 * Cardinality(Workers)
<1>1. /\ errors[d] \in Nat /\ MaxAttempts \in Nat
      /\ Listing(d) \in SUBSET Workers /\ Listing(d)' \in SUBSET Workers
  BY SettingsAssumption DEF Listing, TypeInv, QueueTypeOK
<1>2. /\ Cardinality(Listing(d)) \in Nat /\ Cardinality(Listing(d)') \in Nat
      /\ Cardinality(Workers) \in Nat
      /\ Cardinality(Listing(d)') <= Cardinality(Workers)
  BY <1>1, WorkerSets
<1>3. CASE d \in Batch
  <2>1. errors[d] < 2 * MaxAttempts /\ d \notin answered
    BY <1>1, <1>3 DEF Batch, Pending, MaxErrorRows
  <2>2. PICK k \in Nat : errors[d] = 2 * k
    BY <2>1 DEF RetryInv
  <2>3. errors[d] <= MaxErrorRows - 2
    BY <1>1, <2>1, <2>2 DEF MaxErrorRows
  <2>4. MaxErrorRows \in Int
    BY <1>1 DEF MaxErrorRows
  <2>. QED
    BY <1>1, <1>2, <2>3, <2>4
<1>4. CASE d \notin Batch
  <2>1. Cardinality(Listing(d)') <= Cardinality(Listing(d))
    BY <1>1, <1>4, ListsShrink, WorkerSets DEF Step
  <2>2. MaxErrorRows \in Int
    BY <1>1 DEF MaxErrorRows
  <2>. QED
    BY <1>1, <1>2, <2>1, <2>2 DEF RetryInv
<1>. QED
  BY <1>3, <1>4

LEMMA RetryStored ==
  ASSUME TypeInv, CallsInv, RetryInv, NEW w \in Workers, Store(w), NEW d \in Documents
  PROVE  /\ errors'[d] + 2 * Cardinality(Listing(d)')
              <= MaxErrorRows - 2 + 2 * Cardinality(Workers)
         /\ d \notin answered' => \E k \in Nat : errors'[d] = 2 * k
<1>0. MaxErrorRows \in Int
  BY SettingsAssumption DEF MaxErrorRows
<1>1. /\ errors[d] \in Nat /\ MaxErrorRows \in Int
      /\ Listing(d) \in SUBSET Workers /\ Listing(d)' \in SUBSET Workers
      /\ errors[d] + 2 * Cardinality(Listing(d))
              <= MaxErrorRows - 2 + 2 * Cardinality(Workers)
      /\ d \notin answered => \E k \in Nat : errors[d] = 2 * k
  BY <1>0 DEF Listing, TypeInv, QueueTypeOK, RetryInv
<1>2. Listing(d)' \subseteq Listing(d)
  BY ListsShrink DEF Step, StartTick, Store
<1>3. /\ Cardinality(Listing(d)) \in Nat /\ Cardinality(Listing(d)') \in Nat
      /\ Cardinality(Workers) \in Nat
      /\ Cardinality(Listing(d)') <= Cardinality(Listing(d))
  BY <1>1, <1>2, WorkerSets
<1>4. CASE d = Current(w)
  <2>1. w \in Listing(d) /\ w \notin Listing(d)'
    BY <1>4, CurrentListed
       DEF Store, NextDocument, Listing, TypeInv, QueueTypeOK, Engaged
  <2>2. Cardinality(Listing(d)') + 1 <= Cardinality(Listing(d))
    BY <1>1, <1>2, <2>1, WorkerRemoved
  <2>3. /\ ErrorRows(calls[w]) \in 0 .. 2
        /\ ~ Terminal(calls[w]) => ErrorRows(calls[w]) = 2
    BY ErrorRowsBounded DEF Store, CallsInv, TypeInv, QueueTypeOK
  <2>4. errors'[d] = errors[d] + ErrorRows(calls[w])
    BY <1>4 DEF Store, TypeInv, QueueTypeOK
  <2>5. errors'[d] + 2 * Cardinality(Listing(d)')
          <= MaxErrorRows - 2 + 2 * Cardinality(Workers)
    BY <1>1, <1>3, <2>2, <2>3, <2>4
  <2>6. ASSUME d \notin answered'
        PROVE  \E k \in Nat : errors'[d] = 2 * k
    <3>1. ~ Terminal(calls[w]) /\ d \notin answered
      BY <1>4, <2>6 DEF Store
    <3>2. PICK k \in Nat : errors[d] = 2 * k
      BY <1>1, <3>1
    <3>3. errors'[d] = 2 * (k + 1) /\ k + 1 \in Nat
      BY <2>3, <2>4, <3>1, <3>2
    <3>. QED
      BY <3>3
  <2>. QED
    BY <2>5, <2>6
<1>5. CASE d # Current(w)
  <2>1. errors'[d] = errors[d] /\ (d \in answered => d \in answered')
    BY <1>5 DEF Store, TypeInv, QueueTypeOK
  <2>. QED
    BY <1>1, <1>3, <2>1
<1>. QED
  BY <1>4, <1>5

LEMMA RetryNext == TypeInv /\ CallsInv /\ RetryInv /\ [Next]_vars => RetryInv'
<1>. SUFFICES ASSUME TypeInv, CallsInv, RetryInv, [Next]_vars, NEW d \in Documents
              PROVE  /\ errors'[d] + 2 * Cardinality(Listing(d)')
                          <= MaxErrorRows - 2 + 2 * Cardinality(Workers)
                     /\ d \notin answered' => \E k \in Nat : errors'[d] = 2 * k
  BY DEF RetryInv, MaxErrorRows
<1>1. ASSUME NEW w \in Workers, StartTick(w)
      PROVE  /\ errors'[d] + 2 * Cardinality(Listing(d)')
                  <= MaxErrorRows - 2 + 2 * Cardinality(Workers)
             /\ d \notin answered' => \E k \in Nat : errors'[d] = 2 * k
  <2>1. errors' = errors /\ answered' = answered
    BY <1>1 DEF StartTick, table
  <2>. QED
    BY <1>1, <2>1, RetryStarted DEF RetryInv
<1>2. ASSUME NEW w \in Workers, Store(w)
      PROVE  /\ errors'[d] + 2 * Cardinality(Listing(d)')
                  <= MaxErrorRows - 2 + 2 * Cardinality(Workers)
             /\ d \notin answered' => \E k \in Nat : errors'[d] = 2 * k
  BY <1>2, RetryStored
<1>3. ASSUME NEW w \in Workers,
             \/ CheckBudget(w) \/ EndTick(w) \/ SkipLocked(w) \/ TakeDocument(w)
             \/ CallModel(w) \/ RefuseTooLong(w) \/ CallRaises(w) \/ StoreRaises(w)
             \/ Abort(w)
      PROVE  /\ errors'[d] + 2 * Cardinality(Listing(d)')
                  <= MaxErrorRows - 2 + 2 * Cardinality(Workers)
             /\ d \notin answered' => \E k \in Nat : errors'[d] = 2 * k
  <2>1. errors' = errors /\ answered' = answered
    BY <1>3 DEF CheckBudget, EndTick, SkipLocked, TakeDocument, CallModel, RefuseTooLong,
       CallRaises, StoreRaises, Raise, Abort, table
  <2>2. ~ StartTick(w) /\ (Step(w) \/ Abort(w))
    BY <1>3 DEF StartTick, CheckBudget, EndTick, SkipLocked, TakeDocument, CallModel,
       RefuseTooLong, CallRaises, StoreRaises, Abort, Step
  <2>3. Listing(d)' \in SUBSET Listing(d) /\ Listing(d) \in SUBSET Workers
    BY <2>2, ListsShrink DEF Listing
  <2>4. /\ Cardinality(Listing(d)') \in Nat /\ Cardinality(Listing(d)) \in Nat
        /\ Cardinality(Listing(d)') <= Cardinality(Listing(d))
        /\ Cardinality(Workers) \in Nat
    BY <2>3, WorkerSets
  <2>5. MaxErrorRows \in Int /\ errors[d] \in Nat
    BY SettingsAssumption DEF MaxErrorRows, TypeInv, QueueTypeOK
  <2>. QED
    BY <2>1, <2>4, <2>5 DEF RetryInv
<1>4. CASE Midnight \/ UNCHANGED vars
  <2>1. errors' = errors /\ answered' = answered /\ Listing(d)' = Listing(d)
    BY <1>4 DEF Midnight, vars, table, worker, Listing
  <2>. QED
    BY <2>1 DEF RetryInv
<1>. QED
  BY <1>1, <1>2, <1>3, <1>4 DEF Next, Step

\* However many workers run and however their lists go out of date, a document
\* that only ever errors is recorded as attempted MAX_ATTEMPTS times, and at
\* most once more by each worker but one.
THEOREM RetriesBounded == Spec => []RetriesStayBounded
<1>1. Init => CallsInv /\ RetryInv
  <2>. SUFFICES ASSUME Init
                PROVE  CallsInv /\ RetryInv
    OBVIOUS
  <2>1. CallsInv
    BY DEF Init, CallsInv
  <2>2. ASSUME NEW d \in Documents
        PROVE  /\ errors[d] + 2 * Cardinality(Listing(d))
                    <= MaxErrorRows - 2 + 2 * Cardinality(Workers)
               /\ \E k \in Nat : errors[d] = 2 * k
    <3>1. Listing(d) = {} /\ errors[d] = 0
      BY DEF Init, Listing
    <3>2. Cardinality(Listing(d)) = 0
      BY <3>1, FS_EmptySet
    <3>3. Cardinality(Workers) \in Nat /\ Cardinality(Workers) >= 1
      BY WorkerSets
    <3>4. MaxAttempts \in Nat /\ MaxAttempts >= 1
      BY SettingsAssumption
    <3>5. errors[d] = 2 * 0
      BY <3>1
    <3>. QED
      BY <3>1, <3>2, <3>3, <3>4, <3>5 DEF MaxErrorRows
  <2>. QED
    BY <2>1, <2>2 DEF RetryInv
<1>2. TypeInv /\ RetryInv => RetriesStayBounded
  <2>. SUFFICES ASSUME TypeInv, RetryInv, NEW d \in Documents
                PROVE  errors[d] <= MaxErrorRows + 2 * (Cardinality(Workers) - 1)
    BY DEF RetriesStayBounded
  <2>1. Listing(d) \in SUBSET Workers /\ errors[d] \in Nat /\ MaxErrorRows \in Int
    BY SettingsAssumption DEF Listing, TypeInv, QueueTypeOK, MaxErrorRows
  <2>2. Cardinality(Listing(d)) \in Nat /\ Cardinality(Workers) \in Nat
    BY <2>1, WorkerSets
  <2>. QED
    BY <2>1, <2>2 DEF RetryInv
<1>. QED
  BY <1>1, <1>2, TypeInvariance, CallsNext, RetryNext, PTL DEF Spec
=============================================================================

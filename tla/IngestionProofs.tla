---------------------------- MODULE IngestionProofs ----------------------------
(***************************************************************************)
(* The safety of Ingestion for any number of workers, sources, editions    *)
(* and items. Of the invariant, `Hands' says what a worker may hold at     *)
(* each point of its tick and `Exclusion' what two workers never hold both;    *)
(* the other parts are the properties with what they need to be inductive. *)
(***************************************************************************)
EXTENDS Ingestion, FiniteSetTheorems, TLAPS

Least(s, T) == s \in T /\ \A t \in T : s <= t

\* What a worker may hold where it stands. Of the sources it has asked, the one in
\* hand is the only one it has not written.
Hands ==
    \A w \in Workers :
        /\ phase[w] = "idle" =>
              /\ todo[w] = {} /\ locked[w] = {} /\ shared[w] = {}
              /\ DOMAIN draft[w] = {} /\ fresh[w] = {}
        /\ phase[w] \in {"loaded", "asked"} => todo[w] # {} /\ seen[w] \in Source
        /\ DOMAIN draft[w] \subseteq shared[w]
        /\ todo[w] \cap DOMAIN draft[w] = {}
        /\ \A s \in shared[w] : \/ s \in DOMAIN draft[w]
                                \/ phase[w] = "asked" /\ Least(s, todo[w])
        /\ phase[w] = "asked" => \A s \in Sources : Least(s, todo[w]) => s \in shared[w]

\* Until a tick is rolled back it has a lock on whatever it has left to do.
Exclusion ==
    /\ \A w \in Workers, s \in Sources :
          s \in todo[w] /\ s \notin disturbed => s \in locked[w]
    /\ \A v, w \in Workers, s \in Sources : v # w /\ s \in locked[w] =>
          s \notin locked[v] /\ s \notin DOMAIN draft[v] /\ s \notin shared[v]
    /\ \A v, w \in Workers, s \in Sources : v # w /\ s \in DOMAIN draft[w] =>
          s \notin DOMAIN draft[v]
    /\ \A v, w \in Workers, s \in Sources : v # w /\ s \in shared[w] /\ s \in shared[v] =>
          s \in disturbed

\* Who is reviewed stays reviewed, and only the reviewed are ever in hand.
Reviewed ==
    /\ \A s \in Sources : source[s].enabled => source[s].reviewed
    /\ \A w \in Workers, s \in Sources : s \in todo[w] \/ s \in shared[w] => source[s].reviewed
    /\ \A w \in Workers, s \in Sources : s \in DOMAIN draft[w] => draft[w][s].reviewed
    /\ \A w \in Workers : \A d \in fresh[w] : source[d.source].reviewed
    /\ \A s \in Sources : ~source[s].reviewed => sinceAsked[s] = Interval
    /\ \A d \in stored : ~source[d.source].reviewed => ~d.full

\* Every item that can be stored of edition e of s is among the documents.
Has(documents, s, e) ==
    e # NoEtag => \A i \in Publishes[e] \ Unstorable :
                     \E d \in documents : d.source = s /\ d.item = i

\* A validator is written in the transaction that stores what it stands for.
Validated ==
    /\ \A s \in Sources : Has(stored, s, source[s].etag)
    /\ \A w \in Workers, s \in Sources : s \in DOMAIN draft[w] =>
          Has(stored \cup fresh[w], s, draft[w][s].etag)

\* Time: what is left to ask has not been asked for an interval, what has been
\* asked was asked by this tick, and the row tells of every request that ended.
Timed ==
    /\ \A w \in Workers, s \in Sources :
          s \in todo[w] /\ s \notin shared[w] /\ s \notin disturbed => sinceAsked[s] = Interval
    /\ \A w \in Workers, s \in Sources :
          s \in shared[w] /\ s \notin disturbed => sinceAsked[s] = elapsed[w]
    /\ \A s \in Sources :
          s \notin disturbed /\ (\A w \in Workers : s \notin shared[w]) => age[s] <= sinceAsked[s]

\* Refusals: whoever refused is disabled or about to be, and not in anybody's plans.
Heeded ==
    /\ \A w \in Workers, s \in Sources :
          s \in todo[w] /\ s \notin disturbed => source[s].enabled
    /\ \A w \in Workers, s \in Sources :
          phase[w] \in {"loaded", "asked"} /\ Least(s, todo[w]) /\ s \notin disturbed
             => seen[w].enabled
    /\ \A w \in Workers, s \in Sources :
          s \in todo[w] /\ s \notin disturbed => s \notin refusing
    /\ \A s \in Sources : s \in refusing /\ s \notin disturbed =>
          /\ \A w \in Workers : s \in DOMAIN draft[w] => ~draft[w][s].enabled
          /\ source[s].enabled => \E w \in Workers : s \in DOMAIN draft[w]

IngestInv ==
    IngestTypeOK /\ Hands /\ Exclusion /\ Reviewed /\ Validated /\ Timed /\ Heeded

-----------------------------------------------------------------------------
(* The source in hand *)

\* A set of sources has a least one: the one with the fewest before it.
LEMMA LeastExists ==
    ASSUME NEW T, T \subseteq Sources, T # {}
    PROVE  \E s \in T : \A t \in T : s <= t
  <1> DEFINE Before(s) == {t \in T : t < s}
  <1> DEFINE All == {Before(s) : s \in T}
  <1>1. T \subseteq Nat /\ IsFiniteSet(T)
    BY SourcesAssumption, FS_Subset
  <1>2. All \subseteq FiniteSubsetsOf(T)
    BY <1>1, FS_Subset DEF FiniteSubsetsOf
  <1>3. All # {}
    OBVIOUS
  <1>4. PICK B \in All : \A C \in All : ~(<<C, B>> \in StrictSubsetOrdering(T))
    BY <1>2, <1>3, FS_StrictSubsetOrderingWellFounded, WFMin
  <1>5. PICK s \in T : B = Before(s)
    OBVIOUS
  <1>6. ASSUME NEW t \in T, ~(s <= t)
        PROVE  FALSE
    <2>1. s \in Nat /\ t \in Nat /\ t < s
      BY <1>1, <1>6
    <2>2. ASSUME NEW u \in Before(t)
          PROVE  u \in Before(s)
      <3>1. u \in T /\ u \in Nat /\ u < t
        BY <1>1
      <3> QED
        BY <2>1, <3>1
    <2>3. t \in Before(s) /\ t \notin Before(t)
      BY <2>1
    <2>4. <<Before(t), Before(s)>> \in StrictSubsetOrdering(T)
      BY <2>2, <2>3 DEF StrictSubsetOrdering
    <2> QED
      BY <1>4, <1>5, <2>4
  <1> QED
    BY <1>6

LEMMA CurrentIsLeast ==
    ASSUME IngestTypeOK, NEW w \in Workers, todo[w] # {}
    PROVE  /\ Least(Current(w), todo[w])
           /\ Current(w) \in Sources
           /\ \A s : Least(s, todo[w]) => s = Current(w)
  <1>1. todo[w] \subseteq Sources /\ todo[w] \subseteq Nat
    BY SourcesAssumption DEF IngestTypeOK
  <1>2. \E s \in todo[w] : \A t \in todo[w] : s <= t
    BY <1>1, LeastExists
  <1>3. Least(Current(w), todo[w])
    BY <1>2 DEF Current, Least
  <1>4. ASSUME NEW s, Least(s, todo[w])
        PROVE  s = Current(w)
    <2>1. s \in Nat /\ Current(w) \in Nat /\ s <= Current(w) /\ Current(w) <= s
      BY <1>1, <1>3, <1>4 DEF Least
    <2> QED
      BY <2>1
  <1> QED
    BY <1>1, <1>3, <1>4 DEF Least

\* A row has every column.
LEMMA WrittenRow ==
    ASSUME NEW s, source[s] \in Source, NEW old \in Source,
           NEW enabled \in BOOLEAN, NEW etag \in Editions \cup {NoEtag}
    PROVE  /\ Written(s, old, enabled, etag) \in Source
           /\ Written(s, old, enabled, etag).reviewed = source[s].reviewed
           /\ Written(s, old, enabled, etag).enabled
                = IF enabled <=> old.enabled THEN source[s].enabled ELSE enabled
           /\ Written(s, old, enabled, etag).etag
                = IF etag = old.etag THEN source[s].etag ELSE etag
  BY DEF Written, Source

LEMMA LaterAges ==
    ASSUME NEW n \in Ages
    PROVE  /\ Later(n) \in Ages
           /\ n = Interval => Later(n) = Interval
           /\ \A m \in Ages : m <= n => Later(m) <= Later(n)
  BY IngestBoundsAssumption DEF Later, Ages

-----------------------------------------------------------------------------
(* The initial state and what leaves the tables and the sessions alone *)

LEMMA StartsInv == Init => IngestInv
  <1> SUFFICES ASSUME Init
               PROVE  IngestInv
    OBVIOUS
  <1> USE DEF Init
  <1>1. Seeded \in Source /\ Seeded.etag = NoEtag /\ ~Seeded.enabled
    BY DEF Seeded, Source
  <1>2. DOMAIN Nothing = {} /\ Nothing \in [{} -> Source]
    BY DEF Nothing
  <1>3. draft \in [Workers -> UNION {[S -> Source] : S \in SUBSET Sources}]
    BY <1>2
  <1>4. Interval \in Ages /\ 0 \in Ages /\ 0 \in 0 .. MaxCrashes
    BY IngestBoundsAssumption DEF Ages
  <1>5. IngestTypeOK
    BY <1>1, <1>3, <1>4, FeedAssumption DEF IngestTypeOK
  <1>6. Hands /\ Exclusion
    BY <1>2 DEF Hands, Exclusion
  <1>7. Reviewed
    BY <1>1, <1>2 DEF Reviewed
  <1>8. Validated
    BY <1>1, <1>2 DEF Validated, Has
  <1>9. Interval <= Interval
    BY IngestBoundsAssumption
  <1>10. Timed
    BY <1>9 DEF Timed
  <1>11. Heeded
    BY <1>2 DEF Heeded
  <1> QED
    BY <1>5, <1>6, <1>7, <1>8, <1>10, <1>11 DEF IngestInv

LEMMA StutterInv == IngestInv /\ UNCHANGED vars => IngestInv'
  <1> SUFFICES ASSUME IngestInv, UNCHANGED vars
               PROVE  IngestInv'
    OBVIOUS
  <1> USE DEF IngestInv, vars, table, session, history
  <1>1. IngestTypeOK'
    BY DEF IngestTypeOK
  <1>2. Hands'
    BY DEF Hands
  <1>3. Exclusion'
    BY DEF Exclusion
  <1>4. Reviewed'
    BY DEF Reviewed
  <1>5. Validated'
    BY DEF Validated
  <1>6. Timed'
    BY DEF Timed
  <1>7. Heeded'
    BY DEF Heeded
  <1> QED
    BY <1>1, <1>2, <1>3, <1>4, <1>5, <1>6, <1>7

LEMMA PublishInv ==
    ASSUME IngestInv, NEW s \in Sources, NEW e \in Serves[s], Publish(s, e)
    PROVE  IngestInv'
  <1> USE DEF IngestInv, vars, table, session, history, Publish
  <1>1. IngestTypeOK'
    BY FeedAssumption DEF IngestTypeOK
  <1>2. Hands'
    BY DEF Hands
  <1>3. Exclusion'
    BY DEF Exclusion
  <1>4. Reviewed'
    BY DEF Reviewed
  <1>5. Validated'
    BY DEF Validated
  <1>6. Timed'
    BY DEF Timed
  <1>7. Heeded'
    BY DEF Heeded
  <1> QED
    BY <1>1, <1>2, <1>3, <1>4, <1>5, <1>6, <1>7

LEMMA MinuteInv == IngestInv /\ Minute => IngestInv'
  <1> SUFFICES ASSUME IngestInv, Minute
               PROVE  IngestInv'
    OBVIOUS
  <1> USE DEF IngestInv
  <1>1. /\ age' = [s \in Sources |-> Later(age[s])]
        /\ sinceAsked' = [s \in Sources |-> Later(sinceAsked[s])]
        /\ elapsed' = [w \in Workers |-> IF phase[w] = "idle" THEN 0 ELSE Later(elapsed[w])]
        /\ UNCHANGED <<source, stored, feed, phase, todo, locked, shared, seen, draft, fresh,
                       crashes, refusing, disturbed>>
    BY DEF Minute
  <1>2. IngestTypeOK'
    BY <1>1, LaterAges, IngestBoundsAssumption DEF IngestTypeOK, Ages
  <1>3. Hands'
    BY <1>1 DEF Hands
  <1>4. Exclusion'
    BY <1>1 DEF Exclusion
  <1>5. Reviewed'
    BY <1>1, LaterAges DEF Reviewed, IngestTypeOK
  <1>6. Validated'
    BY <1>1 DEF Validated
  <1>7. Timed'
    <2>1. ASSUME NEW w \in Workers, NEW s \in Sources,
                 s \in todo[w], s \notin shared[w], s \notin disturbed
          PROVE  sinceAsked'[s] = Interval
      BY <1>1, <2>1, LaterAges DEF Timed, IngestTypeOK
    <2>2. ASSUME NEW w \in Workers, NEW s \in Sources, s \in shared[w], s \notin disturbed
          PROVE  sinceAsked'[s] = elapsed'[w]
      BY <1>1, <2>2 DEF Timed, Hands
    <2>3. ASSUME NEW s \in Sources, s \notin disturbed, \A w \in Workers : s \notin shared[w]
          PROVE  age'[s] <= sinceAsked'[s]
      <3>1. age[s] <= sinceAsked[s] /\ age[s] \in Ages /\ sinceAsked[s] \in Ages
        BY <2>3 DEF Timed, IngestTypeOK
      <3> QED
        BY <1>1, <3>1, LaterAges
    <2> QED
      BY <1>1, <2>1, <2>2, <2>3 DEF Timed
  <1>8. Heeded'
    BY <1>1 DEF Heeded
  <1> QED
    BY <1>2, <1>3, <1>4, <1>5, <1>6, <1>7, <1>8

-----------------------------------------------------------------------------
(* A tick *)

LEMMA StartTickInv ==
    ASSUME IngestInv, NEW w \in Workers, StartTick(w)
    PROVE  IngestInv'
  <1> USE DEF IngestInv
  <1> DEFINE due == Due(w)
             lockable == Lockable(w)
  <1>1. /\ phase[w] = "idle"
        /\ due # {} /\ due \subseteq lockable /\ lockable \subseteq Sources
        /\ phase' = [phase EXCEPT ![w] = "between"]
        /\ todo' = [todo EXCEPT ![w] = due]
        /\ elapsed' = [elapsed EXCEPT ![w] = 0]
        /\ locked' = [locked EXCEPT ![w] = lockable]
        /\ UNCHANGED <<source, age, stored, feed, shared, seen, draft, fresh, crashes,
                       sinceAsked, refusing, disturbed>>
    BY DEF StartTick, Due, Lockable, Locks, Enabled, table, history
  <1>2. \A s \in lockable :
            /\ source[s].enabled
            /\ \A v \in Workers \ {w} :
                  s \notin locked[v] /\ s \notin DOMAIN draft[v] /\ s \notin shared[v]
    BY DEF Lockable, Enabled, Reserved, Referenced
  <1>3. \A s \in due : age[s] = Interval
    BY DEF Due
  <1>4. shared[w] = {} /\ DOMAIN draft[w] = {} /\ locked[w] = {} /\ todo[w] = {}
    BY <1>1 DEF Hands
  <1> HIDE DEF due, lockable
  <1>5. 0 \in Ages
    BY IngestBoundsAssumption DEF Ages
  <1>6. /\ phase'[w] = "between" /\ todo'[w] = due /\ locked'[w] = lockable /\ elapsed'[w] = 0
        /\ \A v \in Workers \ {w} : /\ phase'[v] = phase[v] /\ todo'[v] = todo[v]
                                    /\ locked'[v] = locked[v] /\ elapsed'[v] = elapsed[v]
    BY <1>1 DEF IngestTypeOK
  <1>7. IngestTypeOK'
    BY <1>1, <1>5 DEF IngestTypeOK
  <1>8. Hands'
    BY <1>1, <1>4, <1>6 DEF Hands
  <1>9. Exclusion'
    <2>1. \A v \in Workers, s \in Sources :
              s \in todo'[v] /\ s \notin disturbed => s \in locked'[v]
      BY <1>1, <1>6 DEF Exclusion
    <2>2. \A u, v \in Workers, s \in Sources : u # v /\ s \in locked'[v] =>
              s \notin locked'[u] /\ s \notin DOMAIN draft[u] /\ s \notin shared[u]
      BY <1>1, <1>2, <1>4, <1>6 DEF Exclusion
    <2> QED
      BY <1>1, <2>1, <2>2 DEF Exclusion
  <1>10. Reviewed'
    BY <1>1, <1>2, <1>6 DEF Reviewed
  <1>11. Validated'
    BY <1>1 DEF Validated
  <1>12. \A s \in due : s \notin disturbed => sinceAsked[s] = Interval /\ s \notin refusing
    <2> SUFFICES ASSUME NEW s \in due, s \notin disturbed
                 PROVE  sinceAsked[s] = Interval /\ s \notin refusing
      OBVIOUS
    <2>1. s \in Sources /\ s \in lockable
      BY <1>1
    <2>2. \A v \in Workers : s \notin shared[v] /\ s \notin DOMAIN draft[v]
      BY <1>2, <1>4, <2>1
    <2>3. age[s] <= sinceAsked[s] /\ age[s] = Interval /\ sinceAsked[s] \in Ages
      BY <1>3, <2>1, <2>2 DEF Timed, IngestTypeOK
    <2>4. sinceAsked[s] = Interval
      BY <2>3, IngestBoundsAssumption DEF Ages
    <2> QED
      BY <1>2, <2>1, <2>2, <2>4 DEF Heeded
  <1>13. Timed'
    <2>1. \A v \in Workers, s \in Sources :
              s \in todo'[v] /\ s \notin shared[v] /\ s \notin disturbed
                 => sinceAsked[s] = Interval
      BY <1>6, <1>12 DEF Timed
    <2>2. \A v \in Workers, s \in Sources :
              s \in shared[v] /\ s \notin disturbed => sinceAsked[s] = elapsed'[v]
      BY <1>4, <1>6 DEF Timed
    <2> QED
      BY <1>1, <2>1, <2>2 DEF Timed
  <1>14. Heeded'
    <2>1. \A v \in Workers, s \in Sources :
              s \in todo'[v] /\ s \notin disturbed => source[s].enabled /\ s \notin refusing
      BY <1>1, <1>2, <1>6, <1>12 DEF Heeded
    <2>2. \A v \in Workers, s \in Sources :
              phase'[v] \in {"loaded", "asked"} /\ Least(s, todo'[v]) /\ s \notin disturbed
                 => seen[v].enabled
      BY <1>6 DEF Heeded
    <2> QED
      BY <1>1, <2>1, <2>2 DEF Heeded
  <1> QED
    BY <1>7, <1>8, <1>9, <1>10, <1>11, <1>13, <1>14

LEMMA LoadInv ==
    ASSUME IngestInv, NEW w \in Workers, Load(w)
    PROVE  IngestInv'
  <1> USE DEF IngestInv
  <1> DEFINE s == Current(w)
  <1>1. /\ phase[w] = "between" /\ todo[w] # {}
        /\ phase' = [phase EXCEPT ![w] = "loaded"]
        /\ seen' = [seen EXCEPT ![w] = source[s]]
        /\ UNCHANGED <<source, age, stored, feed, todo, elapsed, locked, shared, draft, fresh,
                       crashes, sinceAsked, refusing, disturbed>>
    BY DEF Load, table, history
  <1>2. /\ Least(s, todo[w]) /\ s \in Sources /\ s \in todo[w]
        /\ \A t : Least(t, todo[w]) => t = s
    BY <1>1, CurrentIsLeast DEF Least
  <1> HIDE DEF s
  <1>3. source[s] \in Source
    BY <1>2 DEF IngestTypeOK
  <1>4. /\ phase'[w] = "loaded" /\ seen'[w] = source[s]
        /\ \A v \in Workers \ {w} : phase'[v] = phase[v] /\ seen'[v] = seen[v]
    BY <1>1 DEF IngestTypeOK
  <1>5. IngestTypeOK'
    BY <1>1, <1>3 DEF IngestTypeOK
  <1>6. Hands'
    BY <1>1, <1>3, <1>4 DEF Hands
  <1>7. Exclusion'
    BY <1>1 DEF Exclusion
  <1>8. Reviewed'
    BY <1>1 DEF Reviewed
  <1>9. Validated'
    BY <1>1 DEF Validated
  <1>10. Timed'
    BY <1>1 DEF Timed
  <1>11. Heeded'
    <2>1. \A v \in Workers, t \in Sources :
              phase'[v] \in {"loaded", "asked"} /\ Least(t, todo[v]) /\ t \notin disturbed
                 => seen'[v].enabled
      BY <1>2, <1>4 DEF Heeded
    <2> QED
      BY <1>1, <2>1 DEF Heeded
  <1> QED
    BY <1>5, <1>6, <1>7, <1>8, <1>9, <1>10, <1>11

LEMMA AskInv ==
    ASSUME IngestInv, NEW w \in Workers, Ask(w)
    PROVE  IngestInv'
  <1> USE DEF IngestInv
  <1> DEFINE s == Current(w)
  <1>1. /\ phase[w] = "loaded"
        /\ \A v \in Workers \ {w} : s \notin locked[v]
        /\ phase' = [phase EXCEPT ![w] = "asked"]
        /\ shared' = [shared EXCEPT ![w] = @ \cup {s}]
        /\ sinceAsked' = [sinceAsked EXCEPT ![s] = elapsed[w]]
        /\ UNCHANGED <<source, age, stored, feed, todo, elapsed, locked, seen, draft, fresh,
                       crashes, refusing, disturbed>>
    BY DEF Ask, table
  <1>2. todo[w] # {}
    BY <1>1 DEF Hands
  <1>3. /\ Least(s, todo[w]) /\ s \in Sources /\ s \in todo[w]
        /\ \A t : Least(t, todo[w]) => t = s
    BY <1>2, CurrentIsLeast DEF Least
  <1> HIDE DEF s
  <1>4. /\ phase'[w] = "asked" /\ shared'[w] = shared[w] \cup {s}
        /\ \A v \in Workers \ {w} : phase'[v] = phase[v] /\ shared'[v] = shared[v]
    BY <1>1 DEF IngestTypeOK
  <1>5. /\ sinceAsked'[s] = elapsed[w]
        /\ \A t \in Sources \ {s} : sinceAsked'[t] = sinceAsked[t]
    BY <1>1, <1>3 DEF IngestTypeOK
  <1>6. \A v \in Workers \ {w} : s \in todo[v] \/ s \in shared[v] => s \in disturbed
    BY <1>1, <1>3 DEF Exclusion
  <1>7. IngestTypeOK'
    BY <1>1, <1>3 DEF IngestTypeOK
  <1>8. Hands'
    BY <1>1, <1>3, <1>4 DEF Hands
  <1>9. Exclusion'
    <2>1. \A u, v \in Workers, t \in Sources : u # v /\ t \in locked[v] => t \notin shared'[u]
      BY <1>1, <1>4 DEF Exclusion
    <2>2. \A u, v \in Workers, t \in Sources :
              u # v /\ t \in shared'[v] /\ t \in shared'[u] => t \in disturbed
      BY <1>4, <1>6 DEF Exclusion
    <2> QED
      BY <1>1, <2>1, <2>2 DEF Exclusion
  <1>10. Reviewed'
    BY <1>1, <1>3, <1>4, <1>5 DEF Reviewed
  <1>11. Validated'
    BY <1>1 DEF Validated
  <1>12. Timed'
    <2>1. \A v \in Workers, t \in Sources :
              t \in todo[v] /\ t \notin shared'[v] /\ t \notin disturbed
                 => sinceAsked'[t] = Interval
      BY <1>4, <1>5, <1>6 DEF Timed
    <2>2. \A v \in Workers, t \in Sources :
              t \in shared'[v] /\ t \notin disturbed => sinceAsked'[t] = elapsed[v]
      BY <1>4, <1>5, <1>6 DEF Timed
    <2>3. \A t \in Sources :
              t \notin disturbed /\ (\A v \in Workers : t \notin shared'[v])
                 => age[t] <= sinceAsked'[t]
      BY <1>4, <1>5 DEF Timed
    <2> QED
      BY <1>1, <2>1, <2>2, <2>3 DEF Timed
  <1>13. Heeded'
    BY <1>1, <1>4 DEF Heeded
  <1> QED
    BY <1>7, <1>8, <1>9, <1>10, <1>11, <1>12, <1>13

\* Whatever the answer was: `row' is what is written of the source, `new' the documents.
LEMMA CloseInv ==
    ASSUME IngestInv, NEW w \in Workers, NEW row \in Source, NEW new \in SUBSET Document,
           Close(w, row, new),
           \A d \in new : d.source = Current(w),
           row.reviewed = source[Current(w)].reviewed,
           Has(stored \cup new, Current(w), row.etag),
           \/ refusing' = refusing /\ row.enabled = source[Current(w)].enabled
           \/ refusing' = refusing \cup {Current(w)}
              /\ (Current(w) \notin disturbed => ~row.enabled)
    PROVE  IngestInv'
  <1> USE DEF IngestInv
  <1> DEFINE s == Current(w)
  <1>1. /\ phase[w] = "asked"
        /\ \A v \in Workers \ {w} : s \notin locked[v] /\ s \notin DOMAIN draft[v]
        /\ phase' = [phase EXCEPT ![w] = "between"]
        /\ todo' = [todo EXCEPT ![w] = @ \ {s}]
        /\ seen' = [seen EXCEPT ![w] = NoRow]
        /\ draft' = [draft EXCEPT ![w] =
                [t \in DOMAIN @ \cup {s} |-> IF t = s THEN row ELSE @[t]]]
        /\ fresh' = [fresh EXCEPT ![w] = @ \cup new]
        /\ UNCHANGED <<source, age, stored, feed, elapsed, locked, shared, crashes,
                       sinceAsked, disturbed>>
    BY DEF Close, Reserved, table
  <1>2. todo[w] # {}
    BY <1>1 DEF Hands
  <1>3. /\ Least(s, todo[w]) /\ s \in Sources /\ s \in todo[w]
        /\ \A t : Least(t, todo[w]) => t = s
    BY <1>2, CurrentIsLeast DEF Least
  <1>4. /\ \A d \in new : d.source = s
        /\ row.reviewed = source[s].reviewed
        /\ Has(stored \cup new, s, row.etag)
        /\ \/ refusing' = refusing /\ row.enabled = source[s].enabled
           \/ refusing' = refusing \cup {s} /\ (s \notin disturbed => ~row.enabled)
    OBVIOUS
  <1> HIDE DEF s
  <1>5. /\ phase'[w] = "between" /\ todo'[w] = todo[w] \ {s} /\ seen'[w] = NoRow
        /\ fresh'[w] = fresh[w] \cup new
        /\ DOMAIN draft'[w] = DOMAIN draft[w] \cup {s}
        /\ draft'[w][s] = row
        /\ \A t \in DOMAIN draft[w] \ {s} : draft'[w][t] = draft[w][t]
        /\ \A v \in Workers \ {w} :
              /\ phase'[v] = phase[v] /\ todo'[v] = todo[v] /\ seen'[v] = seen[v]
              /\ fresh'[v] = fresh[v] /\ draft'[v] = draft[v]
    BY <1>1 DEF IngestTypeOK
  <1>6. s \notin DOMAIN draft[w]
    BY <1>3 DEF Hands
  <1>7. IngestTypeOK'
    <2>1. PICK S \in SUBSET Sources : draft[w] \in [S -> Source]
      BY DEF IngestTypeOK
    <2>2. draft'[w] \in [S \cup {s} -> Source]
      BY <1>1, <2>1 DEF IngestTypeOK
    <2>3. draft'[w] \in UNION {[T -> Source] : T \in SUBSET Sources}
      BY <1>3, <2>2
    <2>4. draft' \in [Workers -> UNION {[T -> Source] : T \in SUBSET Sources}]
      BY <1>1, <1>5, <2>3 DEF IngestTypeOK
    <2>5. refusing' \in SUBSET Sources
      BY <1>3, <1>4 DEF IngestTypeOK
    <2> QED
      BY <1>1, <2>4, <2>5 DEF IngestTypeOK
  <1>8. Hands'
    <2>1. ASSUME NEW v \in Workers, v # w
          PROVE  /\ phase'[v] = "idle" =>
                       /\ todo'[v] = {} /\ locked'[v] = {} /\ shared'[v] = {}
                       /\ DOMAIN draft'[v] = {} /\ fresh'[v] = {}
                 /\ phase'[v] \in {"loaded", "asked"} => todo'[v] # {} /\ seen'[v] \in Source
                 /\ DOMAIN draft'[v] \subseteq shared'[v]
                 /\ todo'[v] \cap DOMAIN draft'[v] = {}
                 /\ \A t \in shared'[v] : \/ t \in DOMAIN draft'[v]
                                          \/ phase'[v] = "asked" /\ Least(t, todo'[v])
                 /\ phase'[v] = "asked" =>
                       \A t \in Sources : Least(t, todo'[v]) => t \in shared'[v]
      BY <1>1, <1>5, <2>1 DEF Hands
    <2>2. s \in shared[w]
      BY <1>1, <1>3 DEF Hands
    <2>3. /\ DOMAIN draft'[w] \subseteq shared'[w]
          /\ todo'[w] \cap DOMAIN draft'[w] = {}
          /\ \A t \in shared'[w] : t \in DOMAIN draft'[w]
      BY <1>1, <1>3, <1>5, <2>2 DEF Hands
    <2> QED
      BY <1>5, <2>1, <2>3 DEF Hands
  <1>9. Exclusion'
    <2>1. \A v \in Workers, t \in Sources :
              t \in todo'[v] /\ t \notin disturbed => t \in locked[v]
      BY <1>5 DEF Exclusion
    <2>2. \A u, v \in Workers, t \in Sources : u # v /\ t \in locked[v] =>
              t \notin locked[u] /\ t \notin DOMAIN draft'[u] /\ t \notin shared[u]
      BY <1>1, <1>5 DEF Exclusion
    <2>3. \A u, v \in Workers, t \in Sources : u # v /\ t \in DOMAIN draft'[v] =>
              t \notin DOMAIN draft'[u]
      BY <1>1, <1>5 DEF Exclusion
    <2> QED
      BY <1>1, <2>1, <2>2, <2>3 DEF Exclusion
  <1>10. Reviewed'
    <2>1. source[s].reviewed
      BY <1>3 DEF Reviewed
    <2>2. ASSUME NEW v \in Workers, NEW t \in Sources, t \in DOMAIN draft'[v]
          PROVE  draft'[v][t].reviewed
      <3>1. CASE v = w /\ t = s
        BY <1>4, <1>5, <2>1, <3>1
      <3>2. CASE ~(v = w /\ t = s)
        <4>1. t \in DOMAIN draft[v] /\ draft'[v][t] = draft[v][t]
          BY <1>5, <2>2, <3>2
        <4> QED
          BY <4>1 DEF Reviewed
      <3> QED
        BY <3>1, <3>2
    <2>3. \A v \in Workers : \A d \in fresh'[v] : source[d.source].reviewed
      BY <1>4, <1>5, <2>1 DEF Reviewed
    <2>4. \A v \in Workers, t \in Sources :
              t \in todo'[v] \/ t \in shared[v] => source[t].reviewed
      BY <1>5 DEF Reviewed
    <2> QED
      BY <1>1, <2>2, <2>3, <2>4 DEF Reviewed
  <1>11. Validated'
    <2>1. ASSUME NEW v \in Workers, NEW t \in Sources, t \in DOMAIN draft'[v]
          PROVE  Has(stored \cup fresh'[v], t, draft'[v][t].etag)
      <3>1. CASE v # w
        BY <1>5, <2>1, <3>1 DEF Validated
      <3>2. CASE v = w /\ t = s
        <4>1. Has(stored \cup new, s, draft'[v][t].etag)
          BY <1>4, <1>5, <3>2
        <4> QED
          BY <1>5, <3>2, <4>1 DEF Has
      <3>3. CASE v = w /\ t # s
        <4>1. Has(stored \cup fresh[v], t, draft'[v][t].etag)
          BY <1>5, <2>1, <3>3 DEF Validated
        <4> QED
          BY <1>5, <3>3, <4>1 DEF Has
      <3> QED
        BY <3>1, <3>2, <3>3
    <2> QED
      BY <1>1, <2>1 DEF Validated
  <1>12. Timed'
    BY <1>1, <1>5 DEF Timed
  <1>13. Heeded'
    <2>1. \A v \in Workers, t \in Sources :
              t \in todo'[v] /\ t \notin disturbed => source[t].enabled
      BY <1>5 DEF Heeded
    <2>2. \A v \in Workers, t \in Sources :
              phase'[v] \in {"loaded", "asked"} /\ Least(t, todo'[v]) /\ t \notin disturbed
                 => seen'[v].enabled
      BY <1>5 DEF Heeded
    <2>3. \A v \in Workers : s \in todo'[v] => s \in disturbed
      BY <1>1, <1>3, <1>5 DEF Exclusion
    <2>4. \A v \in Workers, t \in Sources :
              t \in todo'[v] /\ t \notin disturbed => t \notin refusing'
      BY <1>4, <1>5, <2>3 DEF Heeded
    <2>5. ASSUME NEW t \in Sources, t \in refusing', t \notin disturbed
          PROVE  /\ \A v \in Workers : t \in DOMAIN draft'[v] => ~draft'[v][t].enabled
                 /\ source[t].enabled => \E v \in Workers : t \in DOMAIN draft'[v]
      <3>1. CASE t # s
        <4>1. t \in refusing
          BY <1>4, <2>5, <3>1
        <4> QED
          BY <1>5, <2>5, <3>1, <4>1 DEF Heeded
      <3>2. CASE t = s
        <4>1. ~row.enabled
          BY <1>1, <1>4, <1>6, <2>5, <3>2 DEF Heeded
        <4> QED
          BY <1>1, <1>5, <3>2, <4>1
      <3> QED
        BY <3>1, <3>2
    <2> QED
      BY <1>1, <2>1, <2>2, <2>4, <2>5 DEF Heeded
  <1> QED
    BY <1>7, <1>8, <1>9, <1>10, <1>11, <1>12, <1>13

\* A row whose validator the answer leaves alone.
LEMMA AnsweredInv ==
    ASSUME IngestInv, NEW w \in Workers, phase[w] = "asked"
    PROVE  /\ Current(w) \in Sources /\ source[Current(w)] \in Source
           /\ seen[w] \in Source
           /\ Current(w) \notin disturbed => seen[w].enabled
           /\ Has(stored, Current(w), source[Current(w)].etag)
  <1>1. todo[w] # {} /\ seen[w] \in Source
    BY DEF IngestInv, Hands
  <1>2. Least(Current(w), todo[w]) /\ Current(w) \in Sources
    BY <1>1, CurrentIsLeast DEF IngestInv
  <1> QED
    BY <1>1, <1>2 DEF IngestInv, IngestTypeOK, Heeded, Validated

LEMMA BlockInv ==
    ASSUME IngestInv, NEW w \in Workers, Block(w)
    PROVE  IngestInv'
  <1> DEFINE s == Current(w)
             row == Written(s, seen[w], FALSE, seen[w].etag)
  <1>1. Close(w, row, {}) /\ refusing' = refusing \cup {s} /\ phase[w] = "asked"
    BY DEF Block, AfterBlock, Close
  <1>2. /\ s \in Sources /\ source[s] \in Source /\ seen[w] \in Source
        /\ s \notin disturbed => seen[w].enabled
        /\ Has(stored, s, source[s].etag)
    BY <1>1, AnsweredInv
  <1>3. seen[w].etag \in Editions \cup {NoEtag} /\ FALSE \in BOOLEAN
    BY <1>2 DEF Source
  <1>4. /\ row \in Source /\ row.reviewed = source[s].reviewed /\ row.etag = source[s].etag
        /\ seen[w].enabled => ~row.enabled
    <2>1. /\ seen[w].enabled \in BOOLEAN
          /\ source[s] = [ enabled |-> source[s].enabled, reviewed |-> source[s].reviewed,
                           verified |-> source[s].verified, fullText |-> source[s].fullText,
                           etag |-> source[s].etag ]
      BY <1>2 DEF Source
    <2>2. row = [source[s] EXCEPT !.enabled = IF FALSE = seen[w].enabled THEN @ ELSE FALSE,
                                  !.etag = source[s].etag]
      BY DEF Written
    <2>3. row.enabled = IF seen[w].enabled THEN FALSE ELSE source[s].enabled
      BY <1>2, <2>1, <2>2 DEF Source
    <2>4. row \in Source /\ row.reviewed = source[s].reviewed /\ row.etag = source[s].etag
      BY <1>2, <2>2 DEF Source
    <2> QED
      BY <2>3, <2>4
  <1>5. s \notin disturbed => ~row.enabled
    BY <1>2, <1>4
  <1>6. Has(stored \cup {}, s, row.etag)
    BY <1>2, <1>4
  <1>7. {} \in SUBSET Document
    OBVIOUS
  <1> HIDE DEF row
  <1> QED
    BY <1>1, <1>4, <1>5, <1>6, <1>7, CloseInv

\* A row and documents whose validator, if it is a new one, they stand for.
LEMMA WrittenInv ==
    ASSUME IngestInv, NEW w \in Workers, NEW etag \in Editions \cup {NoEtag},
           NEW new \in SUBSET Document,
           Close(w, Written(Current(w), seen[w], seen[w].enabled, etag), new),
           \A d \in new : d.source = Current(w),
           etag = seen[w].etag \/ Has(stored \cup new, Current(w), etag),
           UNCHANGED refusing
    PROVE  IngestInv'
  <1> DEFINE s == Current(w)
             row == Written(s, seen[w], seen[w].enabled, etag)
  <1>1. phase[w] = "asked"
    BY DEF Close
  <1>2. /\ s \in Sources /\ source[s] \in Source /\ seen[w] \in Source
        /\ Has(stored, s, source[s].etag)
    BY <1>1, AnsweredInv
  <1>3. seen[w].enabled \in BOOLEAN
    BY <1>2 DEF Source
  <1>4. /\ row \in Source /\ row.reviewed = source[s].reviewed
        /\ row.enabled = source[s].enabled
        /\ row.etag = IF etag = seen[w].etag THEN source[s].etag ELSE etag
    BY <1>2, <1>3, WrittenRow
  <1>5. Has(stored \cup new, s, row.etag)
    BY <1>2, <1>4 DEF Has
  <1> HIDE DEF row
  <1> QED
    BY <1>4, <1>5, CloseInv DEF row

LEMMA FailFetchInv ==
    ASSUME IngestInv, NEW w \in Workers, FailFetch(w) \/ SkipUnchanged(w)
    PROVE  IngestInv'
  <1>1. /\ Close(w, Written(Current(w), seen[w], seen[w].enabled, seen[w].etag), {})
        /\ UNCHANGED refusing
    BY DEF FailFetch, SkipUnchanged
  <1>2. seen[w] \in Source
    BY <1>1, AnsweredInv DEF Close
  <1>3. seen[w].etag \in Editions \cup {NoEtag}
    BY <1>2 DEF Source
  <1>4. {} \in SUBSET Document
    OBVIOUS
  <1> QED
    BY <1>1, <1>3, <1>4, WrittenInv

LEMMA IngestStepInv ==
    ASSUME IngestInv, NEW w \in Workers, Ingest(w)
    PROVE  IngestInv'
  <1> DEFINE s == Current(w)
             new == Inserted(w, s)
  <1>1. phase[w] = "asked" /\ UNCHANGED refusing
    BY DEF Ingest
  <1>2. s \in Sources /\ seen[w] \in Source
    BY <1>1, AnsweredInv
  <1>3. feed[s] \in Editions
    BY <1>2 DEF IngestInv, IngestTypeOK
  <1>4. seen[w].fullText \in BOOLEAN /\ seen[w].etag \in Editions \cup {NoEtag}
    BY <1>2 DEF Source
  <1>5. Storable(feed[s]) \subseteq Items \ Unstorable
    BY <1>3, FeedAssumption DEF Storable
  <1>6. new \in SUBSET Document /\ \A d \in new : d.source = s
    BY <1>2, <1>4, <1>5 DEF Inserted, Document
  <1>7. Has(stored \cup new, s, feed[s])
    <2> SUFFICES ASSUME NEW i \in Publishes[feed[s]] \ Unstorable
                 PROVE  \E d \in stored \cup new : d.source = s /\ d.item = i
      BY DEF Has
    <2> DEFINE d == [source |-> s, item |-> i, full |-> seen[w].fullText]
    <2>1. d \in stored \cup new
      BY DEF Inserted, Storable
    <2> QED
      BY <2>1
  <1>8. \/ Close(w, Written(s, seen[w], seen[w].enabled, feed[s]), new)
        \/ Close(w, Written(s, seen[w], seen[w].enabled, seen[w].etag), new)
    BY DEF Ingest
  <1> HIDE DEF new
  <1> QED
    BY <1>1, <1>3, <1>4, <1>6, <1>7, <1>8, WrittenInv

-----------------------------------------------------------------------------
(* The end of a transaction *)

LEMMA RollBackInv ==
    ASSUME IngestInv, NEW w \in Workers, NEW left \in SUBSET todo[w],
           NEW to \in {"idle", "between"}, to = "idle" => left = {},
           RollBack(w),
           phase' = [phase EXCEPT ![w] = to],
           todo' = [todo EXCEPT ![w] = left],
           crashes' \in 0 .. MaxCrashes
    PROVE  IngestInv'
  <1> USE DEF IngestInv
  <1>1. /\ locked' = [locked EXCEPT ![w] = {}]
        /\ shared' = [shared EXCEPT ![w] = {}]
        /\ seen' = [seen EXCEPT ![w] = NoRow]
        /\ draft' = [draft EXCEPT ![w] = Nothing]
        /\ fresh' = [fresh EXCEPT ![w] = {}]
        /\ disturbed' = disturbed \cup todo[w] \cup shared[w]
        /\ UNCHANGED <<source, age, stored, feed, elapsed, sinceAsked, refusing>>
    BY DEF RollBack, table
  <1>2. DOMAIN Nothing = {} /\ Nothing \in UNION {[S -> Source] : S \in SUBSET Sources}
    BY DEF Nothing
  <1>3. /\ phase'[w] = to /\ todo'[w] = left /\ locked'[w] = {} /\ shared'[w] = {}
        /\ seen'[w] = NoRow /\ DOMAIN draft'[w] = {} /\ fresh'[w] = {}
        /\ \A v \in Workers \ {w} :
              /\ phase'[v] = phase[v] /\ todo'[v] = todo[v] /\ locked'[v] = locked[v]
              /\ shared'[v] = shared[v] /\ seen'[v] = seen[v]
              /\ draft'[v] = draft[v] /\ fresh'[v] = fresh[v]
    BY <1>1, <1>2 DEF IngestTypeOK
  <1>4. IngestTypeOK'
    BY <1>1, <1>2 DEF IngestTypeOK
  <1>5. Hands'
    <2>1. ASSUME NEW v \in Workers, v # w
          PROVE  /\ phase'[v] = "idle" =>
                       /\ todo'[v] = {} /\ locked'[v] = {} /\ shared'[v] = {}
                       /\ DOMAIN draft'[v] = {} /\ fresh'[v] = {}
                 /\ phase'[v] \in {"loaded", "asked"} => todo'[v] # {} /\ seen'[v] \in Source
                 /\ DOMAIN draft'[v] \subseteq shared'[v]
                 /\ todo'[v] \cap DOMAIN draft'[v] = {}
                 /\ \A t \in shared'[v] : \/ t \in DOMAIN draft'[v]
                                          \/ phase'[v] = "asked" /\ Least(t, todo'[v])
                 /\ phase'[v] = "asked" =>
                       \A t \in Sources : Least(t, todo'[v]) => t \in shared'[v]
      BY <1>3, <2>1 DEF Hands
    <2> QED
      BY <1>3, <2>1 DEF Hands
  <1>6. Exclusion'
    <2>1. \A v \in Workers, s \in Sources :
              s \in todo'[v] /\ s \notin disturbed' => s \in locked'[v]
      BY <1>1, <1>3 DEF Exclusion
    <2>2. \A u, v \in Workers, s \in Sources : u # v /\ s \in locked'[v] =>
              s \notin locked'[u] /\ s \notin DOMAIN draft'[u] /\ s \notin shared'[u]
      BY <1>3 DEF Exclusion
    <2>3. \A u, v \in Workers, s \in Sources : u # v /\ s \in DOMAIN draft'[v] =>
              s \notin DOMAIN draft'[u]
      BY <1>3 DEF Exclusion
    <2>4. \A u, v \in Workers, s \in Sources : u # v /\ s \in shared'[v] /\ s \in shared'[u] =>
              s \in disturbed'
      BY <1>1, <1>3 DEF Exclusion
    <2> QED
      BY <2>1, <2>2, <2>3, <2>4 DEF Exclusion
  <1>7. Reviewed'
    <2>1. \A v \in Workers, s \in Sources :
              s \in todo'[v] \/ s \in shared'[v] => source[s].reviewed
      BY <1>3 DEF Reviewed
    <2>2. \A v \in Workers, s \in Sources : s \in DOMAIN draft'[v] => draft'[v][s].reviewed
      BY <1>3 DEF Reviewed
    <2>3. \A v \in Workers : \A d \in fresh'[v] : source[d.source].reviewed
      BY <1>3 DEF Reviewed
    <2> QED
      BY <1>1, <2>1, <2>2, <2>3 DEF Reviewed
  <1>8. Validated'
    BY <1>1, <1>3 DEF Validated
  <1>9. Timed'
    <2>1. \A v \in Workers, s \in Sources :
              s \in todo'[v] /\ s \notin shared'[v] /\ s \notin disturbed'
                 => sinceAsked[s] = Interval
      BY <1>1, <1>3 DEF Timed
    <2>2. \A v \in Workers, s \in Sources :
              s \in shared'[v] /\ s \notin disturbed' => sinceAsked[s] = elapsed[v]
      BY <1>1, <1>3 DEF Timed
    <2>3. \A s \in Sources :
              s \notin disturbed' /\ (\A v \in Workers : s \notin shared'[v])
                 => age[s] <= sinceAsked[s]
      BY <1>1, <1>3 DEF Timed
    <2> QED
      BY <1>1, <2>1, <2>2, <2>3 DEF Timed
  <1>10. Heeded'
    <2>1. \A v \in Workers, s \in Sources :
              s \in todo'[v] /\ s \notin disturbed' => source[s].enabled /\ s \notin refusing
      BY <1>1, <1>3 DEF Heeded
    <2>2. \A v \in Workers, s \in Sources :
              phase'[v] \in {"loaded", "asked"} /\ Least(s, todo'[v]) /\ s \notin disturbed'
                 => seen'[v].enabled
      BY <1>1, <1>3 DEF Heeded
    <2>3. \A s \in Sources : s \notin disturbed' => s \notin DOMAIN draft[w]
      BY <1>1 DEF Hands
    <2>4. \A s \in Sources : s \in refusing /\ s \notin disturbed' =>
              /\ \A v \in Workers : s \in DOMAIN draft'[v] => ~draft'[v][s].enabled
              /\ source[s].enabled => \E v \in Workers : s \in DOMAIN draft'[v]
      BY <1>1, <1>3, <2>3 DEF Heeded
    <2> QED
      BY <1>1, <2>1, <2>2, <2>4 DEF Heeded
  <1> QED
    BY <1>4, <1>5, <1>6, <1>7, <1>8, <1>9, <1>10

LEMMA RaiseInv ==
    ASSUME IngestInv, NEW w \in Workers, RaiseOnFeed(w) \/ Raise(w)
    PROVE  IngestInv'
  <1>1. crashes' \in 0 .. MaxCrashes
    BY IngestBoundsAssumption DEF RaiseOnFeed, Raise, IngestInv, IngestTypeOK
  <1>2. GoOn(w)
    BY DEF RaiseOnFeed, Raise
  <1>3. /\ phase' = [phase EXCEPT ![w] = "between"]
        /\ todo' = [todo EXCEPT ![w] = todo[w] \ {Current(w)}]
        /\ RollBack(w)
    BY <1>2 DEF GoOn
  <1>4. todo[w] \ {Current(w)} \in SUBSET todo[w] /\ "between" \in {"idle", "between"}
    OBVIOUS
  <1> QED
    BY <1>1, <1>3, <1>4, RollBackInv

LEMMA DieInv ==
    ASSUME IngestInv, NEW w \in Workers, Die(w)
    PROVE  IngestInv'
  <1>1. crashes' \in 0 .. MaxCrashes
    BY IngestBoundsAssumption DEF Die, IngestInv, IngestTypeOK
  <1>2. /\ phase' = [phase EXCEPT ![w] = "idle"]
        /\ todo' = [todo EXCEPT ![w] = {}]
        /\ RollBack(w)
    BY DEF Die
  <1>3. {} \in SUBSET todo[w] /\ "idle" \in {"idle", "between"}
    OBVIOUS
  <1> QED
    BY <1>1, <1>2, <1>3, RollBackInv

LEMMA EndTickInv ==
    ASSUME IngestInv, NEW w \in Workers, EndTick(w)
    PROVE  IngestInv'
  <1> USE DEF IngestInv
  <1> DEFINE written == DOMAIN draft[w]
  <1>1. /\ phase[w] = "between" /\ todo[w] = {}
        /\ source' = [s \in Sources |-> IF s \in written THEN draft[w][s] ELSE source[s]]
        /\ age' = [s \in Sources |-> IF s \in written THEN elapsed[w] ELSE age[s]]
        /\ stored' = stored \cup fresh[w]
        /\ phase' = [phase EXCEPT ![w] = "idle"]
        /\ locked' = [locked EXCEPT ![w] = {}]
        /\ shared' = [shared EXCEPT ![w] = {}]
        /\ draft' = [draft EXCEPT ![w] = Nothing]
        /\ fresh' = [fresh EXCEPT ![w] = {}]
        /\ UNCHANGED <<feed, todo, elapsed, seen, crashes, sinceAsked, refusing, disturbed>>
    BY DEF EndTick, history
  <1>2. DOMAIN Nothing = {} /\ Nothing \in UNION {[S -> Source] : S \in SUBSET Sources}
    BY DEF Nothing
  <1>3. /\ phase'[w] = "idle" /\ locked'[w] = {} /\ shared'[w] = {}
        /\ DOMAIN draft'[w] = {} /\ fresh'[w] = {}
        /\ \A v \in Workers \ {w} :
              /\ phase'[v] = phase[v] /\ locked'[v] = locked[v]
              /\ shared'[v] = shared[v] /\ draft'[v] = draft[v] /\ fresh'[v] = fresh[v]
    BY <1>1, <1>2 DEF IngestTypeOK
  <1>4. /\ written \subseteq Sources
        /\ \A s \in written : draft[w][s] \in Source
        /\ shared[w] = written
    <2>1. PICK S \in SUBSET Sources : draft[w] \in [S -> Source]
      BY DEF IngestTypeOK
    <2>2. shared[w] = written
      BY <1>1 DEF Hands
    <2> QED
      BY <2>1, <2>2
  <1>5. /\ \A s \in written : source'[s] = draft[w][s] /\ age'[s] = elapsed[w]
        /\ \A s \in Sources \ written : source'[s] = source[s] /\ age'[s] = age[s]
    BY <1>1, <1>4
  <1>6. \A s \in Sources : source[s].reviewed => source'[s].reviewed
    BY <1>4, <1>5 DEF Reviewed
  <1> HIDE DEF written
  <1>7. IngestTypeOK'
    <2>1. source' \in [Sources -> Source] /\ age' \in [Sources -> Ages]
      BY <1>1, <1>4 DEF IngestTypeOK
    <2> QED
      BY <1>1, <1>2, <2>1 DEF IngestTypeOK
  <1>8. Hands'
    BY <1>1, <1>3 DEF Hands
  <1>9. Exclusion'
    <2>1. \A v \in Workers, s \in Sources :
              s \in todo[v] /\ s \notin disturbed => s \in locked'[v]
      BY <1>1, <1>3 DEF Exclusion
    <2>2. \A u, v \in Workers, s \in Sources : u # v /\ s \in locked'[v] =>
              s \notin locked'[u] /\ s \notin DOMAIN draft'[u] /\ s \notin shared'[u]
      BY <1>3 DEF Exclusion
    <2>3. \A u, v \in Workers, s \in Sources : u # v /\ s \in DOMAIN draft'[v] =>
              s \notin DOMAIN draft'[u]
      BY <1>3 DEF Exclusion
    <2>4. \A u, v \in Workers, s \in Sources : u # v /\ s \in shared'[v] /\ s \in shared'[u] =>
              s \in disturbed
      BY <1>3 DEF Exclusion
    <2> QED
      BY <1>1, <2>1, <2>2, <2>3, <2>4 DEF Exclusion
  <1>10. Reviewed'
    <2>1. \A s \in Sources : source'[s].enabled => source'[s].reviewed
      BY <1>4, <1>5 DEF Reviewed, written
    <2>2. \A v \in Workers, s \in Sources :
              s \in todo[v] \/ s \in shared'[v] => source'[s].reviewed
      BY <1>3, <1>6 DEF Reviewed
    <2>3. \A v \in Workers, s \in Sources : s \in DOMAIN draft'[v] => draft'[v][s].reviewed
      BY <1>3 DEF Reviewed
    <2>4. \A v \in Workers : \A d \in fresh[v] : d.source \in Sources
      BY DEF IngestTypeOK, Document
    <2>5. \A v \in Workers : \A d \in fresh'[v] : source'[d.source].reviewed
      BY <1>3, <1>6, <2>4 DEF Reviewed
    <2>6. \A s \in Sources : ~source'[s].reviewed => sinceAsked[s] = Interval
      BY <1>6 DEF Reviewed
    <2>7. ASSUME NEW d \in stored', ~source'[d.source].reviewed
          PROVE  ~d.full
      <3>1. d.source \in Sources
        BY <1>7, <2>7 DEF IngestTypeOK, Document
      <3>2. d \notin fresh[w]
        BY <1>6, <2>7, <3>1 DEF Reviewed
      <3> QED
        BY <1>1, <1>6, <2>7, <3>1, <3>2 DEF Reviewed
    <2> QED
      BY <1>1, <2>1, <2>2, <2>3, <2>5, <2>6, <2>7 DEF Reviewed
  <1>11. Validated'
    <2>1. ASSUME NEW s \in Sources
          PROVE  Has(stored', s, source'[s].etag)
      <3>1. CASE s \in written
        BY <1>1, <1>5, <3>1 DEF Validated, written
      <3>2. CASE s \notin written
        <4>1. Has(stored, s, source'[s].etag)
          BY <1>5, <3>2 DEF Validated
        <4> QED
          BY <1>1, <4>1 DEF Has
      <3> QED
        BY <3>1, <3>2
    <2>2. ASSUME NEW v \in Workers, NEW s \in Sources, s \in DOMAIN draft'[v]
          PROVE  Has(stored' \cup fresh'[v], s, draft'[v][s].etag)
      <3>1. v # w /\ draft'[v] = draft[v] /\ fresh'[v] = fresh[v]
        BY <1>3, <2>2
      <3>2. Has(stored \cup fresh[v], s, draft[v][s].etag)
        BY <2>2, <3>1 DEF Validated
      <3> QED
        BY <1>1, <3>1, <3>2 DEF Has
    <2> QED
      BY <2>1, <2>2 DEF Validated
  <1>12. Timed'
    <2>1. \A v \in Workers, s \in Sources :
              s \in todo[v] /\ s \notin shared'[v] /\ s \notin disturbed
                 => sinceAsked[s] = Interval
      BY <1>1, <1>3 DEF Timed
    <2>2. \A v \in Workers, s \in Sources :
              s \in shared'[v] /\ s \notin disturbed => sinceAsked[s] = elapsed[v]
      BY <1>3 DEF Timed
    <2>3. ASSUME NEW s \in Sources, s \notin disturbed, \A v \in Workers : s \notin shared'[v]
          PROVE  age'[s] <= sinceAsked[s]
      <3>1. CASE s \in written
        <4>1. sinceAsked[s] = elapsed[w] /\ age'[s] = elapsed[w]
          BY <1>4, <1>5, <2>3, <3>1 DEF Timed
        <4>2. elapsed[w] <= elapsed[w]
          BY IngestBoundsAssumption DEF IngestTypeOK, Ages
        <4> QED
          BY <4>1, <4>2
      <3>2. CASE s \notin written
        BY <1>3, <1>4, <1>5, <2>3, <3>2 DEF Timed
      <3> QED
        BY <3>1, <3>2
    <2> QED
      BY <1>1, <2>1, <2>2, <2>3 DEF Timed
  <1>13. Heeded'
    <2>1. ASSUME NEW v \in Workers, NEW s \in Sources, s \in todo[v], s \notin disturbed
          PROVE  source'[s].enabled
      <3>1. v # w /\ s \in locked[v]
        BY <1>1, <2>1 DEF Exclusion
      <3>2. s \notin written
        BY <3>1 DEF Exclusion, written
      <3> QED
        BY <1>5, <2>1, <3>2 DEF Heeded
    <2>2. \A v \in Workers, s \in Sources :
              phase'[v] \in {"loaded", "asked"} /\ Least(s, todo[v]) /\ s \notin disturbed
                 => seen[v].enabled
      BY <1>3 DEF Heeded
    <2>3. ASSUME NEW s \in Sources, s \in refusing, s \notin disturbed
          PROVE  /\ \A v \in Workers : s \in DOMAIN draft'[v] => ~draft'[v][s].enabled
                 /\ source'[s].enabled => \E v \in Workers : s \in DOMAIN draft'[v]
      <3>1. \A v \in Workers : s \in DOMAIN draft'[v] => ~draft'[v][s].enabled
        BY <1>3, <2>3 DEF Heeded
      <3>2. CASE s \in written
        BY <1>5, <2>3, <3>1, <3>2 DEF Heeded, written
      <3>3. CASE s \notin written
        BY <1>3, <1>5, <2>3, <3>1, <3>3 DEF Heeded, written
      <3> QED
        BY <3>1, <3>2, <3>3
    <2> QED
      BY <1>1, <2>1, <2>2, <2>3 DEF Heeded
  <1> QED
    BY <1>7, <1>8, <1>9, <1>10, <1>11, <1>12, <1>13

-----------------------------------------------------------------------------
(* Operators *)

LEMMA AdministerInv ==
    ASSUME IngestInv, NEW s \in Sources, NEW row \in Source, Administer(s, row),
           source[s].reviewed => row.reviewed,
           row.etag = source[s].etag,
           refusing' \subseteq refusing, s \in refusing' => ~row.enabled,
           \A t \in Sources \ {s} : t \in refusing' <=> t \in refusing
    PROVE  IngestInv'
  <1> USE DEF IngestInv
  <1>1. /\ \A v \in Workers : s \notin locked[v] /\ s \notin DOMAIN draft[v]
        /\ row.enabled => row.reviewed
        /\ source' = [source EXCEPT ![s] = row]
        /\ UNCHANGED <<age, stored, feed, phase, todo, elapsed, locked, shared, seen, draft,
                       fresh, crashes, sinceAsked, disturbed>>
    BY DEF Administer, Unlocked, GateAccepts, session
  <1>2. /\ source'[s] = row
        /\ \A t \in Sources \ {s} : source'[t] = source[t]
        /\ \A t \in Sources : source[t].reviewed => source'[t].reviewed
        /\ \A t \in Sources : source'[t].etag = source[t].etag
    BY <1>1 DEF IngestTypeOK
  <1>3. IngestTypeOK'
    BY <1>1 DEF IngestTypeOK
  <1>4. Hands'
    BY <1>1 DEF Hands
  <1>5. Exclusion'
    BY <1>1 DEF Exclusion
  <1>6. Reviewed'
    <2>1. \A t \in Sources : source'[t].enabled => source'[t].reviewed
      BY <1>1, <1>2 DEF Reviewed
    <2>2. \A v \in Workers, t \in Sources : t \in todo[v] \/ t \in shared[v] => source'[t].reviewed
      BY <1>2 DEF Reviewed
    <2>3. \A v \in Workers : \A d \in fresh[v] : d.source \in Sources
      BY DEF IngestTypeOK, Document
    <2>4. \A v \in Workers : \A d \in fresh[v] : source'[d.source].reviewed
      BY <1>2, <2>3 DEF Reviewed
    <2>5. \A d \in stored : d.source \in Sources
      BY DEF IngestTypeOK, Document
    <2>6. \A d \in stored : ~source'[d.source].reviewed => ~d.full
      BY <1>2, <2>5 DEF Reviewed
    <2>7. \A t \in Sources : ~source'[t].reviewed => sinceAsked[t] = Interval
      BY <1>2 DEF Reviewed
    <2> QED
      BY <1>1, <2>1, <2>2, <2>4, <2>6, <2>7 DEF Reviewed
  <1>7. Validated'
    BY <1>1, <1>2 DEF Validated
  <1>8. Timed'
    BY <1>1 DEF Timed
  <1>9. Heeded'
    <2>1. \A v \in Workers, t \in Sources :
              t \in todo[v] /\ t \notin disturbed => source'[t].enabled /\ t \notin refusing'
      BY <1>1, <1>2 DEF Heeded, Exclusion
    <2>2. \A t \in Sources : t \in refusing' /\ t \notin disturbed =>
              /\ \A v \in Workers : t \in DOMAIN draft[v] => ~draft[v][t].enabled
              /\ source'[t].enabled => \E v \in Workers : t \in DOMAIN draft[v]
      BY <1>1, <1>2 DEF Heeded
    <2> QED
      BY <1>1, <2>1, <2>2 DEF Heeded
  <1> QED
    BY <1>3, <1>4, <1>5, <1>6, <1>7, <1>8, <1>9

LEMMA ReviewedRow ==
    ASSUME NEW row \in Source, NEW form \in Form
    PROVE  /\ AfterReview(row, form) \in Source
           /\ row.reviewed => AfterReview(row, form).reviewed
           /\ AfterReview(row, form).etag = row.etag
  <1> DEFINE noted == [row EXCEPT !.reviewed = @ \/ form.records,
                                  !.verified = @ \/ form.verifies,
                                  !.fullText = @ \/ form.permits]
             enabled == noted.enabled \/ (form.enables /\ EnableAllowed(noted))
  <1>1. /\ row.enabled \in BOOLEAN /\ row.reviewed \in BOOLEAN /\ row.verified \in BOOLEAN
        /\ row.fullText \in BOOLEAN /\ row.etag \in Editions \cup {NoEtag}
        /\ form.records \in BOOLEAN /\ form.verifies \in BOOLEAN /\ form.permits \in BOOLEAN
    BY DEF Source, Form
  <1>2. /\ noted \in Source /\ noted.etag = row.etag
        /\ row.reviewed => noted.reviewed
    BY <1>1 DEF Source
  <1>3. AfterReview(row, form) = [noted EXCEPT !.enabled = enabled]
    BY DEF AfterReview
  <1>4. enabled \in BOOLEAN
    OBVIOUS
  <1> HIDE DEF noted, enabled
  <1> QED
    BY <1>2, <1>3, <1>4 DEF Source

LEMMA OperateInv ==
    ASSUME IngestInv, NEW s \in Sources, Operate(s)
    PROVE  IngestInv'
  <1>1. source[s] \in Source /\ source \in [Sources -> Source]
    BY DEF IngestInv, IngestTypeOK
  <1>2. ASSUME NEW form \in Forms, Review(s, form)
        PROVE  IngestInv'
    <2> DEFINE row == AfterReview(source[s], form)
    <2>1. Administer(s, row)
      BY <1>2 DEF Review
    <2>2. /\ row \in Source /\ (source[s].reviewed => row.reviewed) /\ row.etag = source[s].etag
      BY <1>1, ReviewedRow, FormsAssumption
    <2> HIDE DEF row
    <2>3. source'[s] = row
      BY <1>1, <2>1 DEF Administer
    <2>4. refusing' = IF row.enabled THEN refusing \ {s} ELSE refusing
      BY <1>2, <2>3 DEF Review
    <2> QED
      BY <2>1, <2>2, <2>4, AdministerInv
  <1>3. ASSUME Disable(s)
        PROVE  IngestInv'
    <2> DEFINE row == [source[s] EXCEPT !.enabled = FALSE]
    <2>1. Administer(s, row) /\ refusing' = refusing
      BY <1>3 DEF Disable
    <2>2. /\ row \in Source /\ row.reviewed = source[s].reviewed /\ row.etag = source[s].etag
          /\ ~row.enabled
      BY <1>1 DEF Source
    <2> HIDE DEF row
    <2> QED
      BY <2>1, <2>2, AdministerInv
  <1> QED
    BY <1>2, <1>3 DEF Operate

-----------------------------------------------------------------------------
(* The theorems *)

LEMMA NextInv == IngestInv /\ [Next]_vars => IngestInv'
  <1> SUFFICES ASSUME IngestInv, [Next]_vars
               PROVE  IngestInv'
    OBVIOUS
  <1>1. ASSUME NEW w \in Workers, Work(w) \/ Raise(w) \/ Die(w)
        PROVE  IngestInv'
    BY <1>1, StartTickInv, LoadInv, AskInv, BlockInv, FailFetchInv, IngestStepInv,
       RaiseInv, DieInv, EndTickInv DEF Work
  <1>2. ASSUME NEW s \in Sources, Operate(s) \/ \E e \in Serves[s] : Publish(s, e)
        PROVE  IngestInv'
    BY <1>2, OperateInv, PublishInv
  <1>3. CASE Minute
    BY <1>3, MinuteInv
  <1>4. CASE UNCHANGED vars
    BY <1>4, StutterInv
  <1> QED
    BY <1>1, <1>2, <1>3, <1>4 DEF Next

\* The invariant of the ingestion holds in every reachable state.
THEOREM IngestInvariance == Spec => []IngestInv
  <1> QED
    BY StartsInv, NextInv, PTL DEF Spec

\* Tables and sessions keep their types for any workers, sources, editions and items.
THEOREM IngestTypeCorrect == Spec => []IngestTypeOK
  <1>1. IngestInv => IngestTypeOK
    BY DEF IngestInv
  <1> QED
    BY <1>1, IngestInvariance, PTL

\* However many workers tick, a source is in the hands of one of them, as long as no
\* tick with it was rolled back (due_sources, FOR UPDATE SKIP LOCKED).
THEOREM ExclusionSafe == Spec => []OneWorkerPerSource
  <1>1. IngestInv => OneWorkerPerSource
    <2> SUFFICES ASSUME IngestInv, NEW v \in Workers, NEW w \in Workers, v # w,
                        NEW s \in (todo[v] \cup shared[v]) \cap (todo[w] \cup shared[w])
                 PROVE  s \in disturbed
      BY DEF OneWorkerPerSource
    <2>1. s \in Sources
      BY DEF IngestInv, IngestTypeOK
    <2> QED
      BY <2>1 DEF IngestInv, Exclusion
  <1> QED
    BY <1>1, IngestInvariance, PTL

\* Before a human has recorded a review, no publisher is asked and no full text kept
\* (NG-2, models/source.py).
THEOREM ReviewSafe == Spec => []NothingBeforeReview
  <1>1. IngestInv => NothingBeforeReview
    BY DEF IngestInv, Reviewed, NothingBeforeReview
  <1> QED
    BY <1>1, IngestInvariance, PTL

\* A committed validator stands for documents that are committed too, whatever was
\* rolled back and whoever wrote it (store.py, record_fetch_state).
THEOREM ValidatorsSafe == Spec => []ValidatorsHideNothing
  <1>1. IngestInv => ValidatorsHideNothing
    BY DEF IngestInv, Validated, Has, ValidatorsHideNothing
  <1> QED
    BY <1>1, IngestInvariance, PTL

\* A publisher is left alone for its interval and after a refusal, as long as no tick
\* with it was rolled back (runner.py, poll_interval_seconds, SourceBlocked).
THEOREM PoliteSafe == Spec => PollingIsPolite
  <1>1. ASSUME IngestInv, [Next]_vars, NEW w \in Workers, NEW s \in Sources, Asks(w, s),
               s \notin disturbed
        PROVE  sinceAsked[s] = Interval /\ s \notin refusing
    <2>1. phase[w] = "loaded" /\ todo[w] # {} /\ s = Current(w)
      BY <1>1 DEF Asks, IngestInv, Hands
    <2>2. s \in todo[w]
      BY <1>1, <2>1, CurrentIsLeast DEF IngestInv, Least
    <2>3. s \notin shared[w]
      BY <1>1, <2>1, <2>2 DEF IngestInv, Hands
    <2> QED
      BY <1>1, <2>2, <2>3 DEF IngestInv, Timed, Heeded
  <1>2. IngestInv /\ [Next]_vars =>
            [\A w \in Workers, s \in Sources :
                Asks(w, s) => \/ sinceAsked[s] = Interval /\ s \notin refusing
                              \/ s \in disturbed]_vars
    BY <1>1
  <1> QED
    BY <1>2, IngestInvariance, PTL DEF Spec, PollingIsPolite
=============================================================================

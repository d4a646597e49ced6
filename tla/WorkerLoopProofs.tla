---------------------------- MODULE WorkerLoopProofs ----------------------------
(***************************************************************************)
(* The safety of WorkerLoop for any feeds, origins, Retry-After values and *)
(* numbers of attempts.                                                    *)
(*                                                                         *)
(* What the fetcher believes of an origin is inductive only together with  *)
(* what was disallowed all along (Rules...), and the bound on its waits    *)
(* only together with the number of answers it has had.                    *)
(***************************************************************************)
EXTENDS WorkerLoop, TLAPS

\* While a request is out, another attempt is left and no answer was definite.
AttemptsLeft ==
    /\ step = "asking" =>
          /\ Len(answers) < MaxAttempts /\ outcome = "none"
          /\ waited <= Len(answers) * MaxBackoff
    /\ step = "checking" => answers = <<>> /\ waited = 0 /\ outcome = "none"

\* What has been disallowed all along is believed, unless it could not be read.
BansAreKnown ==
    /\ banned \subseteq Disallowed(robots)
    /\ \A u \in banned : OriginOf[u] \in known => OriginOf[u] \in unread \/ u \in cache[OriginOf[u]]
    /\ step = "asking" => Origin \in known /\ url \notin cache[Origin]

FetcherInv ==
    /\ FetcherTypeOK
    /\ OutcomeExplained
    /\ WaitsBounded
    /\ RobotsRespected
    /\ AttemptsLeft
    /\ BansAreKnown

\* Only a tick has a fetch under way.
LoopInv ==
    /\ phase \in Phases
    /\ todo \in SUBSET Urls
    /\ slept \in 0 .. Slices
    /\ shutdown \in BOOLEAN
    /\ escapes \in 0 .. MaxEscapes
    /\ starts \in 0 .. MaxStarts
    /\ phase # "ingesting" => step = "idle"

Inv == FetcherInv /\ LoopInv

fetcherVars == <<robots, rules, fetch, conduct>>

-----------------------------------------------------------------------------
(* Numbers *)

LEMMA MoreWaits ==
    ASSUME NEW n \in Nat, NEW b \in Nat, NEW w \in Nat, NEW d \in Nat,
           w <= n * b, d <= b
    PROVE  w + d <= (n + 1) * b
  <1>1. (n + 1) * b = n * b + b
    OBVIOUS
  <1>2. n * b \in Nat
    OBVIOUS
  <1> QED
    BY <1>1, <1>2

LEMMA FewerAttempts ==
    ASSUME NEW n \in Nat, NEW m \in Nat, NEW b \in Nat, NEW w \in Nat, n < m, w <= n * b
    PROVE  w <= (m - 1) * b
  <1>1. (m - 1) * b = n * b + (m - 1 - n) * b
    OBVIOUS
  <1>2. m - 1 - n \in Nat
    OBVIOUS
  <1>3. (m - 1 - n) * b \in Nat
    BY <1>2
  <1>4. n * b \in Nat
    OBVIOUS
  <1> QED
    BY <1>1, <1>3, <1>4

\* Whatever the header says, the delay is a number, and no more than the cap.
LEMMA DelayBounded ==
    ASSUME Attempt \in 1 .. MaxAttempts, NEW ra \in RetryAfters \cup {NoHeader}
    PROVE  Delay(ra) \in Int /\ Delay(ra) <= MaxBackoff
  <1>1. BackoffBase ^ Attempt \in Nat
    BY BackoffAssumption
  <1>2. MaxBackoff \in Nat
    BY AttemptsAssumption
  <1>3. CASE ra = NoHeader
    <2> DEFINE x == BackoffBase ^ Attempt
    <2>1. Delay(ra) = Least(x, MaxBackoff)
      BY <1>3 DEF Delay
    <2>2. x \in Nat
      BY <1>1
    <2> HIDE DEF x
    <2> QED
      BY <2>1, <2>2, <1>2 DEF Least
  <1>4. CASE ra # NoHeader
    <2>1. Delay(ra) = Least(ra, MaxBackoff) /\ ra \in Int
      BY <1>4, RetryAfterAssumption DEF Delay
    <2> QED
      BY <2>1, <1>2 DEF Least
  <1> QED
    BY <1>3, <1>4

-----------------------------------------------------------------------------
(* The fetcher *)

LEMMA FetcherInitially == FetcherInit => FetcherInv
  <1> SUFFICES ASSUME FetcherInit PROVE FetcherInv
    OBVIOUS
  <1>1. /\ step = "idle" /\ outcome = "none" /\ answers = <<>> /\ waited = 0
        /\ known = {} /\ unread = {} /\ asked = {} /\ banned = Disallowed(robots)
        /\ cache = [o \in Origins |-> {}] /\ robots \in [Origins -> SUBSET Urls]
        /\ url \in Urls
    BY DEF FetcherInit
  <1>2. FetcherTypeOK
    <2>1. banned \in SUBSET Urls
      BY <1>1 DEF Disallowed
    <2>2. answers \in Seq(Answers)
      BY <1>1
    <2>3. cache \in [Origins -> SUBSET Urls]
      BY <1>1
    <2> QED
      BY <1>1, <2>1, <2>2, <2>3 DEF FetcherTypeOK, Outcomes
  <1>3. WaitsBounded
    <2>1. (MaxAttempts - 1) \in Nat /\ MaxBackoff \in Nat
      BY AttemptsAssumption
    <2>2. (MaxAttempts - 1) * MaxBackoff \in Nat
      BY <2>1
    <2> QED
      BY <1>1, <2>2 DEF WaitsBounded
  <1>4. OutcomeExplained
    BY <1>1, AttemptsAssumption DEF OutcomeExplained
  <1>5. RobotsRespected /\ AttemptsLeft /\ BansAreKnown
    BY <1>1 DEF RobotsRespected, AttemptsLeft, BansAreKnown
  <1> QED
    BY <1>2, <1>3, <1>4, <1>5 DEF FetcherInv

LEMMA FetcherRests == FetcherInv /\ UNCHANGED fetcherVars => FetcherInv'
  <1> SUFFICES ASSUME FetcherInv, UNCHANGED fetcherVars PROVE FetcherInv'
    OBVIOUS
  <1>1. /\ robots' = robots /\ known' = known /\ cache' = cache /\ step' = step /\ url' = url
        /\ answers' = answers /\ waited' = waited /\ outcome' = outcome /\ banned' = banned
        /\ unread' = unread /\ asked' = asked
    BY DEF fetcherVars, rules, fetch, conduct
  <1>2. FetcherTypeOK' /\ OutcomeExplained' /\ WaitsBounded' /\ RobotsRespected'
    BY <1>1 DEF FetcherInv, FetcherTypeOK, OutcomeExplained, WaitsBounded, RobotsRespected
  <1>3. AttemptsLeft' /\ BansAreKnown'
    BY <1>1 DEF FetcherInv, AttemptsLeft, BansAreKnown, Disallowed, Origin
  <1> QED
    BY <1>2, <1>3 DEF FetcherInv

LEMMA BeginFetchSafe ==
    ASSUME FetcherInv, NEW u \in Urls, BeginFetch(u)
    PROVE  FetcherInv'
  <1>1. /\ robots' = robots /\ known' = known /\ cache' = cache /\ banned' = banned
        /\ unread' = unread /\ asked' = asked
        /\ step' = "checking" /\ url' = u /\ answers' = <<>> /\ waited' = 0 /\ outcome' = "none"
    BY DEF BeginFetch, rules, conduct
  <1>2. FetcherTypeOK'
    <2>1. answers' \in Seq(Answers)
      BY <1>1
    <2> QED
      BY <1>1, <2>1 DEF FetcherInv, FetcherTypeOK, Outcomes
  <1>3. WaitsBounded'
    <2>1. (MaxAttempts - 1) \in Nat /\ MaxBackoff \in Nat
      BY AttemptsAssumption
    <2>2. (MaxAttempts - 1) * MaxBackoff \in Nat
      BY <2>1
    <2> QED
      BY <1>1, <2>2 DEF WaitsBounded
  <1>4. OutcomeExplained'
    BY <1>1, AttemptsAssumption DEF OutcomeExplained
  <1>5. RobotsRespected' /\ AttemptsLeft' /\ BansAreKnown'
    BY <1>1 DEF FetcherInv, RobotsRespected, AttemptsLeft, BansAreKnown, Disallowed
  <1> QED
    BY <1>2, <1>3, <1>4, <1>5 DEF FetcherInv

\* The one reading of a robots.txt: what is banned is in it, or it was in vain.
LEMMA ReadRobotsSafe ==
    ASSUME FetcherInv, ReadRobots
    PROVE  FetcherInv'
  <1>1. /\ robots' = robots /\ step' = step /\ url' = url /\ answers' = answers
        /\ waited' = waited /\ outcome' = outcome /\ banned' = banned /\ asked' = asked
        /\ known' = known \cup {Origin} /\ step = "checking" /\ Origin \notin known
    BY DEF ReadRobots, fetch
  <1>2. /\ Origin \in Origins /\ url \in Urls
        /\ robots \in [Origins -> SUBSET Urls] /\ cache \in [Origins -> SUBSET Urls]
    BY OriginAssumption DEF FetcherInv, FetcherTypeOK, Origin
  <1>3. \/ cache' = [cache EXCEPT ![Origin] = robots[Origin]] /\ unread' = unread
        \/ cache' = [cache EXCEPT ![Origin] = {}] /\ unread' = unread \cup {Origin}
    BY DEF ReadRobots, Remembered
  <1>4. FetcherTypeOK'
    BY <1>1, <1>2, <1>3 DEF FetcherInv, FetcherTypeOK
  <1>5. OutcomeExplained' /\ WaitsBounded' /\ AttemptsLeft'
    BY <1>1 DEF FetcherInv, OutcomeExplained, WaitsBounded, AttemptsLeft
  <1>6. RobotsRespected'
    BY <1>1, <1>3 DEF FetcherInv, RobotsRespected
  <1>7. BansAreKnown'
    <2>1. banned' \subseteq Disallowed(robots)'
      BY <1>1 DEF FetcherInv, BansAreKnown, Disallowed
    <2>2. ASSUME NEW u \in banned', OriginOf[u] \in known'
          PROVE  OriginOf[u] \in unread' \/ u \in cache'[OriginOf[u]]
      <3>1. u \in Urls /\ u \in robots[OriginOf[u]] /\ OriginOf[u] \in Origins
        BY <1>1, OriginAssumption DEF FetcherInv, BansAreKnown, Disallowed
      <3>2. CASE OriginOf[u] = Origin
        BY <1>2, <1>3, <3>1, <3>2
      <3>3. CASE OriginOf[u] # Origin
        <4>1. OriginOf[u] \in unread \/ u \in cache[OriginOf[u]]
          BY <1>1, <2>2, <3>3 DEF FetcherInv, BansAreKnown
        <4> QED
          BY <1>2, <1>3, <3>1, <3>3, <4>1
      <3> QED
        BY <3>2, <3>3
    <2> QED
      BY <1>1, <2>1, <2>2 DEF BansAreKnown
  <1> QED
    BY <1>4, <1>5, <1>6, <1>7 DEF FetcherInv

LEMMA ForbidSafe ==
    ASSUME FetcherInv, Forbid
    PROVE  FetcherInv'
  <1>1. /\ robots' = robots /\ known' = known /\ cache' = cache /\ banned' = banned
        /\ unread' = unread /\ asked' = asked /\ url' = url /\ answers' = answers
        /\ waited' = waited /\ step' = "idle" /\ outcome' = "blocked" /\ step = "checking"
    BY DEF Forbid, End, rules, conduct
  <1>2. FetcherTypeOK' /\ RobotsRespected' /\ WaitsBounded' /\ AttemptsLeft'
    BY <1>1 DEF FetcherInv, FetcherTypeOK, Outcomes, RobotsRespected, WaitsBounded, AttemptsLeft
  <1>3. OutcomeExplained'
    BY <1>1 DEF FetcherInv, OutcomeExplained, AttemptsLeft
  <1>4. BansAreKnown'
    BY <1>1 DEF FetcherInv, BansAreKnown, Disallowed
  <1> QED
    BY <1>2, <1>3, <1>4 DEF FetcherInv

LEMMA AdmitSafe ==
    ASSUME FetcherInv, Admit
    PROVE  FetcherInv'
  <1>1. /\ robots' = robots /\ known' = known /\ cache' = cache /\ banned' = banned
        /\ unread' = unread /\ asked' = asked /\ url' = url /\ answers' = answers
        /\ waited' = waited /\ outcome' = outcome /\ step' = "asking" /\ step = "checking"
        /\ Origin \in known /\ url \notin cache[Origin]
    BY DEF Admit, rules, conduct
  <1>2. FetcherTypeOK' /\ RobotsRespected' /\ WaitsBounded'
    BY <1>1 DEF FetcherInv, FetcherTypeOK, RobotsRespected, WaitsBounded
  <1>3. answers = <<>> /\ waited = 0 /\ outcome = "none"
    BY <1>1 DEF FetcherInv, AttemptsLeft
  <1>4. OutcomeExplained' /\ AttemptsLeft'
    BY <1>1, <1>3, AttemptsAssumption DEF FetcherInv, OutcomeExplained, AttemptsLeft
  <1>5. BansAreKnown'
    BY <1>1 DEF FetcherInv, BansAreKnown, Disallowed, Origin
  <1> QED
    BY <1>2, <1>4, <1>5 DEF FetcherInv

\* What every answer does: the answers grow by it, and whoever is banned and was
\* asked now as well is of an origin whose robots.txt could not be read.
LEMMA Answering ==
    ASSUME FetcherInv, NEW a \in Answers, Answered(a), url' = url
    PROVE  /\ answers \in Seq(Answers) /\ answers' \in Seq(Answers)
           /\ Len(answers) < MaxAttempts
           /\ Len(answers') = Len(answers) + 1 /\ answers'[Len(answers) + 1] = a
           /\ \A i \in 1 .. Len(answers) : answers'[i] = answers[i] /\ answers[i] \in Transient
           /\ robots' = robots /\ known' = known /\ cache' = cache
           /\ banned' = banned /\ unread' = unread /\ asked' \in SUBSET Urls
           /\ RobotsRespected' /\ BansAreKnown'
  <1>1. /\ answers \in Seq(Answers) /\ step = "asking" /\ answers' = Append(answers, a)
        /\ url \in Urls /\ asked \in SUBSET Urls
        /\ asked' = asked \cup {url} /\ robots' = robots /\ known' = known /\ cache' = cache
        /\ banned' = banned /\ unread' = unread
    BY DEF Answered, FetcherInv, FetcherTypeOK, rules
  <1>2. Len(answers) < MaxAttempts /\ \A i \in 1 .. Len(answers) : answers[i] \in Transient
    BY <1>1 DEF FetcherInv, AttemptsLeft, OutcomeExplained
  <1>3. /\ answers' \in Seq(Answers) /\ Len(answers') = Len(answers) + 1
        /\ answers'[Len(answers) + 1] = a
        /\ \A i \in 1 .. Len(answers) : answers'[i] = answers[i]
    BY <1>1
  <1>4. RobotsRespected'
    <2>1. ASSUME NEW u \in banned' \cap asked' PROVE OriginOf[u] \in unread'
      <3>1. CASE u \in asked
        BY <1>1, <2>1, <3>1 DEF FetcherInv, RobotsRespected
      <3>2. CASE u = url
        BY <1>1, <2>1, <3>2 DEF FetcherInv, BansAreKnown, Origin
      <3> QED
        BY <1>1, <2>1, <3>1, <3>2
    <2> QED
      BY <2>1 DEF RobotsRespected
  <1>5. BansAreKnown'
    BY <1>1 DEF FetcherInv, BansAreKnown, Disallowed, Origin
  <1> QED
    BY <1>1, <1>2, <1>3, <1>4, <1>5

\* An answer that ends the fetch.
LEMMA EndingSafe ==
    ASSUME FetcherInv, NEW a \in Answers, Answered(a),
           NEW how \in Outcomes, End(how), waited' = waited,
           how = "failed" => a = "rejected" \/ Len(answers) + 1 = MaxAttempts,
           how = "blocked" => a = "refused"
    PROVE  FetcherInv'
  <1>1. step' = "idle" /\ outcome' = how /\ url' = url
    BY DEF End
  <1>2. /\ answers \in Seq(Answers) /\ answers' \in Seq(Answers)
        /\ Len(answers) < MaxAttempts
        /\ Len(answers') = Len(answers) + 1 /\ answers'[Len(answers) + 1] = a
        /\ \A i \in 1 .. Len(answers) : answers'[i] = answers[i] /\ answers[i] \in Transient
        /\ robots' = robots /\ known' = known /\ cache' = cache
        /\ banned' = banned /\ unread' = unread /\ asked' \in SUBSET Urls
        /\ RobotsRespected' /\ BansAreKnown'
    BY <1>1, Answering
  <1>3. FetcherTypeOK'
    BY <1>1, <1>2 DEF FetcherInv, FetcherTypeOK
  <1>4. WaitsBounded' /\ AttemptsLeft'
    BY <1>1 DEF FetcherInv, WaitsBounded, AttemptsLeft
  <1>5. OutcomeExplained'
    <2>1. Len(answers) \in Nat /\ MaxAttempts \in Nat
      BY <1>2, AttemptsAssumption
    <2>2. \A i \in 1 .. Len(answers') : answers'[i] \in Transient \/ i = Len(answers')
      BY <1>2, <2>1
    <2>3. Len(answers') <= MaxAttempts
      BY <1>2, <2>1
    <2>4. outcome' = "failed" => Len(answers') = MaxAttempts \/ answers'[Len(answers')] = "rejected"
      BY <1>1, <1>2
    <2>5. outcome' = "blocked" => answers'[Len(answers')] = "refused"
      BY <1>1, <1>2
    <2> QED
      BY <1>1, <2>2, <2>3, <2>4, <2>5 DEF OutcomeExplained
  <1> QED
    BY <1>2, <1>3, <1>4, <1>5 DEF FetcherInv

\* An answer after which the loop asks again.
LEMMA RetryingSafe ==
    ASSUME FetcherInv, NEW a \in Transient, Answered(a), ~Last,
           NEW ra \in RetryAfters \cup {NoHeader}, Delay(ra) >= 0,
           waited' = waited + Delay(ra), UNCHANGED <<step, url, outcome>>
    PROVE  FetcherInv'
  <1>1. a \in Answers /\ step = "asking" /\ url' = url /\ step' = step /\ outcome' = outcome
    BY DEF Answers, Answered
  <1>2. /\ answers \in Seq(Answers) /\ answers' \in Seq(Answers)
        /\ Len(answers) < MaxAttempts
        /\ Len(answers') = Len(answers) + 1 /\ answers'[Len(answers) + 1] = a
        /\ \A i \in 1 .. Len(answers) : answers'[i] = answers[i] /\ answers[i] \in Transient
        /\ robots' = robots /\ known' = known /\ cache' = cache
        /\ banned' = banned /\ unread' = unread /\ asked' \in SUBSET Urls
        /\ RobotsRespected' /\ BansAreKnown'
    BY <1>1, Answering
  <1>3. Len(answers) \in Nat /\ MaxAttempts \in Nat /\ MaxBackoff \in Nat
    BY <1>2, AttemptsAssumption
  <1>4. Len(answers') < MaxAttempts
    BY <1>2, <1>3 DEF Last, Attempt
  <1>5. waited \in Nat /\ waited <= Len(answers) * MaxBackoff /\ outcome = "none"
    BY <1>1 DEF FetcherInv, FetcherTypeOK, AttemptsLeft
  <1>6. Delay(ra) \in Nat /\ Delay(ra) <= MaxBackoff
    <2>1. Attempt \in 1 .. MaxAttempts
      BY <1>2, <1>3 DEF Attempt
    <2> QED
      BY <2>1, DelayBounded
  <1>7. waited' \in Nat /\ waited' <= Len(answers') * MaxBackoff
    <2>1. waited + Delay(ra) <= (Len(answers) + 1) * MaxBackoff
      BY <1>3, <1>5, <1>6, MoreWaits
    <2> QED
      BY <1>2, <1>5, <1>6, <2>1
  <1>8. FetcherTypeOK'
    BY <1>1, <1>2, <1>7 DEF FetcherInv, FetcherTypeOK
  <1>9. WaitsBounded'
    <2>1. Len(answers') \in Nat
      BY <1>2, <1>3
    <2>2. waited' <= (MaxAttempts - 1) * MaxBackoff
      BY <1>3, <1>4, <1>7, <2>1, FewerAttempts
    <2> QED
      BY <2>2 DEF WaitsBounded
  <1>10. AttemptsLeft'
    BY <1>1, <1>4, <1>5, <1>7 DEF AttemptsLeft
  <1>11. OutcomeExplained'
    <2>1. \A i \in 1 .. Len(answers') : answers'[i] \in Transient
      BY <1>2, <1>3
    <2>2. Len(answers') <= MaxAttempts
      BY <1>2, <1>3, <1>4
    <2> QED
      BY <1>1, <1>5, <2>1, <2>2 DEF OutcomeExplained
  <1> QED
    BY <1>2, <1>8, <1>9, <1>10, <1>11 DEF FetcherInv

LEMMA FetchStepSafe ==
    ASSUME FetcherInv, FetchStep
    PROVE  FetcherInv'
  <1> USE DEF Answers, Outcomes, Transient
  <1>1. CASE ReadRobots
    BY <1>1, ReadRobotsSafe
  <1>2. CASE Forbid
    BY <1>2, ForbidSafe
  <1>3. CASE Admit
    BY <1>3, AdmitSafe
  <1>4. CASE Refuse
    <2>1. Answered("refused") /\ End("blocked") /\ waited' = waited
      BY <1>4 DEF Refuse, RefusalEnds
    <2> QED
      BY <2>1, EndingSafe
  <1>5. CASE NotModified
    <2>1. Answered("unchanged") /\ End("unchanged") /\ waited' = waited
      BY <1>5 DEF NotModified
    <2> QED
      BY <2>1, EndingSafe
  <1>6. CASE Reject
    <2>1. Answered("rejected") /\ End("failed") /\ waited' = waited
      BY <1>6 DEF Reject
    <2> QED
      BY <2>1, EndingSafe
  <1>7. CASE Succeed
    <2>1. Answered("fetched") /\ End("fetched") /\ waited' = waited
      BY <1>7 DEF Succeed
    <2> QED
      BY <2>1, EndingSafe
  <1>8. ASSUME NEW a \in Transient, NEW ra \in RetryAfters \cup {NoHeader}, TryAgain(a, ra)
        PROVE  FetcherInv'
    <2>1. Answered(a)
      BY <1>8 DEF TryAgain
    <2>2. CASE Last /\ End("failed") /\ UNCHANGED waited
      <3>1. Len(answers) + 1 = MaxAttempts
        BY <2>2 DEF Last, Attempt
      <3> QED
        BY <2>1, <2>2, <3>1, EndingSafe
    <2>3. CASE ~Last /\ Delay(ra) >= 0 /\ waited' = waited + Delay(ra)
               /\ UNCHANGED <<step, url, outcome>>
      BY <2>1, <2>3, RetryingSafe
    <2>4. CASE ~Last /\ Delay(ra) < 0 /\ End("raised") /\ UNCHANGED waited
      BY <2>1, <2>4, EndingSafe
    <2> QED
      BY <1>8, <2>2, <2>3, <2>4 DEF TryAgain
  <1> QED
    BY <1>1, <1>2, <1>3, <1>4, <1>5, <1>6, <1>7, <1>8 DEF FetchStep

LEMMA EditRobotsSafe ==
    ASSUME FetcherInv, NEW o \in Origins, NEW paths \in Rules(o), EditRobots(o, paths)
    PROVE  FetcherInv'
  <1>1. /\ known' = known /\ cache' = cache /\ step' = step /\ url' = url
        /\ answers' = answers /\ waited' = waited /\ outcome' = outcome
        /\ unread' = unread /\ asked' = asked
        /\ robots' = [robots EXCEPT ![o] = paths] /\ banned' = banned \cap Disallowed(robots')
    BY DEF EditRobots, rules, fetch
  <1>2. paths \in SUBSET Urls
    BY DEF Rules
  <1>3. FetcherTypeOK'
    BY <1>1, <1>2 DEF FetcherInv, FetcherTypeOK
  <1>4. OutcomeExplained' /\ WaitsBounded' /\ AttemptsLeft' /\ RobotsRespected'
    BY <1>1 DEF FetcherInv, OutcomeExplained, WaitsBounded, AttemptsLeft, RobotsRespected
  <1>5. BansAreKnown'
    BY <1>1 DEF FetcherInv, BansAreKnown, Disallowed, Origin
  <1> QED
    BY <1>3, <1>4, <1>5 DEF FetcherInv

-----------------------------------------------------------------------------
(* The worker *)

LEMMA Initially == WorkerInit => Inv
  <1> SUFFICES ASSUME WorkerInit PROVE Inv
    OBVIOUS
  <1>1. FetcherInv
    BY FetcherInitially DEF WorkerInit
  <1>2. LoopInv
    <2>1. step = "idle"
      BY DEF WorkerInit, FetcherInit
    <2>2. 0 \in 0 .. Slices /\ 0 \in 0 .. MaxEscapes /\ 0 \in 0 .. MaxStarts
      BY SlicesAssumption
    <2> QED
      BY <2>1, <2>2 DEF WorkerInit, LoopInv, Phases
  <1> QED
    BY <1>1, <1>2 DEF Inv

\* The steps of the loop that leave the fetcher alone.
LEMMA LoopStepsSafe ==
    ASSUME Inv,
           \/ Start \/ FailToStart \/ Tick \/ Stop \/ EndIngestion \/ EndProcessing
           \/ DatabaseError \/ Escape \/ Sleep \/ Wake \/ Signal
    PROVE  Inv'
  <1> USE SlicesAssumption DEF Inv
  <1>1. UNCHANGED fetcherVars
    BY DEF fetcherVars, Start, FailToStart, Tick, Stop, EndIngestion, EndProcessing,
           DatabaseError, Escape, Sleep, Wake, Signal, fetch
  <1>2. FetcherInv'
    BY <1>1, FetcherRests
  <1>3. step' = step
    BY <1>1 DEF fetcherVars, fetch
  <1>4. LoopInv'
    <2> USE <1>3 DEF LoopInv, Phases, Go
    <2>1. CASE Start \/ FailToStart \/ Stop
      BY <2>1 DEF Start, FailToStart, Stop
    <2>2. CASE Tick
      BY <2>2 DEF Tick
    <2>3. CASE EndIngestion \/ EndProcessing
      BY <2>3 DEF EndIngestion, EndProcessing
    <2>4. CASE DatabaseError
      BY <2>4 DEF DatabaseError, AfterDatabaseError
    <2>5. CASE Escape
      BY <2>5 DEF Escape
    <2>6. CASE Sleep
      BY <2>6 DEF Sleep, Awake
    <2>7. CASE Wake
      BY <2>7 DEF Wake
    <2>8. CASE Signal
      BY <2>8 DEF Signal
    <2> QED
      BY <2>1, <2>2, <2>3, <2>4, <2>5, <2>6, <2>7, <2>8
  <1> QED
    BY <1>2, <1>4

LEMMA FetchingSafe ==
    ASSUME Inv, NextSource \/ Fetching \/ Edit
    PROVE  Inv'
  <1>1. CASE NextSource
    <2>1. PICK u \in todo : BeginFetch(u) /\ todo' = todo \ {u}
      BY <1>1 DEF NextSource
    <2>2. u \in Urls
      BY DEF Inv, LoopInv
    <2>3. FetcherInv'
      BY <2>1, <2>2, BeginFetchSafe DEF Inv
    <2>4. LoopInv'
      BY <1>1, <2>1 DEF NextSource, Inv, LoopInv
    <2> QED
      BY <2>3, <2>4 DEF Inv
  <1>2. CASE Fetching
    <2>1. FetcherInv'
      BY <1>2, FetchStepSafe DEF Fetching, Inv
    <2>2. LoopInv'
      BY <1>2 DEF Fetching, loop, Inv, LoopInv
    <2> QED
      BY <2>1, <2>2 DEF Inv
  <1>3. CASE Edit
    <2>1. PICK o \in Origins : \E paths \in Rules(o) : EditRobots(o, paths)
      BY <1>3 DEF Edit
    <2>2. PICK paths \in Rules(o) : EditRobots(o, paths)
      BY <2>1
    <2>3. FetcherInv'
      BY <2>2, EditRobotsSafe DEF Inv
    <2>4. LoopInv'
      BY <1>3, <2>2 DEF Edit, EditRobots, fetch, loop, Inv, LoopInv
    <2> QED
      BY <2>3, <2>4 DEF Inv
  <1> QED
    BY <1>1, <1>2, <1>3

\* A new process knows nothing and has asked nobody.
LEMMA RestartSafe ==
    ASSUME Inv, Restart
    PROVE  Inv'
  <1>1. /\ robots' = robots /\ step' = step /\ url' = url /\ answers' = answers
        /\ waited' = waited /\ outcome' = outcome
        /\ known' = {} /\ cache' = [o \in Origins |-> {}]
        /\ banned' = Disallowed(robots) /\ unread' = {} /\ asked' = {}
    BY DEF Restart, fetch
  <1>2. step = "idle"
    BY DEF Restart, Running, Inv, LoopInv
  <1>3. FetcherTypeOK'
    <2>1. Disallowed(robots) \in SUBSET Urls
      BY DEF Disallowed
    <2>2. cache' \in [Origins -> SUBSET Urls]
      BY <1>1
    <2> QED
      BY <1>1, <2>1, <2>2 DEF Inv, FetcherInv, FetcherTypeOK
  <1>4. OutcomeExplained' /\ WaitsBounded' /\ AttemptsLeft' /\ RobotsRespected'
    BY <1>1 DEF Inv, FetcherInv, OutcomeExplained, WaitsBounded, AttemptsLeft, RobotsRespected
  <1>5. BansAreKnown'
    BY <1>1, <1>2 DEF BansAreKnown, Disallowed
  <1>6. LoopInv'
    <2>1. /\ starts < MaxStarts /\ starts' = starts + 1 /\ slept' = 0 /\ shutdown' = FALSE
          /\ phase' = "starting" /\ todo' = todo /\ escapes' = escapes
      BY DEF Restart
    <2>2. starts' \in 0 .. MaxStarts /\ slept' \in 0 .. Slices
      BY <2>1, SlicesAssumption DEF Inv, LoopInv
    <2> QED
      BY <1>1, <1>2, <2>1, <2>2 DEF Inv, LoopInv, Phases
  <1> QED
    BY <1>3, <1>4, <1>5, <1>6 DEF Inv, FetcherInv

LEMMA Inductive == Inv /\ [Next]_workerVars => Inv'
  <1> SUFFICES ASSUME Inv, [Next]_workerVars PROVE Inv'
    OBVIOUS
  <1>1. CASE UNCHANGED workerVars
    <2>1. UNCHANGED fetcherVars /\ UNCHANGED loop
      BY <1>1 DEF workerVars, fetcherVars
    <2>2. FetcherInv'
      BY <2>1, FetcherRests DEF Inv
    <2>3. LoopInv'
      BY <2>1 DEF fetcherVars, fetch, loop, Inv, LoopInv
    <2> QED
      BY <2>2, <2>3 DEF Inv
  <1>2. CASE Next
    BY <1>2, LoopStepsSafe, FetchingSafe, RestartSafe DEF Next, Work
  <1> QED
    BY <1>1, <1>2

LEMMA Always == Spec => []Inv
  BY Initially, Inductive, PTL DEF Spec

-----------------------------------------------------------------------------
\* The worker's and its fetcher's state keep their types; no request is made
\* beyond the configured ones.
THEOREM WorkerTypeCorrect == Spec => []WorkerTypeOK
  <1>1. Inv => WorkerTypeOK
    BY DEF Inv, FetcherInv, LoopInv, WorkerTypeOK
  <1> QED
    BY <1>1, Always, PTL

\* For any feeds, origins and edits of robots.txt files: a feed disallowed for as
\* long as the process lives is requested only if that robots.txt could not be read
\* the one time it was asked for (http.py, RobotsPolicy).
THEOREM RobotsSafe == Spec => []RobotsRespected
  <1>1. Inv => RobotsRespected
    BY DEF Inv, FetcherInv
  <1> QED
    BY <1>1, Always, PTL

\* For any number of attempts: only transient answers are retried, and each way a
\* fetch can end is explained by the answers it had (http.py, HttpFetcher.get).
THEOREM OutcomeSafe == Spec => []OutcomeExplained
  <1>1. Inv => OutcomeExplained
    BY DEF Inv, FetcherInv
  <1> QED
    BY <1>1, Always, PTL

\* For any numbers in Retry-After headers, negative ones included, a fetch sleeps no
\* longer than the cap before each attempt but the first.
THEOREM WaitsSafe == Spec => []WaitsBounded
  <1>1. Inv => WaitsBounded
    BY DEF Inv, FetcherInv
  <1> QED
    BY <1>1, Always, PTL
=============================================================================

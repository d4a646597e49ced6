------------------------------ MODULE HttpFetcher ------------------------------
(***************************************************************************)
(* One HttpFetcher (ingestion/http.py): the robots.txt cache it keeps for  *)
(* its life and the loop of requests, waits and answers behind one fetch.  *)
(* WorkerLoop says when a fetch begins and how long a fetcher lives.       *)
(*                                                                         *)
(* An answer is known by what the loop makes of it. A robots.txt that is   *)
(* absent or cannot be reached disallows nothing, so the cache holds the   *)
(* set of paths each origin disallows. Validators are Ingestion's matter.  *)
(***************************************************************************)
EXTENDS Integers, Sequences

CONSTANTS
    Urls,          \* the feeds
    Origins,
    OriginOf,      \* the origin of each feed
    MaxAttempts,   \* DEFAULT_MAX_ATTEMPTS
    BackoffBase,   \* DEFAULT_BACKOFF_BASE_SECONDS
    MaxBackoff,    \* MAX_BACKOFF_SECONDS
    RetryAfters,   \* the values publishers send in Retry-After, as float() reads them
    NoHeader       \* no Retry-After, or one that cannot be read

ASSUME OriginAssumption == OriginOf \in [Urls -> Origins]
ASSUME AttemptsAssumption == MaxAttempts \in Nat \ {0} /\ MaxBackoff \in Nat
ASSUME BackoffAssumption == \A n \in 1 .. MaxAttempts : BackoffBase ^ n \in Nat
ASSUME RetryAfterAssumption == RetryAfters \subseteq Int /\ NoHeader \notin Int

VARIABLES
    robots,    \* what the robots.txt of each origin disallows now
    known,     \* the origins whose robots.txt it has asked for
    cache,     \* what it believes they disallow
    step,      \* where the fetch stands
    url,       \* what it fetches
    answers,   \* the answers it has had to requests for url
    waited,    \* the seconds it has slept
    outcome,   \* how the fetch ended
    banned,    \* history: feeds disallowed without a break since the fetcher was built
    unread,    \* history: origins whose robots.txt it asked for in vain
    asked      \* history: feeds it has requested

rules == <<known, cache>>
fetch == <<step, url, answers, waited, outcome>>
conduct == <<banned, unread, asked>>

Outcomes == {"none", "fetched", "unchanged", "blocked", "failed", "raised"}
Transient == {"unreachable", "retryable"}
Answers == Transient \cup {"refused", "unchanged", "rejected", "fetched"}

FetcherTypeOK ==
    /\ robots \in [Origins -> SUBSET Urls]
    /\ known \in SUBSET Origins /\ cache \in [Origins -> SUBSET Urls]
    /\ step \in {"idle", "checking", "asking"}
    /\ url \in Urls
    /\ answers \in Seq(Answers)
    /\ waited \in Nat
    /\ outcome \in Outcomes
    /\ banned \in SUBSET Urls /\ unread \in SUBSET Origins /\ asked \in SUBSET Urls

Disallowed(by) == {u \in Urls : u \in by[OriginOf[u]]}

\* What the robots.txt of an origin can disallow.
Rules(o) == SUBSET {u \in Urls : OriginOf[u] = o}

FetcherInit ==
    /\ robots \in [Origins -> SUBSET Urls] /\ \A o \in Origins : robots[o] \in Rules(o)
    /\ known = {} /\ cache = [o \in Origins |-> {}]
    /\ step = "idle" /\ url \in Urls /\ answers = <<>> /\ waited = 0
    /\ outcome = "none"
    /\ banned = Disallowed(robots) /\ unread = {} /\ asked = {}

-----------------------------------------------------------------------------
BeginFetch(u) ==
    /\ step = "idle"
    /\ step' = "checking" /\ url' = u /\ answers' = <<>> /\ waited' = 0
    /\ outcome' = "none"
    /\ UNCHANGED <<robots, rules, conduct>>

Origin == OriginOf[url]

\* Mutant: what one origin disallows is believed of all.
RememberedEverywhere(paths) == [o \in Origins |-> paths]

Remembered(paths) == [cache EXCEPT ![Origin] = paths]

\* _parser_for: a 200 is parsed, anything else counts as permission; either
\* way the origin is not asked again.
ReadRobots ==
    /\ step = "checking" /\ Origin \notin known
    /\ \/ cache' = Remembered(robots[Origin]) /\ UNCHANGED unread
       \/ cache' = Remembered({}) /\ unread' = unread \cup {Origin}
    /\ known' = known \cup {Origin}
    /\ UNCHANGED <<robots, fetch, banned, asked>>

End(how) == step' = "idle" /\ outcome' = how /\ UNCHANGED url

\* RobotsPolicy.allows
Forbid ==
    /\ step = "checking" /\ Origin \in known
    /\ url \in cache[Origin]
    /\ End("blocked")
    /\ UNCHANGED <<robots, rules, answers, waited, conduct>>

Admit ==
    /\ step = "checking" /\ Origin \in known
    /\ url \notin cache[Origin]
    /\ step' = "asking"
    /\ UNCHANGED <<robots, rules, url, answers, waited, outcome, conduct>>

-----------------------------------------------------------------------------
(* One request and what the loop makes of its answer *)

Attempt == Len(answers) + 1

Answered(a) ==
    /\ step = "asking"
    /\ answers' = Append(answers, a)
    /\ asked' = asked \cup {url}
    /\ UNCHANGED <<robots, rules, banned, unread>>

\* Mutant: only a 4xx that is listed nowhere ends the loop without a retry.
RefusalRetried == IF Attempt = MaxAttempts THEN End("blocked")
                  ELSE UNCHANGED <<step, url, outcome>>

RefusalEnds == End("blocked")

\* BLOCKED_STATUSES: "a block is an answer".
Refuse == Answered("refused") /\ RefusalEnds /\ UNCHANGED waited

NotModified == Answered("unchanged") /\ End("unchanged") /\ UNCHANGED waited

\* Any other status from 400 on.
Reject == Answered("rejected") /\ End("failed") /\ UNCHANGED waited

Succeed == Answered("fetched") /\ End("fetched") /\ UNCHANGED waited

Least(a, b) == IF a < b THEN a ELSE b

\* Mutant: the cap is for the exponential backoff only.
DelayUncapped(ra) == IF ra = NoHeader THEN Least(BackoffBase ^ Attempt, MaxBackoff) ELSE ra

Delay(ra) == Least(IF ra = NoHeader THEN BackoffBase ^ Attempt ELSE ra, MaxBackoff)

Last == Attempt = MaxAttempts

\* A transport error, or a RETRYABLE status with its Retry-After: the last
\* attempt gives up, the others sleep, and sleep() raises ValueError when the
\* publisher's number is negative.
TryAgain(a, ra) ==
    /\ Answered(a)
    /\ \/ Last /\ End("failed") /\ UNCHANGED waited
       \/ ~Last /\ Delay(ra) >= 0 /\ waited' = waited + Delay(ra)
          /\ UNCHANGED <<step, url, outcome>>
       \/ ~Last /\ Delay(ra) < 0 /\ End("raised") /\ UNCHANGED waited

FetchStep ==
    \/ ReadRobots \/ Forbid \/ Admit
    \/ Refuse \/ NotModified \/ Reject \/ Succeed
    \/ TryAgain("unreachable", NoHeader)
    \/ \E ra \in RetryAfters \cup {NoHeader} : TryAgain("retryable", ra)

\* A publisher edits its robots.txt.
EditRobots(o, paths) ==
    /\ robots[o] # paths
    /\ robots' = [robots EXCEPT ![o] = paths]
    /\ banned' = banned \cap Disallowed(robots')
    /\ UNCHANGED <<rules, fetch, unread, asked>>

-----------------------------------------------------------------------------
(* Safety *)

\* A feed that robots.txt has disallowed for as long as the fetcher lives is
\* never requested, unless that robots.txt could not be read the one time it was
\* asked for -- then it is requested for as long as the fetcher lives.
RobotsRespected == \A u \in banned \cap asked : OriginOf[u] \in unread

\* How a fetch ended is explained by the answers: only transient trouble was
\* retried, a fetch failed for want of attempts after exactly MaxAttempts of
\* them, and nothing was asked after a refusal or any other definite answer.
OutcomeExplained ==
    /\ Len(answers) <= MaxAttempts
    /\ \A i \in 1 .. Len(answers) : answers[i] \in Transient \/ i = Len(answers)
    /\ step = "asking" => \A i \in 1 .. Len(answers) : answers[i] \in Transient
    /\ outcome = "failed" =>
          Len(answers) = MaxAttempts \/ answers[Len(answers)] = "rejected"
    /\ outcome = "blocked" => answers = <<>> \/ answers[Len(answers)] = "refused"

\* However the publishers answer, a fetch sleeps a bounded time (the module's
\* "never sleep longer than this on a single retry").
WaitsBounded == waited <= (MaxAttempts - 1) * MaxBackoff
=============================================================================

--------------------------- MODULE CircuitBreaker ---------------------------
(***************************************************************************)
(* The circuit breaker around the Ollama embedder.  The state machine is   *)
(* sony/gobreaker's, as configured by NewCircuitBreaker; Embed and         *)
(* EmbedBatch run their request to Ollama inside Execute, and searches and *)
(* indexing goroutines do so at the same time.                             *)
(*                                                                         *)
(* gobreaker numbers its generations and compares a call's number with the *)
(* current one only for equality: `current` holds the running calls of the *)
(* current generation.  Time advances in ticks, and `remain` counts those  *)
(* left until the expiry of the current generation has passed.             *)
(***************************************************************************)
EXTENDS Integers, FiniteSets

CONSTANTS
    Callers,      \* goroutines that embed texts
    MaxRequests,  \* calls let through in half-open, and successes to close
    MinRequests,  \* calls before the breaker may trip (3)
    Num, Den,     \* FailureThreshold as a fraction (0.6 = 3/5)
    Interval,     \* ticks after which a closed breaker forgets its counts
    Timeout,      \* ticks an open breaker stays open
    MaxCount      \* bound: calls counted in one closed generation

ASSUME MaxRequestsAssumption == MaxRequests \in Nat \ {0}
ASSUME ThresholdAssumption == Num \in Nat \ {0} /\ Den \in Nat \ {0}
ASSUME MinAssumption == MinRequests \in Nat \ {0}
ASSUME TimeAssumption == Interval \in Nat \ {0} /\ Timeout \in Nat \ {0}
ASSUME CountAssumption == MaxCount \in Nat

VARIABLES
    state,       \* "closed", "open" or "half-open"
    remain,      \* ticks until the generation expires; not used in half-open
    requests,    \* Counts.Requests
    successes,   \* Counts.TotalSuccesses
    failures,    \* Counts.TotalFailures
    streak,      \* Counts.ConsecutiveSuccesses
    running,     \* callers whose request to Ollama is under way
    current,     \* those admitted in the current generation
    healthy      \* Ollama answers without errors from now on

counts == <<requests, successes, failures, streak>>
vars == <<state, remain, counts, running, current, healthy>>

Init ==
    /\ state = "closed" /\ remain = Interval
    /\ requests = 0 /\ successes = 0 /\ failures = 0 /\ streak = 0
    /\ running = {} /\ current = {}
    /\ healthy = FALSE

\* The settings' ReadyToTrip, asked with the counts that include a failure.
ReadyToTrip(reqs, fails) == reqs >= MinRequests /\ fails * Den >= Num * reqs

-----------------------------------------------------------------------------
\* toNewGeneration: the counts start again, results under way are void.
NewGeneration(s) ==
    /\ state' = s
    /\ remain' = CASE s = "closed" -> Interval
                   [] s = "open" -> Timeout
                   [] OTHER -> 0
    /\ requests' = 0 /\ successes' = 0 /\ failures' = 0 /\ streak' = 0
    /\ current' = {}

\* currentState finds the generation expired.
Due == state # "half-open" /\ remain = 0

\* Mutant: half-open has no limit on its calls.
AdmitUnlimited(p) ==
    /\ p \notin running
    /\ ~Due
    /\ state # "open" /\ requests < MaxCount
    /\ requests' = requests + 1
    /\ running' = running \cup {p}
    /\ current' = current \cup {p}
    /\ UNCHANGED <<state, remain, successes, failures, streak, healthy>>

\* beforeRequest: the call is admitted in the current generation.
Admit(p) ==
    /\ p \notin running
    /\ ~Due
    /\ \/ state = "closed" /\ requests < MaxCount
       \/ state = "half-open" /\ requests < MaxRequests
    /\ requests' = requests + 1
    /\ running' = running \cup {p}
    /\ current' = current \cup {p}
    /\ UNCHANGED <<state, remain, successes, failures, streak, healthy>>

\* beforeRequest: the first call after the expiry starts a generation, a
\* half-open one when the breaker was open, and is its first call.
AdmitRenewed(p) ==
    /\ p \notin running
    /\ Due
    /\ IF state = "open" THEN state' = "half-open" /\ remain' = 0
                         ELSE state' = "closed" /\ remain' = Interval
    /\ requests' = 1 /\ successes' = 0 /\ failures' = 0 /\ streak' = 0
    /\ running' = running \cup {p}
    /\ current' = {p}
    /\ UNCHANGED healthy

\* ErrOpenState or ErrTooManyRequests: Execute does not run the request.
Reject(p) ==
    /\ p \notin running
    /\ ~Due
    /\ \/ state = "open"
       \/ state = "half-open" /\ requests >= MaxRequests
    /\ UNCHANGED vars

\* Mutants: the first success closes; one success too many is asked for.
SuccessClosesAtOnce(p) ==
    IF state = "half-open"
    THEN NewGeneration("closed")
    ELSE /\ successes' = successes + 1
         /\ streak' = streak + 1
         /\ current' = current \ {p}
         /\ UNCHANGED <<state, remain, requests, failures>>
SuccessOneMore(p) ==
    IF state = "half-open" /\ streak + 1 > MaxRequests
    THEN NewGeneration("closed")
    ELSE /\ successes' = successes + 1
         /\ streak' = streak + 1
         /\ current' = current \ {p}
         /\ UNCHANGED <<state, remain, requests, failures>>

\* onSuccess.
Success(p) ==
    IF state = "half-open" /\ streak + 1 >= MaxRequests
    THEN NewGeneration("closed")
    ELSE /\ successes' = successes + 1
         /\ streak' = streak + 1
         /\ current' = current \ {p}
         /\ UNCHANGED <<state, remain, requests, failures>>

\* onFailure: a request error, an empty embedding or a cancelled context.
Failure(p) ==
    IF state = "half-open" \/ ReadyToTrip(requests, failures + 1)
    THEN NewGeneration("open")
    ELSE /\ failures' = failures + 1
         /\ streak' = 0
         /\ current' = current \ {p}
         /\ UNCHANGED <<state, remain, requests, successes>>

\* afterRequest, for a call of the current generation.
Report(p) ==
    /\ p \in current
    /\ ~Due
    /\ running' = running \ {p}
    /\ Success(p) \/ (~healthy /\ Failure(p))
    /\ UNCHANGED healthy

\* Mutant: the generation is not compared, and a late success is counted.
ReportStaleCounted(p) ==
    /\ p \in running \ current
    /\ ~Due
    /\ running' = running \ {p}
    /\ successes' = successes + 1 /\ streak' = streak + 1
    /\ UNCHANGED <<state, remain, requests, failures, current, healthy>>

\* afterRequest of a call whose generation has passed: the result is ignored.
ReportStale(p) ==
    /\ p \in running \ current
    /\ ~Due
    /\ running' = running \ {p}
    /\ UNCHANGED <<state, remain, counts, current, healthy>>

\* afterRequest is the one to find the generation expired; the call belongs
\* to the old one.
ReportRenewed(p) ==
    /\ p \in running
    /\ Due
    /\ running' = running \ {p}
    /\ NewGeneration(IF state = "open" THEN "half-open" ELSE "closed")
    /\ UNCHANGED healthy

Tick ==
    /\ remain > 0
    /\ remain' = remain - 1
    /\ UNCHANGED <<state, counts, running, current, healthy>>

\* Ollama recovers.
Heal ==
    /\ ~healthy
    /\ healthy' = TRUE
    /\ UNCHANGED <<state, remain, counts, running, current>>

Call(p) == Admit(p) \/ AdmitRenewed(p) \/ Reject(p)
Answer(p) == Report(p) \/ ReportStale(p) \/ ReportRenewed(p)

Next ==
    \/ \E p \in Callers : Call(p) \/ Answer(p)
    \/ Tick
    \/ Heal

Spec == Init /\ [][Next]_vars

\* Time passes and every request to Ollama returns.
FairSpec == Spec /\ WF_vars(Tick) /\ \A p \in Callers : WF_vars(Answer(p))

-----------------------------------------------------------------------------
TypeOK ==
    /\ state \in {"closed", "open", "half-open"}
    /\ remain \in 0..(Interval + Timeout)
    /\ requests \in Nat /\ successes \in Nat
    /\ failures \in Nat /\ streak \in Nat
    /\ running \subseteq Callers /\ current \subseteq running
    /\ healthy \in BOOLEAN

\* Every counted call is under way or has been counted as a success or a
\* failure of the same generation: no result is lost, counted twice or
\* counted against a later generation.
CountsAddUp == requests = Cardinality(current) + successes + failures

\* A half-open breaker lets at most MaxRequests calls through, all that have
\* returned were successes, and it has not yet seen enough of them to close.
HalfOpenProbes ==
    state = "half-open" =>
        /\ requests <= MaxRequests
        /\ failures = 0
        /\ streak = successes /\ successes < MaxRequests

\* The breaker leaves half-open for closed only with the last of MaxRequests
\* successes, each of a call admitted in that half-open period.
EarnedClosing ==
    [][state = "half-open" /\ state' = "closed" =>
         /\ requests = MaxRequests /\ successes = MaxRequests - 1
         /\ Cardinality(current) = 1]_vars

\* While an open breaker's timeout runs, no request reaches Ollama.
FailFast ==
    [][state = "open" /\ remain > 0 => running' \subseteq running]_vars

\* Once Ollama answers again, and while requests keep coming in, the breaker
\* closes: a half-open breaker is never left waiting for a call that was let
\* through and whose result is not counted.
TrafficSpec == FairSpec /\ \A p \in Callers : SF_vars(Admit(p) \/ AdmitRenewed(p))
Recovers == healthy ~> state = "closed"
=============================================================================

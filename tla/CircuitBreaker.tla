---------------------------- MODULE CircuitBreaker ----------------------------
(***************************************************************************)
(* hardening/circuit_breaker.py: one breaker shared by calls that overlap  *)
(* (threads in call, coroutines in async_call).  A call is two steps under *)
(* the lock, _check_state before and _record_success or _record_failure    *)
(* after; between them other calls come and go, so results arrive in       *)
(* states their call was not admitted in.                                  *)
(*                                                                         *)
(* Abstracted: _last_failure_time is kept as its age, which stops counting *)
(* at timeout_seconds; counters stop at the threshold they are compared    *)
(* with.                                                                   *)
(***************************************************************************)
EXTENDS Integers

CONSTANTS Calls,
          FailureThreshold, Timeout, HalfOpenMax, SuccessThreshold

ASSUME ConfigAssumption == /\ FailureThreshold \in Nat \ {0}
                           /\ Timeout \in Nat
                           /\ HalfOpenMax \in Nat \ {0}
                           /\ SuccessThreshold \in Nat \ {0}

None == -1

VARIABLES state,      \* _state
          failures,   \* _failure_count
          successes,  \* _success_count
          attempts,   \* _half_open_attempts
          age,        \* time since _last_failure_time; None: it is not set
          running,    \* the calls that were admitted and have not ended
          healthy,    \* has the service recovered for good?
          probes      \* ghost: successes while half open, since last closed

vars == <<state, failures, successes, attempts, age, running, healthy, probes>>

\* The fields of the breaker (circuit_breaker.py:35-43).
TypeOK == /\ state \in {"closed", "open", "half_open"}
          /\ failures \in 0..FailureThreshold
          /\ successes \in 0..(SuccessThreshold - 1)
          /\ attempts \in 0..HalfOpenMax
          /\ age \in {None} \cup 0..Timeout
          /\ running \in SUBSET Calls
          /\ healthy \in BOOLEAN
          /\ probes \in 0..SuccessThreshold

Init == /\ state = "closed"
        /\ failures = 0
        /\ successes = 0
        /\ attempts = 0
        /\ age = None
        /\ running = {}
        /\ healthy = FALSE
        /\ probes = 0

Count(n, limit) == IF n < limit THEN n + 1 ELSE n

-------------------------------------------------------------------------------
\* Mutant: the pause is over one tick early.
MutTimedOut == age = None \/ age + 1 >= Timeout

\* An open breaker tries again once timeout_seconds have passed; without a
\* _last_failure_time it would let the call through as it is.
TimedOut == age # None /\ age >= Timeout

\* Mutant: a breaker that tries again has its attempts used up already.
MutFreshAttempts == attempts

FreshAttempts == 0

\* _check_state: the call is admitted or CircuitBreakerOpenError is raised.
Enter(c) ==
    /\ c \notin running
    /\ \/ /\ state = "closed" \/ (state = "open" /\ age = None)
          /\ running' = running \cup {c}
          /\ UNCHANGED <<state, attempts>>
       \/ /\ state = "open" /\ TimedOut
          /\ state' = "half_open"
          /\ attempts' = FreshAttempts
          /\ running' = running \cup {c}
       \/ /\ state = "open" /\ age # None /\ ~TimedOut
          /\ UNCHANGED <<state, attempts, running>>
       \/ /\ state = "half_open" /\ attempts < HalfOpenMax
          /\ running' = running \cup {c}
          /\ UNCHANGED <<state, attempts>>
       \/ /\ state = "half_open" /\ attempts >= HalfOpenMax
          /\ state' = "open"
          /\ UNCHANGED <<attempts, running>>
    /\ UNCHANGED <<failures, successes, age, healthy, probes>>

\* Mutant: any success closes the breaker.
MutEnoughSuccesses == successes + 1 >= 1

EnoughSuccesses == successes + 1 >= SuccessThreshold

\* Mutant: a success that comes late counts for the open breaker too.
MutProbing == state # "closed"

Probing == state = "half_open"

\* _record_success
Succeed(c) ==
    /\ c \in running
    /\ running' = running \ {c}
    /\ \/ /\ Probing /\ EnoughSuccesses
          /\ state' = "closed"
          /\ failures' = 0 /\ successes' = 0 /\ attempts' = 0
       \/ /\ Probing /\ ~EnoughSuccesses
          /\ successes' = successes + 1
          /\ UNCHANGED <<state, failures, attempts>>
       \/ /\ ~Probing
          /\ failures' = 0 /\ successes' = 0
          /\ UNCHANGED <<state, attempts>>
    /\ probes' = IF state' = "closed" THEN 0
                 ELSE IF state = "half_open" THEN Count(probes, SuccessThreshold) ELSE probes
    /\ UNCHANGED <<age, healthy>>

FailureAge == 0

\* _record_failure
Fail(c) ==
    /\ c \in running /\ ~healthy
    /\ running' = running \ {c}
    /\ failures' = Count(failures, FailureThreshold)
    /\ age' = FailureAge
    /\ attempts' = IF state = "half_open" THEN Count(attempts, HalfOpenMax) ELSE attempts
    /\ state' = IF state = "closed" /\ failures + 1 >= FailureThreshold THEN "open"
                ELSE state
    /\ UNCHANGED <<successes, healthy, probes>>

\* A cancelled call (CancelledError is no Exception) records nothing.
Abandon(c) == /\ c \in running /\ ~healthy
              /\ running' = running \ {c}
              /\ UNCHANGED <<state, failures, successes, attempts, age, healthy, probes>>

\* reset()
Reset == /\ state' = "closed"
         /\ failures' = 0 /\ successes' = 0 /\ attempts' = 0
         /\ age' = None
         /\ probes' = 0
         /\ UNCHANGED <<running, healthy>>

Tick == /\ age # None /\ age < Timeout
        /\ age' = age + 1
        /\ UNCHANGED <<state, failures, successes, attempts, running, healthy, probes>>

Heal == /\ ~healthy
        /\ healthy' = TRUE
        /\ UNCHANGED <<state, failures, successes, attempts, age, running, probes>>

Next == \/ \E c \in Calls : Enter(c) \/ Succeed(c) \/ Fail(c) \/ Abandon(c)
        \/ Reset \/ Tick \/ Heal

Spec == Init /\ [][Next]_vars

\* The callers keep calling, admitted calls end, and time passes; nobody is
\* assumed to call reset, and nothing is assumed of the service.
Fairness == /\ \A c \in Calls : WF_vars(Enter(c)) /\ WF_vars(Succeed(c))
            /\ WF_vars(Tick)

FairSpec == Spec /\ Fairness

-------------------------------------------------------------------------------
\* A breaker that is not closed has a failure time, whatever order late
\* results and resets come in: it is what keeps _check_state from letting calls
\* through an open breaker (circuit_breaker.py:80-88).
TripHasDeadline == state # "closed" => age # None

\* No call is admitted while an open breaker waits, however late the results
\* that arrive meanwhile: it leaves open by an admission after the timeout, or
\* by reset (circuit_breaker.py:78-117).
OpenWaits ==
    [][state = "open" =>
         /\ running' \subseteq running \/ (age = Timeout /\ state' = "half_open")
         /\ state' = "closed" => age' = None]_vars

\* The ghost count behind ClosesAfterProbes: _success_count counts successes of
\* half-open periods since the breaker last closed, and no others.
SuccessesAreProbes == successes <= probes

\* A breaker that tripped closes only after success_threshold calls succeeded
\* while it was half open, or by reset.  They need not all have succeeded in one
\* half-open period (_success_count survives a new opening).
ClosesAfterProbes ==
    [][state # "closed" /\ state' = "closed" /\ age' # None
          => state = "half_open" /\ probes + 1 >= SuccessThreshold]_vars

\* Once the service has recovered for good the breaker closes, and stays so.
Recovers == healthy ~> [](state = "closed")
===============================================================================

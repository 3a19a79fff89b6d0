------------------------------ MODULE SafeAdapter -------------------------------
(***************************************************************************)
(* SafeAdapterWrapper.fetch (adapters/wrapped.py) with its breaker         *)
(* (runtime/circuit_breaker.py, not the one of hardening/): threads that   *)
(* share a wrapper.  allow, success and failure each hold the lock; the    *)
(* fetch between them does not.  Times stop counting once they are beyond  *)
(* reset_timeout, failures at the threshold.                               *)
(***************************************************************************)
EXTENDS Integers

CONSTANTS Fetchers, Threshold, ResetTimeout

ASSUME WrapperAssumption == Threshold \in Nat \ {0} /\ ResetTimeout \in Nat

VARIABLES mode,      \* _state
          faults,    \* _failures
          opened,    \* the time since _opened_at
          fetching,  \* the threads between allow and success or failure
          quiet      \* ghost: the time since the last failure

wrapperVars == <<mode, faults, opened, fetching, quiet>>

Over == ResetTimeout + 1

\* The breaker's fields (runtime/circuit_breaker.py:12-15).
WrapperTypeOK == /\ mode \in {"CLOSED", "OPEN", "HALF_OPEN"}
                 /\ faults \in 0..Threshold
                 /\ opened \in 0..Over /\ quiet \in 0..Over
                 /\ fetching \in SUBSET Fetchers

WrapperInit == /\ mode = "CLOSED"
               /\ faults = 0
               /\ opened = Over /\ quiet = Over
               /\ fetching = {}

Older(age) == IF age < Over THEN age + 1 ELSE age

-------------------------------------------------------------------------------
PauseOver == opened > ResetTimeout

\* allow: with False the fetch returns [] and has done nothing.  A half-open
\* breaker lets everybody through.
Allow(t) == /\ t \notin fetching
            /\ mode = "OPEN" => PauseOver
            /\ mode' = IF mode = "OPEN" THEN "HALF_OPEN" ELSE mode
            /\ fetching' = fetching \cup {t}
            /\ UNCHANGED <<faults, opened, quiet>>

Forgiven == faults' = 0 /\ mode' = "CLOSED"

\* success, after the items were validated.  It closes an open breaker too.
FetchSucceeds(t) == /\ t \in fetching
                    /\ Forgiven
                    /\ fetching' = fetching \ {t}
                    /\ UNCHANGED <<opened, quiet>>

\* Mutant: only the failure that opens the breaker is stamped.
MutStamp == opened' = IF mode = "OPEN" THEN opened ELSE 0

Stamp == opened' = 0
Trips == faults + 1 >= Threshold

\* failure: the adapter or the validator raised.
FetchFails(t) == /\ t \in fetching
                 /\ faults' = IF faults < Threshold THEN faults + 1 ELSE faults
                 /\ IF Trips THEN mode' = "OPEN" /\ Stamp ELSE UNCHANGED <<mode, opened>>
                 /\ fetching' = fetching \ {t}
                 /\ quiet' = 0

WrapperTick == /\ opened' = Older(opened) /\ quiet' = Older(quiet)
               /\ UNCHANGED <<mode, faults, fetching>>

WrapperNext == \/ \E t \in Fetchers : Allow(t) \/ FetchSucceeds(t) \/ FetchFails(t)
               \/ WrapperTick

WrapperSpec == WrapperInit /\ [][WrapperNext]_wrapperVars

-------------------------------------------------------------------------------
\* A breaker that is not closed is one failure from open: failures are forgiven
\* only by the success that closes it, in whatever order the results of
\* overlapping fetches arrive (runtime/circuit_breaker.py:26-36).
TrippedIsFull == mode # "CLOSED" => faults = Threshold

\* No fetch begins through an open breaker until more than reset_timeout has
\* passed since the last failure, of whichever fetch (:17-24, :36).
PausesAfterFailure ==
    [][mode = "OPEN" /\ ~(fetching' \subseteq fetching) => quiet > ResetTimeout]_wrapperVars
===============================================================================

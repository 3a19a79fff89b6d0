----------------------------- MODULE MCInProcess -------------------------------
(***************************************************************************)
(* The parts that coordinate calls inside one process: the breaker, called *)
(* by any code or by an adapter's fetches, the rate limiter, the execution *)
(* controller, the lease locks, the shutdown hooks, and the adapter        *)
(* wrapper with a breaker of its own.  None calls another, but fetches     *)
(* their breaker, and no two share a variable, so a behaviour works one    *)
(* part, chosen at the start, and leaves the others as they are.  The      *)
(* states of the run are the sum of the parts, not their product.          *)
(***************************************************************************)
EXTENDS SourceFetch, RateLimiter, ExecutionController, SafeAdapter, LeaseLock, ShutdownHooks

VARIABLE part

parts == <<part, fetchVars, limiterVars, controllerVars, wrapperVars, lockVars,
           hookVars>>

\* A part that is not at work stays in one of its initial states; the breaker
\* called by any code is that of an adapter that has fetched often.
ProcessInit ==
    /\ part \in {"breaker", "fetch", "limiter", "controller", "wrapper", "lock", "hooks"}
    /\ Init /\ fetch = [c \in Calls |-> NoFetch]
    /\ fetches = IF part = "breaker" THEN FailureThreshold ELSE 0
    /\ LimiterInit /\ ControllerInit /\ WrapperInit /\ LockInit /\ HooksInit
    /\ part # "lock" => owned
    /\ part # "limiter" => want = CHOOSE w \in [Callers -> Wants] : TRUE

\* What every step leaves alone that works part p.
Rest(p) == /\ part = p /\ UNCHANGED part
           /\ p = "breaker" => UNCHANGED <<fetch, fetches>>
           /\ p \notin {"breaker", "fetch"} => UNCHANGED fetchVars
           /\ p # "limiter"    => UNCHANGED limiterVars
           /\ p # "controller" => UNCHANGED controllerVars
           /\ p # "wrapper"    => UNCHANGED wrapperVars
           /\ p # "lock"       => UNCHANGED lockVars
           /\ p # "hooks"      => UNCHANGED hookVars

ProcessNext == \/ Rest("breaker")   /\ Next
               \/ Rest("fetch")     /\ FetchNext
               \/ Rest("limiter")   /\ LimiterNext
               \/ Rest("controller") /\ ControllerNext
               \/ Rest("wrapper")   /\ WrapperNext
               \/ Rest("lock")      /\ LockNext
               \/ Rest("hooks")     /\ HooksNext

\* The fairness of each part's own specification.  Only one part's steps occur in
\* a behaviour, so a fair choice between steps of different parts is fair to each.
ASSUME OneNaming == Callers = Calls /\ Calls \subseteq Threads

ProcessFairness ==
    /\ \A t \in Threads : WF_parts(\/ Rest("controller") /\ RunCycle(t)
                                   \/ /\ t \in Calls
                                      /\ \/ Rest("breaker") /\ Enter(t)
                                         \/ Rest("fetch")   /\ Go(t)
                                         \/ Rest("limiter") /\ Try(t))
    /\ \A c \in Calls : WF_parts(Rest("breaker") /\ Succeed(c))
    /\ WF_parts((Rest("breaker") /\ Tick) \/ (Rest("limiter") /\ LimiterTick))

ProcessSpec == ProcessInit /\ [][ProcessNext]_parts /\ ProcessFairness

-------------------------------------------------------------------------------
\* The types of the parts, and the facts their other properties rest on: a
\* breaker that is not closed has a deadline and counts probes only
\* (hardening/circuit_breaker.py:81-103), the wrapper's is one failure from open
\* (runtime/circuit_breaker.py:26-36), hooks run in order (shutdown.py:27-40).
ProcessInv == /\ FetchTypeOK /\ TripHasDeadline /\ SuccessesAreProbes
              /\ LimiterTypeOK
              /\ ControllerTypeOK
              /\ WrapperTypeOK /\ TrippedIsFull
              /\ LockTypeOK
              /\ HooksTypeOK /\ HooksInOrder
===============================================================================

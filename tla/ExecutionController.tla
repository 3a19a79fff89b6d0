-------------------------- MODULE ExecutionController ---------------------------
(***************************************************************************)
(* execution/orchestrator/controller.py, which                             *)
(* runtime/execution_controller.py repeats: run_cycle called by several    *)
(* threads.  Taking the lock, setting _active_cycle_id, clearing it and    *)
(* releasing the lock are four steps; threading.Lock does not know its     *)
(* owner.  A cycle's id is named by the thread that runs it.               *)
(***************************************************************************)
CONSTANTS Threads, NoCycle

ASSUME NoCycleAssumption == NoCycle \notin Threads

VARIABLES locked,       \* is _lock held?
          activeCycle,  \* _active_cycle_id
          step          \* where thread t is in run_cycle

controllerVars == <<locked, activeCycle, step>>

\* The controller's fields and each thread's place (controller.py:22-54).
ControllerTypeOK == /\ locked \in BOOLEAN
                    /\ activeCycle \in Threads \cup {NoCycle}
                    /\ step \in [Threads -> {"outside", "locked", "running", "ended", "leaving"}]

ControllerInit == /\ locked = FALSE
                  /\ activeCycle = NoCycle
                  /\ step = [t \in Threads |-> "outside"]

GoTo(t, s) == step' = [step EXCEPT ![t] = s]

IsFree == ~locked

\* lock.acquire(blocking=False)
TryLock(t) == /\ step[t] = "outside" /\ IsFree
              /\ locked' = TRUE
              /\ GoTo(t, "locked")
              /\ UNCHANGED activeCycle

\* A thread that fails raises cycle_already_running and has done nothing.
Refuse(t) == step[t] = "outside" /\ ~IsFree /\ UNCHANGED controllerVars

SetCycle(t) == /\ step[t] = "locked"
               /\ activeCycle' = t
               /\ GoTo(t, "running")
               /\ UNCHANGED locked

\* Mutant: a handler that raises skips the release.
MutHandlerEnds(t) == /\ step[t] = "running"
                     /\ GoTo(t, "ended") \/ GoTo(t, "outside")
                     /\ UNCHANGED <<locked, activeCycle>>

\* The handler returns or raises: in either case the finally clause is next.
HandlerEnds(t) == /\ step[t] = "running"
                  /\ GoTo(t, "ended")
                  /\ UNCHANGED <<locked, activeCycle>>

\* Mutant: the lock is released before the id is cleared.
MutClearCycle(t) == /\ step[t] = "ended"
                    /\ locked' = FALSE
                    /\ GoTo(t, "leaving")
                    /\ UNCHANGED activeCycle

ClearCycle(t) == /\ step[t] = "ended"
                 /\ activeCycle' = NoCycle
                 /\ GoTo(t, "leaving")
                 /\ UNCHANGED locked

Unlock(t) == /\ step[t] = "leaving"
             /\ locked' = FALSE
             /\ GoTo(t, "outside")
             /\ UNCHANGED activeCycle

\* The steps of run_cycle other than the handler.
RunCycle(t) == SetCycle(t) \/ ClearCycle(t) \/ Unlock(t)

ControllerNext == \E t \in Threads : TryLock(t) \/ Refuse(t) \/ SetCycle(t)
                                     \/ HandlerEnds(t) \/ ClearCycle(t) \/ Unlock(t)

ControllerSpec == ControllerInit /\ [][ControllerNext]_controllerVars

\* The operating system runs every thread; handlers need not end
\* (cycle_timeout_sec is kept and applied nowhere).
ControllerFairness == \A t \in Threads : WF_controllerVars(RunCycle(t))
ControllerFairSpec == ControllerSpec /\ ControllerFairness

-------------------------------------------------------------------------------
\* "Guarantees one active ingestion cycle at a time" (controller.py:19): while a
\* handler runs no other does, and _active_cycle_id is its cycle; a thread that
\* is on its way out does not clear the id of the next.
OneActiveCycle ==
    \A t \in Threads : step[t] = "running" =>
        /\ activeCycle = t
        /\ \A u \in Threads : step[u] = "running" => u = t

\* If every handler ends, by returning or raising, the lock is free again and
\* again: no call of run_cycle leaves it behind (controller.py:45-52).
LockComesBack ==
    (\A t \in Threads : step[t] = "running" ~> step[t] # "running") => []<>~locked
===============================================================================

----------------------------- MODULE ShutdownHooks -----------------------------
(***************************************************************************)
(* hardening/shutdown.py: shutdown called by several tasks, one for each   *)
(* signal.  A call runs to its next await; while a hook is awaited, others *)
(* come, hooks are registered, and the task may be cancelled.              *)
(***************************************************************************)
EXTENDS Naturals, Sequences

CONSTANTS Hooks,    \* each is registered once at most
          Tasks     \* the calls of shutdown, each made once at most

VARIABLES registered,   \* _shutdown_hooks
          shuttingDown, \* _is_shutting_down
          task,         \* where call t of shutdown is
          position,     \* the hook its loop is at
          ran           \* ghost: the hooks begun, in their order

hookVars == <<registered, shuttingDown, task, position, ran>>

\* The handler's fields and the calls' places (shutdown.py:15-18).
HooksTypeOK == /\ registered \in Seq(Hooks) /\ ran \in Seq(Hooks)
               /\ shuttingDown \in BOOLEAN
               /\ task \in [Tasks -> {"none", "created", "awaiting", "complete", "returned",
                                      "cancelled"}]
               /\ position \in [Tasks -> Nat]

HooksInit == /\ registered = <<>>
             /\ shuttingDown = FALSE
             /\ task = [t \in Tasks |-> "none"]
             /\ position = [t \in Tasks |-> 0]
             /\ ran = <<>>

Move(t, place) == task' = [task EXCEPT ![t] = place]

-------------------------------------------------------------------------------
Register(h) == /\ \A i \in DOMAIN registered : registered[i] # h
               /\ registered' = Append(registered, h)
               /\ UNCHANGED <<shuttingDown, task, position, ran>>

\* signal_handler: create_task
Signal(t) == /\ task[t] = "none"
             /\ Move(t, "created")
             /\ UNCHANGED <<registered, shuttingDown, position, ran>>

\* The loop goes on with hook n, if there is one by now.
LoopAt(t, n) == IF n <= Len(registered)
                THEN /\ Move(t, "awaiting")
                     /\ position' = [position EXCEPT ![t] = n]
                     /\ ran' = Append(ran, registered[n])
                ELSE Move(t, "complete") /\ UNCHANGED <<position, ran>>

AlreadyBegun == shuttingDown

StartShutdown(t) == /\ task[t] = "created"
                    /\ shuttingDown' = TRUE
                    /\ IF AlreadyBegun THEN Move(t, "returned") /\ UNCHANGED <<position, ran>>
                                       ELSE LoopAt(t, 1)
                    /\ UNCHANGED registered

\* Mutant: a hook that raises ends the loop.
MutHookEnds(t) == /\ task[t] = "awaiting"
                  /\ \/ LoopAt(t, position[t] + 1)
                     \/ Move(t, "complete") /\ UNCHANGED <<position, ran>>
                  /\ UNCHANGED <<registered, shuttingDown>>

\* The hook returns or raises; either way the loop goes on.
HookEnds(t) == /\ task[t] = "awaiting"
               /\ LoopAt(t, position[t] + 1)
               /\ UNCHANGED <<registered, shuttingDown>>

\* CancelledError is no Exception: it ends the loop, and the flag stays set.
CancelTask(t) == /\ task[t] \in {"created", "awaiting"}
                 /\ Move(t, "cancelled")
                 /\ UNCHANGED <<registered, shuttingDown, position, ran>>

\* The process ends; the next one begins with a handler of its own.
NextProcess == /\ registered' = <<>> /\ ran' = <<>>
               /\ shuttingDown' = FALSE
               /\ task' = [t \in Tasks |-> "none"]
               /\ position' = [t \in Tasks |-> 0]

HooksNext == \/ \E h \in Hooks : Register(h)
             \/ \E t \in Tasks : Signal(t) \/ StartShutdown(t) \/ HookEnds(t) \/ CancelTask(t)
             \/ NextProcess

HooksSpec == HooksInit /\ [][HooksNext]_hookVars

-------------------------------------------------------------------------------
\* However many signals come and whenever hooks are registered or tasks are
\* cancelled, the hooks run in the order of their registration, and none twice
\* (shutdown.py:27-40).
HooksInOrder == /\ Len(ran) <= Len(registered)
                /\ \A i \in DOMAIN ran : ran[i] = registered[i]

\* A shutdown that completes has run every hook registered before that, those
\* registered while it ran and those after one that raised included; a call that
\* is cancelled leaves the rest to nobody (shutdown.py:35-42).
CompleteIsAll ==
    [][\A t \in Tasks : task[t] # "complete" /\ task'[t] = "complete"
                          => Len(ran') = Len(registered')]_hookVars
===============================================================================

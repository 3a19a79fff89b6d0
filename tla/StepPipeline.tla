----------------------------- MODULE StepPipeline -----------------------------
(***************************************************************************)
(* The step pipeline (pipeline/steps.py): workers that each take one       *)
(* PipelineContext through FetchStep ... DLQStep, in the order the         *)
(* orchestrator names, several in a process and several processes at once, *)
(* over one Redis that holds the gate's keys and the buffer                *)
(* (buffer/queue.py).  Workers interleave between steps and at the Redis   *)
(* commands of push, as those of different processes do; check_and_set is  *)
(* one step (IdempotencyGate shows that it behaves as one), and so is an   *)
(* attempt of RetryExecutor to send the message (delivery/retry.py).       *)
(*                                                                         *)
(* The text of a message depends on the score and the reasons the user's   *)
(* profile gives the survey and on its payout and title, so the message a  *)
(* context has for a survey is any of Texts.  Its key is made of the id of *)
(* the survey and of hash(text), which each process salts for itself; that *)
(* two texts have one hash is left out.                                    *)
(*                                                                         *)
(* Abstracted: the buffer is its length; no key expires while the runs     *)
(* last (a day); DLQStep leaves no trace but logs, see StoreErrors.        *)
(***************************************************************************)
EXTENDS Integers, FiniteSets

CONSTANTS Surveys, Workers, Processes,
          Texts,        \* the messages a survey can be announced with
          ProcessOf,    \* the process a worker runs in
          MaxSize,      \* RedisBuffer(max_size=...)
          MaxAttempts,  \* RetryConfig.max_attempts
          MaxFaults     \* bound: gate failures counted for a survey

ASSUME StepsAssumption == /\ IsFiniteSet(Workers) /\ IsFiniteSet(Processes)
                          /\ ProcessOf \in [Workers -> Processes]
                          /\ MaxSize \in Nat \ {0} /\ MaxAttempts \in Nat \ {0}
                          /\ MaxFaults \in Nat

VARIABLES context,    \* the workers' contexts
          claimed,    \* surveys whose key survey:{id} exists
          messages,   \* messages whose key telegram:{id}:{hash} exists
          buffer,     \* LLEN of the buffer
          notified,   \* ghost: how often Telegram accepted a message
          faults      \* ghost: contexts that passed the gate on an error

vars == <<context, claimed, messages, buffer, notified, faults>>

Stages == {"fetch", "normalize", "filter", "idempotency", "buffer", "push",
           "dispatch", "sending", "dlq", "done"}
Errors == {"fetch", "normalize", "filter", "buffer", "dispatch"}
None   == "none"

NewContext == [stage |-> "fetch", raw |-> None, survey |-> None, status |-> None,
               duplicate |-> FALSE, delivered |-> FALSE, errors |-> {},
               text |-> None, attempt |-> 0]

Context == [stage : Stages, raw : Surveys \cup {None}, survey : Surveys \cup {None},
            status : {None, "ELIGIBLE", "other"}, duplicate : BOOLEAN,
            delivered : BOOLEAN, errors : SUBSET Errors,
            text : Texts \cup {None}, attempt : 0..(MaxAttempts - 1)]

\* What a key stands for: the message of one process about a survey.
Message == [survey : Surveys, text : Texts, process : Processes]

\* PipelineContext, what dispatch and execute keep while a message is being sent,
\* the keys and the buffer (pipeline/context.py:13-30, retry.py:64-90).
TypeOK == /\ context \in [Workers -> Context]
          /\ claimed \in SUBSET Surveys
          /\ messages \in SUBSET Message /\ IsFiniteSet(messages)
          /\ buffer \in Nat
          /\ notified \in [Message -> Nat]
          /\ faults \in [Surveys -> 0..MaxFaults]

Init == /\ context = [w \in Workers |-> NewContext]
        /\ claimed = {} /\ messages = {}
        /\ buffer = 0
        /\ notified = [m \in Message |-> 0]
        /\ faults = [s \in Surveys |-> 0]

-------------------------------------------------------------------------------
At(w, stage) == context[w].stage = stage

GoTo(w, stage) == context' = [context EXCEPT ![w].stage = stage]

AddError(w, error, stage) ==
    context' = [context EXCEPT ![w].stage = stage, ![w].errors = @ \cup {error}]

\* The later steps work on an eligible survey only.
Eligible(w) == context[w].survey # None /\ context[w].status = "ELIGIBLE"

\* The first survey the adapter has, none, or an exception.
FetchStep(w) ==
    /\ At(w, "fetch")
    /\ \/ \E s \in Surveys : context' = [context EXCEPT ![w].stage = "normalize", ![w].raw = s]
       \/ GoTo(w, "normalize")
       \/ AddError(w, "fetch", "normalize")
    /\ UNCHANGED <<claimed, messages, buffer, notified, faults>>

NormalizeStep(w) ==
    /\ At(w, "normalize")
    /\ \/ /\ context[w].raw # None
          /\ context' = [context EXCEPT ![w].stage = "filter", ![w].survey = context[w].raw]
       \/ AddError(w, "normalize", "filter")   \* no payload, or an invalid one
    /\ UNCHANGED <<claimed, messages, buffer, notified, faults>>

FilterStep(w) ==
    /\ At(w, "filter")
    /\ \/ /\ context[w].survey # None
          /\ \E status \in {"ELIGIBLE", "other"} :
               context' = [context EXCEPT ![w].stage = "idempotency", ![w].status = status]
       \/ AddError(w, "filter", "idempotency")  \* no survey, no profile
    /\ UNCHANGED <<claimed, messages, buffer, notified, faults>>

\* Mutant: the context keeps a survey that is a duplicate.
MutSkip(w) == context' = [context EXCEPT ![w].stage = "buffer"]

Skip(w) == context' = [context EXCEPT ![w].stage = "buffer", ![w].survey = None,
                                      ![w].duplicate = TRUE]

\* The gate's errors are passed over: "idempotency is best-effort".
IdempotencyStep(w) ==
    LET s == context[w].survey IN
    /\ At(w, "idempotency")
    /\ \/ /\ ~Eligible(w)
          /\ GoTo(w, "buffer")
          /\ UNCHANGED <<claimed, faults>>
       \/ /\ Eligible(w) /\ s \in claimed
          /\ Skip(w)
          /\ UNCHANGED <<claimed, faults>>
       \/ /\ Eligible(w) /\ s \notin claimed
          /\ claimed' = claimed \cup {s}
          /\ GoTo(w, "buffer")
          /\ UNCHANGED faults
       \/ /\ Eligible(w) /\ faults[s] < MaxFaults
          /\ claimed' \in {claimed, claimed \cup {s}}
          /\ faults' = [faults EXCEPT ![s] = @ + 1]
          /\ GoTo(w, "buffer")
    /\ UNCHANGED <<messages, buffer, notified>>

\* Mutant: a buffer that is exactly full takes one more.
MutHasRoom == buffer <= MaxSize

HasRoom == buffer < MaxSize

\* push: first LLEN ...
BufferStep(w) ==
    /\ At(w, "buffer")
    /\ \/ ~Eligible(w) /\ GoTo(w, "dispatch")
       \/ Eligible(w) /\ HasRoom /\ GoTo(w, "push")
       \/ Eligible(w) /\ AddError(w, "buffer", "dispatch")  \* full, or Redis fails
    /\ UNCHANGED <<claimed, messages, buffer, notified, faults>>

\* ... then LPUSH.
Push(w) ==
    /\ At(w, "push")
    /\ \/ buffer' = buffer + 1 /\ GoTo(w, "dispatch")
       \/ UNCHANGED buffer /\ AddError(w, "buffer", "dispatch")
    /\ UNCHANGED <<claimed, messages, notified, faults>>

MayPop == buffer > 0

\* A consumer of the buffer takes an event; from an empty one it gets none.
Pop == /\ MayPop
       /\ buffer' = buffer - 1
       /\ UNCHANGED <<context, claimed, messages, notified, faults>>

MessageOf(w, text) == [survey |-> context[w].survey, text |-> text, process |-> ProcessOf[w]]

\* Mutant: a dispatch that answers DUPLICATE is none the pipeline minds.
MutNotDelivered(w) == GoTo(w, "dlq")

NotDelivered(w) == AddError(w, "dispatch", "dlq")

\* dispatch up to its first await: its own gate, which may raise.
DispatchStep(w) ==
    /\ At(w, "dispatch")
    /\ \/ ~Eligible(w) /\ GoTo(w, "dlq") /\ UNCHANGED messages
       \/ \E text \in Texts :
            LET message == MessageOf(w, text) IN
            /\ Eligible(w)
            /\ \/ message \in messages /\ NotDelivered(w) /\ UNCHANGED messages
               \/ /\ message \notin messages
                  /\ messages' = messages \cup {message}
                  /\ context' = [context EXCEPT ![w].stage = "sending", ![w].text = text]
               \/ /\ messages' \in {messages, messages \cup {message}}
                  /\ AddError(w, "dispatch", "dlq")
    /\ UNCHANGED <<claimed, buffer, notified, faults>>

\* Mutant: one attempt too many.
MutMayRetry(attempt, verdict) == attempt <= MaxAttempts /\ verdict = "transient"

\* should_retry: no ValueError (which an undecodable body is), no 403.
MayRetry(attempt, verdict) == attempt < MaxAttempts /\ verdict = "transient"

\* dispatch returns: its local variables are gone.
Over(w) == [context[w] EXCEPT !.stage = "dlq", !.text = None, !.attempt = 0]

Sends(w) == MessageOf(w, context[w].text)

\* An attempt: Telegram accepts the message or not, and the process learns of
\* it or not; a timeout, a broken connection or an error page of a proxy says
\* nothing about it.  When should_retry has it, the loop posts it again.
Post(w) ==
    /\ At(w, "sending")
    /\ \E accepted \in BOOLEAN, verdict \in {"ok", "transient", "fatal"} :
         /\ verdict = "ok" => accepted
         /\ notified' = IF accepted THEN [notified EXCEPT ![Sends(w)] = @ + 1] ELSE notified
         /\ \/ /\ verdict = "ok"
               /\ context' = [context EXCEPT ![w] = [Over(w) EXCEPT !.delivered = TRUE]]
            \/ /\ verdict # "ok" /\ MayRetry(context[w].attempt + 1, verdict)
               /\ context' = [context EXCEPT ![w].attempt = @ + 1]
            \/ /\ verdict # "ok" /\ ~MayRetry(context[w].attempt + 1, verdict)
               /\ context' = [context EXCEPT ![w] = [Over(w) EXCEPT !.errors = @ \cup {"dispatch"}]]
    /\ UNCHANGED <<claimed, messages, buffer, faults>>

\* StoreErrors: a context with errors that was not delivered goes to
\* DLQStorage.store, where json.dumps raises for the datetime of failed_at;
\* the step logs that, and the rest of the errors are not tried.
DLQStep(w) == /\ At(w, "dlq")
              /\ GoTo(w, "done")
              /\ UNCHANGED <<claimed, messages, buffer, notified, faults>>

\* The worker takes up the next context.
Again(w) == /\ At(w, "done")
            /\ context' = [context EXCEPT ![w] = NewContext]
            /\ UNCHANGED <<claimed, messages, buffer, notified, faults>>

Execute(w) == \/ FetchStep(w) \/ NormalizeStep(w) \/ FilterStep(w) \/ IdempotencyStep(w)
              \/ BufferStep(w) \/ Push(w) \/ DispatchStep(w) \/ Post(w) \/ DLQStep(w)

Next == (\E w \in Workers : Execute(w) \/ Again(w)) \/ Pop

Spec == Init /\ [][Next]_vars

-------------------------------------------------------------------------------
Pushing    == {w \in Workers : At(w, "push")}
Waiting(s) == {w \in Workers : /\ context[w].stage \in {"buffer", "push", "dispatch"}
                               /\ Eligible(w) /\ context[w].survey = s}
Keys(s)    == {m \in messages : m.survey = s}

\* push looks at the length and pushes in two commands: the buffer may exceed
\* max_size, but by less than the number of workers (buffer/queue.py:27-33).
BufferBound == buffer + Cardinality(Pushing) <= MaxSize + Cardinality(Workers) - 1

\* Every context past the gate that has not come to its dispatch holds the claim
\* of its survey or one of its faults, and so does every message key there is
\* (steps.py:167-185, dispatcher.py:47-53).
KeysAreCounted ==
    \A s \in Surveys : Cardinality(Keys(s)) + Cardinality(Waiting(s))
                         <= faults[s] + (IF s \in claimed THEN 1 ELSE 0)

\* A message is posted by the one context that made its key, once an attempt
\* (dispatcher.py:47-60, retry.py:64-91).
PostsAreCounted ==
    /\ \A m \in Message : /\ notified[m] <= MaxAttempts
                          /\ m \notin messages => notified[m] = 0
    /\ \A w \in Workers : At(w, "sending") =>
         /\ Sends(w) \in messages
         /\ notified[Sends(w)] <= context[w].attempt
         /\ \A v \in Workers \ {w} : At(v, "sending") => Sends(v) # Sends(w)

\* What a context with an eligible survey has by the stage it is in: the survey
\* or the mark of a duplicate, and at the end what became of it (steps.py:190-271).
StagesAreKept ==
    \A w \in Workers :
      LET x == context[w] IN
      /\ x.status = "ELIGIBLE" =>
           /\ x.stage \notin {"fetch", "normalize", "filter"}
           /\ x.stage = "idempotency" => Eligible(w)
           /\ x.stage \in {"buffer", "dispatch"} => Eligible(w) \/ x.duplicate
           /\ x.stage \in {"dlq", "done"} => x.duplicate \/ x.delivered \/ x.errors # {}
      /\ x.stage \in {"push", "sending"} => Eligible(w)

\* The pipeline's sizes, the overshoot of its buffer, and what its contexts hold
\* (buffer/queue.py:27-33, steps.py:167-271): what the next two rest on.
Inv == TypeOK /\ BufferBound /\ KeysAreCounted /\ PostsAreCounted /\ StagesAreKept

\* What a best-effort gate and a retry of lost answers come to: of one survey no
\* more different messages arrive than one and one for each context that passed
\* the gate on an error, and each of them at most max_attempts times
\* (steps.py:167-185, dispatcher.py:47-60, retry.py:67-91).
AnnouncementsAreBounded ==
    /\ \A s \in Surveys :
         Cardinality({m \in Message : m.survey = s /\ notified[m] > 0}) <= 1 + faults[s]
    /\ \A m \in Message : notified[m] <= MaxAttempts

\* A context that had an eligible survey of its own ends delivered or with an
\* error: whatever step gave up on it, it did not do so silently
\* (steps.py:190-271).
NothingVanishes ==
    \A w \in Workers : At(w, "done") /\ context[w].status = "ELIGIBLE" =>
        context[w].duplicate \/ context[w].delivered \/ context[w].errors # {}
===============================================================================

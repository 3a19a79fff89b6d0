------------------------------- MODULE Delivery -------------------------------
(***************************************************************************)
(* TelegramDispatcher.dispatch (delivery/dispatcher.py) run by RetryExecutor *)
(* (delivery/retry.py): several dispatches at once in one process, which   *)
(* may be killed and started again.  A dispatch runs without interruption  *)
(* up to an await; the awaits are the post to Telegram and the pause       *)
(* before a retry.  PollService calls dispatch and composes these steps.   *)
(*                                                                         *)
(* Abstracted: a message is named by its survey; the gate's key            *)
(* telegram:{id}:{hash(message)} is [gate, survey, salt], where salt is    *)
(* the process (str hashes are salted per process); check_and_set is one   *)
(* step (IdempotencyGate shows that it behaves as one); pauses have no     *)
(* length, but a day (the TTL) is longer than any dispatch.                *)
(***************************************************************************)
EXTENDS Integers

CONSTANTS Surveys, Jobs,
          MaxAttempts,   \* RetryConfig.max_attempts
          MaxBoots,      \* bound: how often the process is started
          HasBuffer      \* was the dispatcher given a buffer?

ASSUME SurveysAssumption  == Surveys # {}
ASSUME AttemptsAssumption == MaxAttempts \in Nat \ {0}
ASSUME BootsAssumption    == MaxBoots \in Nat \ {0}
ASSUME BufferAssumption   == HasBuffer \in BOOLEAN

VARIABLES keys,       \* the idempotency keys that exist in Redis
          job,        \* the coroutines that dispatch a survey
          notified,   \* ghost: messages Telegram accepted since s was last claimed
          boot        \* which process this is

deliveryVars == <<keys, job, notified, boot>>

Gates    == {"survey", "telegram"}
Verdicts == {"ok", "transient", "fatal"}
Outcomes == {"DELIVERED", "DUPLICATE", "FAILED", "unqueued", "raised",
              "rejected", "seen"}
Key      == [gate : Gates, survey : Surveys, salt : 0..MaxBoots]
Job      == [pc : {"idle", "ready", "posting", "answered", "done"},
             survey : Surveys, attempt : 0..(MaxAttempts - 1),
             verdict : Verdicts, outcome : Outcomes \cup {"none"}]

\* What dispatch and the retry loop keep (dispatcher.py:35-72, retry.py:57-93):
\* in particular no attempt follows the one numbered max_attempts - 1.
DeliveryTypeOK == /\ keys \in SUBSET Key
                  /\ job \in [Jobs -> Job]
                  /\ notified \in [Surveys -> Nat]
                  /\ boot \in 1..MaxBoots

TelegramKey(s) == [gate |-> "telegram", survey |-> s, salt |-> boot]

InFlight(j) == job[j].pc \in {"posting", "answered"}

\* Which DLQItem fields json.dumps can encode: failed_at is a datetime.
DLQItem == [cycle_id |-> "str", source |-> "str", payload_type |-> "str",
            raw_payload |-> "dict", reason |-> "str", failed_at |-> "datetime"]
JsonEncodes(item) == \A f \in DOMAIN item : item[f] # "datetime"

NewJob(s) == [pc |-> "ready", survey |-> s, attempt |-> 0,
              verdict |-> "transient", outcome |-> "none"]

Idle == [j \in Jobs |-> [NewJob(CHOOSE s \in Surveys : TRUE) EXCEPT !.pc = "idle"]]

DeliveryInit == /\ keys = {}
                /\ job = Idle
                /\ notified = [s \in Surveys |-> 0]
                /\ boot = 1

Finish(j, outcome) ==
    job' = [job EXCEPT ![j] = [NewJob(@.survey) EXCEPT !.pc = "done", !.outcome = outcome]]

-------------------------------------------------------------------------------
\* dispatch up to its first await, when the keys ks exist.
DispatchWith(ks, j) ==
    LET s == job[j].survey IN
    /\ keys' = ks \cup {TelegramKey(s)}
    /\ IF TelegramKey(s) \in ks THEN Finish(j, "DUPLICATE")
       ELSE job' = [job EXCEPT ![j].pc = "posting"]

\* Redis raises in the gate, and the SET may have been executed.
DispatchGateRaises(ks, j) ==
    /\ keys' \in {ks, ks \cup {TelegramKey(job[j].survey)}}
    /\ Finish(j, "raised")

\* The ghost count of a survey starts anew when the key k that guards it is
\* taken or found missing.
CountFrom(k) == notified' = IF k \in keys THEN notified
                            ELSE [notified EXCEPT ![k.survey] = 0]

\* The post: Telegram accepts the message or not, and the process learns of
\* it or not.  A 2xx answer means the message was accepted; a timeout, a
\* broken connection or an error page of a proxy says nothing about it.
Post(j) ==
    /\ job[j].pc = "posting"
    /\ \E accepted \in BOOLEAN, v \in Verdicts :
         /\ v = "ok" => accepted
         /\ job' = [job EXCEPT ![j].pc = "answered", ![j].verdict = v]
         /\ notified' = IF accepted THEN [notified EXCEPT ![job[j].survey] = @ + 1]
                        ELSE notified
    /\ UNCHANGED <<keys, boot>>

\* Mutant: one attempt too many.
MutShouldRetryOneMore(attempt, v) == attempt <= MaxAttempts /\ v # "fatal"

\* should_retry: no ValueError (which an undecodable body is), no 403.
ShouldRetry(attempt, v) == attempt < MaxAttempts /\ v # "fatal"

\* Mutant: an error page is taken for an answer, the job for delivered.
MutSucceeded(v) == v # "fatal"

Succeeded(v) == v = "ok"

\* The failed dispatch: _push_to_dlq raises when json.dumps does, and that
\* leaves dispatch ("unqueued"); without a buffer dispatch returns FAILED.
FailureOutcome == IF HasBuffer /\ ~JsonEncodes(DLQItem) THEN "unqueued" ELSE "FAILED"

HandleReply(j) ==
    /\ job[j].pc = "answered"
    /\ LET attempt == job[j].attempt + 1 IN
       \/ /\ Succeeded(job[j].verdict)
          /\ Finish(j, "DELIVERED")
       \/ /\ ~Succeeded(job[j].verdict)
          /\ ShouldRetry(attempt, job[j].verdict)
          /\ job' = [job EXCEPT ![j].pc = "posting", ![j].attempt = attempt]
       \/ /\ ~Succeeded(job[j].verdict)
          /\ ~ShouldRetry(attempt, job[j].verdict)
          /\ Finish(j, FailureOutcome)
    /\ UNCHANGED <<keys, notified, boot>>

\* A key expires a day after it was set: never during the dispatch it guards.
Guards(k, j) == InFlight(j) /\ k.survey = job[j].survey /\ k.salt \in {0, boot}

Expire(k) == /\ ~\E j \in Jobs : Guards(k, j)
             /\ keys' = keys \ {k}
             /\ UNCHANGED <<job, notified, boot>>

\* The process dies, at any point, and is started again; Redis stays.
Reboot == /\ boot < MaxBoots
          /\ boot' = boot + 1
          /\ job' = Idle
          /\ UNCHANGED <<keys, notified>>

-------------------------------------------------------------------------------
\* However dispatches overlap, at most one is sending a given message: the
\* gate of dispatcher.py:50 admits one until its key expires.
OneDispatch == \A i, j \in Jobs :
                 InFlight(i) /\ InFlight(j) /\ i # j => job[i].survey # job[j].survey

\* Retries included, a claimed survey is sent at most max_attempts times
\* (retry.py:36-48 with the gate of dispatcher.py:50).
NotifiedBound == \A s \in Surveys : notified[s] <= MaxAttempts

\* While a survey is in flight, Telegram has accepted at most one message for
\* each post made: the inductive form of NotifiedBound.
SendsAreCounted ==
    \A j \in Jobs : InFlight(j) =>
      notified[job[j].survey] <= job[j].attempt + (IF job[j].pc = "answered" THEN 1 ELSE 0)

\* DELIVERED is never reported of a message Telegram did not accept
\* (dispatcher.py:57-63).
DeliveredWasSent ==
    [][\A j \in Jobs : job[j].outcome # "DELIVERED" /\ job'[j].outcome = "DELIVERED"
                          => notified[job[j].survey] >= 1]_deliveryVars
===============================================================================

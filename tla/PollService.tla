------------------------------ MODULE PollService -----------------------------
(***************************************************************************)
(* The service: the scheduler of bootstrap/app.py runs poll cycles, each   *)
(* cycle runs one PipelineOrchestrator (pipeline/orchestrator.py) after    *)
(* another, each orchestrator fetches a batch of surveys and processes     *)
(* them concurrently, down to the dispatcher of Delivery.  Two cycles can  *)
(* run at once: the one started with the process is not the scheduled      *)
(* job, and only the scheduled job is limited to one instance.             *)
(*                                                                         *)
(* One process, one event loop: code between two awaits is one step.  The  *)
(* awaits are the fetch, the gather, and those of Delivery.  Screening     *)
(* (normalize, filter) is pure; here it lets a survey pass or not.         *)
(***************************************************************************)
EXTENDS Delivery, FiniteSets, FiniteSetsExt

CONSTANTS NumSources,   \* sources in settings.POLL_SOURCES
          SourceOf,     \* the source that offers a survey
          MaxBatch      \* bound: surveys in one answer of a source

Cycles  == {"startup", "scheduled"}
Sources == 1..NumSources

ASSUME SourcesAssumption == /\ NumSources \in Nat /\ MaxBatch \in Nat
                            /\ SourceOf \in [Surveys -> Sources]
\* A cycle's tasks: one for each survey of the batch it is processing.
ASSUME JobsAssumption == Jobs = Cycles \X (1..MaxBatch)

VARIABLES cycle,     \* the poll cycles: what each has left to do and its summary
          last,      \* _last_cycle: what /cycle/status answers
          started,   \* has this process run its startup cycle?
          dlq        \* surveys in the dead letter store

serviceVars == <<cycle, last, started, dlq>>
vars == <<keys, job, notified, boot, cycle, last, started, dlq>>

Counters == {"fetched", "delivered", "rejected", "duplicates", "errors"}
NoCount  == [x \in Counters |-> 0]
NoCycle  == [pc |-> "idle", todo |-> {}, sum |-> NoCount]

CycleRecord == [pc : {"idle", "fetching", "processing"},
                todo : SUBSET Sources, sum : [Counters -> Nat]]
Status == [by : Cycles \cup {"none"}, sum : [Counters -> Nat],
           status : {"idle", "active", "completed", "failed"}]

\* The states of app.py's and orchestrator.py's variables, with the
\* dispatcher's.
TypeOK == /\ DeliveryTypeOK
          /\ cycle \in [Cycles -> CycleRecord]
          /\ last \in Status
          /\ started \in BOOLEAN
          /\ dlq \in SUBSET Surveys

Running(c)   == cycle[c].pc # "idle"
SurveyKey(s) == [gate |-> "survey", survey |-> s, salt |-> 0]

Init == /\ DeliveryInit
        /\ cycle = [c \in Cycles |-> NoCycle]
        /\ last = [by |-> "none", status |-> "idle", sum |-> NoCount]
        /\ started = FALSE
        /\ dlq = {}

-------------------------------------------------------------------------------
(* The cycle: app.py, and PipelineOrchestrator.run.                        *)

\* Mutant: the status is left as it was.
MutCompleted(st, sum) == [st EXCEPT !.sum = sum]

Completed(st, sum) == [st EXCEPT !.status = "completed", !.sum = sum]

\* Cycle c goes on with the sources todo: it awaits the next fetch, or, with
\* none left, completes.  cycle_id stays that of whichever cycle began last.
Continue(c, st, todo, sum) ==
    IF todo = {}
    THEN /\ cycle' = [cycle EXCEPT ![c] = NoCycle]
         /\ last' = Completed(st, sum)
    ELSE /\ cycle' = [cycle EXCEPT ![c] = [pc |-> "fetching", todo |-> todo, sum |-> sum]]
         /\ last' = st

\* The scheduler skips the scheduled job while it runs (max_instances=1); the
\* startup task is created once per process.
MayBegin(c) == ~Running(c) /\ (c = "startup" => ~started)

\* build_pipeline leaves out the sources whose orchestrator it cannot build;
\* an exception outside that loop fails the cycle.
Begin(c) ==
    /\ MayBegin(c)
    /\ \/ \E todo \in SUBSET Sources :
            Continue(c, [by |-> c, status |-> "active", sum |-> NoCount], todo, NoCount)
       \/ /\ last' = [by |-> c, status |-> "failed", sum |-> NoCount]
          /\ UNCHANGED cycle
    /\ started' = (started \/ c = "startup")
    /\ UNCHANGED <<deliveryVars, dlq>>

Source(c)    == Min(cycle[c].todo)
Remaining(c) == cycle[c].todo \ {Source(c)}
Task(c, i)   == <<c, i>>

\* The source answers with no survey, or the adapter raises.
FetchNothing(c) ==
    /\ cycle[c].pc = "fetching"
    /\ \E failed \in {0, 1} :
         Continue(c, last, Remaining(c), [cycle[c].sum EXCEPT !["errors"] = @ + failed])
    /\ UNCHANGED <<deliveryVars, started, dlq>>

\* The source answers with a batch, in which a survey may be listed twice.
FetchBatch(c) ==
    /\ cycle[c].pc = "fetching"
    /\ \E n \in 1..MaxBatch :
       \E batch \in [1..n -> {s \in Surveys : SourceOf[s] = Source(c)}] :
         /\ job' = [j \in Jobs |-> IF j[1] = c /\ j[2] <= n THEN NewJob(batch[j[2]])
                                   ELSE job[j]]
         /\ cycle' = [cycle EXCEPT ![c].pc = "processing", ![c].sum["fetched"] = @ + n]
    /\ UNCHANGED <<keys, notified, boot, last, started, dlq>>

TasksOf(c) == {j \in Jobs : j[1] = c /\ job[j].pc # "idle"}

\* Mutant: a task that ended in an error is waited for.
MutEndedWell(j) == job[j].pc = "done" /\ job[j].outcome # "unqueued"

Ended(j) == job[j].pc = "done"

Errors == {"DUPLICATE", "FAILED", "unqueued", "raised"}

\* Mutant: a dispatch that answers DUPLICATE is counted nowhere.
MutHeading(x) == CASE x = "delivered"  -> {"DELIVERED"}
                   [] x = "rejected"   -> {"rejected"}
                   [] x = "duplicates" -> {"seen"}
                   [] x = "errors"     -> {"FAILED", "unqueued", "raised"}
                   [] OTHER            -> {}

\* The outcomes that run counts under x.
Heading(x) == CASE x = "delivered"  -> {"DELIVERED"}
                [] x = "rejected"   -> {"rejected"}
                [] x = "duplicates" -> {"seen"}
                [] x = "errors"     -> Errors
                [] OTHER            -> {}

Tally(c) == [x \in Counters |-> cycle[c].sum[x] +
               Cardinality({j \in TasksOf(c) : job[j].outcome \in Heading(x)})]

\* gather returns when every task of the batch has ended.
Gather(c) ==
    /\ cycle[c].pc = "processing"
    /\ \A j \in TasksOf(c) : Ended(j)
    /\ Continue(c, last, Remaining(c), Tally(c))
    /\ job' = [j \in Jobs |-> IF j[1] = c THEN Idle[j] ELSE job[j]]
    /\ UNCHANGED <<keys, notified, boot, started, dlq>>

-------------------------------------------------------------------------------
(* One survey: PipelineOrchestrator._process_one.                          *)

Screened(j) == /\ Finish(j, "rejected")
               /\ UNCHANGED <<keys, notified>>

\* Mutants: the orchestrator leaves the gate to the dispatcher; the keys are
\* set once the message is sent, not before.
MutSurveyGateSkipped(j) == /\ DispatchWith(keys, j)
                           /\ CountFrom(TelegramKey(job[j].survey))
MutSurveyGateLate(j) ==
    /\ IF SurveyKey(job[j].survey) \in keys THEN Finish(j, "seen")
       ELSE job' = [job EXCEPT ![j].pc = "posting"]
    /\ CountFrom(SurveyKey(job[j].survey))
    /\ UNCHANGED keys

SurveyGate(j) ==
    LET key == SurveyKey(job[j].survey) IN
    /\ IF key \in keys
       THEN Finish(j, "seen") /\ UNCHANGED keys
       ELSE DispatchWith(keys \cup {key}, j) \/ DispatchGateRaises(keys \cup {key}, j)
    /\ CountFrom(key)

SurveyGateRaises(j) ==
    LET key == SurveyKey(job[j].survey) IN
    /\ keys' \in {keys, keys \cup {key}}
    /\ Finish(j, "raised")
    /\ CountFrom(key)

\* DLQStorage.store: one letter more, unless json.dumps raises.
Stored(letters, s) == IF JsonEncodes(DLQItem) THEN letters \cup {s} ELSE letters

\* _to_dlq for every task that ends in an error; that store raised is logged.
ToDLQ(j) == dlq' = IF job'[j].outcome \in Errors THEN Stored(dlq, job[j].survey) ELSE dlq

ProcessOne(j) ==
    /\ job[j].pc = "ready"
    /\ Screened(j) \/ SurveyGate(j) \/ SurveyGateRaises(j)
    /\ ToDLQ(j)
    /\ UNCHANGED <<boot, cycle, last, started>>

Send(j)  == Post(j) /\ UNCHANGED serviceVars
Reply(j) == HandleReply(j) /\ ToDLQ(j) /\ UNCHANGED <<cycle, last, started>>

-------------------------------------------------------------------------------
\* Docker restarts the process; what it had in memory is gone.
Restart == /\ Reboot
           /\ cycle' = [c \in Cycles |-> NoCycle]
           /\ last' = [by |-> "none", status |-> "idle", sum |-> NoCount]
           /\ started' = FALSE
           /\ UNCHANGED dlq

KeyExpires == (\E k \in keys : Expire(k)) /\ UNCHANGED serviceVars

Step(c)    == FetchNothing(c) \/ FetchBatch(c) \/ Gather(c)
TaskStep(j) == ProcessOne(j) \/ Send(j) \/ Reply(j)

Next == \/ \E c \in Cycles : Begin(c) \/ Step(c)
        \/ \E j \in Jobs : TaskStep(j)
        \/ KeyExpires
        \/ Restart

Spec == Init /\ [][Next]_vars

\* The event loop runs every coroutine that is ready, and every await of a
\* cycle ends: httpx has timeouts and the pauses are finite.
Fairness == /\ \A c \in Cycles : WF_vars(Step(c))
            /\ \A j \in Jobs : WF_vars(TaskStep(j))

FairSpec == Spec /\ Fairness

-------------------------------------------------------------------------------
\* A survey in flight is claimed: no other cycle, of this process or the next,
\* can take it (orchestrator.py:156-164).
InFlightIsClaimed ==
    \A j \in Jobs : InFlight(j) => SurveyKey(job[j].survey) \in keys

\* One dispatch at a time of a claimed survey, and max_attempts messages of it,
\* whatever cycles and processes overlap (retry.py:36-48 behind the gate of
\* orchestrator.py:155-168).  The bound of the
\* messages rests on the other three.
Inv == TypeOK /\ InFlightIsClaimed /\ OneDispatch /\ SendsAreCounted /\ NotifiedBound

\* The chat sees of a survey what the ledger allows: messages only while the
\* survey is claimed, at most max_attempts of them for a claim, and no second
\* claim before the first has expired; overlapping cycles, retries, Redis
\* errors and restarts included.
Ledger == INSTANCE NotificationLedger WITH
            claimed <- {s \in Surveys : SurveyKey(s) \in keys},
            sent    <- [s \in Surveys |-> IF SurveyKey(s) \in keys THEN notified[s] ELSE 0]

KeepsLedger == Ledger!Spec

\* A summary of all the surveys fetched but for those of n tasks; what exceeds
\* them are failed fetches, at most one for each source but the k still to do.
AddsUp(sum, n, k) ==
    LET t == sum.delivered + sum.rejected + sum.duplicates + sum.errors + n
    IN  sum.fetched <= t /\ t <= sum.fetched + NumSources - k

\* Every survey fetched is accounted for once, under one heading, in the
\* summary of a completed cycle; in a cycle that runs, under a heading or as one
\* of its tasks (orchestrator.py:79-119, app.py:46-52).
ReportAddsUp ==
    /\ last.status = "completed" => AddsUp(last.sum, 0, 0)
    /\ \A c \in Cycles :
         AddsUp(cycle[c].sum, Cardinality(TasksOf(c)), Cardinality(cycle[c].todo))

\* /cycle/status never says active of a cycle that is over, whichever cycles
\* overlap, fail or are cut short (app.py:29-62).
ActiveIsRunning == last.status = "active" => last.by # "none" /\ Running(last.by)

\* Every cycle ends, whatever Telegram, Redis and the sources answer.
CyclesEnd == \A c \in Cycles : Running(c) ~> ~Running(c)
===============================================================================

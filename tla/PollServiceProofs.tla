--------------------------- MODULE PollServiceProofs --------------------------
(***************************************************************************)
(* For any surveys, sources, batch size, number of attempts and number of  *)
(* restarts: the service is type correct, never has two dispatches of one  *)
(* survey in flight, never exceeds max_attempts messages for a claim,      *)
(* implements NotificationLedger, reports DELIVERED only of what Telegram  *)
(* accepted, and accounts in its summaries for every survey it fetched.    *)
(***************************************************************************)
EXTENDS PollService, FiniteSetTheorems, WellFoundedInduction, TLAPS

-------------------------------------------------------------------------------
(* What a task can become.                                                 *)

\* A new task, an idle one and a finished one are tasks, and not in flight.
LEMMA NewJobType ==
  /\ \A s \in Surveys : NewJob(s) \in Job /\ NewJob(s).pc = "ready"
                          /\ NewJob(s).outcome = "none"
  /\ Idle \in [Jobs -> Job]
  /\ \A j \in Jobs : Idle[j].pc = "idle" /\ Idle[j].outcome = "none"
<1>1. 0 \in 0..(MaxAttempts - 1)
      BY AttemptsAssumption
<1>2. (CHOOSE s \in Surveys : TRUE) \in Surveys
      BY SurveysAssumption
<1> QED BY <1>1, <1>2 DEF NewJob, Idle, Job, Verdicts

\* Finish ends task j and touches no other.
LEMMA FinishType ==
  ASSUME DeliveryTypeOK, NEW j \in Jobs, NEW o \in Outcomes, Finish(j, o)
  PROVE  /\ job' \in [Jobs -> Job]
         /\ job'[j].pc = "done" /\ job'[j].outcome = o
         /\ \A i \in Jobs \ {j} : job'[i] = job[i]
<1> DEFINE r == [NewJob(job[j].survey) EXCEPT !.pc = "done", !.outcome = o]
<1>1. 0 \in 0..(MaxAttempts - 1)
      BY AttemptsAssumption
<1>2. job[j].survey \in Surveys
      BY DEF DeliveryTypeOK, Job
<1>3. r \in Job /\ r.pc = "done" /\ r.outcome = o
      BY <1>1, <1>2 DEF NewJob, Job, Verdicts
<1>4. job' = [job EXCEPT ![j] = r]
      BY DEF Finish
<1> HIDE DEF r
<1> QED BY <1>3, <1>4 DEF DeliveryTypeOK

\* dispatch's first part sends task j off or ends it.
LEMMA DispatchType ==
  ASSUME DeliveryTypeOK, NEW j \in Jobs, job[j].pc = "ready",
         NEW ks \in SUBSET Key,
         DispatchWith(ks, j) \/ DispatchGateRaises(ks, j)
  PROVE  /\ job' \in [Jobs -> Job]
         /\ \A i \in Jobs \ {j} : job'[i] = job[i]
         /\ \/ job'[j].pc = "done"
            \/ job'[j].pc = "posting" /\ job'[j].survey = job[j].survey
         /\ \/ job'[j].outcome \in {"DUPLICATE", "raised"}
            \/ job'[j].outcome = job[j].outcome /\ job'[j].pc = "posting"
         /\ keys' \in {ks, ks \cup {TelegramKey(job[j].survey)}}
         /\ keys' \in SUBSET Key
<1>1. TelegramKey(job[j].survey) \in Key
      BY BootsAssumption DEF DeliveryTypeOK, Job, TelegramKey, Key, Gates
<1>2. keys' \in {ks, ks \cup {TelegramKey(job[j].survey)}}
      BY DEF DispatchWith, DispatchGateRaises
<1>3. CASE Finish(j, "DUPLICATE") \/ Finish(j, "raised")
      BY <1>1, <1>2, <1>3, FinishType DEF Outcomes
<1>4. CASE job' = [job EXCEPT ![j].pc = "posting"]
      BY <1>1, <1>2, <1>4 DEF DeliveryTypeOK, Job
<1> QED BY <1>3, <1>4 DEF DispatchWith, DispatchGateRaises

\* The ghost counts stay counts.
LEMMA CountType ==
  ASSUME DeliveryTypeOK, NEW k \in Key, CountFrom(k)
  PROVE  /\ notified' \in [Surveys -> Nat]
         /\ \A s \in Surveys : notified'[s] \in {notified[s], 0}
         /\ k \in keys => notified' = notified
         /\ \A s \in Surveys \ {k.survey} : notified'[s] = notified[s]
         /\ k \notin keys => notified'[k.survey] = 0
<1>1. k.survey \in Surveys
      BY DEF Key
<1> QED BY <1>1 DEF CountFrom, DeliveryTypeOK

\* The key under which a survey is claimed.
LEMMA SurveyKeyType ==
  /\ \A s \in Surveys : SurveyKey(s) \in Key /\ SurveyKey(s).survey = s
  /\ \A s, t \in Surveys : SurveyKey(s) # TelegramKey(t)
  /\ \A s, t \in Surveys : SurveyKey(s) = SurveyKey(t) => s = t
BY BootsAssumption DEF SurveyKey, TelegramKey, Key, Gates

-------------------------------------------------------------------------------
(* Type correctness.                                                       *)

\* A cycle's tasks are finitely many, so that their number is a number.
LEMMA TallyType == ASSUME NEW c \in Cycles, cycle[c].sum \in [Counters -> Nat]
                   PROVE  Tally(c) \in [Counters -> Nat]
<1>1. IsFiniteSet(Jobs)
  <2>1. IsFiniteSet(Cycles)
    <3>1. Cycles = {"startup"} \cup {"scheduled"}
          BY DEF Cycles
    <3> QED BY <3>1, FS_Singleton, FS_AddElement
  <2>2. IsFiniteSet(1..MaxBatch)
        BY FS_Interval, SourcesAssumption
  <2> QED BY <2>1, <2>2, FS_Product, JobsAssumption
<1>2. \A x : Cardinality({j \in TasksOf(c) : job[j].outcome \in Heading(x)}) \in Nat
      BY <1>1, FS_Subset, FS_CardinalityType DEF TasksOf
<1> QED BY <1>2 DEF Tally

\* Going on with fewer sources, or completing, leaves a cycle a cycle.
LEMMA ContinueType ==
  ASSUME cycle \in [Cycles -> CycleRecord], NEW c \in Cycles, NEW st \in Status,
         NEW todo \in SUBSET Sources, NEW sum \in [Counters -> Nat],
         Continue(c, st, todo, sum)
  PROVE  cycle' \in [Cycles -> CycleRecord] /\ last' \in Status
<1>1. NoCycle \in CycleRecord
      BY DEF NoCycle, CycleRecord, NoCount
<1>2. [pc |-> "fetching", todo |-> todo, sum |-> sum] \in CycleRecord
      BY DEF CycleRecord
<1>3. Completed(st, sum) \in Status
      BY DEF Completed, Status
<1> QED BY <1>1, <1>2, <1>3 DEF Continue

\* Every step keeps the variables in their types.
LEMMA TypeStep == TypeOK /\ [Next]_vars => TypeOK'
<1> SUFFICES ASSUME TypeOK, [Next]_vars PROVE TypeOK'
    OBVIOUS
<1>0. DeliveryTypeOK /\ cycle \in [Cycles -> CycleRecord] /\ last \in Status
      /\ started \in BOOLEAN /\ dlq \in SUBSET Surveys
      BY DEF TypeOK
<1>n. NoCount \in [Counters -> Nat]
      BY DEF NoCount
<1>r. \A c \in Cycles : Remaining(c) \in SUBSET Sources
                        /\ cycle[c].sum \in [Counters -> Nat]
      BY <1>0 DEF Remaining, CycleRecord
<1>1. ASSUME NEW c \in Cycles, Begin(c) PROVE TypeOK'
  <2>1. [by |-> c, status |-> "active", sum |-> NoCount] \in Status
        /\ [by |-> c, status |-> "failed", sum |-> NoCount] \in Status
        BY <1>n DEF Status
  <2>2. cycle' \in [Cycles -> CycleRecord] /\ last' \in Status
        BY <1>0, <1>1, <1>n, <2>1, ContinueType DEF Begin
  <2> QED BY <1>0, <1>1, <2>2 DEF Begin, TypeOK, DeliveryTypeOK, deliveryVars
<1>2. ASSUME NEW c \in Cycles, FetchNothing(c) PROVE TypeOK'
  <2>1. PICK failed \in {0, 1} :
          Continue(c, last, Remaining(c), [cycle[c].sum EXCEPT !["errors"] = @ + failed])
        BY <1>2 DEF FetchNothing
  <2>2. [cycle[c].sum EXCEPT !["errors"] = @ + failed] \in [Counters -> Nat]
        BY <1>r DEF Counters
  <2>3. cycle' \in [Cycles -> CycleRecord] /\ last' \in Status
        BY <1>0, <1>r, <2>1, <2>2, ContinueType
  <2> QED BY <1>0, <1>2, <2>3 DEF FetchNothing, TypeOK, DeliveryTypeOK, deliveryVars
<1>3. ASSUME NEW c \in Cycles, FetchBatch(c) PROVE TypeOK'
  <2>1. PICK n \in 1..MaxBatch :
        \E batch \in [1..n -> {s \in Surveys : SourceOf[s] = Source(c)}] :
          /\ job' = [j \in Jobs |-> IF j[1] = c /\ j[2] <= n THEN NewJob(batch[j[2]])
                                    ELSE job[j]]
          /\ cycle' = [cycle EXCEPT ![c].pc = "processing", ![c].sum["fetched"] = @ + n]
        BY <1>3 DEF FetchBatch
  <2>2. PICK batch \in [1..n -> {s \in Surveys : SourceOf[s] = Source(c)}] :
          /\ job' = [j \in Jobs |-> IF j[1] = c /\ j[2] <= n THEN NewJob(batch[j[2]])
                                    ELSE job[j]]
          /\ cycle' = [cycle EXCEPT ![c].pc = "processing", ![c].sum["fetched"] = @ + n]
        BY <2>1
  <2>3. job' \in [Jobs -> Job]
    <3>1. \A j \in Jobs : j[2] \in 1..MaxBatch
          BY JobsAssumption
    <3>2. \A j \in Jobs : j[2] <= n => batch[j[2]] \in Surveys
          BY <3>1, SourcesAssumption
    <3> QED BY <1>0, <2>2, <3>2, NewJobType DEF DeliveryTypeOK
  <2>4. cycle' \in [Cycles -> CycleRecord]
    <3>1. cycle[c] \in CycleRecord /\ n \in Nat /\ cycle[c].sum["fetched"] \in Nat
          BY <1>0, <2>2, SourcesAssumption DEF CycleRecord, Counters
    <3> DEFINE sum == [cycle[c].sum EXCEPT !["fetched"] = @ + n]
               r   == [cycle[c] EXCEPT !.pc = "processing", !.sum = sum]
    <3>2. sum \in [Counters -> Nat]
      <4>1. cycle[c].sum \in [Counters -> Nat] /\ cycle[c].sum["fetched"] + n \in Nat
            BY <1>r, <3>1
      <4> QED BY <4>1, Zenon
    <3>3. r \in CycleRecord
      <4> HIDE DEF sum
      <4> QED BY <3>1, <3>2 DEF CycleRecord
    <3>4. cycle' = [cycle EXCEPT ![c] = r]
          BY <2>2
    <3> HIDE DEF r
    <3> QED BY <1>0, <3>3, <3>4
  <2> QED BY <1>0, <1>3, <2>3, <2>4 DEF FetchBatch, TypeOK, DeliveryTypeOK
<1>4. ASSUME NEW c \in Cycles, Gather(c) PROVE TypeOK'
  <2>1. cycle' \in [Cycles -> CycleRecord] /\ last' \in Status
        BY <1>0, <1>4, <1>r, TallyType, ContinueType DEF Gather
  <2>2. job' \in [Jobs -> Job]
        BY <1>0, <1>4, NewJobType DEF Gather, DeliveryTypeOK
  <2> QED BY <1>0, <1>4, <2>1, <2>2 DEF Gather, TypeOK, DeliveryTypeOK
<1>5. ASSUME NEW j \in Jobs, ProcessOne(j) PROVE TypeOK'
  <2>0. job[j].survey \in Surveys /\ job[j].pc = "ready"
        BY <1>0, <1>5 DEF ProcessOne, DeliveryTypeOK, Job
  <2>1. job' \in [Jobs -> Job] /\ keys' \in SUBSET Key /\ notified' \in [Surveys -> Nat]
    <3> DEFINE key == SurveyKey(job[j].survey)
    <3>1. key \in Key
          BY <2>0, SurveyKeyType
    <3>2. CASE Screened(j)
          BY <1>0, <3>2, FinishType DEF Screened, Outcomes, DeliveryTypeOK
    <3>3. CASE SurveyGateRaises(j)
      <4>1. CountFrom(key) /\ Finish(j, "raised") /\ keys' \in {keys, keys \cup {key}}
            BY <3>3 DEF SurveyGateRaises
      <4> HIDE DEF key
      <4> QED BY <1>0, <3>1, <4>1, FinishType, CountType DEF Outcomes, DeliveryTypeOK
    <3>4. CASE SurveyGate(j)
      <4>1. CountFrom(key)
            BY <3>4 DEF SurveyGate
      <4>2. \/ Finish(j, "seen") /\ keys' = keys
            \/ DispatchWith(keys \cup {key}, j) \/ DispatchGateRaises(keys \cup {key}, j)
            BY <3>4 DEF SurveyGate
      <4>3. keys \cup {key} \in SUBSET Key
            BY <1>0, <3>1 DEF DeliveryTypeOK
      <4> HIDE DEF key
      <4>4. notified' \in [Surveys -> Nat]
            BY <1>0, <3>1, <4>1, CountType
      <4>5. CASE Finish(j, "seen") /\ keys' = keys
            BY <1>0, <4>4, <4>5, FinishType DEF Outcomes, DeliveryTypeOK
      <4>6. CASE DispatchWith(keys \cup {key}, j) \/ DispatchGateRaises(keys \cup {key}, j)
            BY <1>0, <2>0, <4>3, <4>4, <4>6, DispatchType
      <4> QED BY <4>2, <4>5, <4>6
    <3> QED BY <1>5, <3>2, <3>3, <3>4 DEF ProcessOne
  <2>2. dlq' \in SUBSET Surveys
        BY <1>0, <1>5, <2>0 DEF ProcessOne, ToDLQ, Stored
  <2> QED BY <1>0, <1>5, <2>1, <2>2 DEF ProcessOne, TypeOK, DeliveryTypeOK
<1>6. ASSUME NEW j \in Jobs, Send(j) PROVE TypeOK'
  <2>0. Post(j)
        BY <1>6 DEF Send
  <2>1. job' \in [Jobs -> Job]
    <3>1. PICK v \in Verdicts : job' = [job EXCEPT ![j].pc = "answered", ![j].verdict = v]
          BY <2>0 DEF Post
    <3> QED BY <1>0, <3>1 DEF DeliveryTypeOK, Job
  <2>2. notified' \in [Surveys -> Nat]
    <3>1. notified' = [notified EXCEPT ![job[j].survey] = @ + 1] \/ notified' = notified
          BY <2>0 DEF Post
    <3>2. job[j].survey \in Surveys
          BY <1>0 DEF DeliveryTypeOK, Job
    <3> QED BY <1>0, <3>1, <3>2 DEF DeliveryTypeOK
  <2> QED BY <1>0, <1>6, <2>1, <2>2 DEF Send, Post, serviceVars, TypeOK, DeliveryTypeOK
<1>7. ASSUME NEW j \in Jobs, Reply(j) PROVE TypeOK'
  <2>0. job[j].survey \in Surveys /\ job[j].attempt \in 0..(MaxAttempts - 1)
        BY <1>0 DEF DeliveryTypeOK, Job
  <2>1. job' \in [Jobs -> Job]
    <3>1. CASE Finish(j, "DELIVERED") \/ Finish(j, FailureOutcome)
          BY <1>0, <3>1, FinishType DEF Outcomes, FailureOutcome
    <3>2. CASE /\ ShouldRetry(job[j].attempt + 1, job[j].verdict)
               /\ job' = [job EXCEPT ![j].pc = "posting", ![j].attempt = job[j].attempt + 1]
      <4>1. job[j].attempt + 1 \in 0..(MaxAttempts - 1)
            BY <2>0, <3>2, AttemptsAssumption DEF ShouldRetry
      <4> QED BY <1>0, <3>2, <4>1 DEF DeliveryTypeOK, Job
    <3> QED BY <1>7, <3>1, <3>2 DEF Reply, HandleReply
  <2>2. dlq' \in SUBSET Surveys
        BY <1>0, <1>7, <2>0 DEF Reply, ToDLQ, Stored
  <2> QED BY <1>0, <1>7, <2>1, <2>2 DEF Reply, HandleReply, TypeOK, DeliveryTypeOK
<1>8. CASE KeyExpires
      BY <1>0, <1>8 DEF KeyExpires, Expire, serviceVars, TypeOK, DeliveryTypeOK
<1>9. CASE Restart
  <2>1. NoCycle \in CycleRecord /\ last' \in Status
        BY <1>9, <1>n DEF Restart, NoCycle, CycleRecord, Status
  <2>2. boot' \in 1..MaxBoots
        BY <1>0, <1>9, BootsAssumption DEF Restart, Reboot, DeliveryTypeOK
  <2>3. cycle' \in [Cycles -> CycleRecord] /\ started' \in BOOLEAN
        BY <1>9, <2>1 DEF Restart
  <2>4. job' \in [Jobs -> Job]
        BY <1>9, NewJobType DEF Restart, Reboot
  <2> QED BY <1>0, <1>9, <2>1, <2>2, <2>3, <2>4 DEF Restart, Reboot, TypeOK, DeliveryTypeOK
<1>10. CASE UNCHANGED vars
       BY <1>0, <1>10 DEF vars, TypeOK, DeliveryTypeOK
<1> QED BY <1>1, <1>2, <1>3, <1>4, <1>5, <1>6, <1>7, <1>8, <1>9, <1>10
        DEF Next, Step, TaskStep

\* The service starts in its types.
LEMMA InitType == Init => TypeOK
<1> SUFFICES ASSUME Init PROVE TypeOK
    OBVIOUS
<1>1. NoCycle \in CycleRecord /\ last \in Status
      BY DEF Init, NoCycle, NoCount, CycleRecord, Status
<1>2. cycle \in [Cycles -> CycleRecord] /\ started \in BOOLEAN /\ dlq \in SUBSET Surveys
      BY <1>1 DEF Init
<1>3. job \in [Jobs -> Job] /\ boot \in 1..MaxBoots
      BY NewJobType, BootsAssumption DEF Init, DeliveryInit
<1> QED BY <1>1, <1>2, <1>3 DEF Init, DeliveryInit, TypeOK, DeliveryTypeOK

\* The variables of the service always have their types; no task makes more
\* than max_attempts attempts.
THEOREM TypeCorrect == Spec => []TypeOK
BY InitType, TypeStep, PTL DEF Spec

-------------------------------------------------------------------------------
(* One dispatch of a survey at a time, and max_attempts messages.          *)

\* A step that sends nothing off, counts no message and keeps the keys of the
\* tasks in flight preserves the invariant.
LEMMA QuietStep ==
  ASSUME Inv, TypeOK',
         \A j \in Jobs : InFlight(j)' => /\ InFlight(j) /\ job'[j] = job[j]
                                        /\ SurveyKey(job[j].survey) \in keys',
         \A s \in Surveys : notified'[s] \in {notified[s], 0}
  PROVE  Inv'
<1>0. \A j \in Jobs : /\ job[j].survey \in Surveys
                      /\ job[j].attempt \in Nat
      BY AttemptsAssumption DEF Inv, TypeOK, DeliveryTypeOK, Job
<1>1. InFlightIsClaimed'
      BY DEF InFlightIsClaimed, SurveyKey
<1>2. OneDispatch'
      BY DEF Inv, OneDispatch
<1>3. SendsAreCounted'
      BY <1>0 DEF Inv, SendsAreCounted
<1>4. NotifiedBound'
      BY AttemptsAssumption DEF Inv, NotifiedBound
<1> QED BY <1>1, <1>2, <1>3, <1>4 DEF Inv

\* A key expires only when it guards no task in flight.
LEMMA GuardsSurveyKey ==
  ASSUME NEW j \in Jobs, InFlight(j) PROVE Guards(SurveyKey(job[j].survey), j)
BY DEF Guards, SurveyKey

\* One survey: the claim precedes the dispatch.
LEMMA ProcessOneInv ==
  ASSUME Inv, TypeOK', NEW j \in Jobs, ProcessOne(j) PROVE Inv'
<1> DEFINE s == job[j].survey
           key == SurveyKey(s)
<1>0. /\ DeliveryTypeOK /\ s \in Surveys /\ key \in Key /\ key.survey = s
      /\ job[j].pc = "ready" /\ ~InFlight(j)
      BY SurveyKeyType DEF Inv, TypeOK, DeliveryTypeOK, Job, ProcessOne, InFlight
<1>1. \A i \in Jobs : InFlight(i) => SurveyKey(job[i].survey) \in keys
      BY DEF Inv, InFlightIsClaimed
<1>2. CASE Screened(j)
  <2>1. job'[j].pc = "done" /\ \A i \in Jobs \ {j} : job'[i] = job[i]
        BY <1>0, <1>2, FinishType DEF Screened, Outcomes
  <2>2. keys' = keys /\ notified' = notified
        BY <1>2 DEF Screened
  <2> QED BY <1>1, <2>1, <2>2, QuietStep DEF InFlight
<1>3. CASE SurveyGateRaises(j)
  <2>1. CountFrom(key) /\ Finish(j, "raised") /\ keys \subseteq keys'
        BY <1>3 DEF SurveyGateRaises
  <2> HIDE DEF key
  <2>2. job'[j].pc = "done" /\ \A i \in Jobs \ {j} : job'[i] = job[i]
        BY <1>0, <2>1, FinishType DEF Outcomes
  <2>3. \A t \in Surveys : notified'[t] \in {notified[t], 0}
        BY <1>0, <2>1, CountType
  <2> QED BY <1>1, <2>1, <2>2, <2>3, QuietStep DEF InFlight
<1>4. CASE SurveyGate(j) /\ key \in keys
  <2>1. CountFrom(key) /\ Finish(j, "seen") /\ keys' = keys
        BY <1>4 DEF SurveyGate
  <2> HIDE DEF key
  <2>2. job'[j].pc = "done" /\ \A i \in Jobs \ {j} : job'[i] = job[i]
        BY <1>0, <2>1, FinishType DEF Outcomes
  <2>3. \A t \in Surveys : notified'[t] \in {notified[t], 0}
        BY <1>0, <2>1, CountType
  <2> QED BY <1>1, <2>1, <2>2, <2>3, QuietStep DEF InFlight
<1>5. CASE SurveyGate(j) /\ key \notin keys
  <2>1. /\ CountFrom(key)
        /\ DispatchWith(keys \cup {key}, j) \/ DispatchGateRaises(keys \cup {key}, j)
        BY <1>5 DEF SurveyGate
  <2>2. keys \cup {key} \in SUBSET Key
        BY <1>0 DEF DeliveryTypeOK
  <2>f. \A i \in Jobs : InFlight(i) => job[i].survey # s
        BY <1>1, <1>5
  <2>k. keys \subseteq keys \cup {key} /\ key \in keys \cup {key}
        OBVIOUS
  <2> HIDE DEF key
  <2>3. /\ \A i \in Jobs \ {j} : job'[i] = job[i]
        /\ job'[j].pc = "done" \/ (job'[j].pc = "posting" /\ job'[j].survey = s)
        /\ keys \subseteq keys' /\ key \in keys'
        BY <1>0, <2>1, <2>2, <2>k, DispatchType
  <2>4. /\ \A t \in Surveys : notified'[t] \in {notified[t], 0}
        /\ \A t \in Surveys \ {s} : notified'[t] = notified[t]
        /\ notified'[s] = 0
        BY <1>0, <1>5, <2>1, CountType
  <2>5. CASE job'[j].pc = "done"
        BY <1>1, <2>3, <2>4, <2>5, QuietStep DEF InFlight
  <2>6. CASE job'[j].pc = "posting" /\ job'[j].survey = s
    <3>0. job'[j].attempt \in Nat
          BY AttemptsAssumption DEF TypeOK, DeliveryTypeOK, Job
    <3>1. InFlightIsClaimed'
          BY <1>1, <2>3, <2>6 DEF InFlightIsClaimed, InFlight, SurveyKey, key
    <3>2. OneDispatch'
          BY <2>3, <2>6, <2>f DEF Inv, OneDispatch, InFlight
    <3>3. SendsAreCounted'
      <4> SUFFICES ASSUME NEW i \in Jobs, InFlight(i)'
                   PROVE  (notified[job[i].survey] <= job[i].attempt +
                             (IF job[i].pc = "answered" THEN 1 ELSE 0))'
          BY DEF SendsAreCounted
      <4>1. CASE i = j
            BY <2>4, <2>6, <3>0, <4>1
      <4>2. CASE i # j
        <5>1. job'[i] = job[i] /\ InFlight(i) /\ job[i].survey \in Surveys \ {s}
              BY <1>0, <2>3, <2>f, <4>2 DEF InFlight, DeliveryTypeOK, Job
        <5> QED BY <2>4, <5>1 DEF Inv, SendsAreCounted
      <4> QED BY <4>1, <4>2
    <3>4. NotifiedBound'
          BY <2>4, AttemptsAssumption DEF Inv, NotifiedBound
    <3> QED BY <3>1, <3>2, <3>3, <3>4 DEF Inv
  <2> QED BY <2>3, <2>5, <2>6
<1> QED BY <1>2, <1>3, <1>4, <1>5 DEF ProcessOne

\* One post: at most one message more, and one answer more.
LEMMA SendInv == ASSUME Inv, TypeOK', NEW j \in Jobs, Send(j) PROVE Inv'
<1> DEFINE s == job[j].survey
<1>0. /\ DeliveryTypeOK /\ s \in Surveys /\ job[j].pc = "posting" /\ InFlight(j)
      /\ job[j].attempt \in Nat /\ job[j].attempt + 1 <= MaxAttempts
      /\ notified \in [Surveys -> Nat] /\ MaxAttempts \in Nat
      BY AttemptsAssumption DEF Inv, TypeOK, DeliveryTypeOK, Job, Send, Post, InFlight
<1>1. PICK v \in Verdicts : job' = [job EXCEPT ![j].pc = "answered", ![j].verdict = v]
      BY DEF Send, Post
<1>2. notified' = [notified EXCEPT ![s] = @ + 1] \/ notified' = notified
      BY DEF Send, Post
<1>3. keys' = keys
      BY DEF Send, Post
<1>4. /\ \A i \in Jobs \ {j} : job'[i] = job[i]
      /\ job'[j].pc = "answered" /\ job'[j].survey = s
      /\ job'[j].attempt = job[j].attempt
      BY <1>0, <1>1 DEF DeliveryTypeOK, Job
<1>5. /\ \A t \in Surveys \ {s} : notified'[t] = notified[t]
      /\ notified'[s] <= notified[s] + 1
      BY <1>0, <1>2
<1>6. notified[s] <= job[j].attempt
      BY <1>0 DEF Inv, SendsAreCounted
<1>7. \A i \in Jobs : InFlight(i)' => InFlight(i) /\ job'[i].survey = job[i].survey
      BY <1>0, <1>4 DEF InFlight
<1>8. InFlightIsClaimed'
      BY <1>3, <1>7 DEF Inv, InFlightIsClaimed, SurveyKey
<1>9. OneDispatch'
      BY <1>7 DEF Inv, OneDispatch
<1>10. SendsAreCounted'
  <2> SUFFICES ASSUME NEW i \in Jobs, InFlight(i)'
               PROVE  (notified[job[i].survey] <= job[i].attempt +
                         (IF job[i].pc = "answered" THEN 1 ELSE 0))'
      BY DEF SendsAreCounted
  <2>1. CASE i = j
    <3>1. notified'[s] \in Nat
          BY <1>0 DEF TypeOK, DeliveryTypeOK
    <3> QED BY <1>0, <1>4, <1>5, <1>6, <2>1, <3>1
  <2>2. CASE i # j
    <3>1. InFlight(i) /\ job'[i] = job[i] /\ job[i].survey \in Surveys \ {s}
          BY <1>0, <1>4, <1>7, <2>2 DEF Inv, OneDispatch, DeliveryTypeOK, Job
    <3> QED BY <1>5, <3>1 DEF Inv, SendsAreCounted
  <2> QED BY <2>1, <2>2
<1>11. NotifiedBound'
  <2> SUFFICES ASSUME NEW t \in Surveys PROVE (notified[t] <= MaxAttempts)'
      BY DEF NotifiedBound
  <2>1. notified'[t] \in Nat
        BY DEF TypeOK, DeliveryTypeOK
  <2> QED BY <1>0, <1>5, <1>6, <2>1 DEF Inv, NotifiedBound
<1> QED BY <1>8, <1>9, <1>10, <1>11 DEF Inv

\* One answer: the task ends, or posts again with one attempt more.
LEMMA ReplyInv == ASSUME Inv, TypeOK', NEW j \in Jobs, Reply(j) PROVE Inv'
<1>0. /\ DeliveryTypeOK /\ job[j].pc = "answered" /\ InFlight(j)
      /\ job[j].attempt \in Nat
      /\ keys' = keys /\ notified' = notified
      BY AttemptsAssumption DEF Inv, TypeOK, DeliveryTypeOK, Job, Reply, HandleReply, InFlight
<1>1. CASE Finish(j, "DELIVERED") \/ Finish(j, FailureOutcome)
  <2>1. job'[j].pc = "done" /\ \A i \in Jobs \ {j} : job'[i] = job[i]
        BY <1>0, <1>1, FinishType DEF Outcomes, FailureOutcome
  <2> QED BY <1>0, <2>1, QuietStep DEF InFlight, Inv, InFlightIsClaimed
<1>2. CASE job' = [job EXCEPT ![j].pc = "posting", ![j].attempt = job[j].attempt + 1]
  <2>1. /\ \A i \in Jobs \ {j} : job'[i] = job[i]
        /\ job'[j].pc = "posting" /\ job'[j].survey = job[j].survey
        /\ job'[j].attempt = job[j].attempt + 1
        BY <1>0, <1>2 DEF DeliveryTypeOK, Job
  <2>2. \A i \in Jobs : InFlight(i)' => InFlight(i) /\ job'[i].survey = job[i].survey
        BY <1>0, <2>1 DEF InFlight
  <2>3. InFlightIsClaimed' /\ OneDispatch' /\ NotifiedBound'
        BY <1>0, <2>2 DEF Inv, InFlightIsClaimed, OneDispatch, NotifiedBound, SurveyKey
  <2>4. SendsAreCounted'
        BY <1>0, <2>1, <2>2 DEF Inv, SendsAreCounted
  <2> QED BY <2>3, <2>4 DEF Inv
<1> QED BY <1>1, <1>2 DEF Reply, HandleReply

\* Every step preserves the invariant.
LEMMA InvStep == Inv /\ [Next]_vars => Inv'
<1> SUFFICES ASSUME Inv, [Next]_vars PROVE Inv'
    OBVIOUS
<1>0. TypeOK'
      BY TypeStep DEF Inv
<1>1. \A j \in Jobs : InFlight(j) => SurveyKey(job[j].survey) \in keys
      BY DEF Inv, InFlightIsClaimed
<1>2. ASSUME UNCHANGED <<keys, job, notified>> PROVE Inv'
      BY <1>0, <1>1, <1>2, QuietStep DEF InFlight
<1>3. ASSUME NEW c \in Cycles, Begin(c) \/ FetchNothing(c) PROVE Inv'
      BY <1>2, <1>3 DEF Begin, FetchNothing, deliveryVars
<1>4. ASSUME NEW c \in Cycles, FetchBatch(c) PROVE Inv'
  <2>1. \A j \in Jobs : InFlight(j)' => InFlight(j) /\ job'[j] = job[j]
        BY <1>4 DEF FetchBatch, InFlight, NewJob
  <2> QED BY <1>0, <1>1, <1>4, <2>1, QuietStep DEF FetchBatch
<1>5. ASSUME NEW c \in Cycles, Gather(c) PROVE Inv'
  <2>1. \A j \in Jobs : InFlight(j)' => InFlight(j) /\ job'[j] = job[j]
        BY <1>5, NewJobType DEF Gather, InFlight
  <2> QED BY <1>0, <1>1, <1>5, <2>1, QuietStep DEF Gather
<1>6. ASSUME NEW j \in Jobs, TaskStep(j) PROVE Inv'
      BY <1>0, <1>6, ProcessOneInv, SendInv, ReplyInv DEF TaskStep
<1>7. CASE KeyExpires
  <2>1. PICK k \in keys : Expire(k)
        BY <1>7 DEF KeyExpires
  <2>2. \A j \in Jobs : InFlight(j) => SurveyKey(job[j].survey) \in keys'
        BY <1>1, <2>1, GuardsSurveyKey DEF Expire
  <2> QED BY <1>0, <2>1, <2>2, QuietStep DEF Expire, InFlight
<1>8. CASE Restart
  <2>1. \A j \in Jobs : ~InFlight(j)'
        BY <1>8, NewJobType DEF Restart, Reboot, InFlight
  <2> QED BY <1>0, <1>8, <2>1, QuietStep DEF Restart, Reboot
<1>9. CASE UNCHANGED vars
      BY <1>2, <1>9 DEF vars
<1> QED BY <1>3, <1>4, <1>5, <1>6, <1>7, <1>8, <1>9 DEF Next, Step

\* The invariant holds of the service.
THEOREM Invariant == Spec => []Inv
<1>1. Init => Inv
  <2> SUFFICES ASSUME Init PROVE Inv
      OBVIOUS
  <2>1. TypeOK
        BY InitType
  <2>2. \A j \in Jobs : ~InFlight(j)
        BY NewJobType DEF Init, DeliveryInit, InFlight
  <2>3. NotifiedBound
    <3>1. \A s \in Surveys : notified[s] = 0
          BY DEF Init, DeliveryInit
    <3>2. 0 <= MaxAttempts
          BY AttemptsAssumption
    <3> QED BY <3>1, <3>2, Zenon DEF NotifiedBound
  <2> QED BY <2>1, <2>2, <2>3 DEF Inv, InFlightIsClaimed, OneDispatch, SendsAreCounted
<1> QED BY <1>1, InvStep, PTL DEF Spec

\* No survey is ever being sent by two tasks, of one cycle or of two
\* (orchestrator.py:155-168).
THEOREM OneDispatchAtATime == Spec => []OneDispatch
<1>1. Inv => OneDispatch
      BY DEF Inv
<1> QED BY <1>1, Invariant, PTL

\* A survey in flight is claimed (orchestrator.py:156-164).
THEOREM Claimed == Spec => []InFlightIsClaimed
<1>1. Inv => InFlightIsClaimed
      BY DEF Inv
<1> QED BY <1>1, Invariant, PTL

\* No survey is sent more than max_attempts times for one claim
\* (retry.py:36-48).
THEOREM BoundedNotifications == Spec => []NotifiedBound
<1>1. Inv => NotifiedBound
      BY DEF Inv
<1> QED BY <1>1, Invariant, PTL

-------------------------------------------------------------------------------
(* The service implements NotificationLedger.                              *)

\* The ledger does not see a step that leaves the survey keys, and the counts
\* of the claimed surveys, as they are.
LEMMA LedgerSame ==
  ASSUME \A s \in Surveys : /\ SurveyKey(s) \in keys' <=> SurveyKey(s) \in keys
                            /\ SurveyKey(s) \in keys => notified'[s] = notified[s]
  PROVE  UNCHANGED Ledger!vars
<1>1. \A s \in Surveys : SurveyKey(s)' = SurveyKey(s)
      BY DEF SurveyKey
<1> QED BY <1>1 DEF Ledger!vars

\* Setting a survey's key, with its count at nought, is a claim.
LEMMA LedgerClaim ==
  ASSUME NEW s \in Surveys, SurveyKey(s) \notin keys, SurveyKey(s) \in keys',
         notified'[s] = 0,
         \A t \in Surveys \ {s} : /\ SurveyKey(t) \in keys' <=> SurveyKey(t) \in keys
                                  /\ notified'[t] = notified[t]
  PROVE  Ledger!Claim(s)
<1>1. \A t \in Surveys : SurveyKey(t)' = SurveyKey(t)
      BY DEF SurveyKey
<1> QED BY <1>1 DEF Ledger!Claim

\* Every step is one of the ledger or leaves it as it is.
LEMMA LedgerStep == Inv /\ [Next]_vars => [Ledger!Next]_(Ledger!vars)
<1> SUFFICES ASSUME Inv, [Next]_vars PROVE [Ledger!Next]_(Ledger!vars)
    OBVIOUS
<1>0. DeliveryTypeOK
      BY DEF Inv, TypeOK
<1>1. ASSUME UNCHANGED <<keys, notified>> PROVE UNCHANGED Ledger!vars
      BY <1>1, LedgerSame
<1>2. ASSUME NEW j \in Jobs, ProcessOne(j)
      PROVE  Ledger!Claim(job[j].survey) \/ UNCHANGED Ledger!vars
  <2> DEFINE s == job[j].survey
             key == SurveyKey(s)
  <2>0. s \in Surveys /\ key \in Key /\ key.survey = s /\ job[j].pc = "ready"
        BY <1>0, <1>2, SurveyKeyType DEF DeliveryTypeOK, Job, ProcessOne
  <2>1. CASE Screened(j)
        BY <1>1, <2>1 DEF Screened
  <2>2. CASE ~Screened(j)
    <3>1. CountFrom(key)
          BY <1>2, <2>2 DEF ProcessOne, SurveyGate, SurveyGateRaises
    <3>2. /\ key \in keys => notified' = notified
          /\ key \notin keys => notified'[s] = 0
          /\ \A t \in Surveys \ {s} : notified'[t] = notified[t]
      <4> HIDE DEF key
      <4> QED BY <1>0, <2>0, <3>1, CountType
    <3>3. keys' \in {keys, keys \cup {key}, keys \cup {key} \cup {TelegramKey(s)}}
          /\ (key \in keys => keys' = keys)
      <4>1. CASE SurveyGateRaises(j)
            BY <4>1 DEF SurveyGateRaises
      <4>2. CASE SurveyGate(j)
            BY <4>2 DEF SurveyGate, DispatchWith, DispatchGateRaises
      <4> QED BY <1>2, <2>2, <4>1, <4>2 DEF ProcessOne
    <3>4. \A t \in Surveys \ {s} : SurveyKey(t) \in keys' <=> SurveyKey(t) \in keys
          BY <2>0, <3>3, SurveyKeyType
    <3>5. CASE key \notin keys /\ key \in keys'
          BY <2>0, <3>2, <3>4, <3>5, LedgerClaim
    <3>6. CASE key \in keys \/ key \notin keys'
      <4>1. \A t \in Surveys :
              /\ SurveyKey(t) \in keys' <=> SurveyKey(t) \in keys
              /\ SurveyKey(t) \in keys => notified'[t] = notified[t]
            BY <3>2, <3>3, <3>4, <3>6
      <4> QED BY <4>1, LedgerSame
    <3> QED BY <3>5, <3>6
  <2> QED BY <2>1, <2>2
<1>3. ASSUME NEW j \in Jobs, Send(j)
      PROVE  (\E s \in Surveys : Ledger!Notify(s)) \/ UNCHANGED Ledger!vars
  <2> DEFINE s == job[j].survey
  <2>0. /\ s \in Surveys /\ InFlight(j) /\ job[j].pc = "posting"
        /\ job[j].attempt \in 0..(MaxAttempts - 1) /\ keys' = keys
        BY <1>0, <1>3 DEF DeliveryTypeOK, Job, Send, Post, InFlight
  <2>1. SurveyKey(s) \in keys
        BY <2>0 DEF Inv, InFlightIsClaimed
  <2>2. notified[s] < MaxAttempts
    <3>1. notified[s] <= job[j].attempt
          BY <2>0 DEF Inv, SendsAreCounted
    <3> QED BY <1>0, <2>0, <3>1, AttemptsAssumption DEF DeliveryTypeOK
  <2>3. notified' = [notified EXCEPT ![s] = @ + 1] \/ notified' = notified
        BY <1>3 DEF Send, Post
  <2>4. CASE notified' = [notified EXCEPT ![s] = @ + 1]
    <3>1. \A t \in Surveys : SurveyKey(t)' = SurveyKey(t)
          BY DEF SurveyKey
    <3>2. notified'[s] = notified[s] + 1
          /\ \A t \in Surveys \ {s} : notified'[t] = notified[t]
          BY <1>0, <2>0, <2>4 DEF DeliveryTypeOK
    <3> QED BY <2>0, <2>1, <2>2, <3>1, <3>2 DEF Ledger!Notify
  <2>5. CASE notified' = notified
        BY <1>1, <2>0, <2>5
  <2> QED BY <2>3, <2>4, <2>5
<1>4. ASSUME NEW k \in keys, Expire(k)
      PROVE  (\E s \in Surveys : Ledger!Lapse(s)) \/ UNCHANGED Ledger!vars
  <2>0. keys' = keys \ {k} /\ notified' = notified
        BY <1>4 DEF Expire
  <2>1. CASE \E s \in Surveys : k = SurveyKey(s)
    <3>1. PICK s \in Surveys : k = SurveyKey(s)
          BY <2>1
    <3>2. \A t \in Surveys : SurveyKey(t)' = SurveyKey(t)
          BY DEF SurveyKey
    <3>3. \A t \in Surveys : SurveyKey(t) \in keys' <=> SurveyKey(t) \in keys /\ t # s
          BY <2>0, <3>1, SurveyKeyType
    <3> QED BY <2>0, <3>1, <3>2, <3>3 DEF Ledger!Lapse
  <2>2. CASE ~\E s \in Surveys : k = SurveyKey(s)
        BY <2>0, <2>2, LedgerSame
  <2> QED BY <2>1, <2>2
<1>5. ASSUME \/ \E c \in Cycles : Begin(c) \/ Step(c)
             \/ \E j \in Jobs : Reply(j)
             \/ Restart
             \/ UNCHANGED vars
      PROVE  UNCHANGED Ledger!vars
      BY <1>1, <1>5 DEF Begin, Step, FetchNothing, FetchBatch, Gather, Reply, HandleReply,
                        Restart, Reboot, vars, deliveryVars
<1>6. ASSUME NEW j \in Jobs, TaskStep(j) PROVE [Ledger!Next]_(Ledger!vars)
  <2>1. job[j].survey \in Surveys
        BY <1>0 DEF DeliveryTypeOK, Job
  <2>2. CASE ProcessOne(j)
        BY <1>2, <2>1, <2>2 DEF Ledger!Next
  <2>3. CASE Send(j)
        BY <1>3, <2>3 DEF Ledger!Next
  <2>4. CASE Reply(j)
        BY <1>5, <2>4
  <2> QED BY <1>6, <2>2, <2>3, <2>4 DEF TaskStep
<1>7. CASE KeyExpires
      BY <1>4, <1>7 DEF KeyExpires, Ledger!Next
<1> QED BY <1>5, <1>6, <1>7 DEF Next

\* Whatever overlaps, fails or restarts, the chat sees what the ledger allows.
THEOREM LedgerKept == Spec => KeepsLedger
<1>1. Init => Ledger!Init
      BY DEF Init, DeliveryInit, Ledger!Init
<1> QED BY <1>1, LedgerStep, Invariant, PTL DEF Spec, KeepsLedger, Ledger!Spec

-------------------------------------------------------------------------------
(* DELIVERED is reported of accepted messages only.                        *)

\* A task that has a 2xx answer has had its message accepted, and the count of
\* its survey cannot start anew before the answer is read.
AnswersAreTrue == \A j \in Jobs : job[j].pc = "answered" /\ Succeeded(job[j].verdict)
                                    => notified[job[j].survey] >= 1

\* What one survey's step does to the tasks.
LEMMA ProcessOneTasks ==
  ASSUME TypeOK, NEW j \in Jobs, ProcessOne(j)
  PROVE  /\ \A i \in Jobs \ {j} : job'[i] = job[i]
         /\ job[j].pc = "ready" /\ job'[j].pc \in {"done", "posting"}
         /\ job'[j].pc = "done" => job'[j].outcome \in {"rejected", "seen", "raised", "DUPLICATE"}
         /\ job'[j].pc = "posting" => job'[j].outcome = job[j].outcome
<1> DEFINE key == SurveyKey(job[j].survey)
<1>0. DeliveryTypeOK /\ job[j].survey \in Surveys /\ key \in Key /\ job[j].pc = "ready"
      BY SurveyKeyType DEF TypeOK, DeliveryTypeOK, Job, ProcessOne
<1>1. CASE Finish(j, "rejected") \/ Finish(j, "seen") \/ Finish(j, "raised")
      BY <1>0, <1>1, FinishType DEF Outcomes
<1>2. CASE DispatchWith(keys \cup {key}, j) \/ DispatchGateRaises(keys \cup {key}, j)
  <2>1. keys \cup {key} \in SUBSET Key
        BY <1>0 DEF DeliveryTypeOK
  <2> HIDE DEF key
  <2>2. CASE Finish(j, "DUPLICATE") \/ Finish(j, "raised")
        BY <1>0, <2>2, FinishType DEF Outcomes
  <2>3. CASE job' = [job EXCEPT ![j].pc = "posting"]
        BY <1>0, <2>3 DEF DeliveryTypeOK, Job
  <2> QED BY <1>2, <2>2, <2>3 DEF DispatchWith, DispatchGateRaises
<1> QED BY <1>1, <1>2 DEF ProcessOne, Screened, SurveyGate, SurveyGateRaises

\* What a post does to the tasks and the counts.
LEMMA SendTasks ==
  ASSUME TypeOK, NEW j \in Jobs, Send(j)
  PROVE  /\ \A i \in Jobs \ {j} : job'[i] = job[i]
         /\ job[j].pc = "posting" /\ job'[j].pc = "answered"
         /\ job'[j].outcome = job[j].outcome /\ job'[j].survey = job[j].survey
         /\ \A t \in Surveys : notified'[t] >= notified[t]
         /\ Succeeded(job'[j].verdict) => notified'[job[j].survey] >= 1
<1>0. DeliveryTypeOK /\ job[j] \in Job /\ job[j].survey \in Surveys
      /\ notified \in [Surveys -> Nat] /\ job[j].pc = "posting"
      BY DEF TypeOK, DeliveryTypeOK, Job, Send, Post
<1>1. PICK accepted \in BOOLEAN, v \in Verdicts :
        /\ v = "ok" => accepted
        /\ job' = [job EXCEPT ![j].pc = "answered", ![j].verdict = v]
        /\ notified' = IF accepted THEN [notified EXCEPT ![job[j].survey] = @ + 1]
                       ELSE notified
      BY DEF Send, Post
<1>2. job'[j] = [job[j] EXCEPT !.pc = "answered", !.verdict = v]
      /\ \A i \in Jobs \ {j} : job'[i] = job[i]
      BY <1>0, <1>1 DEF DeliveryTypeOK
<1>3. /\ job'[j].pc = "answered" /\ job'[j].verdict = v
      /\ job'[j].outcome = job[j].outcome /\ job'[j].survey = job[j].survey
      BY <1>0, <1>2 DEF Job
<1>4. CASE accepted
  <2>1. notified' = [notified EXCEPT ![job[j].survey] = @ + 1]
        BY <1>1, <1>4
  <2> QED BY <1>0, <1>2, <1>3, <2>1
<1>5. CASE ~accepted
  <2>1. notified' = notified /\ v # "ok"
        BY <1>1, <1>5
  <2> QED BY <1>0, <1>2, <1>3, <2>1 DEF Succeeded
<1> QED BY <1>4, <1>5

\* What an answer does to the tasks.
LEMMA ReplyTasks ==
  ASSUME TypeOK, NEW j \in Jobs, Reply(j)
  PROVE  /\ \A i \in Jobs \ {j} : job'[i] = job[i]
         /\ job[j].pc = "answered" /\ job'[j].pc \in {"done", "posting"}
         /\ job'[j].pc = "done" => job'[j].outcome \in {"DELIVERED", "FAILED", "unqueued"}
         /\ job'[j].pc = "done" /\ job'[j].outcome = "DELIVERED" => Succeeded(job[j].verdict)
         /\ job'[j].pc = "posting" => job'[j].outcome = job[j].outcome
         /\ notified' = notified
<1>0. DeliveryTypeOK /\ job[j].pc = "answered" /\ notified' = notified
      BY DEF TypeOK, Reply, HandleReply
<1>1. CASE Succeeded(job[j].verdict) /\ Finish(j, "DELIVERED")
      BY <1>0, <1>1, FinishType DEF Outcomes
<1>2. CASE Finish(j, FailureOutcome)
  <2>1. FailureOutcome \in {"FAILED", "unqueued"}
        BY DEF FailureOutcome
  <2> QED BY <1>0, <1>2, <2>1, FinishType DEF Outcomes
<1>3. CASE job' = [job EXCEPT ![j].pc = "posting", ![j].attempt = job[j].attempt + 1]
      BY <1>0, <1>3 DEF DeliveryTypeOK, Job
<1> QED BY <1>1, <1>2, <1>3 DEF Reply, HandleReply

\* The steps of cycles, restarts and expiries start tasks and clear them; they
\* answer none and count nothing.
LEMMA OtherTasks ==
  ASSUME TypeOK,
         \/ \E c \in Cycles : Begin(c) \/ Step(c)
         \/ KeyExpires
         \/ Restart
         \/ UNCHANGED vars
  PROVE  /\ \A j \in Jobs : job'[j] = job[j] \/ (/\ job'[j].pc \in {"ready", "idle"}
                                                 /\ job'[j].outcome = "none")
         /\ notified' = notified
<1>1. ASSUME NEW c \in Cycles, Begin(c) \/ FetchNothing(c)
      PROVE  job' = job /\ notified' = notified
      BY <1>1 DEF Begin, FetchNothing, deliveryVars
<1>2. ASSUME NEW c \in Cycles, FetchBatch(c)
      PROVE  /\ \A j \in Jobs : job'[j] = job[j] \/ (/\ job'[j].pc \in {"ready", "idle"}
                                                     /\ job'[j].outcome = "none")
             /\ notified' = notified
      BY <1>2 DEF FetchBatch, NewJob
<1>3. ASSUME NEW c \in Cycles, Gather(c)
      PROVE  /\ \A j \in Jobs : job'[j] = job[j] \/ (/\ job'[j].pc \in {"ready", "idle"}
                                                     /\ job'[j].outcome = "none")
             /\ notified' = notified
      BY <1>3, NewJobType DEF Gather
<1>4. CASE Restart
      BY <1>4, NewJobType DEF Restart, Reboot
<1>5. CASE KeyExpires \/ UNCHANGED vars
      BY <1>5 DEF KeyExpires, Expire, vars
<1> QED BY <1>1, <1>2, <1>3, <1>4, <1>5 DEF Step

\* A survey's count starts anew only while no task is sending it.
LEMMA AnswersStep == Inv /\ AnswersAreTrue /\ [Next]_vars => AnswersAreTrue'
<1> SUFFICES ASSUME Inv, AnswersAreTrue, [Next]_vars PROVE AnswersAreTrue'
    OBVIOUS
<1>0. /\ TypeOK /\ DeliveryTypeOK
      /\ \A j \in Jobs : job[j].survey \in Surveys
      /\ notified \in [Surveys -> Nat]
      BY DEF Inv, TypeOK, DeliveryTypeOK, Job
<1>1. ASSUME NEW j \in Jobs, ProcessOne(j) PROVE AnswersAreTrue'
  <2> SUFFICES ASSUME NEW i \in Jobs, job'[i].pc = "answered", Succeeded(job'[i].verdict)
               PROVE  notified'[job'[i].survey] >= 1
      BY DEF AnswersAreTrue, Succeeded
  <2>1. i # j /\ job'[i] = job[i]
        BY <1>0, <1>1, ProcessOneTasks
  <2>2. notified[job[i].survey] >= 1 /\ SurveyKey(job[i].survey) \in keys
        BY <2>1 DEF AnswersAreTrue, Inv, InFlightIsClaimed, InFlight
  <2> DEFINE key == SurveyKey(job[j].survey)
  <2>3. notified' = notified \/ CountFrom(key)
        BY <1>1 DEF ProcessOne, Screened, SurveyGate, SurveyGateRaises
  <2>4. key \in Key /\ key.survey = job[j].survey
        BY <1>0, SurveyKeyType
  <2>5. notified'[job[i].survey] = notified[job[i].survey]
    <3>1. key \notin keys => job[i].survey # key.survey
          BY <2>2, <2>4
    <3> HIDE DEF key
    <3> QED BY <1>0, <2>3, <2>4, <3>1, CountType
  <2> QED BY <2>1, <2>2, <2>5
<1>2. ASSUME NEW j \in Jobs, Send(j) PROVE AnswersAreTrue'
  <2> SUFFICES ASSUME NEW i \in Jobs, job'[i].pc = "answered", Succeeded(job'[i].verdict)
               PROVE  notified'[job'[i].survey] >= 1
      BY DEF AnswersAreTrue, Succeeded
  <2>1. CASE i = j
        BY <1>0, <1>2, <2>1, SendTasks
  <2>2. CASE i # j
    <3>1. job'[i] = job[i] /\ notified'[job[i].survey] >= notified[job[i].survey]
          BY <1>0, <1>2, <2>2, SendTasks
    <3>2. notified'[job[i].survey] \in Nat
          BY <1>0, <1>2, TypeStep DEF Next, TaskStep, TypeOK, DeliveryTypeOK
    <3> QED BY <1>0, <3>1, <3>2 DEF AnswersAreTrue
  <2> QED BY <2>1, <2>2
<1>3. ASSUME NEW j \in Jobs, Reply(j) PROVE AnswersAreTrue'
      BY <1>0, <1>3, ReplyTasks DEF AnswersAreTrue, Succeeded
<1>4. CASE \/ \E c \in Cycles : Begin(c) \/ Step(c)
           \/ KeyExpires \/ Restart \/ UNCHANGED vars
      BY <1>0, <1>4, OtherTasks DEF AnswersAreTrue, Succeeded
<1> QED BY <1>1, <1>2, <1>3, <1>4 DEF Next, TaskStep

\* DELIVERED is never reported of a message Telegram did not accept, whatever
\* cycles overlap, keys expire and processes die meanwhile
\* (dispatcher.py:57-63).
THEOREM DeliveriesWereSent == Spec => DeliveredWasSent
<1> DEFINE Was == \A j \in Jobs : job[j].outcome # "DELIVERED" /\ job'[j].outcome = "DELIVERED"
                                    => notified[job[j].survey] >= 1
<1>1. Init => AnswersAreTrue
      BY NewJobType DEF Init, DeliveryInit, AnswersAreTrue
<1>2. Inv /\ AnswersAreTrue /\ [Next]_vars => [Was]_deliveryVars
  <2> SUFFICES ASSUME Inv, AnswersAreTrue, Next, NEW i \in Jobs,
                      job[i].outcome # "DELIVERED", job'[i].outcome = "DELIVERED"
               PROVE  notified[job[i].survey] >= 1
      BY DEF vars, deliveryVars
  <2>0. TypeOK
        BY DEF Inv
  <2>1. ASSUME NEW j \in Jobs, ProcessOne(j) PROVE FALSE
        BY <2>0, <2>1, ProcessOneTasks
  <2>2. ASSUME NEW j \in Jobs, Send(j) PROVE FALSE
        BY <2>0, <2>2, SendTasks
  <2>3. ASSUME NEW j \in Jobs, Reply(j) PROVE notified[job[i].survey] >= 1
        BY <2>0, <2>3, ReplyTasks DEF AnswersAreTrue
  <2>4. CASE \/ \E c \in Cycles : Begin(c) \/ Step(c)
             \/ KeyExpires \/ Restart
        BY <2>0, <2>4, OtherTasks
  <2> QED BY <2>1, <2>2, <2>3, <2>4 DEF Next, TaskStep
<1>3. Spec => []AnswersAreTrue
      BY <1>1, AnswersStep, Invariant, PTL DEF Spec
<1> QED BY <1>2, <1>3, Invariant, PTL DEF Spec, DeliveredWasSent

-------------------------------------------------------------------------------
(* The summaries and the status of the cycles.                             *)

\* A set of naturals that is not empty has a least member.
LEMMA Smallest ==
  ASSUME NEW S, S \subseteq Nat, S # {}
  PROVE  \E x \in S : \A y \in S : x <= y
<1> DEFINE R == {ss \in Nat \X Nat : ss[1] < ss[2]}
<1>1. R = OpToRel(<, Nat)
      BY DEF OpToRel
<1>2. IsWellFoundedOn(R, Nat)
      BY <1>1, NatLessThanWellFounded
<1>3. \E x \in S : \A y \in S : ~ (<<y, x>> \in R)
  <2> HIDE DEF R
  <2> QED BY <1>2, WFMin
<1>4. PICK x \in S : \A y \in S : ~ (<<y, x>> \in R)
      BY <1>3
<1>5. ASSUME NEW y \in S PROVE x <= y
  <2>1. <<y, x>> \notin R /\ x \in Nat /\ y \in Nat
        BY <1>4
  <2>2. <<y, x>> \in R <=> y < x
        BY <2>1
  <2> QED BY <2>1, <2>2
<1> QED BY <1>4, <1>5

Splits(S, A, B, C, D) ==
    /\ S = A \cup B \cup C \cup D
    /\ A \cap B = {} /\ (A \cup B) \cap C = {} /\ (A \cup B \cup C) \cap D = {}

\* Four headings that share nothing and leave nothing out count every element.
LEMMA Headings ==
  ASSUME NEW S, IsFiniteSet(S), NEW A, NEW B, NEW C, NEW D, Splits(S, A, B, C, D)
  PROVE  /\ Cardinality(A) \in Nat /\ Cardinality(B) \in Nat
         /\ Cardinality(C) \in Nat /\ Cardinality(D) \in Nat
         /\ Cardinality(S) = Cardinality(A) + Cardinality(B) + Cardinality(C) + Cardinality(D)
<1>0. /\ S = A \cup B \cup C \cup D
      /\ A \cap B = {} /\ (A \cup B) \cap C = {} /\ (A \cup B \cup C) \cap D = {}
      BY DEF Splits
<1>1. IsFiniteSet(A) /\ IsFiniteSet(B) /\ IsFiniteSet(C) /\ IsFiniteSet(D)
      /\ IsFiniteSet(A \cup B) /\ IsFiniteSet(A \cup B \cup C)
      BY <1>0, FS_Subset
<1>2. Cardinality(A \cap B) = 0 /\ Cardinality((A \cup B) \cap C) = 0
      /\ Cardinality((A \cup B \cup C) \cap D) = 0
      BY <1>0, FS_EmptySet
<1>3. Cardinality(A \cup B) = Cardinality(A) + Cardinality(B) - Cardinality(A \cap B)
      BY <1>1, FS_Union
<1>4. Cardinality(A \cup B \cup C) = Cardinality(A \cup B) + Cardinality(C)
                                       - Cardinality((A \cup B) \cap C)
      BY <1>1, FS_Union
<1>5. Cardinality(A \cup B \cup C \cup D) = Cardinality(A \cup B \cup C) + Cardinality(D)
                                       - Cardinality((A \cup B \cup C) \cap D)
      BY <1>1, FS_Union
<1>6. /\ Cardinality(A) \in Nat /\ Cardinality(B) \in Nat
      /\ Cardinality(C) \in Nat /\ Cardinality(D) \in Nat
      BY <1>1, FS_CardinalityType
<1>7. /\ Cardinality(A \cup B) = Cardinality(A) + Cardinality(B)
      /\ Cardinality(A \cup B \cup C) = Cardinality(A \cup B) + Cardinality(C)
      /\ Cardinality(A \cup B \cup C \cup D) = Cardinality(A \cup B \cup C) + Cardinality(D)
      BY <1>1, <1>2, <1>3, <1>4, <1>5, FS_CardinalityType
<1> QED BY <1>0, <1>6, <1>7

\* A cycle has tasks only while it gathers them, a task that ended has an
\* outcome, and a cycle that awaits a fetch has a source to await.
TasksAreKept == /\ \A c \in Cycles : cycle[c].pc # "processing" => TasksOf(c) = {}
                /\ \A c \in Cycles : cycle[c].pc = "fetching" => cycle[c].todo # {}
                /\ \A j \in Jobs : Ended(j) => job[j].outcome # "none"

ReportInv == TypeOK /\ TasksAreKept /\ ReportAddsUp /\ ActiveIsRunning

\* The tasks of a cycle, and what it has left to do, are finitely many.
LEMMA FiniteWork ==
  /\ IsFiniteSet(Jobs)
  /\ \A c \in Cycles : IsFiniteSet(TasksOf(c)) /\ Cardinality(TasksOf(c)) \in Nat
  /\ \A T \in SUBSET Sources : IsFiniteSet(T) /\ Cardinality(T) \in 0..NumSources
<1>1. IsFiniteSet(Jobs)
  <2>1. Cycles = {"startup"} \cup {"scheduled"}
        BY DEF Cycles
  <2>2. IsFiniteSet(Cycles)
        BY <2>1, FS_Singleton, FS_AddElement
  <2>3. IsFiniteSet(1..MaxBatch)
        BY FS_Interval, SourcesAssumption
  <2> QED BY <2>2, <2>3, FS_Product, JobsAssumption
<1>2. \A c \in Cycles : IsFiniteSet(TasksOf(c)) /\ Cardinality(TasksOf(c)) \in Nat
      BY <1>1, FS_Subset, FS_CardinalityType DEF TasksOf
<1>3. IsFiniteSet(Sources) /\ Cardinality(Sources) = NumSources /\ NumSources \in Nat
      BY SourcesAssumption, FS_Interval DEF Sources
<1>4. ASSUME NEW T \in SUBSET Sources
      PROVE  IsFiniteSet(T) /\ Cardinality(T) \in 0..NumSources
      BY <1>3, FS_Subset, FS_CardinalityType
<1> QED BY <1>1, <1>2, <1>4

\* A cycle that awaits a fetch awaits that of a source it has left to do.
LEMMA SourceLeft ==
  ASSUME TypeOK, TasksAreKept, NEW c \in Cycles, cycle[c].pc = "fetching"
  PROVE  /\ Source(c) \in cycle[c].todo
         /\ Cardinality(Remaining(c)) + 1 = Cardinality(cycle[c].todo)
<1>1. cycle[c].todo \in SUBSET Sources /\ cycle[c].todo # {}
      BY DEF TypeOK, CycleRecord, TasksAreKept
<1>2. cycle[c].todo \subseteq Nat
      BY <1>1, SourcesAssumption DEF Sources
<1>3. Source(c) \in cycle[c].todo
      BY <1>1, <1>2, Smallest DEF Source, Min
<1> QED BY <1>1, <1>3, FiniteWork, FS_RemoveElement DEF Remaining

\* gather puts every task of the batch under one heading.
LEMMA TallyAddsUp ==
  ASSUME TypeOK, TasksAreKept, NEW c \in Cycles, \A j \in TasksOf(c) : Ended(j),
         NEW k \in Nat, AddsUp(cycle[c].sum, Cardinality(TasksOf(c)), k)
  PROVE  AddsUp(Tally(c), 0, k)
<1> DEFINE Under(x) == {j \in TasksOf(c) : job[j].outcome \in Heading(x)}
           A == Under("delivered")
           B == Under("rejected")
           C == Under("duplicates")
           D == Under("errors")
<1>1. /\ Heading("delivered") = {"DELIVERED"} /\ Heading("rejected") = {"rejected"}
      /\ Heading("duplicates") = {"seen"} /\ Heading("errors") = Errors
      /\ Heading("fetched") = {}
      BY DEF Heading
<1>2. \A j \in TasksOf(c) : job[j].outcome \in Outcomes
      BY DEF TypeOK, DeliveryTypeOK, Job, TasksAreKept, TasksOf
<1>3. Splits(TasksOf(c), A, B, C, D)
      BY <1>1, <1>2 DEF Outcomes, Errors, Splits
<1>4. IsFiniteSet(TasksOf(c)) /\ Cardinality(TasksOf(c)) \in Nat
      BY FiniteWork
<1>5. Tally(c) = [x \in Counters |-> cycle[c].sum[x] + Cardinality(Under(x))]
      BY DEF Tally
<1>6. Cardinality(Under("fetched")) = 0
  <2>1. Under("fetched") = {}
        BY <1>1
  <2> QED BY <2>1, FS_EmptySet
<1>7. /\ Cardinality(A) \in Nat /\ Cardinality(B) \in Nat
      /\ Cardinality(C) \in Nat /\ Cardinality(D) \in Nat
      /\ Cardinality(TasksOf(c))
           = Cardinality(A) + Cardinality(B) + Cardinality(C) + Cardinality(D)
  <2> HIDE DEF A, B, C, D
  <2> QED BY <1>3, <1>4, Headings
<1> DEFINE T == Tally(c)
<1>8. /\ T["delivered"] = cycle[c].sum["delivered"] + Cardinality(A)
      /\ T["rejected"] = cycle[c].sum["rejected"] + Cardinality(B)
      /\ T["duplicates"] = cycle[c].sum["duplicates"] + Cardinality(C)
      /\ T["errors"] = cycle[c].sum["errors"] + Cardinality(D)
      /\ T["fetched"] = cycle[c].sum["fetched"] + 0
  <2> HIDE DEF Under
  <2> QED BY <1>5, <1>6 DEF Counters
<1>9. cycle[c].sum \in [Counters -> Nat]
      BY DEF TypeOK, CycleRecord
<1> HIDE DEF A, B, C, D, T
<1>10. /\ cycle[c].sum["delivered"] \in Nat /\ cycle[c].sum["rejected"] \in Nat
       /\ cycle[c].sum["duplicates"] \in Nat /\ cycle[c].sum["errors"] \in Nat
       /\ cycle[c].sum["fetched"] \in Nat
       BY <1>9 DEF Counters
<1>11. AddsUp(T, 0, k)
       BY <1>4, <1>7, <1>8, <1>10, SourcesAssumption DEF AddsUp
<1> QED BY <1>11 DEF T

\* A cycle that goes on, or completes, with a summary that adds up.
LEMMA ContinueReport ==
  ASSUME TypeOK, TasksAreKept, ReportAddsUp, NEW c \in Cycles, NEW st \in Status,
         NEW todo \in SUBSET Sources, NEW sum \in [Counters -> Nat],
         Continue(c, st, todo, sum), AddsUp(sum, 0, Cardinality(todo)),
         st.status = "completed" => AddsUp(st.sum, 0, 0),
         st.status = "active" => st.by = c \/ (st.by # "none" /\ Running(st.by)),
         TasksOf(c)' = {}, \A d \in Cycles \ {c} : TasksOf(d)' = TasksOf(d),
         \A j \in Jobs : Ended(j)' => job'[j].outcome # "none"
  PROVE  TasksAreKept' /\ ReportAddsUp' /\ ActiveIsRunning'
<1>0. cycle \in [Cycles -> CycleRecord] /\ Cardinality({}) = 0 /\ NumSources \in Nat
      BY FS_EmptySet, SourcesAssumption DEF TypeOK
<1> DEFINE r == IF todo = {} THEN NoCycle ELSE [pc |-> "fetching", todo |-> todo, sum |-> sum]
<1>1. cycle'[c] = r /\ \A d \in Cycles \ {c} : cycle'[d] = cycle[d]
      BY <1>0 DEF Continue
<1>2. TasksAreKept'
      BY <1>1 DEF TasksAreKept, NoCycle
<1>3. AddsUp(r.sum, 0, Cardinality(r.todo))
  <2>1. CASE todo = {}
        BY <1>0, <2>1 DEF AddsUp, NoCycle, NoCount, Counters
  <2>2. CASE todo # {}
        BY <2>2
  <2> QED BY <2>1, <2>2
<1>4. \A d \in Cycles : AddsUp(cycle'[d].sum, Cardinality(TasksOf(d)'), Cardinality(cycle'[d].todo))
  <2> SUFFICES ASSUME NEW d \in Cycles
               PROVE  AddsUp(cycle'[d].sum, Cardinality(TasksOf(d)'), Cardinality(cycle'[d].todo))
      OBVIOUS
  <2>1. CASE d = c
    <3> HIDE DEF r
    <3> QED BY <1>0, <1>1, <1>3, <2>1
  <2>2. CASE d # c
        BY <1>1, <2>2 DEF ReportAddsUp
  <2> QED BY <2>1, <2>2
<1>5. CASE todo = {}
  <2>1. last'.status = "completed" /\ last'.sum = sum
        BY <1>5 DEF Continue, Completed, Status
  <2>2. AddsUp(last'.sum, 0, 0)
        BY <1>0, <1>5, <2>1
  <2> QED BY <1>2, <1>4, <2>1, <2>2 DEF ReportAddsUp, AddsUp, ActiveIsRunning
<1>6. CASE todo # {}
  <2>1. last' = st /\ cycle'[c].pc = "fetching"
        BY <1>1, <1>6 DEF Continue
  <2>2. ActiveIsRunning'
        BY <1>1, <2>1 DEF ActiveIsRunning, Running, Status, Cycles
  <2> QED BY <1>2, <1>4, <2>1, <2>2 DEF ReportAddsUp, AddsUp
<1> QED BY <1>5, <1>6

\* A batch: as many tasks as surveys fetched.
LEMMA FetchBatchReport ==
  ASSUME ReportInv, NEW c \in Cycles, FetchBatch(c)
  PROVE  TasksAreKept' /\ ReportAddsUp' /\ ActiveIsRunning'
<1>0. /\ cycle \in [Cycles -> CycleRecord] /\ job \in [Jobs -> Job] /\ NumSources \in Nat
      /\ cycle[c].pc = "fetching" /\ cycle[c] \in CycleRecord /\ last' = last
      BY SourcesAssumption DEF ReportInv, TypeOK, DeliveryTypeOK, FetchBatch
<1>1. PICK n \in 1..MaxBatch :
        \E batch \in [1..n -> {s \in Surveys : SourceOf[s] = Source(c)}] :
          /\ job' = [j \in Jobs |-> IF j[1] = c /\ j[2] <= n THEN NewJob(batch[j[2]])
                                    ELSE job[j]]
          /\ cycle' = [cycle EXCEPT ![c].pc = "processing", ![c].sum["fetched"] = @ + n]
      BY DEF FetchBatch
<1>2. PICK batch \in [1..n -> {s \in Surveys : SourceOf[s] = Source(c)}] :
        /\ job' = [j \in Jobs |-> IF j[1] = c /\ j[2] <= n THEN NewJob(batch[j[2]])
                                  ELSE job[j]]
        /\ cycle' = [cycle EXCEPT ![c].pc = "processing", ![c].sum["fetched"] = @ + n]
      BY <1>1
<1> DEFINE sum == [cycle[c].sum EXCEPT !["fetched"] = @ + n]
<1>3. /\ cycle'[c].pc = "processing" /\ cycle'[c].todo = cycle[c].todo
      /\ cycle'[c].sum = sum
      /\ \A d \in Cycles \ {c} : cycle'[d] = cycle[d]
      BY <1>0, <1>2 DEF CycleRecord
<1>4. TasksOf(c)' = {c} \X (1..n)
  <2>1. TasksOf(c) = {}
        BY <1>0 DEF ReportInv, TasksAreKept
  <2>2. \A j \in Jobs : j[1] = c /\ j[2] <= n => job'[j].pc = "ready"
        BY <1>2 DEF NewJob
  <2>3. \A j \in Jobs : ~(j[1] = c /\ j[2] <= n) => job'[j] = job[j]
        BY <1>2
  <2>4. TasksOf(c)' = {j \in Jobs : j[1] = c /\ j[2] <= n}
        BY <2>1, <2>2, <2>3 DEF TasksOf
  <2>5. {j \in Jobs : j[1] = c /\ j[2] <= n} = {c} \X (1..n)
        BY JobsAssumption, SourcesAssumption
  <2> QED BY <2>4, <2>5
<1>5. Cardinality(TasksOf(c)') = n /\ n \in Nat
  <2>1. n \in Nat /\ n > 0
        BY SourcesAssumption
  <2>2. IsFiniteSet(1..n) /\ Cardinality(1..n) = n
        BY <2>1, FS_Interval
  <2>3. IsFiniteSet({c}) /\ Cardinality({c}) = 1
        BY FS_Singleton
  <2> QED BY <1>4, <2>1, <2>2, <2>3, FS_Product
<1>6. \A d \in Cycles \ {c} : TasksOf(d)' = TasksOf(d)
      BY <1>2 DEF TasksOf
<1>7. AddsUp(sum, n, Cardinality(cycle[c].todo))
  <2>1. AddsUp(cycle[c].sum, 0, Cardinality(cycle[c].todo))
    <3>1. TasksOf(c) = {}
          BY <1>0 DEF ReportInv, TasksAreKept
    <3> QED BY <3>1, FS_EmptySet DEF ReportInv, ReportAddsUp
  <2>2. cycle[c].sum \in [Counters -> Nat] /\ Cardinality(cycle[c].todo) \in Nat
        BY <1>0, FiniteWork DEF CycleRecord
  <2>3. /\ sum["fetched"] = cycle[c].sum["fetched"] + n
        /\ \A x \in Counters \ {"fetched"} : sum[x] = cycle[c].sum[x]
        BY <2>2 DEF Counters
  <2> HIDE DEF sum
  <2> QED BY <1>0, <1>5, <2>1, <2>2, <2>3 DEF AddsUp, Counters
<1> HIDE DEF sum
<1>8. ReportAddsUp'
  <2>1. \A d \in Cycles : AddsUp(cycle'[d].sum, Cardinality(TasksOf(d)'), Cardinality(cycle'[d].todo))
    <3> SUFFICES ASSUME NEW d \in Cycles
                 PROVE  AddsUp(cycle'[d].sum, Cardinality(TasksOf(d)'), Cardinality(cycle'[d].todo))
        OBVIOUS
    <3>1. CASE d = c
          BY <1>3, <1>5, <1>7, <3>1
    <3>2. CASE d # c
          BY <1>3, <1>6, <3>2 DEF ReportInv, ReportAddsUp
    <3> QED BY <3>1, <3>2
  <2> QED BY <1>0, <2>1 DEF ReportInv, ReportAddsUp, AddsUp
<1>9. TasksAreKept'
  <2>1. \A j \in Jobs : Ended(j)' => job'[j].outcome # "none"
        BY <1>2 DEF ReportInv, TasksAreKept, Ended, NewJob
  <2> QED BY <1>3, <1>6, <2>1 DEF ReportInv, TasksAreKept
<1>10. ActiveIsRunning'
       BY <1>0, <1>3 DEF ReportInv, ActiveIsRunning, Running, TypeOK, Status
<1> QED BY <1>8, <1>9, <1>10

\* Every step keeps the accounts and the status.
LEMMA ReportStep == ReportInv /\ [Next]_vars => ReportInv'
<1> SUFFICES ASSUME ReportInv, [Next]_vars
             PROVE  TasksAreKept' /\ ReportAddsUp' /\ ActiveIsRunning'
    BY TypeStep DEF ReportInv
<1>0. /\ TypeOK /\ TasksAreKept /\ ReportAddsUp /\ ActiveIsRunning
      /\ cycle \in [Cycles -> CycleRecord] /\ last \in Status /\ NumSources \in Nat
      BY SourcesAssumption DEF ReportInv, TypeOK
<1>a. /\ last.status = "completed" => AddsUp(last.sum, 0, 0)
      /\ last.status = "active" => last.by # "none" /\ Running(last.by)
      BY <1>0 DEF ReportAddsUp, ActiveIsRunning
<1>e. \A j \in Jobs : Ended(j) => job[j].outcome # "none"
      BY <1>0 DEF TasksAreKept
<1>n. NoCount \in [Counters -> Nat]
      BY DEF NoCount
<1>1. ASSUME NEW c \in Cycles, Begin(c)
      PROVE  TasksAreKept' /\ ReportAddsUp' /\ ActiveIsRunning'
  <2>0. job' = job /\ cycle[c].pc = "idle"
        BY <1>1 DEF Begin, deliveryVars, MayBegin, Running
  <2>1. TasksOf(c) = {} /\ \A d \in Cycles : TasksOf(d)' = TasksOf(d)
        BY <1>0, <2>0 DEF TasksAreKept, TasksOf
  <2>2. \A j \in Jobs : Ended(j)' => job'[j].outcome # "none"
        BY <1>e, <2>0 DEF Ended
  <2> DEFINE st == [by |-> c, status |-> "active", sum |-> NoCount]
  <2>3. ASSUME NEW todo \in SUBSET Sources, Continue(c, st, todo, NoCount)
        PROVE  TasksAreKept' /\ ReportAddsUp' /\ ActiveIsRunning'
    <3>1. Cardinality(todo) \in 0..NumSources
          BY FiniteWork
    <3>2. AddsUp(NoCount, 0, Cardinality(todo))
          BY <1>0, <3>1 DEF AddsUp, NoCount, Counters
    <3>3. st \in Status /\ st.status = "active" /\ st.by = c
          BY <1>n DEF Status
    <3> HIDE DEF st
    <3> QED BY <1>0, <1>n, <2>1, <2>2, <2>3, <3>2, <3>3, ContinueReport
  <2>4. CASE /\ last' = [by |-> c, status |-> "failed", sum |-> NoCount]
             /\ UNCHANGED cycle
        BY <1>0, <2>1, <2>2, <2>4 DEF TasksAreKept, ReportAddsUp, ActiveIsRunning, AddsUp
  <2> QED BY <1>1, <2>3, <2>4 DEF Begin
<1>2. ASSUME NEW c \in Cycles, FetchNothing(c)
      PROVE  TasksAreKept' /\ ReportAddsUp' /\ ActiveIsRunning'
  <2>0. job' = job /\ cycle[c].pc = "fetching"
        BY <1>2 DEF FetchNothing, deliveryVars
  <2>1. TasksOf(c) = {} /\ \A d \in Cycles : TasksOf(d)' = TasksOf(d)
        BY <1>0, <2>0 DEF TasksAreKept, TasksOf
  <2>2. \A j \in Jobs : Ended(j)' => job'[j].outcome # "none"
        BY <1>e, <2>0 DEF Ended
  <2>3. PICK failed \in {0, 1} :
          Continue(c, last, Remaining(c), [cycle[c].sum EXCEPT !["errors"] = @ + failed])
        BY <1>2 DEF FetchNothing
  <2> DEFINE old == cycle[c].sum
             sum == [cycle[c].sum EXCEPT !["errors"] = @ + failed]
  <2>4. /\ old \in [Counters -> Nat] /\ sum \in [Counters -> Nat]
        /\ sum["errors"] = old["errors"] + failed
        /\ \A x \in Counters \ {"errors"} : sum[x] = old[x]
        BY <1>0 DEF CycleRecord, Counters
  <2>5. /\ Remaining(c) \in SUBSET Sources
        /\ Cardinality(Remaining(c)) + 1 = Cardinality(cycle[c].todo)
        /\ Cardinality(Remaining(c)) \in Nat /\ Cardinality(cycle[c].todo) \in Nat
    <3>1. cycle[c].todo \in SUBSET Sources /\ Remaining(c) \in SUBSET Sources
          BY <1>0 DEF CycleRecord, Remaining
    <3> QED BY <1>0, <2>0, <3>1, SourceLeft, FiniteWork
  <2>6. AddsUp(old, 0, Cardinality(cycle[c].todo))
        BY <1>0, <2>1, FS_EmptySet DEF ReportAddsUp
  <2>7. Continue(c, last, Remaining(c), sum)
        BY <2>3
  <2> HIDE DEF old, sum
  <2>8. AddsUp(sum, 0, Cardinality(Remaining(c)))
        BY <1>0, <2>4, <2>5, <2>6 DEF AddsUp, Counters
  <2> QED BY <1>0, <1>a, <2>1, <2>2, <2>4, <2>5, <2>7, <2>8, ContinueReport
<1>3. ASSUME NEW c \in Cycles, Gather(c)
      PROVE  TasksAreKept' /\ ReportAddsUp' /\ ActiveIsRunning'
  <2>0. /\ \A j \in TasksOf(c) : Ended(j)
        /\ Continue(c, last, Remaining(c), Tally(c))
        /\ job' = [j \in Jobs |-> IF j[1] = c THEN Idle[j] ELSE job[j]]
        BY <1>3 DEF Gather
  <2>1. TasksOf(c)' = {} /\ \A d \in Cycles \ {c} : TasksOf(d)' = TasksOf(d)
        BY <2>0, NewJobType DEF TasksOf
  <2>2. \A j \in Jobs : Ended(j)' => job'[j].outcome # "none"
        BY <1>e, <2>0, NewJobType DEF Ended
  <2>3. /\ cycle[c].todo \in SUBSET Sources /\ Remaining(c) \in SUBSET Sources
        /\ cycle[c].sum \in [Counters -> Nat]
        BY <1>0 DEF CycleRecord, Remaining
  <2>4. /\ Cardinality(Remaining(c)) <= Cardinality(cycle[c].todo)
        /\ Cardinality(Remaining(c)) \in Nat /\ Cardinality(cycle[c].todo) \in Nat
    <3>1. Remaining(c) \in SUBSET cycle[c].todo /\ IsFiniteSet(cycle[c].todo)
          BY <2>3, FiniteWork DEF Remaining
    <3> QED BY <2>3, <3>1, FiniteWork, FS_Subset
  <2>5. AddsUp(cycle[c].sum, Cardinality(TasksOf(c)), Cardinality(cycle[c].todo))
        BY <1>0 DEF ReportAddsUp
  <2>6. AddsUp(Tally(c), 0, Cardinality(cycle[c].todo)) /\ Tally(c) \in [Counters -> Nat]
        BY <1>0, <2>0, <2>3, <2>4, <2>5, TallyAddsUp, TallyType
  <2>7. AddsUp(Tally(c), 0, Cardinality(Remaining(c)))
        BY <1>0, <2>4, <2>6 DEF AddsUp, Counters
  <2> QED BY <1>0, <1>a, <2>0, <2>1, <2>2, <2>3, <2>6, <2>7, ContinueReport
<1>4. ASSUME NEW j \in Jobs, TaskStep(j)
      PROVE  TasksAreKept' /\ ReportAddsUp' /\ ActiveIsRunning'
  <2>1. cycle' = cycle /\ last' = last
        BY <1>4 DEF TaskStep, ProcessOne, Send, Reply, serviceVars
  <2>2. /\ \A i \in Jobs \ {j} : job'[i] = job[i]
        /\ job[j].pc # "idle" /\ job'[j].pc # "idle"
        /\ job'[j].pc = "done" => job'[j].outcome # "none"
        BY <1>0, <1>4, ProcessOneTasks, SendTasks, ReplyTasks DEF TaskStep
  <2>3. \A c \in Cycles : TasksOf(c)' = TasksOf(c)
        BY <2>2 DEF TasksOf
  <2>4. TasksAreKept'
        BY <1>0, <2>1, <2>2, <2>3 DEF TasksAreKept, Ended
  <2> QED BY <1>0, <2>1, <2>3, <2>4 DEF ReportAddsUp, AddsUp, ActiveIsRunning, Running
<1>5. CASE KeyExpires \/ UNCHANGED vars
  <2>1. job' = job /\ cycle' = cycle /\ last' = last
        BY <1>5 DEF KeyExpires, Expire, serviceVars, vars
  <2> QED BY <1>0, <2>1 DEF TasksAreKept, ReportAddsUp, AddsUp, ActiveIsRunning, Running, TasksOf,
                            Ended
<1>6. CASE Restart
  <2>1. /\ job' = Idle /\ cycle' = [c \in Cycles |-> NoCycle] /\ last'.status = "idle"
        BY <1>6 DEF Restart, Reboot
  <2>2. TasksAreKept' /\ \A c \in Cycles : TasksOf(c)' = {}
        BY <2>1, NewJobType DEF TasksAreKept, TasksOf, Ended, NoCycle
  <2>3. AddsUp(NoCycle.sum, 0, Cardinality(NoCycle.todo))
        BY <1>0, FS_EmptySet DEF AddsUp, NoCycle, NoCount, Counters
  <2>4. \A c \in Cycles : AddsUp(cycle'[c].sum, Cardinality(TasksOf(c)'), Cardinality(cycle'[c].todo))
    <3>1. Cardinality({}) = 0
          BY FS_EmptySet
    <3> QED BY <2>1, <2>2, <2>3, <3>1
  <2> QED BY <2>1, <2>2, <2>4 DEF ReportAddsUp, AddsUp, ActiveIsRunning
<1> QED BY <1>1, <1>2, <1>3, <1>4, <1>5, <1>6, FetchBatchReport DEF Next, Step

\* The accounts hold of the service.
LEMMA ReportInvariant == Spec => []ReportInv
<1>1. Init => ReportInv
  <2> SUFFICES ASSUME Init PROVE TasksAreKept /\ ReportAddsUp /\ ActiveIsRunning
      BY InitType DEF ReportInv
  <2>1. /\ job = Idle /\ cycle = [c \in Cycles |-> NoCycle] /\ last.status = "idle"
        BY DEF Init, DeliveryInit
  <2>2. TasksAreKept /\ \A c \in Cycles : TasksOf(c) = {}
        BY <2>1, NewJobType DEF TasksAreKept, TasksOf, Ended, NoCycle
  <2>3. AddsUp(NoCycle.sum, 0, Cardinality(NoCycle.todo)) /\ Cardinality({}) = 0
        BY SourcesAssumption, FS_EmptySet DEF AddsUp, NoCycle, NoCount, Counters
  <2> QED BY <2>1, <2>2, <2>3 DEF ReportAddsUp, ActiveIsRunning
<1> QED BY <1>1, ReportStep, PTL DEF Spec

\* Every survey fetched is accounted for once, in the summary of a completed
\* cycle and in those that run, whatever their tasks came to and whichever
\* sources failed (orchestrator.py:79-119, app.py:46-52).
THEOREM ReportsAddUp == Spec => []ReportAddsUp
<1>1. ReportInv => ReportAddsUp
      BY DEF ReportInv
<1> QED BY <1>1, ReportInvariant, PTL

\* /cycle/status says active only of a cycle that runs (app.py:29-62).
THEOREM ActiveCyclesRun == Spec => []ActiveIsRunning
<1>1. ReportInv => ActiveIsRunning
      BY DEF ReportInv
<1> QED BY <1>1, ReportInvariant, PTL
===============================================================================

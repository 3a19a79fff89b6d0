--------------------------- MODULE InProcessProofs -----------------------------
(***************************************************************************)
(* For any number of threads, workers, callers, hooks and tasks, any       *)
(* limits, thresholds and ttl, and however far the clock is set back: the  *)
(* safety properties of the small parts of MCInProcess, and the parts put  *)
(* together, with what SourceFetchProofs proves.                           *)
(***************************************************************************)
EXTENDS MCInProcess, SourceFetchProofs

-------------------------------------------------------------------------------
\* The lock is held while any thread is inside, by one thread, and the id is that
\* of a thread between setting and clearing it.
InsideOne == /\ \A t \in Threads : step[t] # "outside" => locked
             /\ \A t, u \in Threads : step[t] # "outside" /\ step[u] # "outside" => t = u
             /\ \A t \in Threads : step[t] \in {"running", "ended"} => activeCycle = t

ControllerInv == ControllerTypeOK /\ InsideOne

\* Every step of run_cycle preserves the invariant.
LEMMA ControllerStep == ControllerInv /\ [ControllerNext]_controllerVars => ControllerInv'
<1> SUFFICES ASSUME ControllerInv, [ControllerNext]_controllerVars PROVE ControllerInv'
    OBVIOUS
<1> USE DEF ControllerInv, ControllerTypeOK, InsideOne, GoTo
<1>1. ASSUME NEW t \in Threads, TryLock(t) PROVE ControllerInv'
      BY <1>1 DEF TryLock, IsFree
<1>2. ASSUME NEW t \in Threads, SetCycle(t) PROVE ControllerInv'
      BY <1>2 DEF SetCycle
<1>3. ASSUME NEW t \in Threads, HandlerEnds(t) PROVE ControllerInv'
      BY <1>3 DEF HandlerEnds
<1>4. ASSUME NEW t \in Threads, ClearCycle(t) PROVE ControllerInv'
      BY <1>4 DEF ClearCycle
<1>5. ASSUME NEW t \in Threads, Unlock(t) PROVE ControllerInv'
      BY <1>5 DEF Unlock
<1>6. CASE UNCHANGED controllerVars
      BY <1>6 DEF controllerVars
<1> QED BY <1>1, <1>2, <1>3, <1>4, <1>5, <1>6 DEF ControllerNext, Refuse

\* While a handler runs no other does, and _active_cycle_id is its cycle, for any
\* number of threads (controller.py:26-54).
THEOREM OneCycleAtATime == ControllerSpec => []OneActiveCycle
<1>1. ControllerInit => ControllerInv
      BY DEF ControllerInit, ControllerInv, ControllerTypeOK, InsideOne
<1>2. ControllerInv => OneActiveCycle
      BY DEF ControllerInv, InsideOne, OneActiveCycle
<1> QED BY <1>1, <1>2, ControllerStep, PTL DEF ControllerSpec

-------------------------------------------------------------------------------
\* A breaker that is open was stamped by the last failure.
OpenIsStamped == mode = "OPEN" => opened = quiet

WrapperInv == WrapperTypeOK /\ TrippedIsFull /\ OpenIsStamped

\* Every step of a fetch through the wrapper preserves the invariant.
LEMMA WrapperStep == WrapperInv /\ [WrapperNext]_wrapperVars => WrapperInv'
<1> SUFFICES ASSUME WrapperInv, [WrapperNext]_wrapperVars PROVE WrapperInv'
    OBVIOUS
<1> USE WrapperAssumption
    DEF WrapperInv, WrapperTypeOK, TrippedIsFull, OpenIsStamped, Over, Older
<1>1. ASSUME NEW t \in Fetchers, Allow(t) PROVE WrapperInv'
      BY <1>1 DEF Allow
<1>2. ASSUME NEW t \in Fetchers, FetchSucceeds(t) PROVE WrapperInv'
      BY <1>2 DEF FetchSucceeds, Forgiven
<1>3. ASSUME NEW t \in Fetchers, FetchFails(t) PROVE WrapperInv'
      BY <1>3 DEF FetchFails, Trips, Stamp
<1>4. CASE WrapperTick
      BY <1>4 DEF WrapperTick
<1>5. CASE UNCHANGED wrapperVars
      BY <1>5 DEF wrapperVars
<1> QED BY <1>1, <1>2, <1>3, <1>4, <1>5 DEF WrapperNext

\* The invariant holds of the wrapper.
LEMMA WrapperInvariant == WrapperSpec => []WrapperInv
<1>1. WrapperInit => WrapperInv
      BY WrapperAssumption
      DEF WrapperInit, WrapperInv, WrapperTypeOK, TrippedIsFull, OpenIsStamped, Over
<1> QED BY <1>1, WrapperStep, PTL DEF WrapperSpec

\* A breaker that is not closed is one failure from open, in whatever order the
\* results of overlapping fetches arrive (runtime/circuit_breaker.py:26-36).
THEOREM TrippedStaysFull == WrapperSpec => []TrippedIsFull
<1>1. WrapperInv => TrippedIsFull
      BY DEF WrapperInv
<1> QED BY <1>1, WrapperInvariant, PTL

\* No fetch begins through an open breaker before reset_timeout has passed since
\* the last failure (runtime/circuit_breaker.py:17-24).
THEOREM OpenPauses == WrapperSpec => PausesAfterFailure
<1> DEFINE Pauses == mode = "OPEN" /\ ~(fetching' \subseteq fetching) => quiet > ResetTimeout
<1>1. WrapperInv /\ [WrapperNext]_wrapperVars => [Pauses]_wrapperVars
  <2> SUFFICES ASSUME WrapperInv, WrapperNext PROVE Pauses
      OBVIOUS
  <2>1. ASSUME NEW t \in Fetchers, Allow(t) PROVE Pauses
        BY <2>1 DEF Allow, PauseOver, WrapperInv, OpenIsStamped
  <2>2. ASSUME NEW t \in Fetchers, FetchSucceeds(t) \/ FetchFails(t) PROVE Pauses
        BY <2>2 DEF FetchSucceeds, FetchFails
  <2>3. CASE WrapperTick
        BY <2>3 DEF WrapperTick
  <2> QED BY <2>1, <2>2, <2>3 DEF WrapperNext
<1> QED BY <1>1, WrapperInvariant, PTL DEF WrapperSpec, PausesAfterFailure

-------------------------------------------------------------------------------
\* What a worker has left of its grant the lease has left too, and is its own.
GrantIsLease == ~stolen => \A w \in working : own[w] > 0 => holder = w /\ own[w] <= left

LockInv == LockTypeOK /\ GrantIsLease

\* Every method call and every tick preserves the invariant.
LEMMA LockStep == LockInv /\ [LockNext]_lockVars => LockInv'
<1> SUFFICES ASSUME LockInv, [LockNext]_lockVars PROVE LockInv'
    OBVIOUS
<1> USE LockAssumption DEF LockInv, LockTypeOK, GrantIsLease
<1>1. ASSUME NEW w \in Workers, AcquireLock(w) PROVE LockInv'
  <2>1. ~stolen => \A v \in working : own[v] = 0
        BY <1>1 DEF AcquireLock, Lapsed
  <2> QED BY <1>1, <2>1 DEF AcquireLock
<1>2. ASSUME NEW w \in Workers, ExtendLock(w) PROVE LockInv'
      BY <1>2 DEF ExtendLock
<1>3. ASSUME NEW w \in Workers, ReleaseLock(w) PROVE LockInv'
  <2>1. stolen' \in BOOLEAN /\ (~stolen' => ~stolen /\ (owned \/ holder \in {w, Nobody}))
        BY <1>3 DEF ReleaseLock
  <2>2. LockTypeOK'
    <3>1. holder' \in Workers \cup {Nobody} /\ left' \in -1..LockTTL
          BY <1>3 DEF ReleaseLock
    <3> QED BY <1>3, <2>1, <3>1 DEF ReleaseLock
  <2>3. ASSUME ~stolen', NEW v \in working', own'[v] > 0
        PROVE  holder' = v /\ own'[v] <= left'
    <3>1. v \in working /\ v # w /\ own' = own /\ v \in Workers
          BY <1>3, <2>3 DEF ReleaseLock
    <3>2. holder = v /\ own[v] <= left
          BY <2>1, <2>3, <3>1
    <3>3. ~Releases(w)
          BY <2>1, <2>3, <3>1, <3>2 DEF Releases
    <3> QED BY <1>3, <3>1, <3>2, <3>3 DEF ReleaseLock
  <2> QED BY <2>2, <2>3
<1>4. ASSUME NEW w \in Workers, AbandonLock(w) PROVE LockInv'
      BY <1>4 DEF AbandonLock
<1>5. CASE LockTick
      BY <1>5 DEF LockTick
<1>6. CASE UNCHANGED lockVars
      BY <1>6 DEF lockVars
<1> QED BY <1>1, <1>2, <1>3, <1>4, <1>5, <1>6 DEF LockNext

\* Two workers never work within the time they were granted, for any number of
\* workers and any ttl (lease_lock.py:15-30, runtime/lease.py:11-34).
THEOREM LockIsExclusive == LockSpec => []LockExclusive
<1>1. LockInit => LockInv
  <2>1. 0 \in 0..LockTTL /\ -1 \in -1..LockTTL
        BY LockAssumption
  <2> QED BY <2>1 DEF LockInit, LockInv, LockTypeOK, GrantIsLease
<1>2. LockInv => LockExclusive
      BY DEF LockInv, LockTypeOK, GrantIsLease, LockExclusive
<1> QED BY <1>1, <1>2, LockStep, PTL DEF LockSpec

\* Until a lock is first released under its holder, only a worker that overran its
\* lease can do that (runtime/lease.py:11-34).
THEOREM OnlyOverrunsReleaseOthers == LockSpec => OnlyOverrunsSteal
<1> DEFINE Overran == ~stolen /\ stolen' => \E w \in working \ working' : own[w] = 0
<1>1. LockInit => LockInv
  <2>1. 0 \in 0..LockTTL /\ -1 \in -1..LockTTL
        BY LockAssumption
  <2> QED BY <2>1 DEF LockInit, LockInv, LockTypeOK, GrantIsLease
<1>2. LockInv /\ [LockNext]_lockVars => [Overran]_lockVars
  <2> SUFFICES ASSUME LockInv, LockNext, ~stolen, stolen'
               PROVE  \E w \in working \ working' : own[w] = 0
      OBVIOUS
  <2>1. PICK w \in Workers : ReleaseLock(w)
        BY DEF LockNext, AcquireLock, ExtendLock, AbandonLock, LockTick
  <2>2. w \in working \ working' /\ holder # w
        BY <2>1 DEF ReleaseLock
  <2>3. own[w] \in 0..LockTTL /\ ~(own[w] > 0)
        BY <2>2 DEF LockInv, LockTypeOK, GrantIsLease
  <2> QED BY <2>2, <2>3, LockAssumption
<1> QED BY <1>1, <1>2, LockStep, PTL DEF LockSpec, OnlyOverrunsSteal

-------------------------------------------------------------------------------
\* One call at most runs the loop: the flag is set before its first await.  It has
\* begun the hooks up to its position.
OneLoop == /\ ~shuttingDown => ran = <<>> /\ \A t \in Tasks : task[t] # "awaiting"
           /\ \A t, u \in Tasks : task[t] = "awaiting" /\ task[u] = "awaiting" => t = u
           /\ \A t \in Tasks : task[t] = "awaiting" => position[t] = Len(ran)

HooksInv == HooksTypeOK /\ HooksInOrder /\ OneLoop

\* Going on with the next hook, a call that is alone in the loop keeps the
\* invariant, and completes with nothing left to run.
LEMMA LoopKeeps ==
    ASSUME HooksInv, NEW t \in Tasks, LoopAt(t, Len(ran) + 1), UNCHANGED registered,
           shuttingDown', shuttingDown' \in BOOLEAN,
           \A u \in Tasks : task[u] = "awaiting" => u = t
    PROVE  HooksInv' /\ (task'[t] = "complete" => Len(ran') = Len(registered'))
<1> USE DEF HooksInv, HooksTypeOK, HooksInOrder, OneLoop, Move
<1>1. CASE Len(ran) + 1 <= Len(registered)
  <2> DEFINE h == registered[Len(ran) + 1]
  <2>1. Len(ran) \in Nat /\ h \in Hooks
        BY <1>1
  <2>2. /\ task' = [task EXCEPT ![t] = "awaiting"]
        /\ position' = [position EXCEPT ![t] = Len(ran) + 1]
        /\ ran' = Append(ran, h)
        BY <1>1 DEF LoopAt
  <2>3. /\ ran' \in Seq(Hooks) /\ Len(ran') = Len(ran) + 1
        /\ \A i \in 1..Len(ran) : ran'[i] = ran[i]
        /\ ran'[Len(ran) + 1] = h
        BY <2>1, <2>2
  <2> HIDE DEF h
  <2>4. HooksTypeOK'
        BY <2>1, <2>2, <2>3
  <2>5. HooksInOrder'
    <3>1. Len(ran') <= Len(registered')
          BY <1>1, <2>3
    <3>2. ASSUME NEW i \in DOMAIN ran' PROVE ran'[i] = registered'[i]
      <4>1. i \in 1..(Len(ran) + 1)
            BY <2>3
      <4>2. i \in 1..Len(ran) \/ i = Len(ran) + 1
            BY <2>1, <4>1
      <4>3. i \in 1..Len(ran) => ran[i] = registered[i]
            OBVIOUS
      <4> QED BY <2>3, <4>2, <4>3 DEF h
    <3> QED BY <3>1, <3>2
  <2>6. OneLoop'
        BY <2>2, <2>3
  <2>7. task'[t] # "complete"
        BY <2>2
  <2> QED BY <2>4, <2>5, <2>6, <2>7
<1>2. CASE ~(Len(ran) + 1 <= Len(registered))
  <2>1. task' = [task EXCEPT ![t] = "complete"] /\ UNCHANGED <<position, ran>>
        BY <1>2 DEF LoopAt
  <2>2. Len(ran) = Len(registered)
        BY <1>2
  <2> QED BY <2>1, <2>2
<1> QED BY <1>1, <1>2

\* A call that begins or goes on keeps the invariant.
LEMMA LoopStep ==
    ASSUME HooksInv, NEW t \in Tasks, StartShutdown(t) \/ HookEnds(t)
    PROVE  HooksInv' /\ (task'[t] = "complete" => Len(ran') = Len(registered'))
<1>1. CASE StartShutdown(t) /\ AlreadyBegun
      BY <1>1 DEF StartShutdown, AlreadyBegun, Move, HooksInv, HooksTypeOK, HooksInOrder, OneLoop
<1>2. CASE StartShutdown(t) /\ ~AlreadyBegun
  <2>1. ran = <<>> /\ Len(ran) + 1 = 1 /\ \A u \in Tasks : task[u] # "awaiting"
        BY <1>2 DEF AlreadyBegun, HooksInv, OneLoop
  <2>2. LoopAt(t, Len(ran) + 1) /\ shuttingDown' /\ shuttingDown' \in BOOLEAN
        /\ UNCHANGED registered
        BY <1>2, <2>1 DEF StartShutdown
  <2> QED BY <2>1, <2>2, LoopKeeps
<1>3. CASE HookEnds(t)
  <2>1. /\ position[t] = Len(ran) /\ shuttingDown
        /\ \A u \in Tasks : task[u] = "awaiting" => u = t
        BY <1>3 DEF HookEnds, HooksInv, OneLoop
  <2>2. LoopAt(t, Len(ran) + 1) /\ shuttingDown' /\ shuttingDown' \in BOOLEAN
        /\ UNCHANGED registered
        BY <1>3, <2>1 DEF HookEnds, HooksInv, HooksTypeOK
  <2> QED BY <2>1, <2>2, LoopKeeps
<1> QED BY <1>1, <1>2, <1>3

\* Every step preserves the invariant.
LEMMA HooksStep == HooksInv /\ [HooksNext]_hookVars => HooksInv'
<1> SUFFICES ASSUME HooksInv, [HooksNext]_hookVars PROVE HooksInv'
    OBVIOUS
<1> USE DEF HooksInv, HooksTypeOK, HooksInOrder, OneLoop
<1>1. ASSUME NEW h \in Hooks, Register(h) PROVE HooksInv'
  <2>1. /\ registered' \in Seq(Hooks) /\ Len(registered') = Len(registered) + 1
        /\ \A i \in 1..Len(registered) : registered'[i] = registered[i]
        BY <1>1 DEF Register
  <2>2. \A i \in DOMAIN ran : i \in 1..Len(registered)
        OBVIOUS
  <2> QED BY <1>1, <2>1, <2>2 DEF Register
<1>2. ASSUME NEW t \in Tasks, Signal(t) PROVE HooksInv'
      BY <1>2 DEF Signal, Move
<1>3. ASSUME NEW t \in Tasks, StartShutdown(t) \/ HookEnds(t) PROVE HooksInv'
      BY <1>3, LoopStep
<1>4. ASSUME NEW t \in Tasks, CancelTask(t) PROVE HooksInv'
      BY <1>4 DEF CancelTask, Move
<1>5. CASE NextProcess
  <2>1. <<>> \in Seq(Hooks) /\ Len(<<>>) = 0 /\ DOMAIN <<>> = {}
        OBVIOUS
  <2>2. HooksTypeOK' /\ OneLoop'
        BY <1>5, <2>1 DEF NextProcess
  <2>3. HooksInOrder'
        BY <1>5, <2>1 DEF NextProcess
  <2> QED BY <2>2, <2>3
<1>6. CASE UNCHANGED hookVars
      BY <1>6 DEF hookVars
<1> QED BY <1>1, <1>2, <1>3, <1>4, <1>5, <1>6 DEF HooksNext

\* The invariant holds of the handler.
LEMMA HooksInvariant == HooksSpec => []HooksInv
<1>1. HooksInit => HooksInv
  <2> SUFFICES ASSUME HooksInit PROVE HooksInv
      OBVIOUS
  <2>1. <<>> \in Seq(Hooks) /\ Len(<<>>) = 0 /\ DOMAIN <<>> = {}
        OBVIOUS
  <2>2. HooksTypeOK /\ OneLoop
        BY <2>1 DEF HooksInit, HooksTypeOK, OneLoop
  <2>3. HooksInOrder
        BY <2>1 DEF HooksInit, HooksInOrder
  <2> QED BY <2>2, <2>3 DEF HooksInv
<1> QED BY <1>1, HooksStep, PTL DEF HooksSpec

\* The hooks run in order and none twice, however many calls of shutdown there are
\* (shutdown.py:25-40).
THEOREM HooksRunInOrder == HooksSpec => []HooksInOrder
<1>1. HooksInv => HooksInOrder
      BY DEF HooksInv
<1> QED BY <1>1, HooksInvariant, PTL

\* A shutdown that completes has run every hook registered by then
\* (shutdown.py:35-42).
THEOREM CompleteRunsAll == HooksSpec => CompleteIsAll
<1> DEFINE All == \A t \in Tasks : task[t] # "complete" /\ task'[t] = "complete"
                                     => Len(ran') = Len(registered')
<1>1. HooksInv /\ [HooksNext]_hookVars => [All]_hookVars
  <2> SUFFICES ASSUME HooksInv, HooksNext,
                      NEW t \in Tasks, task[t] # "complete", task'[t] = "complete"
               PROVE  Len(ran') = Len(registered')
      OBVIOUS
  <2> USE DEF HooksInv, HooksTypeOK
  <2>1. ASSUME NEW u \in Tasks, StartShutdown(u) \/ HookEnds(u) PROVE t = u
        BY <2>1 DEF StartShutdown, HookEnds, LoopAt, Move
  <2>2. ASSUME NEW u \in Tasks, Signal(u) \/ CancelTask(u) PROVE FALSE
        BY <2>2 DEF Signal, CancelTask, Move
  <2>3. ASSUME NEW h \in Hooks, Register(h) PROVE FALSE
        BY <2>3 DEF Register
  <2>4. ~NextProcess
        BY DEF NextProcess
  <2> QED BY <2>1, <2>2, <2>3, <2>4, LoopStep DEF HooksNext
<1> QED BY <1>1, HooksInvariant, PTL DEF HooksSpec, CompleteIsAll

-------------------------------------------------------------------------------
(* The rate limiter                                                        *)

\* A clock that is set back costs what it was set back by, once.
SetBackOnce == /\ tokens >= -back /\ tokens + since >= -back
               /\ since >= -back
               /\ \A c \in Callers : waited[c] >= -back

LimiterInv == LimiterTypeOK /\ SetBackOnce

\* A clock that is set back lowers every bound by the same.
LEMMA OneLower ==
    ASSUME NEW t \in Int, NEW s \in Int, NEW s1 \in Int, NEW b \in Int,
           t >= -b, s >= -b, t + s >= -b, s1 >= s - 1
    PROVE  t >= -(b + 1) /\ s1 >= -(b + 1) /\ t + s1 >= -(b + 1)
OBVIOUS

\* What a bucket of b comes to that held t, a time s later.
Cap(t, s, b) == IF t + s <= b THEN t + s ELSE b

\* A clock that is set back gives the bucket nothing, and one tick a token at most.
LEMMA OnlyTimeGives ==
    ASSUME tokens \in Int, since \in Int, Burst \in Nat, tokens' = tokens, since' \in Int
    PROVE  /\ since' <= since => Available' <= Available
           /\ since' <= since + 1 => Available' <= Available + 1
           /\ Available' \in Int /\ Available' <= Burst
<1>1. Available = Cap(tokens, since, Burst) /\ Available' = Cap(tokens, since', Burst)
      BY Zenon DEF Available, Cap
<1>2. Burst \in Int
      OBVIOUS
<1>3. tokens \in Int /\ since \in Int /\ since' \in Int
      OBVIOUS
<1>4. PICK s1 \in Int : s1 = since'
      BY <1>3
<1>5. /\ s1 <= since => Cap(tokens, s1, Burst) <= Cap(tokens, since, Burst)
      /\ s1 <= since + 1 => Cap(tokens, s1, Burst) <= Cap(tokens, since, Burst) + 1
      /\ Cap(tokens, s1, Burst) \in Int /\ Cap(tokens, s1, Burst) <= Burst
      BY <1>2, <1>3 DEF Cap
<1> QED BY Zenon, <1>1, <1>4, <1>5

\* What is missing from the bucket covers the excess still, when a token comes with
\* a tick and when none comes.
LEMMA StillCovered ==
    \A b, e, a, a1 \in Int :
      e <= b - a => /\ a1 <= a => e <= b - a1
                    /\ a1 <= a + 1 => e - 1 <= b - a1
                    /\ a1 <= b => 0 <= b - a1
OBVIOUS

\* A refill that takes no more than there is leaves the bucket within its bounds,
\* and full to the same level but for what it took.
LEMMA RefillKeeps ==
    ASSUME LimiterTypeOK, SetBackOnce,
           NEW taken \in Nat, taken = 0 \/ taken <= Available, Refill(taken)
    PROVE  /\ tokens' \in -MaxBack..Burst /\ since' \in -MaxBack..Full
           /\ tokens' >= -back /\ tokens' + since' >= -back /\ since' >= -back
           /\ Available' = Available - taken
<1> USE LimiterAssumption DEF LimiterTypeOK, SetBackOnce, Full
<1>1. /\ tokens \in Int /\ since \in Int /\ back \in 0..MaxBack /\ Burst \in Nat /\ MaxBack \in Nat
      OBVIOUS
<1>2. Available \in Int /\ Available <= Burst /\ Available >= -back
      BY <1>1 DEF Available
<1>3. tokens' = Available - taken /\ since' = 0
      BY DEF Refill
<1>4. Available' = tokens'
      BY <1>1, <1>2, <1>3 DEF Available
<1> QED BY <1>1, <1>2, <1>3, <1>4

\* What a caller's return or a new call leaves of the callers' variables.
LEMMA ReturnKeeps ==
    ASSUME LimiterInv, NEW c \in Callers, NEW answer \in {"granted", "denied"},
           AcquireReturns(c, answer)
    PROVE  /\ call' \in [Callers -> {"idle", "trying", "refused", "granted", "denied"}]
           /\ timeout' \in [Callers -> Timeouts]
           /\ waited' \in [Callers -> -MaxBack..TooLong]
           /\ \A d \in Callers : waited'[d] >= -back
<1> USE LimiterAssumption DEF LimiterInv, LimiterTypeOK, SetBackOnce, AcquireReturns
<1>1. 0 \in -MaxBack..TooLong /\ 0 >= -back /\ NoTimeout \in Timeouts
      BY DEF TooLong, Timeouts
<1> QED BY <1>1

\* Every try, look and tick preserves the invariant.
LEMMA LimiterStep == LimiterInv /\ [LimiterNext]_limiterVars => LimiterInv'
<1> SUFFICES ASSUME LimiterInv, [LimiterNext]_limiterVars PROVE LimiterInv'
    OBVIOUS
<1> USE LimiterAssumption DEF LimiterInv, LimiterTypeOK, SetBackOnce
<1>1. ASSUME NEW c \in Callers, StartAcquire(c) PROVE LimiterInv'
  <2>1. 0 \in -MaxBack..TooLong /\ 0 >= -back
        BY DEF TooLong
  <2> QED BY <1>1, <2>1 DEF StartAcquire
<1>2. ASSUME NEW c \in Callers, TakeTokens(c) PROVE LimiterInv'
  <2>1. want[c] \in Nat /\ want[c] <= Available /\ Refill(want[c])
        BY <1>2 DEF TakeTokens, Available
  <2>2. AcquireReturns(c, "granted") /\ UNCHANGED <<want, back>> /\ excess' = excess + want[c]
        BY <1>2 DEF TakeTokens
  <2> QED BY <2>1, <2>2, RefillKeeps, ReturnKeeps
<1>3. ASSUME NEW c \in Callers, FindTooFew(c) PROVE LimiterInv'
      BY <1>3, RefillKeeps DEF FindTooFew
<1>4. ASSUME NEW c \in Callers, GiveUpOrSleep(c) PROVE LimiterInv'
  <2>1. CASE AcquireReturns(c, "denied")
        BY <1>4, <2>1, ReturnKeeps DEF GiveUpOrSleep
  <2>2. CASE ~TimeoutOver(c)
        BY <1>4, <2>2 DEF GiveUpOrSleep
  <2> QED BY <1>4, <2>1, <2>2 DEF GiveUpOrSleep
<1>5. CASE Look
      BY <1>5, RefillKeeps DEF Look
<1>6. CASE LimiterTick
  <2>1. since' \in -MaxBack..Full /\ since' >= since
        BY <1>6 DEF LimiterTick, Full
  <2>2. waited' \in [Callers -> -MaxBack..TooLong] /\ \A c \in Callers : waited'[c] >= waited[c]
        BY <1>6 DEF LimiterTick, TooLong
  <2>3. \A c \in Callers : waited'[c] >= -back
        BY <2>2 DEF TooLong
  <2> QED BY <1>6, <2>1, <2>2, <2>3 DEF LimiterTick, Full
<1>7. CASE ClockSetBack
  <2>1. back' = back + 1 /\ back' \in 0..MaxBack
        BY <1>7 DEF ClockSetBack
  <2>2. since' \in -MaxBack..Full /\ since' >= since - 1
        BY <1>7, <2>1 DEF ClockSetBack, SetBack, Full
  <2>3. /\ waited' \in [Callers -> -MaxBack..TooLong]
        /\ \A c \in Callers : waited'[c] >= waited[c] - 1
        BY <1>7, <2>1 DEF ClockSetBack, TooLong
  <2>4. \A c \in Callers : waited'[c] >= -back'
        BY <2>1, <2>3 DEF TooLong
  <2>5. UNCHANGED <<tokens, call, want, timeout, excess>>
        BY <1>7 DEF ClockSetBack
  <2>6. tokens' >= -back' /\ since' >= -back' /\ tokens' + since' >= -back'
    <3>1. /\ tokens \in Int /\ since \in Int /\ since' \in Int /\ back \in Int
          /\ tokens >= -back /\ tokens + since >= -back /\ since >= -back
          BY <2>2 DEF Full
    <3>2. since' >= since - 1 /\ back' = back + 1 /\ tokens' = tokens
          BY <2>1, <2>2, <2>5
    <3>3. /\ tokens >= -(back + 1) /\ since' >= -(back + 1)
          /\ tokens + since' >= -(back + 1)
          BY <3>1, <3>2, OneLower
    <3> QED BY <3>2, <3>3
  <2> QED BY <2>1, <2>2, <2>3, <2>4, <2>5, <2>6
<1>8. CASE UNCHANGED limiterVars
      BY <1>8 DEF limiterVars
<1> QED BY <1>1, <1>2, <1>3, <1>4, <1>5, <1>6, <1>7, <1>8 DEF LimiterNext

\* The invariant holds of the limiter.
LEMMA LimiterInvariant == LimiterSpec => []LimiterInv
<1>1. LimiterInit => LimiterInv
  <2>1. /\ Burst \in -MaxBack..Burst /\ 0 \in -MaxBack..Full /\ 0 \in -MaxBack..TooLong
        /\ 0 \in 0..MaxBack /\ NoTimeout \in Timeouts /\ 0 >= -0 /\ Burst >= -0 /\ Burst + 0 >= -0
        BY LimiterAssumption DEF Full, TooLong, Timeouts
  <2> QED BY <2>1 DEF LimiterInit, LimiterInv, LimiterTypeOK, SetBackOnce
<1> QED BY <1>1, LimiterStep, PTL DEF LimiterSpec

\* The bucket holds between -MaxBack and burst_size tokens, whoever takes or looks
\* (rate_limiter.py:20-67).
THEOREM LimiterTypeCorrect == LimiterSpec => []LimiterTypeOK
<1>1. LimiterInv => LimiterTypeOK
      BY DEF LimiterInv
<1> QED BY <1>1, LimiterInvariant, PTL

-------------------------------------------------------------------------------
\* Whatever was granted beyond the rate is missing from the bucket.
Covered == excess <= Burst - Available

\* Grants take as much from the bucket as they add to the excess, and what time gives
\* the bucket it takes from the excess.
LEMMA CoveredStep == LimiterInv /\ Covered /\ [LimiterNext]_limiterVars => Covered'
<1> SUFFICES ASSUME LimiterInv, Covered, [LimiterNext]_limiterVars PROVE Covered'
    OBVIOUS
<1> USE LimiterAssumption DEF LimiterInv, LimiterTypeOK
<1>0. /\ Available \in Int /\ Burst \in Nat /\ excess \in Nat /\ excess <= Burst - Available
      /\ tokens \in Int /\ since \in Int
      BY DEF Available, Covered, Full
<1>1. ASSUME Available' = Available, excess' = excess PROVE Covered'
      BY <1>0, <1>1 DEF Covered
<1>2. ASSUME NEW c \in Callers, TakeTokens(c) PROVE Covered'
  <2>1. want[c] \in Nat /\ want[c] <= Available /\ Available' = Available - want[c]
        BY <1>0, <1>2, RefillKeeps DEF TakeTokens
  <2>2. excess' = excess + want[c]
        BY <1>2 DEF TakeTokens
  <2> QED BY <1>0, <2>1, <2>2 DEF Covered
<1>3. ASSUME NEW c \in Callers, FindTooFew(c) PROVE Covered'
      BY <1>0, <1>1, <1>3, RefillKeeps DEF FindTooFew
<1>4. CASE Look
      BY <1>0, <1>1, <1>4, RefillKeeps DEF Look
<1>5. CASE LimiterTick
  <2>1. tokens' = tokens /\ since' \in Int /\ since' <= since + 1
        BY <1>0, <1>5 DEF LimiterTick
  <2>2. Available' \in Int /\ Available' <= Available + 1 /\ Available' <= Burst
        BY <1>0, <2>1, OnlyTimeGives
  <2>3. excess' = (IF excess > 0 THEN excess - 1 ELSE 0) /\ excess' \in Int
        BY <1>0, <1>5 DEF LimiterTick
  <2>4. /\ Burst \in Int /\ excess \in Int /\ Available \in Int
        /\ excess <= Burst - Available
        BY <1>0
  <2>5. excess - 1 <= Burst - Available' /\ 0 <= Burst - Available'
        BY Zenon, <2>2, <2>4, StillCovered
  <2>6. excess' = excess - 1 \/ excess' = 0
        BY <2>3
  <2> QED BY Zenon, <2>5, <2>6 DEF Covered
<1>6. CASE ClockSetBack
  <2>1. tokens' = tokens /\ since' \in Int /\ since' <= since /\ excess' = excess
        BY <1>0, <1>6 DEF ClockSetBack, SetBack
  <2>2. Available' \in Int /\ Available' <= Available
        BY <1>0, <2>1, OnlyTimeGives
  <2>3. Burst \in Int /\ excess \in Int
        BY <1>0
  <2> QED BY Zenon, <1>0, <2>1, <2>2, <2>3, StillCovered DEF Covered
<1>7. ASSUME NEW c \in Callers, StartAcquire(c) \/ GiveUpOrSleep(c) PROVE Covered'
      BY <1>1, <1>7 DEF StartAcquire, GiveUpOrSleep, Available
<1>8. CASE UNCHANGED limiterVars
      BY <1>1, <1>8 DEF limiterVars, Available
<1> QED BY <1>2, <1>3, <1>4, <1>5, <1>6, <1>7, <1>8 DEF LimiterNext

status == [c \in Callers |-> IF InAcquire(c) THEN "asked" ELSE call[c]]

\* A step of the limiter is a step of the contract, or none.
LEMMA ContractStep ==
    LimiterInv /\ Covered /\ [LimiterNext]_limiterVars => [Contract!Next]_(Contract!vars)
<1> SUFFICES ASSUME LimiterInv, Covered, [LimiterNext]_limiterVars
             PROVE  Contract!Next \/ UNCHANGED Contract!vars
    OBVIOUS
<1> USE LimiterAssumption DEF LimiterInv, LimiterTypeOK
<1>0. /\ Available \in Int /\ Burst \in Nat /\ excess \in Nat /\ excess <= Burst - Available
      BY DEF Available, Covered
<1>1. ASSUME NEW c \in Callers, StartAcquire(c) PROVE Contract!Next
  <2>1. PICK n \in Wants : want' = [want EXCEPT ![c] = n]
        BY <1>1 DEF StartAcquire
  <2>2. excess' = excess /\ ~InAcquire(c) /\ status[c] # "asked"
        BY <1>1 DEF StartAcquire, status, InAcquire
  <2>3. status' = [status EXCEPT ![c] = "asked"]
        BY <1>1 DEF StartAcquire, status, InAcquire
  <2>4. Contract!Ask(c, n)
        BY <2>1, <2>2, <2>3 DEF Contract!Ask, status
  <2> QED BY <2>4 DEF Contract!Next
<1>2. ASSUME NEW c \in Callers, TakeTokens(c) PROVE Contract!Next
  <2>1. /\ want[c] \in Nat /\ want[c] <= Available /\ excess' = excess + want[c]
        /\ excess + want[c] <= Burst
    <3>1. want[c] \in Nat /\ want[c] <= Available /\ excess' = excess + want[c]
          BY <1>0, <1>2 DEF TakeTokens
    <3> QED BY <1>0, <3>1
  <2>2. status[c] = "asked" /\ status' = [status EXCEPT ![c] = "granted"] /\ want' = want
        BY <1>2 DEF TakeTokens, AcquireReturns, status, InAcquire
  <2>3. Contract!Grant(c)
        BY <2>1, <2>2 DEF Contract!Grant, status
  <2> QED BY <2>3 DEF Contract!Next
<1>3. ASSUME NEW c \in Callers, FindTooFew(c) PROVE UNCHANGED Contract!vars
  <2>1. status' = status /\ want' = want /\ excess' = excess
        BY <1>3 DEF FindTooFew, status, InAcquire
  <2> QED BY <2>1 DEF Contract!vars, status
<1>4. ASSUME NEW c \in Callers, GiveUpOrSleep(c) PROVE Contract!Next \/ UNCHANGED Contract!vars
  <2>1. excess' = excess /\ want' = want /\ status[c] = "asked"
        BY <1>4 DEF GiveUpOrSleep, status, InAcquire
  <2>2. CASE TimeoutOver(c)
    <3>1. status' = [status EXCEPT ![c] = "denied"]
          BY <1>4, <2>2 DEF GiveUpOrSleep, AcquireReturns, status, InAcquire
    <3>2. Contract!Deny(c)
          BY <2>1, <3>1 DEF Contract!Deny, status
    <3> QED BY <3>2 DEF Contract!Next
  <2>3. CASE ~TimeoutOver(c)
    <3>1. status' = status
          BY <1>4, <2>3 DEF GiveUpOrSleep, status, InAcquire
    <3> QED BY <2>1, <3>1 DEF Contract!vars, status
  <2> QED BY <2>2, <2>3
<1>5. CASE LimiterTick
  <2>1. status' = status /\ want' = want /\ excess' = IF excess > 0 THEN excess - 1 ELSE 0
        BY <1>5 DEF LimiterTick, status, InAcquire
  <2>2. Contract!Tick
        BY <2>1 DEF Contract!Tick, status
  <2> QED BY <2>2 DEF Contract!Next
<1>6. CASE Look \/ ClockSetBack
  <2>1. excess' = excess /\ status' = status /\ want' = want
        BY <1>6 DEF Look, ClockSetBack, status, InAcquire
  <2> QED BY <2>1 DEF Contract!vars, status
<1>7. CASE UNCHANGED limiterVars
      BY <1>7 DEF limiterVars, Contract!vars, InAcquire
<1> QED BY <1>1, <1>2, <1>3, <1>4, <1>5, <1>6, <1>7 DEF LimiterNext

\* Any number of callers together are granted, in any stretch of time, at most
\* burst_size tokens more than the rate allows in it, whatever they ask for and
\* however far the clock is set back (rate_limiter.py:26-56).
THEOREM RateIsKept == LimiterSpec => RateKept
<1>1. LimiterInit => Contract!Init /\ Covered
  <2> SUFFICES ASSUME LimiterInit PROVE Contract!Init /\ Covered
      OBVIOUS
  <2>1. Available = Burst /\ excess = 0 /\ Burst \in Nat
        BY LimiterAssumption DEF LimiterInit, Available
  <2>2. [c \in Callers |-> IF InAcquire(c) THEN "asked" ELSE call[c]]
          = [c \in Callers |-> "idle"]
        BY DEF LimiterInit, InAcquire
  <2> QED BY <2>1, <2>2, LimiterAssumption DEF LimiterInit, Contract!Init, Covered
<1> QED BY <1>1, LimiterInvariant, CoveredStep, ContractStep, PTL
        DEF LimiterSpec, RateKept, Contract!Spec

-------------------------------------------------------------------------------
(* The parts put together                                                  *)

\* A step of MCInProcess is a step of one part and leaves the others as they are;
\* the breaker moves alone or with its fetches.
LEMMA EachPartSteps ==
    [ProcessNext]_parts => /\ [Next]_vars /\ [LimiterNext]_limiterVars
                           /\ [ControllerNext]_controllerVars /\ [WrapperNext]_wrapperVars
                           /\ [LockNext]_lockVars /\ [HooksNext]_hookVars
                           /\ [FetchNext]_fetchVars \/ UNCHANGED <<fetch, fetches>>
                           /\ part' = part /\ (part = "fetch" => [FetchNext]_fetchVars)
<1> SUFFICES ASSUME [ProcessNext]_parts
             PROVE  /\ [Next]_vars /\ [LimiterNext]_limiterVars
                    /\ [ControllerNext]_controllerVars /\ [WrapperNext]_wrapperVars
                    /\ [LockNext]_lockVars /\ [HooksNext]_hookVars
                    /\ [FetchNext]_fetchVars \/ UNCHANGED <<fetch, fetches>>
                    /\ part' = part /\ (part = "fetch" => [FetchNext]_fetchVars)
    OBVIOUS
<1>1. UNCHANGED fetchVars => UNCHANGED vars /\ UNCHANGED <<fetch, fetches>>
      BY DEF fetchVars
<1>2. CASE Rest("breaker") /\ Next
      BY <1>2 DEF Rest
<1>3. CASE Rest("fetch") /\ FetchNext
      BY <1>3, DrivesStep DEF Rest
<1>4. CASE Rest("limiter") /\ LimiterNext
      BY <1>1, <1>4 DEF Rest
<1>5. CASE Rest("controller") /\ ControllerNext
      BY <1>1, <1>5 DEF Rest
<1>6. CASE Rest("wrapper") /\ WrapperNext
      BY <1>1, <1>6 DEF Rest
<1>7. CASE Rest("lock") /\ LockNext
      BY <1>1, <1>7 DEF Rest
<1>8. CASE Rest("hooks") /\ HooksNext
      BY <1>1, <1>8 DEF Rest
<1>9. CASE UNCHANGED parts
      BY <1>1, <1>9 DEF parts
<1> QED BY <1>2, <1>3, <1>4, <1>5, <1>6, <1>7, <1>8, <1>9 DEF ProcessNext

\* A behaviour of MCInProcess is one of each part, and of the adapter's fetches when
\* they are at work.  What is proved of a part for its own specification holds of
\* the run's.
THEOREM EachPartIsItself ==
    ProcessSpec => /\ Spec /\ LimiterSpec /\ ControllerSpec /\ WrapperSpec /\ LockSpec /\ HooksSpec
                   /\ part = "fetch" => FetchSpec
<1>1. ProcessInit => /\ Init /\ LimiterInit /\ ControllerInit /\ WrapperInit /\ LockInit /\ HooksInit
                     /\ part = "fetch" => FetchInit
      BY DEF ProcessInit, FetchInit
<1>2. [ProcessNext]_parts /\ part = "fetch" => (part = "fetch")' /\ [FetchNext]_fetchVars
      BY EachPartSteps
<1> QED BY <1>1, <1>2, EachPartSteps, PTL
        DEF ProcessSpec, Spec, LimiterSpec, ControllerSpec, WrapperSpec, LockSpec, HooksSpec, FetchSpec

\* Fetches stay typed and explained while the breaker works alone or with them.
LEMMA FetchesStayExplained == ProcessSpec => []FetchesExplained
<1>1. ProcessInit => FetchesExplained /\ Inv
  <2> SUFFICES ASSUME ProcessInit PROVE FetchesExplained /\ Inv
      OBVIOUS
  <2>1. Inv
        BY InitInv DEF ProcessInit
  <2>2. /\ NoFetch \in Fetches /\ Explained(NoFetch)
        /\ 0 \in 0..FailureThreshold /\ FailureThreshold \in 0..FailureThreshold
        BY NoFinds, FetchAssumption, ConfigAssumption DEF NoFetch, Fetches, Explained
  <2>3. fetch = [c \in Calls |-> NoFetch] /\ fetches \in 0..FailureThreshold
        BY <2>2 DEF ProcessInit
  <2> QED BY <2>1, <2>2, <2>3 DEF FetchesExplained, FetchTypeOK, Inv
<1>2. FetchesExplained /\ Inv /\ [ProcessNext]_parts => (FetchesExplained /\ Inv)'
  <2> SUFFICES ASSUME FetchesExplained, Inv, [ProcessNext]_parts PROVE (FetchesExplained /\ Inv)'
      OBVIOUS
  <2>1. Inv' /\ ([FetchNext]_fetchVars \/ UNCHANGED <<fetch, fetches>>)
        BY EachPartSteps, InvStep
  <2>2. CASE [FetchNext]_fetchVars
        BY <2>1, <2>2, ExplainedStep
  <2>3. CASE UNCHANGED <<fetch, fetches>>
        BY <2>1, <2>3 DEF FetchesExplained, FetchTypeOK, Inv
  <2> QED BY <2>1, <2>2, <2>3
<1> QED BY <1>1, <1>2, PTL DEF ProcessSpec

\* The parts keep their types; a breaker that is not closed has a deadline and counts
\* probes only (hardening/circuit_breaker.py:81-103), the wrapper's is one failure from
\* open (runtime/circuit_breaker.py:26-36), hooks run in order (shutdown.py:27-40).
THEOREM ProcessTypeCorrect == ProcessSpec => []ProcessInv
<1>1. ControllerInit => ControllerInv
      BY DEF ControllerInit, ControllerInv, ControllerTypeOK, InsideOne
<1>2. LockInit => LockInv
  <2>1. 0 \in 0..LockTTL /\ -1 \in -1..LockTTL
        BY LockAssumption
  <2> QED BY <2>1 DEF LockInit, LockInv, LockTypeOK, GrantIsLease
<1>3. ControllerInv => ControllerTypeOK
      BY DEF ControllerInv
<1>4. WrapperInv => WrapperTypeOK /\ TrippedIsFull
      BY DEF WrapperInv
<1>5. LockInv => LockTypeOK
      BY DEF LockInv
<1>6. HooksInv => HooksTypeOK /\ HooksInOrder
      BY DEF HooksInv
<1>7. /\ FetchTypeOK /\ TripHasDeadline /\ SuccessesAreProbes /\ LimiterTypeOK /\ ControllerTypeOK
      /\ WrapperTypeOK /\ TrippedIsFull /\ LockTypeOK /\ HooksTypeOK /\ HooksInOrder
      => ProcessInv
      BY DEF ProcessInv
<1>8. FetchesExplained => FetchTypeOK
      BY DEF FetchesExplained
<1>9. ProcessSpec => []ControllerInv /\ []LockInv
      BY <1>1, <1>2, EachPartIsItself, ControllerStep, LockStep, PTL DEF ControllerSpec, LockSpec
<1> QED BY <1>3, <1>4, <1>5, <1>6, <1>7, <1>8, <1>9, EachPartIsItself, FetchesStayExplained,
           TripsHaveDeadlines, SuccessesWereProbes, LimiterTypeCorrect, WrapperInvariant, HooksInvariant, PTL

\* In every behaviour of the run, also those that work the breaker or another part:
\* a breaker that is not closed has had failure_threshold fetches, and an empty
\* result is the last resort (hardening/circuit_breaker.py:105-117,
\* prolific/adapter.py:34-58).
THEOREM FetchesKeepTheirPromises == ProcessSpec => [](OpensAfterFetches /\ EmptyIsExplained)
<1> DEFINE Old   == part = "breaker" /\ fetches = FailureThreshold
           Still == part \notin {"breaker", "fetch"} /\ state = "closed"
<1>1. ProcessInit => Old \/ Still \/ part = "fetch"
      BY DEF ProcessInit, Init
<1>2. /\ Old /\ [ProcessNext]_parts => Old'
      /\ Still /\ [ProcessNext]_parts => Still'
  <2>1. ASSUME Old, [ProcessNext]_parts PROVE Old'
        BY <2>1 DEF ProcessNext, Rest, parts, fetchVars
  <2>2. ASSUME Still, [ProcessNext]_parts PROVE Still'
        BY <2>2 DEF ProcessNext, Rest, parts, fetchVars, vars
  <2> QED BY <2>1, <2>2
<1>3. Old \/ Still => OpensAfterFetches
      BY ConfigAssumption DEF OpensAfterFetches
<1>4. FetchesExplained => EmptyIsExplained
      BY DEF FetchesExplained, Explained, EmptyIsExplained
<1> HIDE DEF Old, Still
<1>5. ProcessSpec => []OpensAfterFetches
      BY <1>1, <1>2, <1>3, EachPartIsItself, OpeningTakesFetches, PTL DEF ProcessSpec
<1> QED BY <1>4, <1>5, FetchesStayExplained, PTL
===============================================================================

----------------------------- MODULE RateLimiter -------------------------------
(***************************************************************************)
(* hardening/rate_limiter.py: a token bucket that several threads share.   *)
(* A try of acquire is one step under the lock; between two tries time     *)
(* passes (a sleep of 0.1 seconds, or however long the thread is not run), *)
(* and other threads take tokens or only look.                             *)
(*                                                                         *)
(* Tokens are counted in units of what one tick refills.  time.time() may  *)
(* be set back, by MaxBack ticks in all, which takes no time; that it is   *)
(* set forward is left out.  since and waited stop counting when the       *)
(* bucket is full and every timeout over, whatever happens next.           *)
(***************************************************************************)
EXTENDS Integers

CONSTANTS Callers,
          Burst,        \* burst_size
          Wants,        \* tokens a caller may ask for, more than Burst included
          TimeLimits,   \* timeouts a caller may give
          MaxTimeout,   \* bound: none is longer
          MaxBack       \* bound: how far the clock is set back in all

ASSUME LimiterAssumption == /\ Burst \in Nat \ {0} /\ Wants \subseteq Nat \ {0}
                            /\ MaxTimeout \in Nat /\ TimeLimits \subseteq 0..MaxTimeout
                            /\ MaxBack \in Nat

NoTimeout == -1
Timeouts  == {NoTimeout} \cup TimeLimits

VARIABLES tokens,   \* _tokens
          since,    \* the time since _last_refill
          call,     \* where caller c is in acquire, or how its call ended
          want, timeout,   \* its arguments
          waited,   \* the time since its start_time, if it has a timeout
          back,     \* how far the clock was set back so far
          excess    \* ghost: the most granted beyond the rate in a stretch up to now

limiterVars == <<tokens, since, call, want, timeout, waited, back, excess>>

Full    == Burst + MaxBack        \* since at which any bucket is full
TooLong == MaxTimeout + MaxBack

\* The bucket and the callers' local variables (rate_limiter.py:26-48).
LimiterTypeOK == /\ tokens \in -MaxBack..Burst
                 /\ since \in -MaxBack..Full
                 /\ call \in [Callers -> {"idle", "trying", "refused", "granted", "denied"}]
                 /\ want \in [Callers -> Wants]
                 /\ timeout \in [Callers -> Timeouts]
                 /\ waited \in [Callers -> -MaxBack..TooLong]
                 /\ back \in 0..MaxBack
                 /\ excess \in Nat

LimiterInit == /\ tokens = Burst
               /\ since = 0
               /\ call = [c \in Callers |-> "idle"]
               /\ want \in [Callers -> Wants]
               /\ timeout = [c \in Callers |-> NoTimeout]
               /\ waited = [c \in Callers |-> 0]
               /\ back = 0
               /\ excess = 0

-------------------------------------------------------------------------------
\* Mutant: the time elapsed is taken without its sign.
MutAvailable == LET gap == IF since < 0 THEN -since ELSE since
                IN  IF tokens + gap <= Burst THEN tokens + gap ELSE Burst

\* _refill: what the bucket holds now.
Available == IF tokens + since <= Burst THEN tokens + since ELSE Burst

\* Mutant: a refill that grants nothing moves _last_refill only.
MutRefill(taken) == tokens' = (IF taken = 0 THEN tokens ELSE Available - taken) /\ since' = 0

Refill(taken) == tokens' = Available - taken /\ since' = 0

InAcquire(c) == call[c] \in {"trying", "refused"}
Timed(c)     == timeout[c] # NoTimeout   \* its timeout is gone when it returns

StartAcquire(c) == /\ ~InAcquire(c)
                   /\ call' = [call EXCEPT ![c] = "trying"]
                   /\ \E n \in Wants : want' = [want EXCEPT ![c] = n]
                   /\ \E t \in Timeouts : timeout' = [timeout EXCEPT ![c] = t]
                   /\ waited' = [waited EXCEPT ![c] = 0]
                   /\ UNCHANGED <<tokens, since, back, excess>>

\* acquire returns, and its timeout and start_time are gone.
AcquireReturns(c, answer) == /\ call' = [call EXCEPT ![c] = answer]
                             /\ timeout' = [timeout EXCEPT ![c] = NoTimeout]
                             /\ waited' = [waited EXCEPT ![c] = 0]

TakeTokens(c) == /\ call[c] = "trying" /\ Available >= want[c]
                 /\ Refill(want[c])
                 /\ AcquireReturns(c, "granted")
                 /\ excess' = excess + want[c]
                 /\ UNCHANGED <<want, back>>

FindTooFew(c) == /\ call[c] = "trying" /\ Available < want[c]
                 /\ Refill(0)
                 /\ call' = [call EXCEPT ![c] = "refused"]
                 /\ UNCHANGED <<want, timeout, waited, back, excess>>

\* Mutant: the timeout must be met to the tick.
MutTimeoutOver(c) == Timed(c) /\ waited[c] = timeout[c]

TimeoutOver(c) == Timed(c) /\ waited[c] >= timeout[c]

\* After the lock is released: give up, or sleep and try again.
GiveUpOrSleep(c) == /\ call[c] = "refused"
                    /\ IF TimeoutOver(c) THEN AcquireReturns(c, "denied")
                       ELSE /\ call' = [call EXCEPT ![c] = "trying"]
                            /\ UNCHANGED <<timeout, waited>>
                    /\ UNCHANGED <<tokens, since, want, back, excess>>

\* get_available_tokens
Look == /\ Refill(0)
        /\ UNCHANGED <<call, want, timeout, waited, back, excess>>

LimiterTick == /\ since' = IF since < Full THEN since + 1 ELSE since
               /\ waited' = [c \in Callers |-> IF Timed(c) /\ waited[c] < TooLong
                                               THEN waited[c] + 1 ELSE waited[c]]
               /\ excess' = (IF excess > 0 THEN excess - 1 ELSE 0)
               /\ UNCHANGED <<tokens, call, want, timeout, back>>

\* What a counter that stops at limit may be once the clock is set back by one.
SetBack(counter, limit) == {counter - 1} \cup (IF counter = limit THEN {limit} ELSE {})

ClockSetBack == /\ back < MaxBack
                /\ back' = back + 1
                /\ since' \in SetBack(since, Full)
                /\ \E stay \in BOOLEAN :
                     waited' = [c \in Callers |->
                                  IF ~Timed(c) \/ (stay /\ waited[c] = TooLong)
                                  THEN waited[c] ELSE waited[c] - 1]
                /\ UNCHANGED <<tokens, call, want, timeout, excess>>

Try(c) == TakeTokens(c) \/ FindTooFew(c) \/ GiveUpOrSleep(c)

LimiterNext == \/ \E c \in Callers : StartAcquire(c) \/ TakeTokens(c) \/ FindTooFew(c)
                                     \/ GiveUpOrSleep(c)
               \/ Look \/ LimiterTick \/ ClockSetBack

LimiterSpec == LimiterInit /\ [][LimiterNext]_limiterVars

\* Time passes, and a thread that sleeps is run again; nobody need call.
LimiterFairness == /\ \A c \in Callers : WF_limiterVars(Try(c))
                   /\ WF_limiterVars(LimiterTick)
LimiterFairSpec == LimiterSpec /\ LimiterFairness

-------------------------------------------------------------------------------
\* However tries, looks and the clock interleave, no stretch of time sees more
\* granted than burst_size and what the rate allows in it: what a bucket gains it
\* gains by the passing of time, and a clock that is set back never gives any, not
\* even when it catches up (rate_limiter.py:50-56).
Contract == INSTANCE RateContract WITH
              status <- [c \in Callers |-> IF InAcquire(c) THEN "asked" ELSE call[c]]

RateKept == Contract!Spec

\* A call with a timeout ends, whatever it asks for and whoever competes.
TimedCallsEnd == \A c \in Callers : Timed(c) ~> ~InAcquire(c)

\* The limiter never locks up: while calls that ask for no more than burst_size
\* keep waiting, somebody is granted tokens again and again.  It need not be one
\* of them all: nothing queues, and small requests can starve a large one.  A call
\* for more than burst_size is never granted (rate_limiter.py:40).
Served   == \E c \in Callers : TakeTokens(c)
Hopeful(c) == InAcquire(c) /\ want[c] <= Burst
NoLockUp == []<>(\A c \in Callers : ~Hopeful(c)) \/ []<><<Served>>_limiterVars
===============================================================================

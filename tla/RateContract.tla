----------------------------- MODULE RateContract ------------------------------
(***************************************************************************)
(* What a rate limiter promises whoever shares it: in any stretch of time  *)
(* at most Burst tokens are granted beyond what the rate allows in it.     *)
(* Time passes in ticks, and a token is what the rate allows in one tick.  *)
(*                                                                         *)
(* excess is exactly the largest of that surplus over all stretches that   *)
(* end now, the empty one included: a grant adds to that of every stretch, *)
(* and only a tick takes one from each, until the empty one is the largest.*)
(***************************************************************************)
EXTENDS Integers

CONSTANTS Callers, Wants, Burst

VARIABLES excess,
          status,   \* what each caller's last question has come to
          want      \* the tokens it asked for

vars == <<excess, status, want>>

Init == /\ excess = 0
        /\ status = [c \in Callers |-> "idle"]
        /\ want \in [Callers -> Wants]

Ask(c, n) == /\ status[c] # "asked"
             /\ status' = [status EXCEPT ![c] = "asked"]
             /\ want' = [want EXCEPT ![c] = n]
             /\ UNCHANGED excess

Grant(c) == /\ status[c] = "asked"
            /\ excess + want[c] <= Burst
            /\ excess' = excess + want[c]
            /\ status' = [status EXCEPT ![c] = "granted"]
            /\ UNCHANGED want

\* The limiter may allow less than it could.
Deny(c) == /\ status[c] = "asked"
           /\ status' = [status EXCEPT ![c] = "denied"]
           /\ UNCHANGED <<excess, want>>

Tick == /\ excess' = IF excess > 0 THEN excess - 1 ELSE 0
        /\ UNCHANGED <<status, want>>

Next == \/ \E c \in Callers : (\E n \in Wants : Ask(c, n)) \/ Grant(c) \/ Deny(c)
        \/ Tick

Spec == Init /\ [][Next]_vars
===============================================================================

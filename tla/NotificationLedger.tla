-------------------------- MODULE NotificationLedger --------------------------
(***************************************************************************)
(* What the chat may see of the surveys: a survey is claimed, then some    *)
(* messages about it arrive, then the claim lapses and it may be claimed   *)
(* again.  Nothing is said here of cycles, tasks, processes or Redis.      *)
(***************************************************************************)
EXTENDS Naturals

CONSTANTS Surveys, MaxAttempts

VARIABLES claimed,   \* the surveys that are claimed
          sent       \* messages about a survey since it was claimed

vars == <<claimed, sent>>

Init == /\ claimed = {}
        /\ sent = [s \in Surveys |-> 0]

Claim(s) == /\ s \notin claimed
            /\ claimed' = claimed \cup {s}
            /\ UNCHANGED sent

Notify(s) == /\ s \in claimed
             /\ sent[s] < MaxAttempts
             /\ sent' = [sent EXCEPT ![s] = @ + 1]
             /\ UNCHANGED claimed

Lapse(s) == /\ s \in claimed
            /\ claimed' = claimed \ {s}
            /\ sent' = [sent EXCEPT ![s] = 0]

Next == \E s \in Surveys : Claim(s) \/ Notify(s) \/ Lapse(s)

Spec == Init /\ [][Next]_vars
===============================================================================

------------------------------ MODULE AtomicGate ------------------------------
(***************************************************************************)
(* What the callers of the idempotency gate rely on, whatever the gate     *)
(* does inside: a question about a key is answered at one instant, and at  *)
(* that instant it is granted only if nobody holds the key.  A key is      *)
(* given back when it expires or is cleared.  A call may also end in an    *)
(* exception, and then the caller does not know whether the key is taken.  *)
(***************************************************************************)
CONSTANTS Clients, Keys

VARIABLES taken,    \* the keys somebody holds
          status,   \* what each client's last question has come to
          key       \* the key that question was about

vars == <<taken, status, key>>

Answers == {"ACCEPTED", "DUPLICATE", "raised"}
Resting == Answers \cup {"idle"}

Init == /\ taken = {}
        /\ status = [c \in Clients |-> "idle"]
        /\ key \in [Clients -> Keys]

Ask(c, k) == /\ status[c] \in Resting
             /\ status' = [status EXCEPT ![c] = "asked"]
             /\ key' = [key EXCEPT ![c] = k]
             /\ UNCHANGED taken

Grant(c) == /\ status[c] = "asked"
            /\ key[c] \notin taken
            /\ taken' = taken \cup {key[c]}
            /\ status' = [status EXCEPT ![c] = "ACCEPTED"]
            /\ UNCHANGED key

\* The refusal is decided while the key is held; the client may hear of it
\* later, when the key may be free again.
Refuse(c) == /\ status[c] = "asked"
             /\ key[c] \in taken
             /\ \E s \in {"refused", "DUPLICATE"} : status' = [status EXCEPT ![c] = s]
             /\ UNCHANGED <<taken, key>>

Tell(c) == /\ status[c] = "refused"
           /\ status' = [status EXCEPT ![c] = "DUPLICATE"]
           /\ UNCHANGED <<taken, key>>

\* The store failed: the key may have been taken on the client's behalf.
Fail(c) == /\ status[c] \in {"asked", "refused"}
           /\ \/ UNCHANGED taken
              \/ status[c] = "asked" /\ taken' = taken \cup {key[c]}
           /\ status' = [status EXCEPT ![c] = "raised"]
           /\ UNCHANGED key

GiveBack == /\ taken' \in SUBSET taken
            /\ UNCHANGED <<status, key>>

Next == \/ \E c \in Clients : \/ \E k \in Keys : Ask(c, k)
                              \/ Grant(c) \/ Refuse(c) \/ Tell(c) \/ Fail(c)
        \/ GiveBack

Spec == Init /\ [][Next]_vars
===============================================================================

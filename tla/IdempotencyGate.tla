--------------------------- MODULE IdempotencyGate ----------------------------
(***************************************************************************)
(* RedisIdempotencyGate (idempotency/gate.py) shared by several clients:   *)
(* coroutines of one process, or processes, that reach the same Redis.     *)
(* check_and_set is three Redis commands (GET, SET NX EX, GET); each is    *)
(* atomic in Redis and the commands of different clients interleave.       *)
(* Redis is a map from keys to the instant at which they expire; the       *)
(* stored timestamp itself is abstracted away.                             *)
(***************************************************************************)
EXTENDS Integers

CONSTANTS Clients, Keys,
          TTL,      \* ttl_seconds
          MaxTime   \* bound: the clock of a run stops here

ASSUME TTLAssumption  == TTL \in Nat \ {0}
ASSUME TimeAssumption == MaxTime \in Nat

VARIABLES now,        \* Redis's clock
          expires,    \* expires[k]: the key exists while now < expires[k]
          pc,         \* the command client c runs next, or how its call ended
          key,        \* the key of client c's call
          lastGrant   \* ghost: when k was last ACCEPTED (-TTL: not since a clear)

vars == <<now, expires, pc, key, lastGrant>>

Answers  == {"ACCEPTED", "DUPLICATE", "raised"}
Resting  == Answers \cup {"idle"}
Commands == {"get", "set", "reget"}

\* Times are natural numbers and every client is at a command or an answer of
\* check_and_set (gate.py:28-64).
TypeOK == /\ now \in Nat
          /\ expires \in [Keys -> Nat]
          /\ pc \in [Clients -> Resting \cup Commands]
          /\ key \in [Clients -> Keys]
          /\ lastGrant \in [Keys -> Int]

Live(k) == now < expires[k]

Init == /\ now = 0
        /\ expires = [k \in Keys |-> 0]
        /\ pc = [c \in Clients |-> "idle"]
        /\ key \in [Clients -> Keys]
        /\ lastGrant = [k \in Keys |-> -TTL]

Goto(c, label) == pc' = [pc EXCEPT ![c] = label]

Call(c, k) == /\ pc[c] \in Resting
              /\ key' = [key EXCEPT ![c] = k]
              /\ Goto(c, "get")
              /\ UNCHANGED <<now, expires, lastGrant>>

Get(c) == /\ pc[c] = "get"
          /\ Goto(c, IF Live(key[c]) THEN "DUPLICATE" ELSE "set")
          /\ UNCHANGED <<now, expires, key, lastGrant>>

\* Mutants: SET without NX; a key set to expire a second early.
MutCanSetAlways(k) == k \in Keys
MutSetKeyShort(k)  == expires' = [expires EXCEPT ![k] = now + TTL - 1]

\* SET key now NX EX ttl: takes effect only if the key does not exist.
CanSet(k) == ~Live(k)
SetKey(k) == expires' = [expires EXCEPT ![k] = now + TTL]

\* Mutant: the client that lost the race is answered ACCEPTED.
MutSetNXIgnoresResult(c) ==
    /\ pc[c] = "set"
    /\ Goto(c, "ACCEPTED")
    /\ IF CanSet(key[c]) THEN /\ SetKey(key[c])
                              /\ lastGrant' = [lastGrant EXCEPT ![key[c]] = now]
       ELSE UNCHANGED <<expires, lastGrant>>
    /\ UNCHANGED <<now, key>>

SetNX(c) == /\ pc[c] = "set"
            /\ \/ /\ CanSet(key[c])
                  /\ SetKey(key[c])
                  /\ Goto(c, "ACCEPTED")
                  /\ lastGrant' = [lastGrant EXCEPT ![key[c]] = now]
               \/ /\ ~CanSet(key[c])
                  /\ Goto(c, "reget")
                  /\ UNCHANGED <<expires, lastGrant>>
            /\ UNCHANGED <<now, key>>

\* The second GET only fetches first_seen_at: whatever it returns, the
\* answer is DUPLICATE.
Reget(c) == /\ pc[c] = "reget"
            /\ Goto(c, "DUPLICATE")
            /\ UNCHANGED <<now, expires, key, lastGrant>>

\* Any command may raise (connection lost, timeout).  A SET that raises may
\* have been executed all the same: the key is then held and nobody was told.
RedisError(c) == /\ pc[c] \in Commands
                 /\ Goto(c, "raised")
                 /\ \/ UNCHANGED expires
                    \/ pc[c] = "set" /\ CanSet(key[c]) /\ SetKey(key[c])
                 /\ UNCHANGED <<now, key, lastGrant>>

\* clear(key)
Clear(k) == /\ expires' = [expires EXCEPT ![k] = 0]
            /\ lastGrant' = [lastGrant EXCEPT ![k] = -TTL]
            /\ UNCHANGED <<now, pc, key>>

Tick == /\ now < MaxTime
        /\ now' = now + 1
        /\ UNCHANGED <<expires, pc, key, lastGrant>>

Next == \/ \E c \in Clients : \/ \E k \in Keys : Call(c, k)
                              \/ Get(c) \/ SetNX(c) \/ Reget(c) \/ RedisError(c)
        \/ \E k \in Keys : Clear(k)
        \/ Tick

Spec == Init /\ [][Next]_vars

-------------------------------------------------------------------------------
\* A key that is granted exists for TTL from then on: the inductive form of
\* OneGrantPerTTL (gate.py:48, nx=True, ex=self.ttl).
GrantIsHeld == \A k \in Keys : lastGrant[k] + TTL <= expires[k]

\* However the commands of the clients interleave, and whatever fails, two
\* ACCEPTED answers for one key are at least TTL apart, unless the key was
\* cleared between them.
OneGrantPerTTL ==
    [][\A c \in Clients : pc[c] # "ACCEPTED" /\ pc'[c] = "ACCEPTED"
                            => now >= lastGrant[key[c]] + TTL]_vars

\* The gate implements one that decides each question at one instant: the
\* docstring's "atomically" (gate.py:30) holds although check_and_set is not
\* one command.
Told(s) == IF s \in {"get", "set"} THEN "asked" ELSE IF s = "reget" THEN "refused" ELSE s

Gate == INSTANCE AtomicGate WITH
          taken  <- {k \in Keys : Live(k)},
          status <- [c \in Clients |-> Told(pc[c])]

Atomic == Gate!Spec
===============================================================================

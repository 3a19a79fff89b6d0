------------------------ MODULE IdempotencyGateProofs -------------------------
(***************************************************************************)
(* For any number of clients and keys, any TTL and a clock of any length:   *)
(* the gate is type correct, never grants a key twice within   *)
(* its TTL, and implements AtomicGate.                                     *)
(***************************************************************************)
EXTENDS IdempotencyGate, TLAPS

USE DEF Answers, Resting, Commands

\* Every step keeps the variables in their types.
LEMMA TypeStep == TypeOK /\ [Next]_vars => TypeOK'
<1> SUFFICES ASSUME TypeOK, [Next]_vars PROVE TypeOK'
    OBVIOUS
<1> USE TTLAssumption DEF TypeOK, Goto
<1>1. ASSUME NEW c \in Clients, NEW k \in Keys, Call(c, k) PROVE TypeOK'
      BY <1>1 DEF Call
<1>2. ASSUME NEW c \in Clients, Get(c) PROVE TypeOK'
      BY <1>2 DEF Get
<1>3. ASSUME NEW c \in Clients, SetNX(c) PROVE TypeOK'
      BY <1>3 DEF SetNX, SetKey
<1>4. ASSUME NEW c \in Clients, Reget(c) PROVE TypeOK'
      BY <1>4 DEF Reget
<1>5. ASSUME NEW c \in Clients, RedisError(c) PROVE TypeOK'
      BY <1>5 DEF RedisError, SetKey
<1>6. ASSUME NEW k \in Keys, Clear(k) PROVE TypeOK'
      BY <1>6 DEF Clear
<1>7. CASE Tick
      BY <1>7 DEF Tick
<1>8. CASE UNCHANGED vars
      BY <1>8 DEF vars
<1> QED BY <1>1, <1>2, <1>3, <1>4, <1>5, <1>6, <1>7, <1>8 DEF Next

\* The variables of the gate (gate.py:21-69) always have their types.
THEOREM TypeCorrect == Spec => []TypeOK
<1>1. Init => TypeOK
      BY TTLAssumption DEF Init, TypeOK
<1> QED BY <1>1, TypeStep, PTL DEF Spec

-------------------------------------------------------------------------------
\* A granted key stays in Redis for TTL: SET only moves a deadline forward,
\* because a key that can be set has expired.
LEMMA HeldStep == TypeOK /\ GrantIsHeld /\ [Next]_vars => GrantIsHeld'
<1> SUFFICES ASSUME TypeOK, GrantIsHeld, [Next]_vars,
                    NEW k \in Keys
             PROVE  (lastGrant[k] + TTL <= expires[k])'
    BY DEF GrantIsHeld
<1>0. /\ lastGrant[k] + TTL <= expires[k]
      /\ lastGrant[k] \in Int /\ expires[k] \in Nat /\ now \in Nat /\ TTL \in Nat
      BY TTLAssumption DEF GrantIsHeld, TypeOK
<1>1. ASSUME NEW c \in Clients, SetNX(c) PROVE (lastGrant[k] + TTL <= expires[k])'
      BY <1>0, <1>1 DEF SetNX, SetKey, TypeOK
<1>2. ASSUME NEW c \in Clients, RedisError(c)
      PROVE (lastGrant[k] + TTL <= expires[k])'
      BY <1>0, <1>2 DEF RedisError, CanSet, Live, SetKey, TypeOK
<1>3. ASSUME NEW j \in Keys, Clear(j) PROVE (lastGrant[k] + TTL <= expires[k])'
      BY <1>0, <1>3 DEF Clear, TypeOK
<1>4. CASE \/ \E c \in Clients : \E j \in Keys : Call(c, j)
           \/ \E c \in Clients : Get(c) \/ Reget(c)
           \/ Tick
           \/ UNCHANGED vars
      BY <1>0, <1>4 DEF Call, Get, Reget, Tick, vars
<1> QED BY <1>1, <1>2, <1>3, <1>4 DEF Next

\* A key that was granted exists for TTL from the grant on (gate.py:48).
THEOREM GrantsAreHeld == Spec => []GrantIsHeld
<1>1. Init => GrantIsHeld
      BY TTLAssumption DEF Init, GrantIsHeld
<1> QED BY <1>1, TypeCorrect, HeldStep, PTL DEF Spec

\* Two ACCEPTED answers for one key are at least TTL apart unless the key was
\* cleared (gate.py:28-64), for any interleaving of any number of clients.
THEOREM OneGrant == Spec => OneGrantPerTTL
<1> DEFINE Granted == \A c \in Clients : pc[c] # "ACCEPTED" /\ pc'[c] = "ACCEPTED"
                                           => now >= lastGrant[key[c]] + TTL
<1>1. TypeOK /\ GrantIsHeld /\ [Next]_vars => [Granted]_vars
  <2> SUFFICES ASSUME TypeOK, GrantIsHeld, Next,
                      NEW c \in Clients, pc[c] # "ACCEPTED", pc'[c] = "ACCEPTED"
               PROVE  now >= lastGrant[key[c]] + TTL
      OBVIOUS
  <2>1. /\ key[c] \in Keys /\ lastGrant[key[c]] + TTL <= expires[key[c]]
        /\ lastGrant[key[c]] \in Int /\ expires[key[c]] \in Nat
        /\ now \in Nat /\ TTL \in Nat
        BY TTLAssumption DEF GrantIsHeld, TypeOK
  <2>2. ~Live(key[c])
        BY DEF Next, Call, Get, SetNX, CanSet, Reget, RedisError, Clear, Tick, Goto, TypeOK
  <2> QED BY <2>1, <2>2 DEF Live
<1> QED BY <1>1, TypeCorrect, GrantsAreHeld, PTL DEF Spec, OneGrantPerTTL

-------------------------------------------------------------------------------
\* One step of the gate is one step of AtomicGate or leaves it unchanged: the
\* question is answered by the GET that hits or by the SET.
LEMMA StepRefines == TypeOK /\ [Next]_vars => [Gate!Next]_(Gate!vars)
<1> SUFFICES ASSUME TypeOK, [Next]_vars PROVE [Gate!Next]_(Gate!vars)
    OBVIOUS
<1> DEFINE T == {k \in Keys : Live(k)}
           S == [c \in Clients |-> Told(pc[c])]
<1> USE DEF Gate!Resting, Gate!Answers
<1>1. ASSUME NEW c \in Clients, NEW k \in Keys, Call(c, k) PROVE Gate!Ask(c, k)
      BY <1>1 DEF Call, Goto, Gate!Ask, Told, Live, TypeOK
<1>2. ASSUME NEW c \in Clients, Get(c) PROVE Gate!Refuse(c) \/ UNCHANGED Gate!vars
  <2>1. CASE Live(key[c])
    <3>1. T' = T /\ key' = key /\ key[c] \in T
          BY <1>2, <2>1 DEF Get, Live, TypeOK
    <3>2. S[c] = "asked" /\ S' = [S EXCEPT ![c] = "DUPLICATE"]
          BY <1>2, <2>1 DEF Get, Goto, Told, TypeOK
    <3> QED BY <3>1, <3>2 DEF Gate!Refuse
  <2>2. CASE ~Live(key[c])
    <3>1. T' = T /\ key' = key
          BY <1>2 DEF Get, Live
    <3>2. S' = S
          BY <1>2, <2>2 DEF Get, Goto, Told, TypeOK
    <3> QED BY <3>1, <3>2 DEF Gate!vars
  <2> QED BY <2>1, <2>2
<1>3. ASSUME NEW c \in Clients, SetNX(c) PROVE Gate!Grant(c) \/ Gate!Refuse(c)
  <2>0. key[c] \in Keys /\ S[c] = "asked" /\ key' = key
        BY <1>3 DEF SetNX, Told, TypeOK
  <2>1. CASE CanSet(key[c])
    <3>1. T' = T \cup {key[c]} /\ key[c] \notin T
          BY <1>3, <2>0, <2>1, TTLAssumption DEF SetNX, SetKey, CanSet, Live, TypeOK
    <3>2. S' = [S EXCEPT ![c] = "ACCEPTED"]
          BY <1>3, <2>1 DEF SetNX, Goto, Told, TypeOK
    <3> QED BY <2>0, <3>1, <3>2 DEF Gate!Grant
  <2>2. CASE ~CanSet(key[c])
    <3>1. T' = T /\ key[c] \in T
          BY <1>3, <2>0, <2>2 DEF SetNX, CanSet, Live
    <3>2. S' = [S EXCEPT ![c] = "refused"]
          BY <1>3, <2>2 DEF SetNX, Goto, Told, TypeOK
    <3> QED BY <2>0, <3>1, <3>2 DEF Gate!Refuse
  <2> QED BY <2>1, <2>2
<1>4. ASSUME NEW c \in Clients, Reget(c) PROVE Gate!Tell(c)
      BY <1>4 DEF Reget, Goto, Told, Live, TypeOK, Gate!Tell
<1>5. ASSUME NEW c \in Clients, RedisError(c) PROVE Gate!Fail(c)
  <2>1. key[c] \in Keys /\ S[c] \in {"asked", "refused"} /\ key' = key
        BY <1>5 DEF RedisError, Told, TypeOK
  <2>2. S' = [S EXCEPT ![c] = "raised"]
        BY <1>5 DEF RedisError, Goto, Told, TypeOK
  <2>3. CASE expires' = expires
    <3>1. T' = T
          BY <1>5, <2>3 DEF RedisError, Live
    <3> QED BY <2>1, <2>2, <3>1 DEF Gate!Fail
  <2>4. CASE pc[c] = "set" /\ CanSet(key[c]) /\ SetKey(key[c])
    <3>1. T' = T \cup {key[c]} /\ S[c] = "asked"
          BY <1>5, <2>1, <2>4, TTLAssumption DEF RedisError, SetKey, Live, Told, TypeOK
    <3> QED BY <2>1, <2>2, <3>1 DEF Gate!Fail
  <2> QED BY <1>5, <2>3, <2>4 DEF RedisError
<1>6. ASSUME NEW k \in Keys, Clear(k) PROVE Gate!GiveBack
  <2>1. T' \subseteq T
        BY <1>6 DEF Clear, Live, TypeOK
  <2> QED BY <1>6, <2>1 DEF Clear, Gate!GiveBack
<1>7. ASSUME Tick PROVE Gate!GiveBack
  <2>1. T' \subseteq T
        BY <1>7 DEF Tick, Live, TypeOK
  <2> QED BY <1>7, <2>1 DEF Tick, Gate!GiveBack
<1>8. CASE UNCHANGED vars
      BY <1>8 DEF vars, Gate!vars, Live
<1> QED BY <1>1, <1>2, <1>3, <1>4, <1>5, <1>6, <1>7, <1>8 DEF Next, Gate!Next

\* check_and_set decides each question at one instant, while other clients'
\* commands, expiries and failures go on around it.
THEOREM Refines == Spec => Atomic
<1>1. Init => Gate!Init
      BY DEF Init, Gate!Init, Live, Told
<1> QED BY <1>1, StepRefines, TypeCorrect, PTL DEF Spec, Atomic, Gate!Spec
===============================================================================

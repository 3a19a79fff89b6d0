------------------------------ MODULE Leadership -------------------------------
(***************************************************************************)
(* Leader election by a lease in Redis (coordination/lease.py, leader.py,  *)
(* guard.py): several instances of the program call try_become_leader, and *)
(* one that thinks it leads calls heartbeat.  The commands of different    *)
(* instances interleave, and any of them may raise.                        *)
(*                                                                         *)
(* A lease is named by the instance that set it: lock_value, the time of   *)
(* the call, is taken to be unique.  Time is the time the key has left.    *)
(***************************************************************************)
EXTENDS Integers

CONSTANTS Instances,
          LeaseTTL,    \* LeaseManager(ttl_seconds=...)
          NoInstance

ASSUME LeaseAssumption == LeaseTTL \in Nat \ {0} /\ NoInstance \notin Instances

VARIABLES lease,    \* whose value lease:leader_lock has; NoInstance: no such key
          ttl,      \* the time the key has left
          stage,    \* how far instance i is in the with block of its lease
          leader,   \* _is_leader
          mine,     \* ghost: what is left of the time i was granted
          overrun   \* ghost: did a lease ever expire between its GET and DELETE?

leaseVars == <<lease, ttl, stage, leader, mine, overrun>>

\* The lease, and every instance at a command of acquire (lease.py:15-29).
LeaseTypeOK == /\ lease \in Instances \cup {NoInstance}
               /\ ttl \in 0..LeaseTTL
               /\ stage \in [Instances -> {"outside", "inside", "deleting"}]
               /\ leader \in [Instances -> BOOLEAN]
               /\ mine \in [Instances -> 0..LeaseTTL]
               /\ overrun \in BOOLEAN

LeaseInit == /\ lease = NoInstance
             /\ ttl = 0
             /\ stage = [i \in Instances |-> "outside"]
             /\ leader = [i \in Instances |-> FALSE]
             /\ mine = [i \in Instances |-> 0]
             /\ overrun = FALSE

\* Mutant: SET NX without an expiry (0: the key does not expire).
MutGrantedFor == 0

GrantedFor == LeaseTTL

\* SET lock_key lock_value NX EX ttl by instance i.
Grant(i) == /\ lease = NoInstance
            /\ lease' = i
            /\ ttl' = GrantedFor

\* Entering the with block: the flag is set and the block left at once, but the
\* two commands of leaving it come when they come.
BecomeLeader(i) == /\ stage[i] = "outside"
                   /\ Grant(i)
                   /\ stage' = [stage EXCEPT ![i] = "inside"]
                   /\ leader' = [leader EXCEPT ![i] = TRUE]
                   /\ mine' = [mine EXCEPT ![i] = LeaseTTL]
                   /\ UNCHANGED overrun

\* RuntimeError: the lease is held.
LeaderLockHeld(i) == /\ stage[i] = "outside"
                     /\ lease # NoInstance
                     /\ leader' = [leader EXCEPT ![i] = FALSE]
                     /\ UNCHANGED <<lease, ttl, stage, mine, overrun>>

\* A SET that raises, executed or not: the exception is no RuntimeError, and the
\* flag stays what it was.
SetRaises(i) == /\ stage[i] = "outside"
                /\ Grant(i)
                /\ UNCHANGED <<stage, leader, mine, overrun>>

\* Mutant: the key is deleted without asking whose it is.
MutIsMine(i) == i \in Instances

IsMine(i) == lease = i

\* The GET of leaving the block; if it raises the key is left to expire.
CheckLease(i) == /\ stage[i] = "inside"
                 /\ \/ IsMine(i) /\ stage' = [stage EXCEPT ![i] = "deleting"]
                    \/ stage' = [stage EXCEPT ![i] = "outside"]
                 /\ UNCHANGED <<lease, ttl, leader, mine, overrun>>

\* The DELETE, executed or not if it raises.  The key may be another's by now.
DeleteLease(i) == /\ stage[i] = "deleting"
                  /\ \/ lease' = NoInstance /\ ttl' = 0
                     \/ UNCHANGED <<lease, ttl>>
                  /\ stage' = [stage EXCEPT ![i] = "outside"]
                  /\ UNCHANGED <<leader, mine, overrun>>

\* EXPIRE, by whoever thinks it leads, whoever holds the key.
Heartbeat(i) == /\ leader[i] /\ lease # NoInstance
                /\ ttl' = LeaseTTL
                /\ UNCHANGED <<lease, stage, leader, mine, overrun>>

Expires == ttl = 1

LeaseTick == /\ ttl > 0
             /\ ttl' = ttl - 1
             /\ lease' = IF Expires THEN NoInstance ELSE lease
             /\ mine' = [i \in Instances |-> IF mine[i] > 0 THEN mine[i] - 1 ELSE 0]
             /\ overrun' = (overrun \/ (Expires /\ \E i \in Instances : lease = i /\ stage[i] = "deleting"))
             /\ UNCHANGED <<stage, leader>>

\* The process dies; get_leader_service of the next builds a new service.
LeaderCrash(i) == /\ stage' = [stage EXCEPT ![i] = "outside"]
                  /\ leader' = [leader EXCEPT ![i] = FALSE]
                  /\ UNCHANGED <<lease, ttl, mine, overrun>>

LeaseNext == \/ \E i \in Instances : \/ BecomeLeader(i) \/ LeaderLockHeld(i) \/ SetRaises(i)
                                     \/ CheckLease(i) \/ DeleteLease(i)
                                     \/ Heartbeat(i) \/ LeaderCrash(i)
             \/ LeaseTick

\* Redis's clock runs; nothing is assumed of the instances.
LeaseSpec     == LeaseInit /\ [][LeaseNext]_leaseVars
LeaseFairness == WF_leaseVars(LeaseTick)
LeaseFairSpec == LeaseSpec /\ LeaseFairness

-------------------------------------------------------------------------------
Holds(i) == stage[i] # "outside" /\ mine[i] > 0

\* Two instances are never inside the block within the time they were granted,
\* unless a lease expired between the GET and the DELETE of leaving it: the
\* release is two commands and may then delete the next holder's lease
\* (lease.py:27-29).  Heartbeats of stale leaders do no harm here.
LeaseExclusive ==
    ~overrun => \A i, j \in Instances : Holds(i) /\ Holds(j) => i = j

\* A lease that nobody extends is free again and again, whoever dies or fails to
\* release it (lease.py:19, ex=self.ttl).  The premise is needed: heartbeat asks
\* for the flag only, so an instance that led once keeps another's lease alive.
LeaseLapses ==
    <>[][\A i \in Instances : ~Heartbeat(i)]_leaseVars => []<>(lease = NoInstance)

\* "Distributed leader election" (leader.py:9): ExecutionGuard.ensure_leader
\* lets one instance run at a time.
AtMostOneLeader == \A i, j \in Instances : leader[i] /\ leader[j] => i = j
===============================================================================

------------------------------- MODULE LeaseLock -------------------------------
(***************************************************************************)
(* The two lease locks inside a process: execution/locks/lease_lock.py,    *)
(* which knows its owner, and runtime/lease.py, which does not and has a   *)
(* heartbeat.  Threads acquire the lock for a cycle, may work longer than  *)
(* the lease lasts, and release it or die.  Every method holds a mutex, so *)
(* each is one step; acquire does not wait.                                *)
(***************************************************************************)
EXTENDS Integers

CONSTANTS Workers,
          LockTTL,    \* ttl_sec, ttl_seconds
          Nobody

ASSUME LockAssumption == LockTTL \in Nat \ {0} /\ Nobody \notin Workers

VARIABLES owned,    \* is it the lock that knows its owner?
          holder,   \* who acquired it last and is not released (_owner; _active)
          left,     \* the time until _expires_at; -1: it is past
          working,  \* the workers between acquire and release
          own,      \* ghost: what is left of the time a worker was granted
          stolen    \* ghost: was a lock ever released under its holder?

lockVars == <<owned, holder, left, working, own, stolen>>

\* The lock's fields, and who thinks to hold it (lease_lock.py:9-13, lease.py:5-9).
LockTypeOK == /\ owned \in BOOLEAN /\ stolen \in BOOLEAN
              /\ holder \in Workers \cup {Nobody}
              /\ left \in -1..LockTTL
              /\ working \in SUBSET Workers
              /\ own \in [Workers -> 0..LockTTL]

LockInit == /\ owned \in BOOLEAN
            /\ holder = Nobody
            /\ left = -1
            /\ working = {}
            /\ own = [w \in Workers |-> 0]
            /\ stolen = FALSE

-------------------------------------------------------------------------------
\* Mutant: the lease is taken for over while its last second runs.
MutLapsed == left <= 1

\* At the very end of a lease one lock is free and the other is not.
Lapsed == IF owned THEN left <= 0 ELSE left < 0

\* acquire; it returns False and changes nothing while the lease lasts.
AcquireLock(w) == /\ w \notin working
                  /\ holder = Nobody \/ Lapsed
                  /\ holder' = w
                  /\ left' = LockTTL
                  /\ working' = working \cup {w}
                  /\ own' = [own EXCEPT ![w] = LockTTL]
                  /\ UNCHANGED <<owned, stolen>>

\* heartbeat: it does not ask whose lease it is.
ExtendLock(w) == /\ ~owned /\ w \in working /\ holder # Nobody
                 /\ left' = LockTTL
                 /\ own' = [own EXCEPT ![holder] = LockTTL]
                 /\ UNCHANGED <<owned, holder, working, stolen>>

\* Mutant: nobody asks for the owner.
MutReleases(w) == w \in Workers

Releases(w) == owned => holder = w

\* release
ReleaseLock(w) == /\ w \in working
                  /\ working' = working \ {w}
                  /\ IF Releases(w) THEN holder' = Nobody /\ left' = -1
                                    ELSE UNCHANGED <<holder, left>>
                  /\ stolen' = (stolen \/ (~owned /\ holder \notin {w, Nobody}))
                  /\ UNCHANGED <<owned, own>>

\* The worker's thread ends without release.
AbandonLock(w) == /\ w \in working
                  /\ working' = working \ {w}
                  /\ UNCHANGED <<owned, holder, left, own, stolen>>

LockTick == /\ left >= 0
            /\ left' = left - 1
            /\ own' = [w \in Workers |-> IF own[w] > 0 THEN own[w] - 1 ELSE 0]
            /\ UNCHANGED <<owned, holder, working, stolen>>

LockNext == \/ \E w \in Workers : AcquireLock(w) \/ ExtendLock(w) \/ ReleaseLock(w)
                                  \/ AbandonLock(w)
            \/ LockTick

LockSpec == LockInit /\ [][LockNext]_lockVars

-------------------------------------------------------------------------------
\* Two workers never work within the time they were granted.  The lock that knows
\* its owner keeps that whatever its workers do; the other until a worker that
\* overran its lease releases it under the next holder (runtime/lease.py:31-34).
LockExclusive ==
    ~stolen => \A v, w \in working : own[v] > 0 /\ own[w] > 0 => v = w

\* A lock is first released under its holder by a worker that overran its own
\* lease: heartbeats that extend whoever's lease it is, expiry and deaths between
\* them never make one that is within its time do it (runtime/lease.py:11-34).
OnlyOverrunsSteal ==
    [][~stolen /\ stolen' => \E w \in working \ working' : own[w] = 0]_lockVars
===============================================================================

------------------------- MODULE ServiceClientsProofs --------------------------
(***************************************************************************)
(* The lease, for any number of instances and any ttl; the browser's pages,*)
(* for any number of users and failures; and the parts of MCServiceClients *)
(* put together, with what the modules of the gate and the buffer prove.   *)
(***************************************************************************)
EXTENDS MCServiceClients, IdempotencyGateProofs, BufferProofs

-------------------------------------------------------------------------------
(* The lease                                                               *)

\* Until a lease expires between its GET and its DELETE: an instance inside the
\* block within its time has the lease, for at least that time, and one about to
\* delete a lease deletes its own.
GrantIsLease == \A i \in Instances : stage[i] = "inside" /\ mine[i] > 0
                                       => lease = i /\ mine[i] <= ttl
DeletesOwn   == \A i \in Instances : stage[i] = "deleting" => lease = i

LeaseInv == LeaseTypeOK /\ (~overrun => GrantIsLease /\ DeletesOwn)

\* Every command, tick and crash preserves the types.
LEMMA LeaseTypeStep == LeaseTypeOK /\ [LeaseNext]_leaseVars => LeaseTypeOK'
<1> SUFFICES ASSUME LeaseTypeOK, [LeaseNext]_leaseVars PROVE LeaseTypeOK'
    OBVIOUS
<1> USE LeaseAssumption DEF LeaseTypeOK
<1>1. ASSUME NEW i \in Instances, BecomeLeader(i) \/ SetRaises(i) PROVE LeaseTypeOK'
  <2>1. LeaseTTL \in 0..LeaseTTL
        OBVIOUS
  <2>2. CASE BecomeLeader(i)
        BY <2>1, <2>2 DEF BecomeLeader, Grant, GrantedFor
  <2>3. CASE SetRaises(i)
        BY <2>1, <2>3 DEF SetRaises, Grant, GrantedFor
  <2> QED BY <1>1, <2>2, <2>3
<1>2. ASSUME NEW i \in Instances, LeaderLockHeld(i) \/ LeaderCrash(i) PROVE LeaseTypeOK'
      BY <1>2 DEF LeaderLockHeld, LeaderCrash
<1>3. ASSUME NEW i \in Instances, CheckLease(i) \/ DeleteLease(i) PROVE LeaseTypeOK'
      BY <1>3 DEF CheckLease, DeleteLease
<1>4. ASSUME NEW i \in Instances, Heartbeat(i) PROVE LeaseTypeOK'
      BY <1>4 DEF Heartbeat
<1>5. CASE LeaseTick
  <2>1. overrun' \in BOOLEAN
        BY <1>5 DEF LeaseTick
  <2>2. ttl' \in 0..LeaseTTL /\ lease' \in Instances \cup {NoInstance}
        BY <1>5 DEF LeaseTick
  <2>3. mine' \in [Instances -> 0..LeaseTTL]
        BY <1>5 DEF LeaseTick
  <2> QED BY <1>5, <2>1, <2>2, <2>3 DEF LeaseTick
<1>6. CASE UNCHANGED leaseVars
      BY <1>6 DEF leaseVars
<1> QED BY <1>1, <1>2, <1>3, <1>4, <1>5, <1>6 DEF LeaseNext

\* Every command, tick and crash preserves the invariant.
LEMMA LeaseStep == LeaseInv /\ [LeaseNext]_leaseVars => LeaseInv'
<1> SUFFICES ASSUME LeaseInv, [LeaseNext]_leaseVars, ~overrun'
             PROVE  GrantIsLease' /\ DeletesOwn'
    BY LeaseTypeStep DEF LeaseInv
<1>0. LeaseTypeOK /\ GrantIsLease /\ DeletesOwn
  <2>1. ~overrun
        BY DEF LeaseInv, LeaseNext, leaseVars, BecomeLeader, LeaderLockHeld, SetRaises, CheckLease,
               DeleteLease, Heartbeat, LeaderCrash, LeaseTick
  <2> QED BY <2>1 DEF LeaseInv
<1> USE <1>0, LeaseAssumption DEF LeaseTypeOK, GrantIsLease, DeletesOwn
<1>1. ASSUME NEW i \in Instances, BecomeLeader(i) \/ SetRaises(i)
      PROVE  GrantIsLease' /\ DeletesOwn'
      BY <1>1 DEF BecomeLeader, SetRaises, Grant, GrantedFor
<1>2. ASSUME NEW i \in Instances, LeaderLockHeld(i) \/ LeaderCrash(i)
      PROVE  GrantIsLease' /\ DeletesOwn'
      BY <1>2 DEF LeaderLockHeld, LeaderCrash
<1>3. ASSUME NEW i \in Instances, CheckLease(i) PROVE GrantIsLease' /\ DeletesOwn'
      BY <1>3 DEF CheckLease, IsMine
<1>4. ASSUME NEW i \in Instances, DeleteLease(i) PROVE GrantIsLease' /\ DeletesOwn'
      BY <1>4 DEF DeleteLease
<1>5. ASSUME NEW i \in Instances, Heartbeat(i) PROVE GrantIsLease' /\ DeletesOwn'
      BY <1>5 DEF Heartbeat
<1>6. CASE LeaseTick
  <2>1. Expires => \A i \in Instances : stage[i] # "deleting"
        BY <1>6 DEF LeaseTick
  <2>2. DeletesOwn'
        BY <1>6, <2>1 DEF LeaseTick
  <2>3. ASSUME NEW i \in Instances, stage'[i] = "inside", mine'[i] > 0
        PROVE  lease' = i /\ mine'[i] <= ttl'
    <3>1. stage[i] = "inside" /\ mine[i] > 1 /\ mine'[i] = mine[i] - 1
          BY <1>6, <2>3 DEF LeaseTick
    <3>2. lease = i /\ mine[i] <= ttl
          BY <3>1
    <3> QED BY <1>6, <3>1, <3>2 DEF LeaseTick, Expires
  <2> QED BY <2>2, <2>3
<1>7. CASE UNCHANGED leaseVars
      BY <1>7 DEF leaseVars
<1> QED BY <1>1, <1>2, <1>3, <1>4, <1>5, <1>6, <1>7 DEF LeaseNext

\* The invariant holds of the lease.
LEMMA LeaseInvariant == LeaseSpec => []LeaseInv
<1>1. LeaseInit => LeaseInv
  <2>1. 0 \in 0..LeaseTTL
        BY LeaseAssumption
  <2> QED BY <2>1 DEF LeaseInit, LeaseInv, LeaseTypeOK, GrantIsLease, DeletesOwn
<1> QED BY <1>1, LeaseStep, PTL DEF LeaseSpec

\* The lease and the instances keep their types, for any number of instances
\* (lease.py:15-33).
THEOREM LeaseTypeCorrect == LeaseSpec => []LeaseTypeOK
<1>1. LeaseInv => LeaseTypeOK
      BY DEF LeaseInv
<1> QED BY <1>1, LeaseInvariant, PTL

\* Two instances are never inside the block within the time they were granted, for
\* any number of instances and crashes, unless a lease expired between the two
\* commands of its release (lease.py:19-29).
THEOREM LeaseIsExclusive == LeaseSpec => []LeaseExclusive
<1>1. LeaseInv => LeaseExclusive
  <2> SUFFICES ASSUME LeaseInv, ~overrun,
                      NEW i \in Instances, NEW j \in Instances, Holds(i), Holds(j)
               PROVE  i = j
      BY DEF LeaseExclusive
  <2>1. stage[i] \in {"inside", "deleting"} /\ stage[j] \in {"inside", "deleting"}
        BY DEF Holds, LeaseInv, LeaseTypeOK
  <2> QED BY <2>1 DEF Holds, LeaseInv, GrantIsLease, DeletesOwn
<1> QED BY <1>1, LeaseInvariant, PTL

-------------------------------------------------------------------------------
(* The browser's pages                                                     *)

\* What is open while a user is at an await, if no other uses the browser.
PartsAt(w) == CASE w \in {"launching", "driver"}        -> {"driver"}
                [] w \in {"creating", "browser"}        -> {"driver", "browser"}
                [] w \in {"opening", "page", "context"} -> Parts
                [] OTHER                                -> {}

\* A user has a number from the start of its driver on.
OwnsItsStart == \A u \in Users : own[u] = Nothing <=> place[u] \in {"away", "starting"}

OneUser == \A u, v \in Users : place[u] # "away" /\ place[v] # "away" => u = v

\* The fields are of one start, and say what of it is running.
FieldsAreAlive ==
    /\ \A p \in Parts : field[p] # Nothing => field[p] = field["driver"]
    /\ field["context"] # Nothing => field["browser"] # Nothing
    /\ \A n \in Starts : field["driver"] = n => alive[n] = {p \in Parts : field[p] = n}

\* They are of the start the user at work makes, uses or closes.
HoldsItsParts ==
    \A u \in Users :
        /\ own[u] # Nothing =>
             \A p \in Parts : field[p] = IF p \in PartsAt(place[u]) THEN own[u] ELSE Nothing
        /\ place[u] = "starting" => field["browser"] = Nothing

\* The starts that no user is working on, and that still run.
Left == {n \in Starts : alive[n] # {} /\ \A u \in Users : own[u] # n}

Alone == /\ OneUser /\ FieldsAreAlive /\ HoldsItsParts
         /\ Cardinality(Left) <= raises
         /\ raises = 0 => ~failed

BrowserInv == BrowserTypeOK /\ OwnsItsStart /\ (~overlap => Alone)

\* A process begins with nothing running.
LEMMA BrowserInitInv == BrowserInit => BrowserInv
<1> SUFFICES ASSUME BrowserInit PROVE BrowserInv
    OBVIOUS
<1>1. BrowserTypeOK
  <2>1. raises \in 0..MaxRaises
        BY BrowserAssumption DEF BrowserInit
  <2> QED BY <2>1 DEF BrowserInit, BrowserTypeOK
<1>2. Left = {}
      BY DEF Left, BrowserInit
<1>3. Cardinality(Left) <= raises
      BY <1>2, FS_EmptySet DEF BrowserInit
<1>4. FieldsAreAlive
      BY DEF FieldsAreAlive, BrowserInit, Parts, Starts, Nothing
<1> QED BY <1>1, <1>3, <1>4 DEF BrowserInit, BrowserInv, OwnsItsStart, Alone, OneUser, HoldsItsParts

\* The fields and the starts keep their types.
LEMMA BrowserTypeStep == BrowserTypeOK /\ OwnsItsStart /\ [BrowserNext]_browserVars
                           => BrowserTypeOK' /\ OwnsItsStart'
<1> SUFFICES ASSUME BrowserTypeOK, OwnsItsStart, [BrowserNext]_browserVars
             PROVE  BrowserTypeOK' /\ OwnsItsStart'
    OBVIOUS
<1>0. Nothing \notin Starts
      BY DEF Nothing, Starts
<1> USE <1>0, BrowserAssumption DEF BrowserTypeOK, OwnsItsStart, Await, Leave, Fails, OpenPage, Parts
<1>1. ASSUME NEW u \in Users, EnterPage(u) PROVE BrowserTypeOK' /\ OwnsItsStart'
      BY <1>1 DEF EnterPage
<1>2. ASSUME NEW u \in Users, DriverStarts(u) PROVE BrowserTypeOK' /\ OwnsItsStart'
      BY <1>2 DEF DriverStarts, Unused
<1>3. ASSUME NEW u \in Users, BrowserLaunches(u) PROVE BrowserTypeOK' /\ OwnsItsStart'
      BY <1>3 DEF BrowserLaunches
<1>4. ASSUME NEW u \in Users, ContextOpens(u) PROVE BrowserTypeOK' /\ OwnsItsStart'
      BY <1>4 DEF ContextOpens
<1>5. ASSUME NEW u \in Users, PageOpens(u) PROVE BrowserTypeOK' /\ OwnsItsStart'
      BY <1>5 DEF PageOpens
<1>6. ASSUME NEW u \in Users, Unanswered(u) PROVE BrowserTypeOK' /\ OwnsItsStart'
      BY <1>6 DEF Unanswered
<1>7. ASSUME NEW u \in Users, PageCloses(u) PROVE BrowserTypeOK' /\ OwnsItsStart'
      BY <1>7 DEF PageCloses, CloseNext, Due
<1>8. ASSUME NEW u \in Users, PartCloses(u) PROVE BrowserTypeOK' /\ OwnsItsStart'
      BY <1>8 DEF PartCloses, CloseNext, Due, Cleared
<1>9. ASSUME NEW u \in Users, AwaitRaises(u) PROVE BrowserTypeOK' /\ OwnsItsStart'
      BY <1>9 DEF AwaitRaises
<1>10. CASE ProcessEnds
  <2>1. raises' \in 0..MaxRaises
        BY <1>10 DEF ProcessEnds
  <2> QED BY <1>10, <2>1 DEF ProcessEnds
<1>11. CASE UNCHANGED browserVars
      BY <1>11 DEF browserVars
<1> QED BY <1>1, <1>2, <1>3, <1>4, <1>5, <1>6, <1>7, <1>8, <1>9, <1>10, <1>11 DEF BrowserNext

\* What is left of the starts is a finite set; one start more makes it larger by
\* one at most.
LEMMA FewerLeft == /\ IsFiniteSet(Left) /\ Cardinality(Left) \in Nat
                   /\ Left' \subseteq Left
                        => Cardinality(Left') <= Cardinality(Left) /\ Cardinality(Left') \in Nat
                   /\ \A n : Left' \subseteq Left \cup {n}
                        => Cardinality(Left') <= Cardinality(Left) + 1 /\ Cardinality(Left') \in Nat
<1>1. IsFiniteSet(Starts)
      BY FS_Interval, BrowserAssumption DEF Starts
<1>2. Left \subseteq Starts
      BY DEF Left
<1>3. IsFiniteSet(Left) /\ Cardinality(Left) \in Nat
      BY <1>1, <1>2, FS_Subset, FS_CardinalityType
<1>4. ASSUME NEW S, IsFiniteSet(S), Left' \subseteq S
      PROVE  Cardinality(Left') <= Cardinality(S) /\ Cardinality(Left') \in Nat
      BY <1>4, FS_Subset, FS_CardinalityType
<1>5. ASSUME NEW n, Left' \subseteq Left \cup {n}
      PROVE  Cardinality(Left') <= Cardinality(Left) + 1 /\ Cardinality(Left') \in Nat
  <2> DEFINE more == Left \cup {n}
  <2>1. IsFiniteSet(more) /\ Cardinality(more) \in {Cardinality(Left), Cardinality(Left) + 1}
        BY <1>3, FS_AddElement
  <2>2. Cardinality(Left') <= Cardinality(more) /\ Cardinality(Left') \in Nat
        BY <1>4, <1>5, <2>1
  <2> QED BY <1>3, <2>1, <2>2
<1> QED BY <1>3, <1>4, <1>5

AloneShape == OneUser /\ FieldsAreAlive /\ HoldsItsParts

\* A user alone at work, the fields and its start agree.
LEMMA ShapeStep ==
    ASSUME BrowserTypeOK, OwnsItsStart, AloneShape, [BrowserNext]_browserVars, ~overlap'
    PROVE  AloneShape'
<1>0. Nothing \notin Starts
      BY DEF Nothing, Starts
<1>a. \A n \in Starts, p \in Parts : field["driver"] = n /\ p \in alive[n] => field[p] = n
      BY DEF AloneShape, FieldsAreAlive
<1> USE <1>0, <1>a DEF AloneShape, BrowserTypeOK, OwnsItsStart, OneUser, FieldsAreAlive, HoldsItsParts,
              PartsAt, Await, Leave, Parts
<1>1. ASSUME NEW u \in Users, EnterPage(u) PROVE AloneShape'
  <2>1. \A v \in Users : place[v] = "away" /\ own[v] = Nothing
        BY <1>1 DEF EnterPage
  <2>2. CASE IsInitialized /\ field["context"] # Nothing
        BY <1>1, <2>1, <2>2 DEF EnterPage, OpenPage, IsInitialized
  <2>3. CASE ~IsInitialized
        BY <1>1, <2>1, <2>3 DEF EnterPage, OpenPage, IsInitialized
  <2>4. CASE IsInitialized /\ field["context"] = Nothing
        BY <1>1, <2>1, <2>4 DEF EnterPage, OpenPage, IsInitialized
  <2> QED BY <2>2, <2>3, <2>4
<1>2. ASSUME NEW u \in Users, DriverStarts(u) PROVE AloneShape'
      BY <1>2 DEF DriverStarts, Unused
<1>3. ASSUME NEW u \in Users, BrowserLaunches(u) PROVE AloneShape'
      BY <1>3 DEF BrowserLaunches
<1>4. ASSUME NEW u \in Users, ContextOpens(u) PROVE AloneShape'
      BY <1>4 DEF ContextOpens, OpenPage
<1>5. ASSUME NEW u \in Users, PageOpens(u) PROVE AloneShape'
      BY <1>5 DEF PageOpens
<1>6. ASSUME NEW u \in Users, Unanswered(u) PROVE AloneShape'
      BY <1>6 DEF Unanswered, Fails
<1>7. ASSUME NEW u \in Users, PageCloses(u) PROVE AloneShape'
      BY <1>7 DEF PageCloses, CloseNext, Due, TakesDown
<1>8. ASSUME NEW u \in Users, PartCloses(u) PROVE AloneShape'
      BY <1>8 DEF PartCloses, CloseNext, Due, TakesDown, Cleared
<1>9. ASSUME NEW u \in Users, AwaitRaises(u) PROVE AloneShape'
      BY <1>9 DEF AwaitRaises, Fails
<1>10. CASE ProcessEnds
      BY <1>10 DEF ProcessEnds
<1>11. CASE UNCHANGED browserVars
      BY <1>11 DEF browserVars
<1> QED BY <1>1, <1>2, <1>3, <1>4, <1>5, <1>6, <1>7, <1>8, <1>9, <1>10, <1>11 DEF BrowserNext

\* A step that no await raises in leaves no more starts behind and fails nobody;
\* an await that raises leaves one more at most.
LEMMA LeftStep ==
    ASSUME BrowserTypeOK, OwnsItsStart, AloneShape, [BrowserNext]_browserVars, ~overlap',
           Cardinality(Left) <= raises, raises = 0 => ~failed
    PROVE  Cardinality(Left') <= raises' /\ (raises' = 0 => ~failed')
<1>0. Nothing \notin Starts /\ raises \in Nat /\ Cardinality(Left) \in Nat
      BY FewerLeft DEF Nothing, Starts, BrowserTypeOK
<1>a. raises = 0 => Left = {}
      BY <1>0, FewerLeft, FS_EmptySet
<1> USE <1>0 DEF BrowserTypeOK, OwnsItsStart, AloneShape, OneUser, FieldsAreAlive, HoldsItsParts, PartsAt,
              Await, Leave, Parts
<1>b. ASSUME Left' \subseteq Left, raises' = raises, failed' => failed \/ raises # 0
      PROVE  Cardinality(Left') <= raises' /\ (raises' = 0 => ~failed')
      BY <1>b, FewerLeft
<1>1. ASSUME NEW u \in Users, EnterPage(u) PROVE Cardinality(Left') <= raises' /\ (raises' = 0 => ~failed')
  <2>1. Left' \subseteq Left /\ raises' = raises
        BY <1>1 DEF EnterPage, OpenPage, Left
  <2>2. ASSUME raises = 0 PROVE IsInitialized => field["context"] # Nothing
    <3>1. \A v \in Users : own[v] = Nothing
          BY <1>1 DEF EnterPage
    <3>2. \A n \in Starts : alive[n] = {}
          BY <1>0, <1>a, <2>2, <3>1 DEF Left
    <3>3. field["driver"] \in Starts => "driver" \in alive[field["driver"]]
          OBVIOUS
    <3> QED BY <3>2, <3>3 DEF IsInitialized
  <2>3. failed' => failed \/ raises # 0
        BY <1>1, <2>2 DEF EnterPage, OpenPage
  <2> QED BY <1>b, <2>1, <2>3
<1>2. ASSUME NEW u \in Users, DriverStarts(u) PROVE Cardinality(Left') <= raises' /\ (raises' = 0 => ~failed')
      BY <1>2, <1>b DEF DriverStarts, Unused, Left
<1>3. ASSUME NEW u \in Users, BrowserLaunches(u) \/ PageOpens(u)
      PROVE  Cardinality(Left') <= raises' /\ (raises' = 0 => ~failed')
      BY <1>3, <1>b DEF BrowserLaunches, PageOpens, Left
<1>4. ASSUME NEW u \in Users, ContextOpens(u) PROVE Cardinality(Left') <= raises' /\ (raises' = 0 => ~failed')
      BY <1>4, <1>b DEF ContextOpens, OpenPage, Left
<1>5. ASSUME NEW u \in Users, Unanswered(u) PROVE FALSE
  <2>1. field["driver"] = own[u] /\ own[u] \in Starts
        BY <1>5 DEF Unanswered
  <2>2. Needs(u) \subseteq alive[own[u]]
        BY <1>5, <2>1 DEF Unanswered, Needs
  <2> QED BY <1>5, <2>2 DEF Unanswered
<1>6. ASSUME NEW u \in Users, PageCloses(u) PROVE Cardinality(Left') <= raises' /\ (raises' = 0 => ~failed')
      BY <1>6, <1>b DEF PageCloses, CloseNext, Due, TakesDown, Left
<1>7. ASSUME NEW u \in Users, PartCloses(u) PROVE Cardinality(Left') <= raises' /\ (raises' = 0 => ~failed')
  <2>1. CASE place[u] = "driver"
        BY <1>7, <1>b, <2>1 DEF PartCloses, CloseNext, TakesDown, Left
  <2>2. CASE place[u] \in {"context", "browser"}
    <3>1. own' = own
      <4>1. /\ field' = [field EXCEPT ![place[u]] = Nothing]
            /\ CloseNext(u, Parts \ TakesDown(place[u]))
            BY <1>7 DEF PartCloses, Cleared
      <4>2. own[u] \in Starts
            BY <2>2
      <4>3. field["driver"] = own[u] /\ (place[u] = "context" => field["browser"] = own[u])
            BY <2>2, <4>2
      <4>4. /\ field'["driver"] = own[u]
            /\ "driver" \in Parts \ TakesDown(place[u])
            /\ place[u] = "context" => field'["browser"] = own[u]
            BY <2>2, <4>1, <4>3 DEF TakesDown
      <4>5. PICK p \in Parts \ TakesDown(place[u]) : Due(p) /\ Await(u, p, field'[p])
            BY <4>1, <4>2, <4>4 DEF CloseNext, Due
      <4>6. field'[p] = own[u]
            BY <2>2, <4>3, <4>4, <4>5 DEF TakesDown
      <4> QED BY <4>5, <4>6
    <3> QED BY <1>7, <1>b, <2>2, <3>1 DEF PartCloses, TakesDown, Left
  <2> QED BY <1>7, <2>1, <2>2 DEF PartCloses
<1>8. ASSUME NEW u \in Users, AwaitRaises(u) PROVE Cardinality(Left') <= raises' /\ (raises' = 0 => ~failed')
  <2>1. Left' \subseteq Left \cup {own[u]} /\ raises' = raises + 1
        BY <1>8 DEF AwaitRaises, Fails, Left
  <2>2. Cardinality(Left') <= Cardinality(Left) + 1 /\ Cardinality(Left') \in Nat
    <3> HIDE DEF BrowserTypeOK, OwnsItsStart, AloneShape
    <3>1. \A n : Left' \subseteq Left \cup {n}
             => Cardinality(Left') <= Cardinality(Left) + 1 /\ Cardinality(Left') \in Nat
          BY FewerLeft
    <3> QED BY <2>1, <3>1, Zenon
  <2>3. raises' # 0
        BY <1>0, <2>1
  <2> QED BY <1>0, <2>1, <2>2, <2>3
<1>9. CASE ProcessEnds
  <2>1. Left' = {} /\ raises' = 0 /\ ~failed'
        BY <1>9 DEF ProcessEnds, Left
  <2> QED BY <2>1, FS_EmptySet
<1>10. CASE UNCHANGED browserVars
      BY <1>10, <1>b DEF browserVars, Left
<1> QED BY <1>1, <1>2, <1>3, <1>4, <1>5, <1>6, <1>7, <1>8, <1>9, <1>10 DEF BrowserNext

\* Every step of a user and the end of the process preserve the invariant.
LEMMA BrowserStep == BrowserInv /\ [BrowserNext]_browserVars => BrowserInv'
<1> SUFFICES ASSUME BrowserInv, [BrowserNext]_browserVars PROVE BrowserInv'
    OBVIOUS
<1>1. BrowserTypeOK /\ OwnsItsStart /\ (~overlap => Alone)
      BY DEF BrowserInv
<1>2. BrowserTypeOK' /\ OwnsItsStart'
      BY <1>1, BrowserTypeStep
<1>3. ASSUME ~overlap' PROVE Alone'
  <2>1. CASE ProcessEnds
    <3>1. Left' = {} /\ raises' = 0 /\ ~failed'
          BY <2>1 DEF ProcessEnds, Left
    <3>2. Cardinality(Left') <= raises' /\ (raises' = 0 => ~failed')
          BY <3>1, FS_EmptySet
    <3>3. AloneShape'
          BY <2>1 DEF ProcessEnds, AloneShape, OneUser, FieldsAreAlive, HoldsItsParts, Parts, Starts,
                      Nothing
    <3> QED BY <3>2, <3>3 DEF Alone, AloneShape
  <2>2. CASE ~ProcessEnds
    <3>1. ~overlap
          BY <1>3, <2>2 DEF BrowserNext, browserVars, EnterPage, DriverStarts, BrowserLaunches,
             ContextOpens, PageOpens, Unanswered, PageCloses, PartCloses, AwaitRaises, Fails
    <3>2. AloneShape /\ Cardinality(Left) <= raises /\ (raises = 0 => ~failed)
          BY <1>1, <3>1 DEF Alone, AloneShape
    <3> QED BY <1>1, <1>3, <3>2, ShapeStep, LeftStep DEF Alone, AloneShape
  <2> QED BY <2>1, <2>2
<1> QED BY <1>2, <1>3 DEF BrowserInv

\* The invariant holds of the pages.
LEMMA BrowserInvariant == BrowserSpec => []BrowserInv
<1> QED BY BrowserInitInv, BrowserStep, PTL DEF BrowserSpec

\* One use at a time, each gets its page and leaves nothing running, however many
\* came before it, as long as Playwright raises nothing (context.py:25-33,
\* browser.py:35-93).
THEOREM UsesAloneAreClean == BrowserSpec => []AloneIsClean
<1>1. BrowserInv => AloneIsClean
  <2> SUFFICES ASSUME BrowserInv, ~overlap, raises = 0 PROVE
        /\ ~failed
        /\ (\A u \in Users : place[u] = "away") =>
              \A p \in Parts : field[p] = Nothing /\ \A n \in Starts : p \notin alive[n]
      BY DEF AloneIsClean
  <2>1. Alone /\ BrowserTypeOK /\ OwnsItsStart
        BY DEF BrowserInv
  <2>2. Left = {}
        BY <2>1, FewerLeft, FS_EmptySet DEF Alone
  <2>3. ~failed
        BY <2>1 DEF Alone
  <2>4. ASSUME \A u \in Users : place[u] = "away"
        PROVE  \A n \in Starts : alive[n] = {}
        BY <2>1, <2>2, <2>4 DEF Left, OwnsItsStart, Nothing, Starts
  <2>5. ASSUME \A n \in Starts : alive[n] = {}, NEW p \in Parts
        PROVE  field[p] = Nothing
        BY <2>1, <2>5 DEF Alone, FieldsAreAlive, BrowserTypeOK, Parts
  <2> QED BY <2>3, <2>4, <2>5
<1> QED BY <1>1, BrowserInvariant, PTL

\* One use at a time, no more drivers are forgotten than awaits raised, for any
\* number of uses (browser.py:35-44, 64-66).
THEOREM LeaksHaveFailures == BrowserSpec => []LeaksAreCounted
<1>1. BrowserInv => LeaksAreCounted
  <2> SUFFICES ASSUME BrowserInv, ~overlap PROVE Cardinality(Forgotten) <= raises
      BY DEF LeaksAreCounted
  <2>1. Alone /\ BrowserTypeOK /\ OwnsItsStart
        BY DEF BrowserInv
  <2>2. ASSUME NEW n \in Forgotten, NEW u \in Users PROVE own[u] # n
    <3>1. n \in Starts /\ n # Nothing /\ field["driver"] # n
          BY <2>2 DEF Forgotten, Starts, Nothing
    <3>2. ASSUME own[u] = n PROVE field["driver"] = n
      <4>1. "driver" \in PartsAt(place[u])
            BY <2>1, <3>1, <3>2 DEF PartsAt, OwnsItsStart, BrowserTypeOK, Parts
      <4> QED BY <2>1, <3>1, <3>2, <4>1 DEF Alone, HoldsItsParts, Parts
    <3> QED BY <3>1, <3>2
  <2>3. Forgotten \subseteq Left
        BY <2>2 DEF Forgotten, Left
  <2>4. IsFiniteSet(Left) /\ Cardinality(Left) \in Nat /\ Cardinality(Left) <= raises /\ raises \in Nat
        BY <2>1, FewerLeft DEF Alone, BrowserTypeOK
  <2>5. Cardinality(Forgotten) <= Cardinality(Left) /\ Cardinality(Forgotten) \in Nat
        BY <2>3, <2>4, FS_Subset, FS_CardinalityType
  <2> QED BY <2>4, <2>5
<1> QED BY <1>1, BrowserInvariant, PTL

-------------------------------------------------------------------------------
(* The parts put together                                                  *)

\* A behaviour of the clients is one of each part: the part at work takes its
\* steps, and the others stay as they are.  What is proved of a part for its own
\* specification holds of MCServiceClients.
THEOREM EachPartIsItself == ServiceSpec => Spec /\ LeaseSpec /\ BufferSpec /\ BrowserSpec
<1>1. ServiceInit => Init /\ LeaseInit /\ BufferInit /\ BrowserInit
      BY DEF ServiceInit
<1>2. [ServiceNext]_parts
        => [Next]_vars /\ [LeaseNext]_leaseVars /\ [BufferNext]_bufferVars /\ [BrowserNext]_browserVars
  <2> SUFFICES ASSUME [ServiceNext]_parts
               PROVE  [Next]_vars /\ [LeaseNext]_leaseVars /\ [BufferNext]_bufferVars
                        /\ [BrowserNext]_browserVars
      OBVIOUS
  <2>1. CASE Rest("gate") /\ Next
        BY <2>1 DEF Rest
  <2>2. CASE Rest("lease") /\ LeaseNext
        BY <2>2 DEF Rest
  <2>3. CASE Rest("buffer") /\ BufferNext
        BY <2>3 DEF Rest
  <2>4. CASE Rest("browser") /\ BrowserNext
        BY <2>4 DEF Rest
  <2>5. CASE UNCHANGED parts
        BY <2>5 DEF parts
  <2> QED BY <2>1, <2>2, <2>3, <2>4, <2>5 DEF ServiceNext
<1> QED BY <1>1, <1>2, PTL DEF ServiceSpec, Spec, LeaseSpec, BufferSpec, BrowserSpec

\* The four clients keep their types, a granted key lives for its TTL
\* (gate.py:48), and a failed pop_batch costs a batch at most (queue.py:67-76).
THEOREM ServiceTypeCorrect == ServiceSpec => []ServiceInv
<1>1. BrowserInv => BrowserTypeOK
      BY DEF BrowserInv
<1>2. TypeOK /\ GrantIsHeld /\ LeaseTypeOK /\ BufferTypeOK /\ LossBound /\ BrowserTypeOK => ServiceInv
      BY DEF ServiceInv
<1> QED BY <1>1, <1>2, EachPartIsItself, TypeCorrect, GrantsAreHeld, LeaseTypeCorrect,
           BufferTypeCorrect, LossIsBounded, BrowserInvariant, PTL
===============================================================================

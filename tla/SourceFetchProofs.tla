-------------------------- MODULE SourceFetchProofs ---------------------------
(***************************************************************************)
(* The breaker: for any number of overlapping calls and any configuration  *)
(* with positive thresholds, its safety properties.  The adapter that uses *)
(* it: its breaker counts fetches, not requests, so until the adapter has  *)
(* begun failure_threshold fetches the breaker is closed, for any number   *)
(* of overlapping fetches, retries, answers and cancellations.             *)
(***************************************************************************)
EXTENDS SourceFetch, FiniteSetTheorems, TLAPS

-------------------------------------------------------------------------------
(* The breaker (CircuitBreaker).                                           *)

Inv == TypeOK /\ TripHasDeadline /\ SuccessesAreProbes

\* Every step preserves the types, the failure time of a breaker that is not
\* closed, and the bound of the success count by the probes.
LEMMA InvStep == Inv /\ [Next]_vars => Inv'
<1> SUFFICES ASSUME Inv, [Next]_vars PROVE Inv'
    OBVIOUS
<1> USE ConfigAssumption DEF Inv, TypeOK, TripHasDeadline, SuccessesAreProbes, None, Count
<1>1. ASSUME NEW c \in Calls, Enter(c) PROVE Inv'
      BY <1>1 DEF Enter, FreshAttempts
<1>2. ASSUME NEW c \in Calls, Succeed(c) PROVE Inv'
  <2>1. CASE Probing /\ EnoughSuccesses
        BY <1>2, <2>1 DEF Succeed
  <2>2. CASE Probing /\ ~EnoughSuccesses
        BY <1>2, <2>2 DEF Succeed, EnoughSuccesses, Probing
  <2>3. CASE ~Probing
        BY <1>2, <2>3 DEF Succeed
  <2> QED BY <2>1, <2>2, <2>3
<1>3. ASSUME NEW c \in Calls, Fail(c) PROVE Inv'
      BY <1>3 DEF Fail, FailureAge
<1>4. ASSUME NEW c \in Calls, Abandon(c) PROVE Inv'
      BY <1>4 DEF Abandon
<1>5. CASE Reset
      BY <1>5 DEF Reset
<1>6. CASE Tick
      BY <1>6 DEF Tick
<1>7. CASE Heal
      BY <1>7 DEF Heal
<1>8. CASE UNCHANGED vars
      BY <1>8 DEF vars
<1> QED BY <1>1, <1>2, <1>3, <1>4, <1>5, <1>6, <1>7, <1>8 DEF Next

\* A new breaker satisfies it.
LEMMA InitInv == Init => Inv
<1>1. /\ 0 \in 0..FailureThreshold /\ 0 \in 0..(SuccessThreshold - 1)
      /\ 0 \in 0..HalfOpenMax /\ 0 \in 0..SuccessThreshold /\ 0 <= 0
      BY ConfigAssumption
<1> QED BY <1>1 DEF Init, Inv, TypeOK, TripHasDeadline, SuccessesAreProbes

\* The invariant holds of the breaker.
LEMMA Invariant == Spec => []Inv
BY InitInv, InvStep, PTL DEF Spec

\* The breaker's fields keep their types (circuit_breaker.py:35-43).
THEOREM TypeCorrect == Spec => []TypeOK
<1>1. Inv => TypeOK
      BY DEF Inv
<1> QED BY <1>1, Invariant, PTL

\* A breaker that is not closed knows when it was last failed, for any order of
\* late results and resets (circuit_breaker.py:94-124).
THEOREM TripsHaveDeadlines == Spec => []TripHasDeadline
<1>1. Inv => TripHasDeadline
      BY DEF Inv
<1> QED BY <1>1, Invariant, PTL

\* The successes counted are probes that succeeded since the breaker tripped, for
\* any order of late results (circuit_breaker.py:94-103).
THEOREM SuccessesWereProbes == Spec => []SuccessesAreProbes
<1>1. Inv => SuccessesAreProbes
      BY DEF Inv
<1> QED BY <1>1, Invariant, PTL

\* An open breaker admits nobody before its timeout and is closed by nothing
\* but reset (circuit_breaker.py:78-117).
THEOREM OpenBreakersWait == Spec => OpenWaits
<1> DEFINE Waits == state = "open" =>
                      /\ running' \subseteq running \/ (age = Timeout /\ state' = "half_open")
                      /\ state' = "closed" => age' = None
<1>1. Inv /\ [Next]_vars => [Waits]_vars
  <2> SUFFICES ASSUME Inv, Next, state = "open" PROVE Waits
      OBVIOUS
  <2>0. age \in 0..Timeout /\ Timeout \in Nat
        BY ConfigAssumption DEF Inv, TypeOK, TripHasDeadline
  <2>1. ASSUME NEW c \in Calls, Enter(c) PROVE Waits
        BY <2>0, <2>1 DEF Enter, TimedOut, None
  <2>2. ASSUME NEW c \in Calls, Succeed(c) \/ Fail(c) \/ Abandon(c) PROVE Waits
        BY <2>2 DEF Succeed, Fail, Abandon, Probing
  <2>3. CASE Reset \/ Tick \/ Heal
        BY <2>3 DEF Reset, Tick, Heal
  <2> QED BY <2>1, <2>2, <2>3 DEF Next
<1> QED BY <1>1, Invariant, PTL DEF Spec, OpenWaits

\* A breaker that tripped closes only after success_threshold successful probes
\* (circuit_breaker.py:94-103).
THEOREM ClosingTakesProbes == Spec => ClosesAfterProbes
<1> DEFINE Probed == state # "closed" /\ state' = "closed" /\ age' # None
                       => state = "half_open" /\ probes + 1 >= SuccessThreshold
<1>1. Inv /\ [Next]_vars => [Probed]_vars
  <2> SUFFICES ASSUME Inv, Next PROVE Probed
      OBVIOUS
  <2>1. ASSUME NEW c \in Calls, Succeed(c) PROVE Probed
        BY <2>1, ConfigAssumption
        DEF Succeed, Probing, EnoughSuccesses, Inv, TypeOK, SuccessesAreProbes
  <2>2. ASSUME NEW c \in Calls, Enter(c) \/ Fail(c) \/ Abandon(c) PROVE Probed
        BY <2>2 DEF Enter, Fail, Abandon
  <2>3. CASE Reset \/ Tick \/ Heal
        BY <2>3 DEF Reset, Tick, Heal
  <2> QED BY <2>1, <2>2, <2>3 DEF Next
<1> QED BY <1>1, Invariant, PTL DEF Spec, ClosesAfterProbes

-------------------------------------------------------------------------------
(* The adapter (SourceFetch).                                              *)

\* The failures counted and those still to come are fetches begun.
Budget == /\ state = "closed"
          /\ failures \in Nat
          /\ failures + Cardinality(running) <= fetches

FetchInv == /\ IsFiniteSet(running)
            /\ fetches \in Nat
            /\ fetches < FailureThreshold => Budget

\* A call that ends leaves the set of those in progress one smaller.
LEMMA Leaves ==
    ASSUME NEW c \in running, IsFiniteSet(running), running' = running \ {c}
    PROVE  /\ IsFiniteSet(running')
           /\ Cardinality(running') = Cardinality(running) - 1
           /\ Cardinality(running) \in Nat
           /\ Cardinality(running') \in Nat
BY FS_RemoveElement, FS_CardinalityType

\* A failed call was one of the calls in progress: the sum stays what it was.
LEMMA FailKeeps ==
    ASSUME NEW c \in Calls, FetchInv, Fail(c), fetches' = fetches PROVE FetchInv'
<1>1. /\ IsFiniteSet(running')
      /\ Cardinality(running') = Cardinality(running) - 1
      /\ Cardinality(running) \in Nat /\ Cardinality(running') \in Nat
      BY Leaves DEF FetchInv, Fail
<1>2. ASSUME fetches < FailureThreshold PROVE Budget'
  <2>1. failures + 1 < FailureThreshold
        BY <1>1, <1>2, ConfigAssumption DEF FetchInv, Budget, Fail
  <2>2. state' = "closed" /\ failures' = failures + 1
        BY <1>2, <2>1, ConfigAssumption DEF FetchInv, Budget, Fail, Count
  <2> QED BY <1>1, <1>2, <2>2 DEF FetchInv, Budget
<1> QED BY <1>1, <1>2 DEF FetchInv

\* A successful call leaves too, and clears the failures of a closed breaker.
LEMMA SucceedKeeps ==
    ASSUME NEW c \in Calls, FetchInv, Succeed(c), fetches' = fetches PROVE FetchInv'
<1>1. /\ IsFiniteSet(running')
      /\ Cardinality(running') = Cardinality(running) - 1
      /\ Cardinality(running) \in Nat /\ Cardinality(running') \in Nat
      BY Leaves DEF FetchInv, Succeed
<1>2. ASSUME fetches < FailureThreshold PROVE Budget'
  <2>1. state' = "closed" /\ failures' = 0
        BY <1>2 DEF FetchInv, Budget, Succeed, Probing
  <2> QED BY <1>1, <1>2, <2>1 DEF FetchInv, Budget
<1> QED BY <1>1, <1>2 DEF FetchInv

\* A cancelled call leaves and counts for nothing.
LEMMA AbandonKeeps ==
    ASSUME NEW c \in Calls, FetchInv, Abandon(c), fetches' = fetches PROVE FetchInv'
<1>1. /\ IsFiniteSet(running')
      /\ Cardinality(running') = Cardinality(running) - 1
      /\ Cardinality(running) \in Nat /\ Cardinality(running') \in Nat
      BY Leaves DEF FetchInv, Abandon
<1> QED BY <1>1 DEF FetchInv, Budget, Abandon

\* A fetch that begins is counted, and is admitted by a closed breaker.
LEMMA StartKeeps == ASSUME NEW c \in Calls, FetchInv, StartFetch(c) PROVE FetchInv'
<1>1. /\ running' \in {running, running \cup {c}}
      /\ failures' = failures
      BY DEF StartFetch, Enter
<1>2. /\ IsFiniteSet(running') /\ Cardinality(running) \in Nat /\ Cardinality(running') \in Nat
      /\ Cardinality(running') <= Cardinality(running) + 1
  <2>1. IsFiniteSet(running) BY DEF FetchInv
  <2>2. /\ IsFiniteSet(running \cup {c})
        /\ Cardinality(running \cup {c}) =
             IF c \in running THEN Cardinality(running) ELSE Cardinality(running) + 1
        BY <2>1, FS_AddElement
  <2>3. Cardinality(running) \in Nat
        BY <2>1, FS_CardinalityType
  <2>4. CASE running' = running
        BY <2>1, <2>3, <2>4
  <2>5. CASE running' = running \cup {c}
        BY <2>2, <2>3, <2>5
  <2> QED BY <1>1, <2>4, <2>5
<1>3. fetches \in Nat /\ fetches' = IF fetches < FailureThreshold THEN fetches + 1 ELSE fetches
      BY DEF FetchInv, StartFetch
<1>4. ASSUME fetches' < FailureThreshold PROVE Budget'
  <2>1. fetches < FailureThreshold /\ fetches' = fetches + 1
        BY <1>3, <1>4, ConfigAssumption
  <2>2. Budget
        BY <2>1 DEF FetchInv
  <2>3. state' = "closed"
        BY <2>2 DEF Budget, StartFetch, Enter
  <2> QED BY <1>1, <1>2, <1>3, <2>1, <2>2, <2>3 DEF Budget
<1> QED BY <1>2, <1>3, <1>4, ConfigAssumption DEF FetchInv

\* Steps that leave the breaker's count of failures and calls alone.
LEMMA QuietKeeps ==
    ASSUME FetchInv, UNCHANGED <<state, failures, running, fetches>> PROVE FetchInv'
BY DEF FetchInv, Budget

\* Every step keeps the budget.
LEMMA FetchInvStep == FetchInv /\ [FetchNext]_fetchVars => FetchInv'
<1> SUFFICES ASSUME FetchInv, [FetchNext]_fetchVars PROVE FetchInv'
    OBVIOUS
<1>1. ASSUME NEW c \in Calls, StartFetch(c) PROVE FetchInv'
      BY <1>1, StartKeeps
<1>2. ASSUME NEW c \in Calls, ApiAnswers(c) PROVE FetchInv'
      BY <1>2, SucceedKeeps DEF ApiAnswers
<1>3. ASSUME NEW c \in Calls, ApiFails(c) PROVE FetchInv'
      BY <1>3, FailKeeps DEF ApiFails
<1>4. ASSUME NEW c \in Calls, ApiBusy(c) PROVE FetchInv'
      BY <1>4, QuietKeeps DEF ApiBusy, vars
<1>5. ASSUME NEW c \in Calls, ResumeRequest(c) PROVE FetchInv'
  <2>1. CASE UNCHANGED vars
        BY <1>5, <2>1, QuietKeeps DEF ResumeRequest, vars
  <2>2. CASE Fail(c)
        BY <1>5, <2>2, FailKeeps DEF ResumeRequest
  <2> QED BY <1>5, <2>1, <2>2 DEF ResumeRequest
<1>6. ASSUME NEW c \in Calls, NimbleAnswers(c) \/ Return(c) PROVE FetchInv'
      BY <1>6, QuietKeeps DEF NimbleAnswers, Return, vars
<1>7. ASSUME NEW c \in Calls, Cancel(c) PROVE FetchInv'
  <2>1. CASE UNCHANGED vars
        BY <1>7, <2>1, QuietKeeps DEF Cancel, vars
  <2>2. CASE Abandon(c)
        BY <1>7, <2>2, AbandonKeeps DEF Cancel
  <2> QED BY <1>7, <2>1, <2>2 DEF Cancel
<1>8. CASE TimePasses
      BY <1>8, QuietKeeps DEF TimePasses, Tick
<1>9. CASE UNCHANGED fetchVars
      BY <1>9, QuietKeeps DEF fetchVars, vars
<1> QED BY <1>1, <1>2, <1>3, <1>4, <1>5, <1>6, <1>7, <1>8, <1>9 DEF FetchNext, Go

\* Until an adapter has begun failure_threshold fetches its breaker is closed,
\* so one that is built for a single fetch (bootstrap/pipeline.py:21) never
\* sees it open.
THEOREM OpeningTakesFetches == FetchSpec => []OpensAfterFetches
<1>1. FetchInit => FetchInv
  <2>1. IsFiniteSet({}) /\ Cardinality({}) = 0
        BY FS_EmptySet
  <2> QED BY <2>1 DEF FetchInit, Init, FetchInv, Budget
<1>2. FetchInv => OpensAfterFetches
      BY DEF FetchInv, Budget, OpensAfterFetches
<1> QED BY <1>1, <1>2, FetchInvStep, PTL DEF FetchSpec

\* Every step of a fetch is one of the breaker's, or leaves it alone.
LEMMA DrivesStep == [FetchNext]_fetchVars => [Next]_vars
<1> SUFFICES ASSUME [FetchNext]_fetchVars PROVE [Next]_vars
    OBVIOUS
<1>1. ASSUME NEW c \in Calls, StartFetch(c) PROVE Next
      BY <1>1 DEF StartFetch, Next
<1>2. ASSUME NEW c \in Calls, ApiAnswers(c) \/ ApiFails(c) PROVE Next
      BY <1>2 DEF ApiAnswers, ApiFails, Next
<1>3. ASSUME NEW c \in Calls, ApiBusy(c) \/ NimbleAnswers(c) \/ Return(c) PROVE UNCHANGED vars
      BY <1>3 DEF ApiBusy, NimbleAnswers, Return
<1>4. ASSUME NEW c \in Calls, ResumeRequest(c) PROVE Next \/ UNCHANGED vars
      BY <1>4 DEF ResumeRequest, Next
<1>5. ASSUME NEW c \in Calls, Cancel(c) PROVE Next \/ UNCHANGED vars
      BY <1>5 DEF Cancel, Next
<1>6. CASE TimePasses
      BY <1>6 DEF TimePasses, Next
<1>7. CASE UNCHANGED fetchVars
      BY <1>7 DEF fetchVars
<1> QED BY <1>1, <1>2, <1>3, <1>4, <1>5, <1>6, <1>7 DEF FetchNext, Go

-------------------------------------------------------------------------------
\* What a fetch in progress or done owes: past the API's stage it says how that
\* ended, and with nothing found also how Nimble's did.
Explained(f) == /\ f.pc \in {"nimble", "done"} => "api" \in f.returned \cup f.errors
                /\ f.pc = "done" /\ f.found = 0 /\ NimbleEnabled
                      => "nimble" \in f.returned \cup f.errors

FetchesExplained == FetchTypeOK /\ \A c \in Calls : Explained(fetch[c])

\* The surveys of an answer or a page are at most as many as its places.
LEMMA Places ==
    ASSUME NEW S, NEW n \in Nat, IsFiniteSet(S), Cardinality(S) = n, NEW T \in SUBSET S
    PROVE  Cardinality(T) \in 0..n
<1>1. IsFiniteSet(T) /\ Cardinality(T) <= n
      BY FS_Subset
<1>2. Cardinality(T) \in Nat
      BY <1>1, FS_CardinalityType
<1> QED BY <1>1, <1>2

\* An answer yields at most PageLimit surveys, and a scraped page that many of every
\* blob.
LEMMA FindsFitThePage ==
    /\ ApiFinds \subseteq 0..(PageLimit * MaxBlobs)
    /\ HtmlFinds \subseteq 0..(PageLimit * MaxBlobs)
<1>1. /\ IsFiniteSet(1..PageLimit) /\ Cardinality(1..PageLimit) = PageLimit
      /\ IsFiniteSet(1..MaxBlobs) /\ Cardinality(1..MaxBlobs) = MaxBlobs
      BY FetchAssumption, FS_Interval
<1>2. /\ IsFiniteSet((1..MaxBlobs) \X (1..PageLimit))
      /\ Cardinality((1..MaxBlobs) \X (1..PageLimit)) = MaxBlobs * PageLimit
      BY <1>1, FS_Product
<1>3. MaxBlobs * PageLimit \in Nat /\ MaxBlobs * PageLimit = PageLimit * MaxBlobs
      BY FetchAssumption
<1>4. PageLimit <= PageLimit * MaxBlobs
      BY FetchAssumption
<1>5. ASSUME NEW answer PROVE ParseApi(answer) \in 0..(PageLimit * MaxBlobs)
  <2>1. {i \in Page(answer) : answer[i] = "good"} \in SUBSET (1..PageLimit)
        BY DEF Page
  <2>2. ParseApi(answer) \in 0..PageLimit
        BY <1>1, <2>1, Places, FetchAssumption DEF ParseApi
  <2> QED BY <1>3, <1>4, <2>2, FetchAssumption
<1>6. ASSUME NEW page PROVE ParseHtml(page) \in 0..(PageLimit * MaxBlobs)
      BY <1>2, <1>3, Places DEF ParseHtml
<1> QED BY <1>5, <1>6 DEF ApiFinds, HtmlFinds

\* Finding nothing is within those bounds.
LEMMA NoFinds == 0 \in 0..(PageLimit * MaxBlobs)
<1>1. PageLimit * MaxBlobs \in Nat
      BY FetchAssumption
<1> QED BY <1>1

\* The end of the API's stage leaves a fetch that is well typed and explained.
LEMMA StageEndsExplained ==
    ASSUME NEW c \in Calls, fetch \in [Calls -> Fetches],
           \A d \in Calls : Explained(fetch[d]),
           NEW found \in 0..(PageLimit * MaxBlobs),
           NEW errors \in SUBSET {"api"}, NEW returned \in SUBSET {"api"},
           "api" \in returned \/ "api" \in errors,
           ApiStageEnds(c, found, errors, returned)
    PROVE  /\ fetch' \in [Calls -> Fetches]
           /\ \A d \in Calls : Explained(fetch'[d])
<1> DEFINE f == fetch'[c]
<1>1. 0 \in 0..(MaxRetries - 1)
      BY FetchAssumption
<1>2. f = [pc |-> IF FallsBack(found) THEN "nimble" ELSE "done", attempt |-> 0,
           found |-> found, errors |-> errors, returned |-> returned]
      BY DEF ApiStageEnds, NoFetch
<1>3. f \in Fetches /\ Explained(f)
      BY <1>1, <1>2 DEF Fetches, Explained, FallsBack
<1> QED BY <1>3 DEF ApiStageEnds

\* Every step keeps the fetches typed and explained.
LEMMA ExplainedStep == FetchesExplained /\ Inv /\ [FetchNext]_fetchVars => FetchesExplained'
<1> SUFFICES ASSUME FetchesExplained, Inv, [FetchNext]_fetchVars PROVE FetchesExplained'
    OBVIOUS
<1>1. fetch \in [Calls -> Fetches] /\ \A c \in Calls : Explained(fetch[c])
      BY DEF FetchesExplained, FetchTypeOK
<1>f. 0 \in 0..(PageLimit * MaxBlobs)
      BY NoFinds
<1>2. TypeOK'
  <2>1. [Next]_vars
        BY DrivesStep
  <2> QED BY <2>1, InvStep DEF Inv
<1>3. fetches' \in 0..FailureThreshold
  <2>1. fetches \in 0..FailureThreshold
        BY DEF FetchesExplained, FetchTypeOK
  <2>2. ASSUME NEW c \in Calls, StartFetch(c) PROVE fetches' \in 0..FailureThreshold
        BY <2>1, <2>2, ConfigAssumption DEF StartFetch
  <2>3. ASSUME NEW c \in Calls, Go(c) \/ Cancel(c) PROVE fetches' = fetches
        BY <2>3 DEF Go, ApiAnswers, ApiFails, ApiBusy, ResumeRequest, NimbleAnswers, Return, Cancel
  <2>4. ASSUME TimePasses \/ UNCHANGED fetchVars PROVE fetches' = fetches
        BY <2>4 DEF TimePasses, fetchVars
  <2> QED BY <2>1, <2>2, <2>3, <2>4 DEF FetchNext
<1> DEFINE Kept == fetch' \in [Calls -> Fetches] /\ \A c \in Calls : Explained(fetch'[c])
<1>s. ASSUME NEW c \in Calls, ApiStageEnds(c, 0, {"api"}, {}) PROVE Kept
      BY <1>1, <1>f, <1>s, StageEndsExplained
<1>4. ASSUME NEW c \in Calls, StartFetch(c) PROVE Kept
  <2>1. CASE c \in running'
    <3>1. fetch' = [fetch EXCEPT ![c] = [pc |-> "api", attempt |-> 0, found |-> 0,
                                         errors |-> {}, returned |-> {}]]
          BY <1>4, <2>1 DEF StartFetch, NoFetch
    <3> QED BY <1>1, <1>f, <3>1, FetchAssumption DEF Fetches, Explained
  <2>2. CASE c \notin running'
        BY <1>1, <1>4, <2>2, <1>s DEF StartFetch
  <2> QED BY <2>1, <2>2
<1>5. ASSUME NEW c \in Calls, ApiAnswers(c) PROVE Kept
      BY <1>1, <1>5, StageEndsExplained, FindsFitThePage DEF ApiAnswers
<1>6. ASSUME NEW c \in Calls, ApiFails(c) PROVE Kept
      BY <1>6, <1>s DEF ApiFails
<1>7. ASSUME NEW c \in Calls, ApiBusy(c) PROVE Kept
      BY <1>1, <1>7 DEF ApiBusy, Fetches, Explained
<1>8. ASSUME NEW c \in Calls, ResumeRequest(c) PROVE Kept
  <2>1. CASE MayRetry(Attempt(fetch[c].attempt))
    <3>1. fetch[c].attempt + 1 \in 0..(MaxRetries - 1)
          BY <1>1, <2>1, FetchAssumption DEF MayRetry, Attempt, Fetches
    <3> QED BY <1>1, <1>8, <2>1, <3>1 DEF ResumeRequest, Attempt, Fetches, Explained
  <2>2. CASE ~MayRetry(Attempt(fetch[c].attempt))
        BY <1>1, <1>8, <2>2, <1>s DEF ResumeRequest
  <2> QED BY <2>1, <2>2
<1>9. ASSUME NEW c \in Calls, NimbleAnswers(c) PROVE Kept
  <2>1. fetch[c] \in Fetches /\ Explained(fetch[c]) /\ fetch[c].pc = "nimble"
        BY <1>1, <1>9 DEF NimbleAnswers
  <2>2. CASE fetch' = [fetch EXCEPT ![c].pc = "done", ![c].errors = @ \cup {"nimble"}]
    <3>1. fetch'[c] \in Fetches /\ Explained(fetch'[c])
          BY <1>1, <2>1, <2>2 DEF Fetches, Explained
    <3> QED BY <1>1, <2>2, <3>1
  <2>3. CASE \E found \in HtmlFinds :
               fetch' = [fetch EXCEPT ![c].pc = "done", ![c].found = found,
                                      ![c].returned = @ \cup {"nimble"}]
    <3>1. PICK found \in 0..(PageLimit * MaxBlobs) :
               fetch' = [fetch EXCEPT ![c].pc = "done", ![c].found = found,
                                      ![c].returned = @ \cup {"nimble"}]
          BY <2>3, FindsFitThePage
    <3>2. fetch'[c] \in Fetches /\ Explained(fetch'[c])
          BY <1>1, <2>1, <3>1 DEF Fetches, Explained
    <3> QED BY <1>1, <3>1, <3>2
  <2> QED BY <1>9, <2>2, <2>3 DEF NimbleAnswers
<1>10. ASSUME NEW c \in Calls, Return(c) \/ Cancel(c) PROVE Kept
  <2>1. NoFetch \in Fetches /\ Explained(NoFetch)
        BY <1>f, FetchAssumption DEF NoFetch, Fetches, Explained
  <2> QED BY <1>1, <1>10, <2>1 DEF Return, Cancel
<1>11. ASSUME TimePasses \/ UNCHANGED fetchVars PROVE Kept
       BY <1>1, <1>11 DEF TimePasses, fetchVars
<1>12. Kept
       BY <1>4, <1>5, <1>6, <1>7, <1>8, <1>9, <1>10, <1>11 DEF FetchNext, Go
<1> QED BY <1>2, <1>3, <1>12 DEF FetchesExplained, FetchTypeOK

\* The fetches are typed and explained in every state.
LEMMA ExplainedInvariant == FetchSpec => []FetchesExplained
<1>1. FetchInit => FetchesExplained /\ Inv
  <2> SUFFICES ASSUME FetchInit PROVE FetchesExplained /\ Inv
      OBVIOUS
  <2>1. Inv
        BY InitInv DEF FetchInit
  <2>2. NoFetch \in Fetches /\ Explained(NoFetch) /\ 0 \in 0..FailureThreshold
        BY NoFinds, FetchAssumption, ConfigAssumption DEF NoFetch, Fetches, Explained
  <2> QED BY <2>1, <2>2 DEF FetchInit, FetchesExplained, FetchTypeOK, Inv
<1>2. FetchesExplained /\ Inv /\ [FetchNext]_fetchVars => (FetchesExplained /\ Inv)'
      BY ExplainedStep, DrivesStep, InvStep
<1> QED BY <1>1, <1>2, PTL DEF FetchSpec

\* A fetch's attempts, finds and errors keep their bounds (adapters/http.py:54-117).
THEOREM FetchTypeCorrect == FetchSpec => []FetchTypeOK
<1>1. FetchesExplained => FetchTypeOK
      BY DEF FetchesExplained
<1> QED BY <1>1, ExplainedInvariant, PTL

\* An empty result is the last resort, and names every stage that raised or was not
\* let through, for any answers, retries, page limit and number of blobs
\* (prolific/adapter.py:39-58).
THEOREM EmptyResultsAreExplained == FetchSpec => []EmptyIsExplained
<1>1. FetchesExplained => EmptyIsExplained
      BY DEF FetchesExplained, Explained, EmptyIsExplained
<1> QED BY <1>1, ExplainedInvariant, PTL
===============================================================================

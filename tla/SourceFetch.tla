----------------------------- MODULE SourceFetch ------------------------------
(***************************************************************************)
(* How an adapter fetches surveys (adapters/prolific, cloudresearch and    *)
(* respondent, which differ in addresses and field names only): it asks    *)
(* the source's API inside its circuit breaker, the HTTP client retrying   *)
(* there, and with nothing to show for it scrapes the site through Nimble. *)
(* Fetches of one adapter may overlap; they share the breaker, which is    *)
(* the one of CircuitBreaker, step by step.                                *)
(*                                                                         *)
(* An item of an answer is good, bad (its values are no survey) or alien   *)
(* (no object at all).  A scraped page carries its items in blobs of JSON. *)
(***************************************************************************)
EXTENDS CircuitBreaker, FiniteSets

CONSTANTS MaxRetries,      \* HTTPClient(max_retries=...)
          NimbleEnabled,   \* is NIMBLE_API_KEY set?
          PageLimit,       \* surveys an adapter takes of an answer or a blob (20)
          MaxBlobs         \* bound: the blobs of a scraped page

ASSUME FetchAssumption == /\ MaxRetries \in Nat \ {0} /\ NimbleEnabled \in BOOLEAN
                          /\ PageLimit \in Nat /\ MaxBlobs \in Nat \ {0}

VARIABLES fetch,     \* the fetches in progress
          fetches    \* fetches begun, counted up to FailureThreshold

fetchVars == <<vars, fetch, fetches>>

\* found is len(surveys), and errors the stages that errors names; returned, a
\* ghost, has the stages whose call returned surveys, or none, and did not raise.
NoFetch == [pc |-> "idle", attempt |-> 0, found |-> 0, errors |-> {}, returned |-> {}]

Fetches == [pc : {"idle", "api", "pausing", "nimble", "done"}, attempt : 0..(MaxRetries - 1),
            found : 0..(PageLimit * MaxBlobs), errors : SUBSET {"api", "nimble"},
            returned : SUBSET {"api", "nimble"}]

\* The fetches' local variables, with the breaker's (adapter.py, http.py).
FetchTypeOK == /\ TypeOK
               /\ fetch \in [Calls -> Fetches]
               /\ fetches \in 0..FailureThreshold

FetchInit == /\ Init
             /\ fetch = [c \in Calls |-> NoFetch]
             /\ fetches = 0

-------------------------------------------------------------------------------
Answers == UNION {[1..n -> {"good", "bad", "alien"}] : n \in 0..(PageLimit + 1)}
Page(answer) == DOMAIN answer \cap 1..PageLimit

\* _parse_api raises for an alien, and leaves out what is bad.
Raises(answer)   == \E i \in Page(answer) : answer[i] = "alien"
ParseApi(answer) == Cardinality({i \in Page(answer) : answer[i] = "good"})

\* _parse_html takes a page of every blob, up to the first item that raises there:
\* what the blob gave so far is kept, and the next blob is read all the same.  A
\* blob that is no JSON, or has no list of surveys, gives none: it is empty here.
Pages == UNION {[1..n -> Answers] : n \in 0..MaxBlobs}
ParseHtml(page) ==
    Cardinality({at \in (1..MaxBlobs) \X (1..PageLimit) :
                   /\ at[1] \in DOMAIN page /\ at[2] \in Page(page[at[1]])
                   /\ \A k \in 1..at[2] : page[at[1]][k] = "good"})

\* How many surveys an adapter may find in an answer it can read.
ApiFinds  == {ParseApi(answer) : answer \in {a \in Answers : ~Raises(a)}}
HtmlFinds == {ParseHtml(page) : page \in Pages}

FallsBack(found) == found = 0 /\ NimbleEnabled

\* fetch_surveys after its first try block.
ApiStageEnds(c, found, errors, returned) ==
    fetch' = [fetch EXCEPT ![c] =
        [NoFetch EXCEPT !.pc = IF FallsBack(found) THEN "nimble" ELSE "done",
                        !.found = found, !.errors = errors, !.returned = returned]]

\* async_call: _check_state, and with its consent the first request.
StartFetch(c) ==
    /\ fetch[c].pc = "idle"
    /\ Enter(c)
    /\ IF c \in running'
       THEN fetch' = [fetch EXCEPT ![c] = [NoFetch EXCEPT !.pc = "api"]]
       ELSE ApiStageEnds(c, 0, {"api"}, {})
    /\ fetches' = IF fetches < FailureThreshold THEN fetches + 1 ELSE fetches

\* An answer that is no error: a page of surveys, or a status like 204 or 302.
ApiAnswers(c) ==
    /\ fetch[c].pc = "api"
    /\ \E found \in ApiFinds : ApiStageEnds(c, found, {}, {"api"})
    /\ Succeed(c)
    /\ UNCHANGED fetches

\* Mutant: the handler logs the exception and no more.
MutApiFails(c) ==
    /\ fetch[c].pc = "api"
    /\ ApiStageEnds(c, 0, {}, {})
    /\ Fail(c)
    /\ UNCHANGED fetches

\* An alien in the page, or a status of 400 to 499 but 429.
ApiFails(c) ==
    /\ fetch[c].pc = "api"
    /\ ApiStageEnds(c, 0, {"api"}, {})
    /\ Fail(c)
    /\ UNCHANGED fetches

\* Mutant: every request that fails is a failure of the breaker's.
MutApiBusy(c) ==
    /\ fetch[c].pc = "api"
    /\ fetch' = [fetch EXCEPT ![c].pc = "pausing"]
    /\ failures' = Count(failures, FailureThreshold)
    /\ state' = IF failures' = FailureThreshold THEN "open" ELSE state
    /\ age' = 0
    /\ UNCHANGED <<successes, attempts, running, healthy, probes, fetches>>

\* 429, 500 and more, a timeout or a broken connection: the client pauses.
ApiBusy(c) ==
    /\ fetch[c].pc = "api"
    /\ fetch' = [fetch EXCEPT ![c].pc = "pausing"]
    /\ UNCHANGED <<vars, fetches>>

\* Mutant: a pause does not use up an attempt.
MutAttempt(n) == n

Attempt(n) == n + 1

MayRetry(n) == n < MaxRetries

\* After the pause the request is sent again, or there were enough of them.
ResumeRequest(c) ==
    /\ fetch[c].pc = "pausing"
    /\ IF MayRetry(Attempt(fetch[c].attempt))
       THEN /\ fetch' = [fetch EXCEPT ![c].pc = "api", ![c].attempt = Attempt(@)]
            /\ UNCHANGED vars
       ELSE /\ ApiStageEnds(c, 0, {"api"}, {})
            /\ Fail(c)
    /\ UNCHANGED fetches

\* fetch_html answers None for every failure; a body that is not text raises in
\* _parse_html.
NimbleAnswers(c) ==
    /\ fetch[c].pc = "nimble"
    /\ \/ \E found \in HtmlFinds :
            fetch' = [fetch EXCEPT ![c].pc = "done", ![c].found = found,
                                   ![c].returned = @ \cup {"nimble"}]
       \/ fetch' = [fetch EXCEPT ![c].pc = "done", ![c].errors = @ \cup {"nimble"}]
    /\ UNCHANGED <<vars, fetches>>

\* The AdapterResult is handed over.
Return(c) == /\ fetch[c].pc = "done"
             /\ fetch' = [fetch EXCEPT ![c] = NoFetch]
             /\ UNCHANGED <<vars, fetches>>

\* The cycle is cancelled (the scheduler shuts down).
Cancel(c) == /\ fetch[c].pc \in {"api", "pausing", "nimble"}
             /\ IF c \in running THEN Abandon(c) ELSE UNCHANGED vars
             /\ fetch' = [fetch EXCEPT ![c] = NoFetch]
             /\ UNCHANGED fetches

\* The source is never assumed to recover for good: healthy stays FALSE.
TimePasses == Tick /\ UNCHANGED <<fetch, fetches>>

Go(c) == \/ ApiAnswers(c) \/ ApiFails(c) \/ ApiBusy(c) \/ ResumeRequest(c)
         \/ NimbleAnswers(c) \/ Return(c)

FetchNext == \/ \E c \in Calls : StartFetch(c) \/ Go(c) \/ Cancel(c)
             \/ TimePasses

FetchSpec == FetchInit /\ [][FetchNext]_fetchVars

\* httpx has a timeout and the pauses are finite, so what a fetch awaits comes;
\* nothing is assumed of the answers, of cancellation or of new fetches.
FetchFairness == \A c \in Calls : WF_fetchVars(Go(c))

FetchFairSpec == FetchSpec /\ FetchFairness

-------------------------------------------------------------------------------
\* A breaker counts fetches, not requests: one whose adapter has begun fewer
\* fetches than failure_threshold is closed, however often the client retried.
\* bootstrap/pipeline.py:21 builds the adapter anew in every cycle, which
\* fetches once: that breaker never opens.
OpensAfterFetches == fetches < FailureThreshold => state = "closed"

\* An empty result is the last resort, and an honest one: of the API, and of the
\* site if it can be scraped, each returned without a survey or is in the errors.
\* An API that the breaker did not let be asked, that failed for good or that was
\* asked in vain until the retries were used up is in them (prolific/adapter.py:39-58).
EmptyIsExplained ==
    \A c \in Calls : fetch[c].pc = "done" /\ fetch[c].found = 0 =>
        {"api"} \cup (IF NimbleEnabled THEN {"nimble"} ELSE {})
            \subseteq fetch[c].returned \cup fetch[c].errors

\* Every fetch ends, whatever the source answers and however late.
FetchEnds == \A c \in Calls : fetch[c].pc # "idle" ~> fetch[c].pc = "idle"
===============================================================================

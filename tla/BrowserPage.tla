------------------------------ MODULE BrowserPage -------------------------------
(***************************************************************************)
(* adapters/playwright: coroutines that use a page of the one              *)
(* PlaywrightBrowser.  initialize, new_page and close await several        *)
(* answers of Playwright, and between them the singleton's fields may be   *)
(* set or cleared by others.  Any await may raise.                         *)
(*                                                                         *)
(* A driver, its browser and its context are made by one call of           *)
(* initialize and share its number.  Of Playwright itself: what is stopped *)
(* takes down what it made, and gives no more answers but errors.          *)
(***************************************************************************)
EXTENDS Integers, FiniteSets

CONSTANTS Users,
          MaxStarts,    \* bound: drivers told apart at a time
          MaxRaises     \* bound: awaits that raise

ASSUME BrowserAssumption == MaxStarts \in Nat /\ MaxRaises \in Nat

Nothing == 0
Parts   == {"driver", "browser", "context"}
Starts  == 1..MaxStarts

VARIABLES field,     \* _playwright, _browser, _context
          alive,     \* alive[n]: what of start n is running
          place,     \* what user u awaits
          own,       \* the number of what it is making, using or closing
          raises,    \* ghost: awaits that raised
          overlap,   \* ghost: did two users ever use the browser at once?
          failed     \* ghost: did an exception ever reach a user?

browserVars == <<field, alive, place, own, raises, overlap, failed>>

\* The singleton's fields, Playwright's processes, and the users' awaits
\* (browser.py:44-93, context.py:25-33).
BrowserTypeOK ==
    /\ field \in [Parts -> {Nothing} \cup Starts]
    /\ alive \in [Starts -> SUBSET Parts]
    /\ place \in [Users -> {"away", "starting", "launching", "creating", "opening", "page",
                            "context", "browser", "driver"}]
    /\ own \in [Users -> {Nothing} \cup Starts]
    /\ \A u \in Users : own[u] = Nothing => place[u] \in {"away", "starting"}
    /\ raises \in 0..MaxRaises
    /\ overlap \in BOOLEAN /\ failed \in BOOLEAN

BrowserInit == /\ field = [p \in Parts |-> Nothing]
               /\ alive = [n \in Starts |-> {}]
               /\ place = [u \in Users |-> "away"]
               /\ own = [u \in Users |-> Nothing]
               /\ raises = 0
               /\ overlap = FALSE
               /\ failed = FALSE

-------------------------------------------------------------------------------
Await(u, what, n) == /\ place' = [place EXCEPT ![u] = what]
                     /\ own' = [own EXCEPT ![u] = n]

Leave(u) == Await(u, "away", Nothing)

\* An exception ends browser_page: with no page bound its finally clause raises
\* too, and close is not called.
Fails(u) == /\ Leave(u)
            /\ failed' = TRUE
            /\ UNCHANGED <<field, alive, overlap>>

\* new_page on the context of the field, or an error if there is none.
OpenPage(u) == IF field'["context"] # Nothing
               THEN Await(u, "opening", field'["context"]) /\ UNCHANGED failed
               ELSE Leave(u) /\ failed' = TRUE

IsInitialized == field["browser"] # Nothing

\* browser_page up to its first await.
EnterPage(u) == /\ place[u] = "away"
                /\ overlap' = (overlap \/ \E v \in Users : place[v] # "away")
                /\ \/ IsInitialized /\ UNCHANGED field /\ OpenPage(u)
                   \/ ~IsInitialized /\ Await(u, "starting", Nothing) /\ UNCHANGED <<field, failed>>
                /\ UNCHANGED <<alive, raises>>

\* Numbers that stand for nothing any more.
Unused == {n \in Starts : /\ alive[n] = {}
                          /\ \A p \in Parts : field[p] # n
                          /\ \A u \in Users : own[u] # n}

DriverStarts(u) == /\ place[u] = "starting"
                   /\ \E n \in Unused : /\ alive' = [alive EXCEPT ![n] = {"driver"}]
                                        /\ field' = [field EXCEPT !["driver"] = n]
                                        /\ Await(u, "launching", n)
                   /\ UNCHANGED <<raises, overlap, failed>>

BrowserLaunches(u) == /\ place[u] = "launching" /\ "driver" \in alive[own[u]]
                      /\ alive' = [alive EXCEPT ![own[u]] = @ \cup {"browser"}]
                      /\ field' = [field EXCEPT !["browser"] = own[u]]
                      /\ Await(u, "creating", own[u])
                      /\ UNCHANGED <<raises, overlap, failed>>

ContextOpens(u) == /\ place[u] = "creating" /\ "browser" \in alive[own[u]]
                   /\ alive' = [alive EXCEPT ![own[u]] = @ \cup {"context"}]
                   /\ field' = [field EXCEPT !["context"] = own[u]]
                   /\ OpenPage(u)
                   /\ UNCHANGED <<raises, overlap>>

PageOpens(u) == /\ place[u] = "opening" /\ "context" \in alive[own[u]]
                /\ Await(u, "page", own[u])
                /\ UNCHANGED <<field, alive, raises, overlap, failed>>

\* What each await needs to be running, or it raises.
Needs(u) == CASE place[u] = "launching" -> {"driver"}
              [] place[u] = "creating"  -> {"browser"}
              [] place[u] = "opening"   -> {"context"}
              [] OTHER                  -> {}

Unanswered(u) == /\ own[u] # Nothing /\ ~(Needs(u) \subseteq alive[own[u]])
                 /\ Fails(u)
                 /\ UNCHANGED raises

\* What closing a part takes down.
TakesDown(p) == CASE p = "context" -> {"context"}
                  [] p = "browser" -> {"context", "browser"}
                  [] p = "driver"  -> Parts

Due(p) == field'[p] # Nothing

\* close goes on with the first part of rest whose field is set.
CloseNext(u, rest) ==
    \/ \E p \in rest : /\ Due(p)
                       /\ \A q \in rest : Due(q) => q \notin TakesDown(p) \/ q = p
                       /\ Await(u, p, field'[p])
    \/ (\A p \in rest : ~Due(p)) /\ Leave(u)

\* page.close has answered.
PageCloses(u) == /\ place[u] = "page"
                 /\ UNCHANGED field
                 /\ CloseNext(u, Parts)
                 /\ UNCHANGED <<alive, raises, overlap, failed>>

\* Mutants: the browser's field is not cleared; all are cleared with the first.
MutCleared(p)   == IF p = "browser" THEN field ELSE [field EXCEPT ![p] = Nothing]
MutClearsAll(p) == [q \in Parts |-> Nothing]

\* The field is cleared when the answer comes, whatever it holds by then.
Cleared(p) == [field EXCEPT ![p] = Nothing]

PartCloses(u) == /\ place[u] \in Parts
                 /\ alive' = [alive EXCEPT ![own[u]] = @ \ TakesDown(place[u])]
                 /\ field' = Cleared(place[u])
                 /\ CloseNext(u, Parts \ TakesDown(place[u]))
                 /\ UNCHANGED <<raises, overlap, failed>>

\* Playwright raises where it need not; nothing more is done.
AwaitRaises(u) == /\ place[u] # "away" /\ raises < MaxRaises
                  /\ raises' = raises + 1
                  /\ Fails(u)

\* The process ends, and what it started with it; the next one begins anew.
ProcessEnds == /\ field' = [p \in Parts |-> Nothing]
               /\ alive' = [n \in Starts |-> {}]
               /\ place' = [u \in Users |-> "away"]
               /\ own' = [u \in Users |-> Nothing]
               /\ raises' = 0 /\ overlap' = FALSE /\ failed' = FALSE

BrowserNext == \/ \E u \in Users : \/ EnterPage(u) \/ DriverStarts(u) \/ BrowserLaunches(u)
                                   \/ ContextOpens(u) \/ PageOpens(u) \/ Unanswered(u)
                                   \/ PageCloses(u) \/ PartCloses(u) \/ AwaitRaises(u)
               \/ ProcessEnds

BrowserSpec == BrowserInit /\ [][BrowserNext]_browserVars

-------------------------------------------------------------------------------
\* Used by one coroutine at a time, and while Playwright raises nothing, every
\* use gets its page and leaves nothing running and no field set, however many
\* came before it (context.py:25-33, browser.py:81-93).
AloneIsClean ==
    ~overlap /\ raises = 0 =>
        /\ ~failed
        /\ (\A u \in Users : place[u] = "away") =>
              \A p \in Parts : field[p] = Nothing /\ \A n \in Starts : p \notin alive[n]

\* A use that fails half way leaves its driver running, and a later use that
\* starts another forgets it: one driver for each failure, and no more, as long
\* as uses do not overlap (browser.py:35-44, 64-66).
Forgotten == {n \in Starts : alive[n] # {} /\ field["driver"] # n}

LeaksAreCounted == ~overlap => Cardinality(Forgotten) <= raises
===============================================================================

--------------------------- MODULE MCServiceClients ----------------------------
(***************************************************************************)
(* The parts that speak to a server outside the process in several         *)
(* commands: the gate, the lease and the buffer to Redis, the browser to   *)
(* Playwright.  Their keys are distinct and none calls another, so nothing *)
(* is learned from interleaving them: a behaviour works one part, chosen   *)
(* at the start, and leaves the others as they are.  The states of the run *)
(* are the sum of the parts, not their product.                            *)
(***************************************************************************)
EXTENDS IdempotencyGate, Leadership, Buffer, BrowserPage

VARIABLE part

parts == <<part, vars, leaseVars, bufferVars, browserVars>>

\* A part that is not at work stays in one of its initial states.
OneOf(S) == CHOOSE x \in S : TRUE

ServiceInit == /\ part \in {"gate", "lease", "buffer", "browser"}
               /\ Init /\ LeaseInit /\ BufferInit /\ BrowserInit
               /\ part # "gate" => key = OneOf([Clients -> Keys])
               /\ part # "buffer" => ~heeds /\ event = OneOf([Producers -> Events])

\* What every step leaves alone that works part p.
Rest(p) == /\ part = p /\ UNCHANGED part
           /\ p # "gate"    => UNCHANGED vars
           /\ p # "lease"   => UNCHANGED leaseVars
           /\ p # "buffer"  => UNCHANGED bufferVars
           /\ p # "browser" => UNCHANGED browserVars

ServiceNext == \/ Rest("gate")    /\ Next
               \/ Rest("lease")   /\ LeaseNext
               \/ Rest("buffer")  /\ BufferNext
               \/ Rest("browser") /\ BrowserNext

\* Fairness is the lease's: the other parts have safety properties only.
ServiceSpec == /\ ServiceInit /\ [][ServiceNext]_parts
               /\ WF_parts(Rest("lease") /\ LeaseTick)

-------------------------------------------------------------------------------
\* The types of the four parts, and the two facts their other properties rest on:
\* a granted key lives for its TTL (gate.py:48), and a failed pop_batch costs a
\* batch at most (queue.py:67-76).
ServiceInv == /\ TypeOK /\ GrantIsHeld
              /\ LeaseTypeOK
              /\ BufferTypeOK /\ LossBound
              /\ BrowserTypeOK
===============================================================================

-------------------------- MODULE StepPipelineProofs --------------------------
(***************************************************************************)
(* For any surveys, any finite number of workers and processes, any size   *)
(* of the buffer and any number of gate failures: the step pipeline keeps  *)
(* its types and the bound of its buffer, announces no survey with more    *)
(* messages than its gates' failures allow, none of them more often than   *)
(* there are attempts, and lets no context end silently.                   *)
(***************************************************************************)
EXTENDS StepPipeline, FiniteSetTheorems, TLAPS

-------------------------------------------------------------------------------
(* Counting: sets that a step changes in one element, or in a subset.      *)

\* Two sets that differ in w at most have sizes that differ by w's membership.
LEMMA CountChange ==
  ASSUME NEW S, NEW T, NEW w, IsFiniteSet(S), S \ {w} = T \ {w}
  PROVE  /\ IsFiniteSet(T) /\ Cardinality(S) \in Nat /\ Cardinality(T) \in Nat
         /\ Cardinality(T) + (IF w \in S THEN 1 ELSE 0)
              = Cardinality(S) + (IF w \in T THEN 1 ELSE 0)
<1> DEFINE R == S \ {w}
<1>1. IsFiniteSet(R) /\ Cardinality(R) = IF w \in S THEN Cardinality(S) - 1 ELSE Cardinality(S)
      BY FS_RemoveElement
<1>2. Cardinality(S) \in Nat /\ Cardinality(R) \in Nat
      BY <1>1, FS_CardinalityType
<1>3. CASE w \in T
  <2>1. T = R \cup {w} /\ w \notin R
        BY <1>3
  <2>2. IsFiniteSet(T) /\ Cardinality(T) = Cardinality(R) + 1
        BY <1>1, <2>1, FS_AddElement
  <2> QED BY <1>1, <1>2, <1>3, <2>2
<1>4. CASE w \notin T
  <2>1. T = R
        BY <1>4
  <2> QED BY <1>1, <1>2, <1>4, <2>1
<1> QED BY <1>3, <1>4

\* The workers in any one place are finitely many, and so are the keys.
LEMMA Finite ==
  /\ IsFiniteSet(Pushing)
  /\ \A s : IsFiniteSet(Waiting(s))
  /\ TypeOK => \A s : IsFiniteSet(Keys(s))
<1>1. \A S : S \subseteq Workers => IsFiniteSet(S)
      BY StepsAssumption, FS_Subset
<1>2. \A S : IsFiniteSet(messages) /\ S \subseteq messages => IsFiniteSet(S)
      BY FS_Subset
<1> QED BY <1>1, <1>2 DEF Pushing, Waiting, Keys, TypeOK

-------------------------------------------------------------------------------
(* Type correctness.                                                       *)

\* What an attempt comes to: the end of the dispatch, known to be delivered or an
\* error, or another attempt.
LEMMA PostOutcomes ==
  ASSUME TypeOK, NEW w \in Workers, Post(w)
  PROVE  /\ context' \in [Workers -> Context]
         /\ \A v \in Workers \ {w} : context'[v] = context[v]
         /\ notified' = notified \/ notified' = [notified EXCEPT ![Sends(w)] = @ + 1]
         /\ \/ /\ context'[w].stage = "dlq"
               /\ context'[w].delivered \/ "dispatch" \in context'[w].errors
            \/ /\ context[w].attempt + 1 \in 0..(MaxAttempts - 1)
               /\ context'[w].stage = "sending"
               /\ context' = [context EXCEPT ![w].attempt = @ + 1]
<1>0. context \in [Workers -> Context] /\ context[w] \in Context
      BY DEF TypeOK
<1>1. /\ context[w].attempt \in 0..(MaxAttempts - 1) /\ 0 \in 0..(MaxAttempts - 1)
      /\ MaxAttempts \in Nat
      BY <1>0, StepsAssumption DEF Context
<1>2. \/ context' = [context EXCEPT ![w] = [Over(w) EXCEPT !.delivered = TRUE]]
      \/ context' = [context EXCEPT ![w] = [Over(w) EXCEPT !.errors = @ \cup {"dispatch"}]]
      \/ /\ context[w].attempt + 1 < MaxAttempts
         /\ context' = [context EXCEPT ![w].attempt = @ + 1]
      BY DEF Post, MayRetry
<1>3. notified' = notified \/ notified' = [notified EXCEPT ![Sends(w)] = @ + 1]
      BY DEF Post
<1>4. Over(w) \in Context /\ Over(w).stage = "dlq"
      BY <1>0, <1>1 DEF Over, Context, Stages
<1>5. CASE context' = [context EXCEPT ![w] = [Over(w) EXCEPT !.delivered = TRUE]]
  <2>1. PICK y \in Context : y = [Over(w) EXCEPT !.delivered = TRUE]
        BY <1>4 DEF Context
  <2>2. y.stage = "dlq" /\ y.delivered
        BY <1>4, <2>1 DEF Context
  <2>3. context' = [context EXCEPT ![w] = y]
        BY <1>5, <2>1
  <2> QED BY <1>0, <1>3, <2>2, <2>3
<1>6. CASE context' = [context EXCEPT ![w] = [Over(w) EXCEPT !.errors = @ \cup {"dispatch"}]]
  <2>1. PICK y \in Context : y = [Over(w) EXCEPT !.errors = @ \cup {"dispatch"}]
        BY <1>4 DEF Context, Errors
  <2>2. y.stage = "dlq" /\ "dispatch" \in y.errors
        BY <1>4, <2>1 DEF Context
  <2>3. context' = [context EXCEPT ![w] = y]
        BY <1>6, <2>1
  <2> QED BY <1>0, <1>3, <2>2, <2>3
<1>7. CASE /\ context[w].attempt + 1 < MaxAttempts
           /\ context' = [context EXCEPT ![w].attempt = @ + 1]
  <2>1. context[w].attempt + 1 \in 0..(MaxAttempts - 1)
        BY <1>1, <1>7
  <2>2. context[w].stage = "sending"
        BY DEF Post, At
  <2> QED BY <1>0, <1>3, <1>7, <2>1, <2>2 DEF Context
<1> QED BY <1>2, <1>5, <1>6, <1>7

\* A new context is of its type.
LEMMA NewContextType == NewContext \in Context
<1>1. 0 \in 0..(MaxAttempts - 1)
      BY StepsAssumption
<1> QED BY <1>1 DEF NewContext, Context, Stages, Errors

\* A step works on one context and leaves the others as they are.
LEMMA OneContext ==
  ASSUME TypeOK, NEW w \in Workers, Execute(w) \/ Again(w)
  PROVE  /\ context' \in [Workers -> Context]
         /\ \A v \in Workers \ {w} : context'[v] = context[v]
<1> USE DEF TypeOK, Context, GoTo, AddError, Stages, Errors
<1>1. CASE FetchStep(w)
      BY <1>1 DEF FetchStep
<1>2. CASE NormalizeStep(w)
      BY <1>2 DEF NormalizeStep
<1>3. CASE FilterStep(w)
      BY <1>3 DEF FilterStep
<1>4. CASE IdempotencyStep(w)
      BY <1>4 DEF IdempotencyStep, Skip
<1>5. CASE BufferStep(w)
      BY <1>5 DEF BufferStep
<1>6. CASE Push(w)
      BY <1>6 DEF Push
<1>7. CASE DispatchStep(w)
      BY <1>7 DEF DispatchStep, NotDelivered
<1>8. CASE Post(w)
      BY <1>8, PostOutcomes
<1>9. CASE DLQStep(w)
      BY <1>9 DEF DLQStep
<1>10. CASE Again(w)
      BY <1>10, NewContextType DEF Again
<1> QED BY <1>1, <1>2, <1>3, <1>4, <1>5, <1>6, <1>7, <1>8, <1>9, <1>10 DEF Execute

\* Every step keeps the variables in their types.
LEMMA TypeStep == TypeOK /\ [Next]_vars => TypeOK'
<1> SUFFICES ASSUME TypeOK, [Next]_vars PROVE TypeOK'
    OBVIOUS
<1>1. ASSUME NEW w \in Workers, Execute(w) \/ Again(w) PROVE TypeOK'
  <2>0. context[w].survey \in Surveys \cup {None} /\ None \notin {}
        BY DEF TypeOK, Context
  <2>1. context' \in [Workers -> Context]
        BY <1>1, OneContext
  <2>2. CASE FetchStep(w) \/ NormalizeStep(w) \/ FilterStep(w) \/ BufferStep(w)
             \/ DLQStep(w) \/ Again(w)
        BY <2>1, <2>2 DEF TypeOK, FetchStep, NormalizeStep, FilterStep, BufferStep, DLQStep, Again
  <2>3. CASE Push(w)
        BY <2>1, <2>3 DEF TypeOK, Push
  <2>4. CASE IdempotencyStep(w)
        BY <2>1, <2>4, StepsAssumption DEF TypeOK, IdempotencyStep, Eligible, Context
  <2>5. CASE DispatchStep(w)
    <3>1. \/ messages' = messages
          \/ \E text \in Texts : Eligible(w) /\ messages' = messages \cup {MessageOf(w, text)}
          BY <2>5 DEF DispatchStep
    <3>2. \A text \in Texts : Eligible(w) => MessageOf(w, text) \in Message
          BY <2>0, StepsAssumption DEF Eligible, MessageOf, Message
    <3>3. \A m : IsFiniteSet(messages) => IsFiniteSet(messages \cup {m})
          BY FS_AddElement
    <3>4. messages' \in SUBSET Message /\ IsFiniteSet(messages')
          BY <3>1, <3>2, <3>3 DEF TypeOK
    <3> QED BY <2>1, <2>5, <3>4 DEF TypeOK, DispatchStep
  <2>6. CASE Post(w)
    <3>1. notified' \in [Message -> Nat]
          BY <2>6, PostOutcomes DEF TypeOK
    <3> QED BY <2>1, <2>6, <3>1 DEF TypeOK, Post
  <2> QED BY <1>1, <2>2, <2>3, <2>4, <2>5, <2>6 DEF Execute
<1>2. CASE Pop
      BY <1>2 DEF Pop, MayPop, TypeOK
<1>3. CASE UNCHANGED vars
      BY <1>3 DEF vars, TypeOK
<1> QED BY <1>1, <1>2, <1>3 DEF Next

-------------------------------------------------------------------------------
(* What a step does to the places the contexts are in.                     *)

\* A step of w moves w alone into a place or out of it.
LEMMA Recount ==
  ASSUME TypeOK, NEW w \in Workers, Execute(w) \/ Again(w)
  PROVE  /\ Pushing' \ {w} = Pushing \ {w}
         /\ \A s : Waiting(s)' \ {w} = Waiting(s) \ {w}
BY OneContext DEF Pushing, Waiting, At, Eligible

\* No place grows but by w.
LEMMA Growth ==
  ASSUME TypeOK, NEW w \in Workers, Execute(w) \/ Again(w), NEW s
  PROVE  /\ Cardinality(Pushing)' + (IF w \in Pushing THEN 1 ELSE 0)
              = Cardinality(Pushing) + (IF w \in Pushing' THEN 1 ELSE 0)
         /\ Cardinality(Waiting(s))' + (IF w \in Waiting(s) THEN 1 ELSE 0)
              = Cardinality(Waiting(s)) + (IF w \in Waiting(s)' THEN 1 ELSE 0)
<1>1. Pushing \ {w} = Pushing' \ {w} /\ Waiting(s) \ {w} = Waiting(s)' \ {w}
      BY Recount
<1>2. /\ Cardinality(Pushing)' = Cardinality(Pushing')
      /\ Cardinality(Waiting(s))' = Cardinality(Waiting(s)')
      OBVIOUS
<1>3. IsFiniteSet(Pushing) /\ IsFiniteSet(Waiting(s))
      BY Finite
<1> QED BY <1>1, <1>2, <1>3, CountChange

\* The counts of workers are numbers, before a step and after it.
LEMMA CountTypes ==
  /\ Cardinality(Workers) \in Nat
  /\ Cardinality(Pushing) \in Nat /\ Cardinality(Pushing)' \in Nat
  /\ Cardinality(Pushing)' <= Cardinality(Workers)
  /\ \A s : Cardinality(Waiting(s)) \in Nat /\ Cardinality(Waiting(s))' \in Nat
<1>1. \A S : S \subseteq Workers => Cardinality(S) \in Nat
      BY StepsAssumption, FS_CardinalityType, FS_Subset
<1>2. \A S : S \subseteq Workers => Cardinality(S) <= Cardinality(Workers)
      BY StepsAssumption, FS_Subset
<1>3. /\ Pushing \subseteq Workers /\ Pushing' \subseteq Workers
      /\ \A s : Waiting(s) \subseteq Workers /\ Waiting(s)' \subseteq Workers
      BY DEF Pushing, Waiting
<1> QED BY <1>1, <1>2, <1>3

\* So are those of the keys.
LEMMA KeyCount == TypeOK => \A s : Cardinality(Keys(s)) \in Nat
BY Finite, FS_CardinalityType

-------------------------------------------------------------------------------
(* The invariant, part by part.                                            *)

\* push overshoots only after a look at a length below max_size.
LEMMA BufferStepBound ==
  ASSUME Inv, NEW w \in Workers, Execute(w) \/ Again(w) PROVE BufferBound'
<1>0. TypeOK /\ buffer \in Nat /\ MaxSize \in Nat
      BY StepsAssumption DEF Inv, TypeOK
<1>1. buffer + Cardinality(Pushing) <= MaxSize + Cardinality(Workers) - 1
      BY DEF Inv, BufferBound
<1>c. /\ Cardinality(Workers) \in Nat /\ Cardinality(Pushing) \in Nat
      /\ Cardinality(Pushing)' \in Nat /\ Cardinality(Pushing)' <= Cardinality(Workers)
      BY CountTypes
<1>g. Cardinality(Pushing)' + (IF w \in Pushing THEN 1 ELSE 0)
         = Cardinality(Pushing) + (IF w \in Pushing' THEN 1 ELSE 0)
      BY <1>0, Growth
<1>2. CASE w \notin Pushing' /\ buffer' = buffer
      BY <1>0, <1>1, <1>2, <1>c, <1>g DEF BufferBound
<1>3. CASE Push(w)
  <2>1. w \in Pushing /\ w \notin Pushing' /\ buffer' \in {buffer, buffer + 1}
        BY <1>0, <1>3 DEF Push, Pushing, At, GoTo, AddError, TypeOK, Context
  <2> QED BY <1>0, <1>1, <2>1, <1>c, <1>g DEF BufferBound
<1>4. CASE BufferStep(w) /\ w \in Pushing'
  <2>1. w \notin Pushing /\ buffer < MaxSize /\ buffer' = buffer
    <3>1. ~ (GoTo(w, "dispatch") \/ AddError(w, "buffer", "dispatch"))
          BY <1>0, <1>4 DEF Pushing, At, GoTo, AddError, TypeOK, Context
    <3> QED BY <1>4, <3>1 DEF BufferStep, HasRoom, Pushing, At
  <2> QED BY <1>0, <1>1, <2>1, <1>c, <1>g DEF BufferBound
<1>5. CASE Again(w) \/ FetchStep(w) \/ NormalizeStep(w) \/ FilterStep(w) \/ IdempotencyStep(w)
           \/ DispatchStep(w) \/ Post(w) \/ DLQStep(w)
  <2>1. buffer' = buffer
        BY <1>5 DEF FetchStep, NormalizeStep, FilterStep, IdempotencyStep, DispatchStep, Post,
                    DLQStep, Again
  <2>2. context'[w].stage # "push"
    <3>1. CASE Post(w)
          BY <1>0, <3>1, PostOutcomes
    <3>2. CASE ~Post(w)
          BY <1>0, <1>5, <3>2 DEF FetchStep, NormalizeStep, FilterStep, IdempotencyStep, Skip,
                    DispatchStep, NotDelivered, DLQStep, Again, NewContext, GoTo,
                    AddError, TypeOK, Context
    <3> QED BY <3>1, <3>2
  <2> QED BY <1>2, <2>1, <2>2 DEF Pushing, At
<1>6. CASE BufferStep(w) /\ w \notin Pushing'
      BY <1>2, <1>6 DEF BufferStep
<1> QED BY <1>3, <1>4, <1>5, <1>6 DEF Execute

\* A context keeps what its stage says of it.
LEMMA StagesStep ==
  ASSUME Inv, NEW w \in Workers, Execute(w) \/ Again(w) PROVE StagesAreKept'
<1>0. TypeOK /\ StagesAreKept
      BY DEF Inv
<1> DEFINE x == context[w]
           y == context'[w]
           Kept == /\ y.status = "ELIGIBLE" =>
                        /\ y.stage \notin {"fetch", "normalize", "filter"}
                        /\ y.stage = "idempotency" => y.survey # None
                        /\ y.stage \in {"buffer", "dispatch"} => y.survey # None \/ y.duplicate
                        /\ y.stage \in {"dlq", "done"} =>
                             y.duplicate \/ y.delivered \/ y.errors # {}
                   /\ y.stage \in {"push", "sending"} => y.survey # None /\ y.status = "ELIGIBLE"
<1>1. /\ x \in Context
      /\ x.status = "ELIGIBLE" =>
           /\ x.stage \notin {"fetch", "normalize", "filter"}
           /\ x.stage = "idempotency" => x.survey # None
           /\ x.stage \in {"buffer", "dispatch"} => x.survey # None \/ x.duplicate
           /\ x.stage \in {"dlq", "done"} => x.duplicate \/ x.delivered \/ x.errors # {}
      /\ x.stage \in {"push", "sending"} => x.survey # None /\ x.status = "ELIGIBLE"
      BY <1>0 DEF StagesAreKept, TypeOK, Eligible
<1>2. Kept
  <2> USE <1>0, <1>1 DEF TypeOK, Context, At, GoTo, AddError, Eligible
  <2>1. CASE FetchStep(w)
        BY <2>1 DEF FetchStep
  <2>2. CASE NormalizeStep(w)
        BY <2>2 DEF NormalizeStep
  <2>3. CASE FilterStep(w)
        BY <2>3 DEF FilterStep
  <2>4. CASE IdempotencyStep(w)
        BY <2>4 DEF IdempotencyStep, Skip
  <2>5. CASE BufferStep(w)
        BY <2>5 DEF BufferStep
  <2>6. CASE Push(w)
        BY <2>6 DEF Push
  <2>7. CASE DispatchStep(w)
    <3>1. \/ ~Eligible(w) /\ GoTo(w, "dlq")
          \/ /\ Eligible(w)
             /\ y.stage = "sending" /\ y.survey = x.survey /\ y.status = x.status
          \/ AddError(w, "dispatch", "dlq")
      <4>1. \/ ~Eligible(w) /\ GoTo(w, "dlq")
            \/ \E text \in Texts :
                 /\ Eligible(w)
                 /\ context' = [context EXCEPT ![w].stage = "sending", ![w].text = text]
            \/ AddError(w, "dispatch", "dlq")
            BY <2>7 DEF DispatchStep, NotDelivered
      <4> QED BY <4>1
    <3>2. CASE AddError(w, "dispatch", "dlq")
      <4>1. y.stage = "dlq" /\ "dispatch" \in y.errors
            BY <3>2
      <4> QED BY <4>1
    <3>3. CASE ~Eligible(w) /\ GoTo(w, "dlq")
          BY <2>7, <3>3 DEF DispatchStep
    <3>4. CASE /\ Eligible(w)
               /\ y.stage = "sending" /\ y.survey = x.survey /\ y.status = x.status
          BY <3>4
    <3> QED BY <3>1, <3>2, <3>3, <3>4
  <2>8. CASE Post(w)
    <3>1. \/ y.stage = "dlq" /\ (y.delivered \/ "dispatch" \in y.errors)
          \/ y = [x EXCEPT !.attempt = @ + 1]
          BY <2>8, PostOutcomes
    <3>2. x.stage = "sending"
          BY <2>8 DEF Post
    <3> QED BY <3>1, <3>2
  <2>9. CASE DLQStep(w)
        BY <2>9 DEF DLQStep
  <2>10. CASE Again(w)
        BY <2>10 DEF Again, NewContext, None
  <2> QED BY <2>1, <2>2, <2>3, <2>4, <2>5, <2>6, <2>7, <2>8, <2>9, <2>10 DEF Execute
<1>3. \A v \in Workers \ {w} : context'[v] = context[v]
      BY <1>0, OneContext
<1> QED BY <1>0, <1>2, <1>3 DEF StagesAreKept, Eligible

\* A step that lets nobody else wait with a survey, and makes no key, keeps its account.
LEMMA QuietAccounts ==
  ASSUME Inv, TypeOK', NEW w \in Workers, Execute(w) \/ Again(w), NEW s \in Surveys,
         w \in Waiting(s)' => w \in Waiting(s),
         Keys(s)' = Keys(s), faults'[s] >= faults[s], claimed \subseteq claimed'
  PROVE  Cardinality(Keys(s))' + Cardinality(Waiting(s))'
           <= faults'[s] + (IF s \in claimed' THEN 1 ELSE 0)
<1>1. /\ faults[s] \in Nat /\ faults'[s] \in Nat /\ TypeOK
      /\ Cardinality(Keys(s)) + Cardinality(Waiting(s))
           <= faults[s] + (IF s \in claimed THEN 1 ELSE 0)
      BY DEF Inv, TypeOK, KeysAreCounted
<1>2. Cardinality(Waiting(s))' <= Cardinality(Waiting(s))
      BY <1>1, Growth, CountTypes
<1>3. Cardinality(Keys(s))' = Cardinality(Keys(s)) /\ Cardinality(Keys(s)) \in Nat
      BY <1>1, KeyCount
<1> QED BY <1>1, <1>2, <1>3, CountTypes

\* When a context waits with a survey.
LEMMA InWaiting ==
  ASSUME NEW w \in Workers, NEW s
  PROVE  /\ w \in Waiting(s) <=> /\ context[w].stage \in {"buffer", "push", "dispatch"}
                                 /\ Eligible(w) /\ context[w].survey = s
         /\ w \in Waiting(s)' <=>
              /\ context'[w].stage \in {"buffer", "push", "dispatch"}
              /\ context'[w].survey # None /\ context'[w].status = "ELIGIBLE"
              /\ context'[w].survey = s
BY DEF Waiting, At, Eligible

\* The gate: a context goes on with the claim, or at the cost of a fault.
LEMMA GateAccounts ==
  ASSUME Inv, TypeOK', NEW w \in Workers, IdempotencyStep(w) PROVE KeysAreCounted'
<1> DEFINE s == context[w].survey
<1>0. /\ TypeOK /\ Execute(w) /\ context[w] \in Context
      /\ claimed \subseteq claimed' /\ messages' = messages
      BY DEF Inv, TypeOK, Execute, IdempotencyStep
<1>1. /\ context[w].stage = "idempotency" /\ context'[w].stage = "buffer"
      /\ context'[w].survey \in {None, s} /\ context'[w].status = context[w].status
      BY <1>0 DEF TypeOK, Context, IdempotencyStep, At, GoTo, Skip
<1>2. /\ \A t \in Surveys : w \notin Waiting(t)
      /\ \A t \in Surveys : w \in Waiting(t)' => t = s
      BY <1>1, InWaiting
<1>3. \A t \in Surveys : faults'[t] >= faults[t]
      BY <1>0 DEF IdempotencyStep, TypeOK
<1>k. \A t \in Surveys : Keys(t)' = Keys(t)
      BY <1>0 DEF Keys
<1>4. ASSUME NEW t \in Surveys, w \notin Waiting(t)'
      PROVE  Cardinality(Keys(t))' + Cardinality(Waiting(t))'
               <= faults'[t] + (IF t \in claimed' THEN 1 ELSE 0)
      BY <1>0, <1>2, <1>3, <1>k, <1>4, QuietAccounts
<1>5. ASSUME NEW t \in Surveys, t = s, w \in Waiting(t)'
      PROVE  Cardinality(Keys(t))' + Cardinality(Waiting(t))'
               <= faults'[t] + (IF t \in claimed' THEN 1 ELSE 0)
  <2>1. Eligible(w) /\ context'[w].survey # None
        BY <1>1, <1>5, InWaiting DEF Eligible
  <2>2. \/ t \notin claimed /\ t \in claimed' /\ faults' = faults
        \/ faults'[t] = faults[t] + 1
    <3>1. ~Skip(w)
          BY <1>0, <2>1 DEF Skip, TypeOK, Context
    <3> QED BY <1>0, <1>5, <2>1, <3>1 DEF IdempotencyStep, TypeOK
  <2>3. Cardinality(Waiting(t))' = Cardinality(Waiting(t)) + 1
        BY <1>0, <1>2, <1>5, Growth, CountTypes
  <2>4. /\ Cardinality(Keys(t)) + Cardinality(Waiting(t))
             <= faults[t] + (IF t \in claimed THEN 1 ELSE 0)
        /\ faults[t] \in Nat
        BY <1>5 DEF Inv, KeysAreCounted, TypeOK
  <2>5. Cardinality(Keys(t))' = Cardinality(Keys(t)) /\ Cardinality(Keys(t)) \in Nat
        BY <1>0, <1>k, KeyCount
  <2> QED BY <1>0, <2>2, <2>3, <2>4, <2>5, CountTypes
<1> QED BY <1>2, <1>4, <1>5 DEF KeysAreCounted

\* The dispatcher's gate: a context that leaves a place may leave one key more.
LEMMA DispatchAccounts ==
  ASSUME Inv, TypeOK', NEW w \in Workers, DispatchStep(w) PROVE KeysAreCounted'
<1> DEFINE s == context[w].survey
<1>0. /\ TypeOK /\ Execute(w) /\ context[w] \in Context
      /\ claimed' = claimed /\ faults' = faults
      BY DEF Inv, TypeOK, Execute, DispatchStep
<1>1. /\ context[w].stage = "dispatch" /\ context'[w].stage \in {"dlq", "sending"}
      BY <1>0 DEF TypeOK, Context, DispatchStep, NotDelivered, At, GoTo, AddError
<1>2. \A t \in Surveys : w \notin Waiting(t)'
      BY <1>1, InWaiting
<1>3. \A t \in Surveys : faults'[t] >= faults[t]
      BY <1>0 DEF TypeOK
<1>4. \/ messages' = messages
      \/ \E text \in Texts : Eligible(w) /\ messages' = messages \cup {MessageOf(w, text)}
      BY DEF DispatchStep
<1>5. ASSUME NEW t \in Surveys, Keys(t)' = Keys(t)
      PROVE  Cardinality(Keys(t))' + Cardinality(Waiting(t))'
               <= faults'[t] + (IF t \in claimed' THEN 1 ELSE 0)
      BY <1>0, <1>2, <1>3, <1>5, QuietAccounts
<1>6. ASSUME NEW t \in Surveys, NEW text \in Texts, Eligible(w), t = s,
             messages' = messages \cup {MessageOf(w, text)}
      PROVE  Cardinality(Keys(t))' + Cardinality(Waiting(t))'
               <= faults'[t] + (IF t \in claimed' THEN 1 ELSE 0)
  <2>1. Keys(t)' = Keys(t) \cup {MessageOf(w, text)}
        BY <1>6 DEF Keys, MessageOf
  <2>2. /\ Cardinality(Keys(t))' <= Cardinality(Keys(t)) + 1
        /\ Cardinality(Keys(t)) \in Nat /\ Cardinality(Keys(t))' \in Nat
    <3>1. IsFiniteSet(Keys(t)) /\ Cardinality(Keys(t)) \in Nat
          BY <1>0, Finite, KeyCount
    <3>2. \/ Cardinality(Keys(t) \cup {MessageOf(w, text)}) = Cardinality(Keys(t)) + 1
          \/ Cardinality(Keys(t) \cup {MessageOf(w, text)}) = Cardinality(Keys(t))
          BY <3>1, FS_AddElement
    <3>3. Cardinality(Keys(t))' = Cardinality(Keys(t) \cup {MessageOf(w, text)})
          BY <2>1
    <3> QED BY <3>1, <3>2, <3>3
  <2>3. Cardinality(Waiting(t))' + 1 = Cardinality(Waiting(t))
    <3>1. w \in Waiting(t)
          BY <1>1, <1>6, InWaiting
    <3> QED BY <1>0, <1>2, <3>1, Growth, CountTypes
  <2>4. /\ Cardinality(Keys(t)) + Cardinality(Waiting(t))
             <= faults[t] + (IF t \in claimed THEN 1 ELSE 0)
        /\ faults[t] \in Nat
        BY <1>6 DEF Inv, KeysAreCounted, TypeOK
  <2> QED BY <1>0, <2>2, <2>3, <2>4, CountTypes
<1>7. ASSUME NEW t \in Surveys PROVE \/ Keys(t)' = Keys(t)
                                     \/ /\ t = s /\ Eligible(w)
                                        /\ \E text \in Texts :
                                             messages' = messages \cup {MessageOf(w, text)}
      BY <1>4 DEF Keys, MessageOf
<1> QED BY <1>5, <1>6, <1>7 DEF KeysAreCounted

\* Every step of a worker keeps the accounts.
LEMMA AccountsStep ==
  ASSUME Inv, TypeOK', NEW w \in Workers, Execute(w) \/ Again(w) PROVE KeysAreCounted'
<1>0. TypeOK /\ StagesAreKept
      BY DEF Inv
<1>1. ASSUME \A t \in Surveys : w \in Waiting(t)' => w \in Waiting(t),
             UNCHANGED <<claimed, messages, faults>>
      PROVE  KeysAreCounted'
  <2>1. \A t \in Surveys : faults'[t] >= faults[t] /\ Keys(t)' = Keys(t)
        BY <1>0, <1>1 DEF TypeOK, Keys
  <2> QED BY <1>1, <2>1, QuietAccounts DEF KeysAreCounted
<1>2. CASE FetchStep(w) \/ NormalizeStep(w) \/ FilterStep(w) \/ Post(w) \/ DLQStep(w) \/ Again(w)
  <2>1. context'[w].stage \notin {"buffer", "push", "dispatch"}
    <3>1. CASE Post(w)
          BY <1>0, <3>1, PostOutcomes
    <3>2. CASE ~Post(w)
          BY <1>0, <1>2, <3>2 DEF FetchStep, NormalizeStep, FilterStep, DLQStep, Again,
                          NewContext, At, GoTo, AddError, TypeOK, Context
    <3> QED BY <3>1, <3>2
  <2>2. \A t \in Surveys : w \notin Waiting(t)'
        BY <2>1, InWaiting
  <2>3. UNCHANGED <<claimed, messages, faults>>
        BY <1>2 DEF FetchStep, NormalizeStep, FilterStep, Post, DLQStep, Again
  <2> QED BY <1>1, <2>2, <2>3
<1>3. CASE BufferStep(w) \/ Push(w)
  <2>1. /\ context[w].stage \in {"buffer", "push"} /\ context'[w].stage \in {"push", "dispatch"}
        /\ context'[w].survey = context[w].survey /\ context'[w].status = context[w].status
        BY <1>0, <1>3 DEF BufferStep, Push, At, GoTo, AddError, TypeOK, Context
  <2>2. \A t \in Surveys : w \in Waiting(t)' => w \in Waiting(t)
        BY <2>1, InWaiting DEF Eligible
  <2>3. UNCHANGED <<claimed, messages, faults>>
        BY <1>3 DEF BufferStep, Push
  <2> QED BY <1>1, <2>2, <2>3
<1> QED BY <1>2, <1>3, GateAccounts, DispatchAccounts DEF Execute

\* A worker that sends nothing, before a step and after it, leaves the posts alone.
LEMMA QuietPosts ==
  ASSUME Inv, TypeOK', NEW w \in Workers, Execute(w) \/ Again(w),
         ~At(w, "sending")', messages \subseteq messages', notified' = notified
  PROVE  PostsAreCounted'
<1>1. TypeOK /\ PostsAreCounted
      BY DEF Inv
<1>2. \A v \in Workers \ {w} : context'[v] = context[v]
      BY <1>1, OneContext
<1>3. \A v \in Workers : At(v, "sending")' => /\ At(v, "sending") /\ Sends(v)' = Sends(v)
                                             /\ context'[v] = context[v] /\ v # w
      BY <1>2 DEF At, Sends, MessageOf
<1>4. \A m \in Message : notified'[m] <= MaxAttempts /\ (m \notin messages' => notified'[m] = 0)
      BY <1>1 DEF PostsAreCounted
<1>5. ASSUME NEW u \in Workers, At(u, "sending")'
      PROVE  /\ Sends(u)' \in messages' /\ notified'[Sends(u)'] <= context'[u].attempt
             /\ \A v \in Workers \ {u} : At(v, "sending")' => Sends(v)' # Sends(u)'
      BY <1>1, <1>3, <1>5 DEF PostsAreCounted
<1> QED BY <1>4, <1>5 DEF PostsAreCounted

\* A context that begins to send has a message nobody had.
LEMMA DispatchPosts ==
  ASSUME Inv, TypeOK', NEW w \in Workers, DispatchStep(w), At(w, "sending")'
  PROVE  PostsAreCounted'
<1>1. TypeOK /\ PostsAreCounted /\ Execute(w) /\ notified' = notified
      BY DEF Inv, Execute, DispatchStep
<1>2. \A v \in Workers \ {w} : context'[v] = context[v]
      BY <1>1, OneContext
<1>3. PICK text \in Texts :
        /\ MessageOf(w, text) \notin messages /\ messages' = messages \cup {MessageOf(w, text)}
        /\ context' = [context EXCEPT ![w].stage = "sending", ![w].text = text]
  <2>1. ~GoTo(w, "dlq") /\ ~AddError(w, "dispatch", "dlq")
        BY <1>1 DEF GoTo, AddError, TypeOK, Context, At
  <2> QED BY <2>1 DEF DispatchStep, NotDelivered
<1>4. /\ context[w] \in Context /\ context'[w] = [context[w] EXCEPT !.stage = "sending", !.text = text]
      BY <1>1, <1>3 DEF TypeOK
<1>5. Sends(w)' = MessageOf(w, text) /\ context'[w].attempt \in Nat
      BY <1>4, StepsAssumption DEF Sends, MessageOf, Context
<1>6. \A v \in Workers \ {w} : At(v, "sending")' => /\ At(v, "sending") /\ Sends(v)' = Sends(v)
                                                   /\ context'[v] = context[v]
      BY <1>2 DEF At, Sends, MessageOf
<1>7. MessageOf(w, text) \in Message
      BY <1>3 DEF TypeOK
<1>8. \A m \in Message : notified'[m] <= MaxAttempts /\ (m \notin messages' => notified'[m] = 0)
      BY <1>1, <1>3 DEF PostsAreCounted
<1>9. notified'[Sends(w)'] = 0 /\ Sends(w)' \in messages'
      BY <1>1, <1>3, <1>5, <1>7 DEF PostsAreCounted
<1>10. \A v \in Workers \ {w} : At(v, "sending")' =>
         /\ Sends(v)' \in messages /\ notified'[Sends(v)'] <= context'[v].attempt
         /\ \A u \in Workers \ {v, w} : At(u, "sending")' => Sends(u)' # Sends(v)'
      BY <1>1, <1>6 DEF PostsAreCounted
<1>11. ASSUME NEW u \in Workers, At(u, "sending")'
       PROVE  /\ Sends(u)' \in messages' /\ notified'[Sends(u)'] <= context'[u].attempt
              /\ \A v \in Workers \ {u} : At(v, "sending")' => Sends(v)' # Sends(u)'
  <2>1. CASE u = w
        BY <1>3, <1>5, <1>9, <1>10, <2>1
  <2>2. CASE u # w
        BY <1>3, <1>5, <1>10, <1>11, <2>2
  <2> QED BY <2>1, <2>2
<1> QED BY <1>8, <1>11 DEF PostsAreCounted

\* An attempt counts its post, and nobody else has that message.
LEMMA PostPosts ==
  ASSUME Inv, TypeOK', NEW w \in Workers, Post(w) PROVE PostsAreCounted'
<1> DEFINE m == Sends(w)
<1>1. TypeOK /\ PostsAreCounted /\ Execute(w) /\ At(w, "sending") /\ messages' = messages
      BY DEF Inv, Execute, Post
<1>2. \A v \in Workers \ {w} : context'[v] = context[v]
      BY <1>1, OneContext
<1>3. /\ m \in messages /\ m \in Message /\ notified[m] \in Nat
      /\ notified[m] <= context[w].attempt
      /\ \A v \in Workers \ {w} : At(v, "sending") => Sends(v) # m
      BY <1>1 DEF PostsAreCounted, TypeOK
<1>4. context[w] \in Context /\ context[w].attempt \in 0..(MaxAttempts - 1) /\ MaxAttempts \in Nat
      BY <1>1, StepsAssumption DEF TypeOK, Context
<1>5. /\ notified'[m] \in Nat /\ notified'[m] <= notified[m] + 1
      /\ \A k \in Message \ {m} : notified'[k] = notified[k]
  <2>1. notified' = notified \/ notified' = [notified EXCEPT ![m] = @ + 1]
        BY <1>1, PostOutcomes
  <2> QED BY <1>1, <1>3, <2>1 DEF TypeOK
<1>6. At(w, "sending")' => /\ Sends(w)' = m
                           /\ context'[w].attempt = context[w].attempt + 1
  <2>1. \/ context'[w].stage = "dlq"
        \/ context' = [context EXCEPT ![w].attempt = @ + 1]
        BY <1>1, PostOutcomes
  <2> QED BY <1>1, <1>4, <2>1 DEF At, Sends, MessageOf, TypeOK, Context
<1>7. \A v \in Workers \ {w} : At(v, "sending")' => /\ At(v, "sending") /\ Sends(v)' = Sends(v)
                                                   /\ context'[v] = context[v]
      BY <1>2 DEF At, Sends, MessageOf
<1>8. \A k \in Message : notified'[k] <= MaxAttempts /\ (k \notin messages' => notified'[k] = 0)
  <2>1. notified'[m] <= MaxAttempts
        BY <1>3, <1>4, <1>5
  <2> QED BY <1>1, <1>3, <1>5, <2>1 DEF PostsAreCounted
<1>9. \A v \in Workers \ {w} : At(v, "sending")' =>
        /\ Sends(v)' \in messages' /\ Sends(v)' # m
        /\ notified'[Sends(v)'] <= context'[v].attempt
        /\ \A u \in Workers \ {v, w} : At(u, "sending")' => Sends(u)' # Sends(v)'
  <2>1. \A v \in Workers \ {w} : At(v, "sending") => /\ Sends(v) \in messages
                                                    /\ Sends(v) \in Message \ {m}
                                                    /\ notified[Sends(v)] <= context[v].attempt
        BY <1>1, <1>3 DEF PostsAreCounted, TypeOK
  <2> QED BY <1>1, <1>5, <1>7, <2>1 DEF PostsAreCounted
<1>10. ASSUME NEW u \in Workers, At(u, "sending")'
       PROVE  /\ Sends(u)' \in messages' /\ notified'[Sends(u)'] <= context'[u].attempt
              /\ \A v \in Workers \ {u} : At(v, "sending")' => Sends(v)' # Sends(u)'
  <2>1. CASE u = w
    <3>1. /\ Sends(w)' = m /\ context'[w].attempt = context[w].attempt + 1
          /\ notified'[m] <= context[w].attempt + 1
          BY <1>3, <1>4, <1>5, <1>6, <1>10, <2>1
    <3> QED BY <1>1, <1>3, <1>9, <2>1, <3>1
  <2>2. CASE u # w
        BY <1>6, <1>9, <1>10, <2>2
  <2> QED BY <2>1, <2>2
<1> QED BY <1>8, <1>10 DEF PostsAreCounted

\* Every step of a worker keeps the posts counted.
LEMMA PostsStep ==
  ASSUME Inv, TypeOK', NEW w \in Workers, Execute(w) \/ Again(w) PROVE PostsAreCounted'
<1>0. TypeOK
      BY DEF Inv
<1>1. CASE FetchStep(w) \/ NormalizeStep(w) \/ FilterStep(w) \/ IdempotencyStep(w)
           \/ BufferStep(w) \/ Push(w) \/ DLQStep(w) \/ Again(w)
  <2>1. context'[w].stage # "sending"
        BY <1>0, <1>1 DEF FetchStep, NormalizeStep, FilterStep, IdempotencyStep, Skip, BufferStep,
                          Push, DLQStep, Again, NewContext, GoTo, AddError, TypeOK, Context
  <2>2. messages' = messages /\ notified' = notified
        BY <1>1 DEF FetchStep, NormalizeStep, FilterStep, IdempotencyStep, BufferStep, Push,
                    DLQStep, Again
  <2> QED BY <2>1, <2>2, QuietPosts DEF At
<1>2. CASE DispatchStep(w) /\ ~At(w, "sending")'
  <2>1. messages \subseteq messages' /\ notified' = notified
        BY <1>2 DEF DispatchStep
  <2> QED BY <1>2, <2>1, QuietPosts
<1> QED BY <1>1, <1>2, DispatchPosts, PostPosts DEF Execute

\* Every step keeps the invariant.
LEMMA InvStep == Inv /\ [Next]_vars => Inv'
<1> SUFFICES ASSUME Inv, [Next]_vars PROVE Inv'
    OBVIOUS
<1>0. TypeOK /\ TypeOK'
      BY TypeStep DEF Inv
<1>1. ASSUME NEW w \in Workers, Execute(w) \/ Again(w) PROVE Inv'
      BY <1>0, <1>1, BufferStepBound, StagesStep, AccountsStep, PostsStep DEF Inv
<1>2. CASE Pop
  <2>1. UNCHANGED <<context, claimed, messages, notified, faults>> /\ buffer' = buffer - 1
        BY <1>2 DEF Pop
  <2>2. BufferBound'
    <3>1. Pushing' = Pushing
          BY <2>1 DEF Pushing, At
    <3> QED BY <1>0, <2>1, <3>1, CountTypes, StepsAssumption DEF Inv, BufferBound, TypeOK
  <2>3. KeysAreCounted' /\ PostsAreCounted' /\ StagesAreKept'
        BY <2>1 DEF Inv, KeysAreCounted, PostsAreCounted, StagesAreKept, Waiting, Keys, Sends,
                    MessageOf, At, Eligible
  <2> QED BY <1>0, <2>2, <2>3 DEF Inv
<1>3. CASE UNCHANGED vars
      BY <1>0, <1>3 DEF vars, Inv, BufferBound, KeysAreCounted, PostsAreCounted, StagesAreKept,
                   Pushing, Waiting, Keys, Sends, MessageOf, At, Eligible
<1> QED BY <1>1, <1>2, <1>3 DEF Next

\* New contexts hold nothing.
LEMMA InitInv == Init => Inv
<1> SUFFICES ASSUME Init PROVE Inv
    OBVIOUS
<1>2. TypeOK
      BY NewContextType, StepsAssumption, FS_EmptySet DEF Init, TypeOK
<1>3. Pushing = {} /\ \A s : Waiting(s) = {} /\ Keys(s) = {}
      BY DEF Init, NewContext, Pushing, Waiting, Keys, At
<1>4. BufferBound
      BY <1>3, CountTypes, FS_EmptySet, StepsAssumption DEF Init, BufferBound
<1>5. KeysAreCounted
      BY <1>3, FS_EmptySet DEF Init, KeysAreCounted
<1>6. StagesAreKept
      BY DEF Init, NewContext, StagesAreKept, None
<1>7. PostsAreCounted
      BY StepsAssumption DEF Init, NewContext, PostsAreCounted, At
<1> QED BY <1>2, <1>4, <1>5, <1>6, <1>7 DEF Inv

-------------------------------------------------------------------------------
\* The pipeline keeps its types, and the buffer never exceeds max_size by as many
\* events as there are workers; a survey's message keys and the contexts that will
\* make one are covered by its claim and the failures of its gate, and a message is
\* posted by one context only, once an attempt (buffer/queue.py:27-33,
\* steps.py:167-271, dispatcher.py:47-60, retry.py:64-91).
THEOREM Invariant == Spec => []Inv
BY InitInv, InvStep, PTL DEF Spec

\* However the workers overlap and whatever texts their profiles make of a survey, no
\* more of its messages arrive than one and one for each gate failure, and each at
\* most max_attempts times (steps.py:167-185, dispatcher.py:47-60, retry.py:67-91).
THEOREM SurveysAreAnnouncedBoundedly == Spec => []AnnouncementsAreBounded
<1>1. Inv => AnnouncementsAreBounded
  <2> SUFFICES ASSUME Inv PROVE AnnouncementsAreBounded
      OBVIOUS
  <2>1. ASSUME NEW s \in Surveys
        PROVE  Cardinality({m \in Message : m.survey = s /\ notified[m] > 0}) <= 1 + faults[s]
    <3> DEFINE Arrived == {m \in Message : m.survey = s /\ notified[m] > 0}
    <3>1. Arrived \subseteq Keys(s)
          BY DEF Inv, PostsAreCounted, Keys
    <3>2. IsFiniteSet(Keys(s)) /\ Cardinality(Keys(s)) \in Nat
          BY Finite, KeyCount DEF Inv
    <3>3. Cardinality(Arrived) \in Nat /\ Cardinality(Arrived) <= Cardinality(Keys(s))
          BY <3>1, <3>2, FS_Subset, FS_CardinalityType
    <3>4. /\ faults[s] \in Nat
          /\ Cardinality(Keys(s)) + Cardinality(Waiting(s))
               <= faults[s] + (IF s \in claimed THEN 1 ELSE 0)
          BY DEF Inv, TypeOK, KeysAreCounted
    <3> HIDE DEF Arrived
    <3>5. Cardinality(Arrived) <= 1 + faults[s]
          BY <3>2, <3>3, <3>4, CountTypes
    <3> QED BY <3>5 DEF Arrived
  <2> QED BY <2>1 DEF Inv, PostsAreCounted, AnnouncementsAreBounded
<1> QED BY <1>1, Invariant, PTL

\* A context that had an eligible survey of its own ends delivered or with an
\* error, whatever failed and whoever overlapped (steps.py:190-271).
THEOREM NoContextVanishes == Spec => []NothingVanishes
<1>1. Inv => NothingVanishes
      BY DEF Inv, StagesAreKept, NothingVanishes, At
<1> QED BY <1>1, Invariant, PTL
===============================================================================

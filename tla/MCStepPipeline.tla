---------------------------- MODULE MCStepPipeline ----------------------------
(* Two workers in two processes: what a process does twice, it does in two   *)
(* of a worker's contexts.                                                   *)
EXTENDS StepPipeline, TLC

CONSTANTS w1, w2, p1, p2

MCProcessOf == w1 :> p1 @@ w2 :> p2

\* No operator tells one survey from another, or one text.
DataSymmetry == Permutations(Surveys) \cup Permutations(Texts)
===============================================================================

----------------------------- MODULE MCPollService ----------------------------
(* Instances of PollService, and what the repository says of it that the     *)
(* code does not do.                                                         *)
EXTENDS PollService

CONSTANTS s1, s2

\* s1 is offered by the first source, any other survey by the last.
MCSourceOf == [s \in Surveys |-> IF s = s1 THEN 1 ELSE NumSources]
MCJobs     == {"startup", "scheduled"} \X (1..MaxBatch)

\* docs/README.md:10, "Idempotent delivery - No duplicate notifications": a
\* post whose answer is lost is posted again.
NoDuplicateNotification == \A s \in Surveys : notified[s] <= 1

\* app.py:82, "never run two cycles in parallel": the startup cycle is not an
\* instance of the scheduled job.
NeverTwoCycles == ~ \A c \in Cycles : Running(c)

\* tests/integration/test_e2e_pipeline.py, "Dispatch failure increments errors
\* (DLQ'd)": a survey that could not be sent is in the dead letter store.
FailuresAreDeadLettered ==
    \A j \in Jobs : job[j].outcome \in {"FAILED", "unqueued"} => job[j].survey \in dlq
===============================================================================

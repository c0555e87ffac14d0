------------------------- MODULE MCExecutionPipeline -------------------------
(* Small instances of ExecutionPipeline for TLC. *)
EXTENDS PipelineRefinement

CONSTANTS r1, r2

NoBacklog == <<>>

\* A job that was pushed before the process was started again.
QueuedBacklog == <<[req |-> r2, attempt |-> 0, form |-> "current"]>>

\* What earlier releases left: an unreadable payload, a job with the attempts
\* of a higher limit, and a job in an older text.
OldBacklog ==
    <<Corrupt,
      [req |-> r1, attempt |-> MaxAttempts, form |-> "current"],
      [req |-> r2, attempt |-> 0, form |-> "older"]>>
=============================================================================

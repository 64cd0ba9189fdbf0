----------------------------- MODULE MCJobQueue -----------------------------
(* Instances of JobQueue for TLC. *)
EXTENDS JobQueue

CONSTANTS a1, a2, a3, bad, chatA

\* Three jobs of one chat and one with an empty chat id.
ChatOfMC == [j \in Jobs |-> IF j = bad THEN None ELSE chatA]
-----------------------------------------------------------------------------
\* internal/queue/manager.go:60, "Enqueue adds a job to the appropriate queue";
\* the queue may belong to a worker that has already decided to leave.
QueuedIsProcessed ==
  \A j \in Jobs : fate[j] = "queued" ~> fate[j] = "finished"
=============================================================================

--------------------------- MODULE IngestionClaims ---------------------------
(***************************************************************************)
(* What the repository's documentation says of ingestion and the code does *)
(* not do.  A run of TLC shows a counterexample.                           *)
(***************************************************************************)
EXTENDS Ingestion

\* knowledge-base/03-request-flow.md: when all retries are exhausted the job is
\* dead-lettered and its document is FAILED (process_document_task never
\* touches the row).
DeadLetteredIsFailed ==
    \A d \in dlq : jobState[d] = "failed" => status[d] \in {"failed", "absent"}
=============================================================================

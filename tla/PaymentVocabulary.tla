------------------------- MODULE PaymentVocabulary -------------------------
(***************************************************************************)
(* The words the payment modules share: the statuses of a payment row, how *)
(* a callback's raw status is read, and what RabbitMQ's consumers and      *)
(* Aspin are told of a status.  Everything here is a pure translation of a *)
(* few lines of BasePaymentExecutor; no state.                             *)
(***************************************************************************)

\* What the payment hub knows of a transaction, and the three words the
\* executor itself writes into a payment row.
Outcomes == {"pending", "completed", "failed"}
Final    == {"completed", "failed"}

\* extractStatusFromCallback: every spelling it does not know is "pending".
ExtractStatus(raw) ==
    CASE raw \in {"0", "completed", "SUCCESS"} -> "completed"
      [] raw \in {"failed", "FAILED"}          -> "failed"
      [] OTHER                                 -> "pending"

\* Mutants of AspinStatus: the status as it is; success unless it failed.
AspinStatusVerbatim(status)   == status
AspinStatusOptimistic(status) == IF status = "failed" THEN "failed" ELSE "completed"

\* The status publishPaymentResult tells Aspin: there is no third word.
AspinStatus(status) == IF status = "completed" THEN "completed" ELSE "failed"

=============================================================================

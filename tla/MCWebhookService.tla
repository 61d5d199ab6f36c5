-------------------------- MODULE MCWebhookService --------------------------
(***************************************************************************)
(* Small instances of WebhookService for TLC.                              *)
(***************************************************************************)
EXTENDS WebhookService

\* The hub posts one final outcome or the other, in words the code knows.
FinalWords == [pending   |-> {},
               completed |-> {"SUCCESS"},
               failed    |-> {"FAILED"}]

\* A status query's words (no query is made in this module's runs).
QueryWords == [pending |-> {"pending"}, completed |-> {"completed"}, failed |-> {"failed"}]

=============================================================================

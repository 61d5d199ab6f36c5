------------------------- MODULE MCCallbackHandler -------------------------
(***************************************************************************)
(* Small instances of CallbackHandler for TLC.                             *)
(***************************************************************************)
EXTENDS CallbackHandler, TLC

\* The hub posts final outcomes only, in spellings the code knows.
FinalWords == [pending   |-> {},
               completed |-> {"completed", "0"},
               failed    |-> {"FAILED"}]

\* It posts progress too.
ProgressWords == [FinalWords EXCEPT !["pending"] = {"pending"}]

\* The README's example of a webhook body: "status": "COMPLETED".
ReadmeWords == [pending   |-> {},
                completed |-> {"COMPLETED"},
                failed    |-> {"FAILED"}]

\* A status query's words (no query is made in this module's runs).
QueryWords == [pending |-> {"pending"}, completed |-> {"completed"}, failed |-> {"failed"}]

\* The deliveries are alike.
Symmetric == Permutations(Callbacks)

=============================================================================

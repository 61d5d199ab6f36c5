------------------------- MODULE MCPaymentExecutor -------------------------
(***************************************************************************)
(* Small instances of PaymentExecutor for TLC.                             *)
(***************************************************************************)
EXTENDS PaymentExecutor, TLC

\* The hub posts final outcomes only, in spellings the code knows.
FinalWords == [pending   |-> {},
               completed |-> {"SUCCESS"},
               failed    |-> {"FAILED"}]

\* It posts progress too, and one of its words for success is not known.
AnyWords == [pending   |-> {"pending"},
             completed |-> {"SUCCESS", "COMPLETED"},
             failed    |-> {"FAILED"}]

\* A status query is answered in the row's own words ...
QueryWords == [pending |-> {"pending"}, completed |-> {"completed"}, failed |-> {"failed"}]

\* ... or in others, which the check stores as they come.
AnyQueryWords == [pending   |-> {"pending", "PROCESSING"},
                  completed |-> {"completed", "SUCCESS"},
                  failed    |-> {"failed"}]

\* The deliveries are alike.
Symmetric == Permutations(Callbacks)

=============================================================================

------------------------- MODULE MCPaymentPipeline -------------------------
(***************************************************************************)
(* Small instances of PaymentPipeline for TLC: one request goes to Airtel, *)
(* the others to M-Pesa.                                                   *)
(***************************************************************************)
EXTENDS PaymentPipeline

CONSTANT AirtelRequest

ByAirtel == [q \in Requests |-> IF q = AirtelRequest THEN "AIRTEL" ELSE "MPESA"]

=============================================================================

-------------------------- MODULE ExecutorRouting --------------------------
(***************************************************************************)
(* Which executor handles a request: PaymentExecutorBuilder's map, filled  *)
(* once at start-up, and the channel a webhook is taken to come from.      *)
(***************************************************************************)

Partners == {"BRITAM", "APA"}
Channels == {"MPESA", "AIRTEL"}

\* The three executors the builder registers, by partner and channel.
Registered == {<<"BRITAM", "MPESA">>, <<"APA", "MPESA">>, <<"BRITAM", "AIRTEL">>}

\* getExecutor finds one, or throws PartnerExecutorNotFoundException.
HasExecutor(partner, channel) == <<partner, channel>> \in Registered

\* determineChannelFromPayload, by the fields a payload has.
DetermineChannel(fields) ==
    IF /\ fields \cap {"MerchantRequestID", "CheckoutRequestID"} = {}
       /\ fields \cap {"data", "transaction"} # {}
    THEN "AIRTEL" ELSE "MPESA"

\* The fields of the payload PaymentsController.handleWebhook builds.
WebhookFields == {"transaction_id", "status", "partner_id", "amount",
                  "currency", "timestamp", "signature"}

\* None of them tells the channels apart.
WebhookChannel == DetermineChannel(WebhookFields)

=============================================================================

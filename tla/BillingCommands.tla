-------------------------- MODULE BillingCommands --------------------------
(***************************************************************************)
(* The commands on invoices, memos, payments, usage and the rest of        *)
(* billing.                                                                *)
(***************************************************************************)
EXTENDS CommandShapes, Naturals

\* invoice
InvoiceList ==
  Keyed(Listing(<<"v1", "transactions", "invoices", "accounts", "<account-key>">>,
                {"account-key", "page", "page-size"}, "page"), "account-key")
InvoiceGet   == Detail(Get(<<"v1", "invoices", "<1>">>))
InvoiceItems == Table(Get(<<"v1", "invoices", "<1>", "items">>))
InvoiceFiles == Table(Get(<<"v1", "invoices", "<1>", "files">>))
InvoiceUsageRateDetail ==
  Document(Get(<<"v1", "invoices", "invoice-item", "<1>", "usage-rate-detail">>))
InvoiceEmail    == WithBody(Post(<<"v1", "invoices", "<1>", "emails">>))
InvoicePost     == Confirmed(Announced(Detail(Put(<<"v1", "invoices", "<1>", "post">>))))
InvoiceReverse  == Confirmed(Announced(Detail(Put(<<"v1", "invoices", "<1>", "reverse">>))))
InvoiceWriteoff == Confirmed(MayHaveBody(Put(<<"v1", "invoices", "<1>", "write-off">>)))

MemoFlags == {"account-id", "account-number", "status", "page", "page-size"}
CreditMemoList == Listing(<<"v1", "creditmemos">>, MemoFlags, "page")
CreditMemoGet  == Detail(Get(<<"v1", "creditmemos", "<1>">>))
DebitMemoList  == Listing(<<"v1", "debitmemos">>, MemoFlags, "page")
DebitMemoGet   == Detail(Get(<<"v1", "debitmemos", "<1>">>))

\* billrun
BillRunGet    == Detail(Get(<<"v1", "bill-runs", "<1>">>))
BillRunCreate == WithBody(Post(<<"v1", "bill-runs">>))
BillRunPost   == Confirmed(Announced(Detail(Put(<<"v1", "bill-runs", "<1>", "post">>))))
BillRunCancel == Confirmed(Announced(Detail(Put(<<"v1", "bill-runs", "<1>", "cancel">>))))
BillRunDelete == Removal(Delete(<<"v1", "bill-runs", "<1>">>))

\* payment
PaymentList ==
  Keyed(Listing(<<"v1", "transactions", "payments", "accounts", "<account-key>">>,
                {"account-key", "page", "page-size"}, "page"), "account-key")
PaymentGet      == Detail(Get(<<"v1", "payments", "<1>">>))
PaymentCreate   == WithBody(Post(<<"v1", "payments">>))
PaymentApply    == WithBody(Put(<<"v1", "payments", "<1>", "apply">>))
PaymentUnapply  == WithBody(Put(<<"v1", "payments", "<1>", "unapply">>))
PaymentTransfer == WithBody(Put(<<"v1", "payments", "<1>", "transfer">>))
PaymentCancel   == Confirmed(Announced(Detail(Put(<<"v1", "payments", "<1>", "cancel">>))))
PaymentRefund   == Confirmed(WithBody(Post(<<"v1", "payments", "<1>", "refunds">>)))

\* usage: upload reads the file before it asks for the client
UsageGet    == Detail(Get(<<"v1", "object", "usage", "<1>">>))
UsageCreate == WithBody(Post(<<"v1", "object", "usage">>))
UsageUpdate == WithBody(Put(<<"v1", "object", "usage", "<1>">>))
UsageDelete == Removal(Delete(<<"v1", "object", "usage", "<1>">>))
UsageUpload ==
  [Requires(Announced(Detail(Post(<<"v1", "usage">>))), {"file"}) EXCEPT !.steps = <<"file">> \o @]

\* meter
MeterStatus == Detail(Get(<<"meters", "<1>", "<2>", "runStatus">>))
MeterAudit  ==
  Requires(Detail(Get(<<"meters", "<1>", "auditTrail", "entries">>)),
           {"export-type", "run-type", "from", "to"})
MeterRun    == Announced(Detail(Post(<<"meters", "run", "<1>", "<2>">>)))
MeterDebug  == Announced(Detail(Post(<<"meters", "debug", "<1>", "<2>">>)))
\* The body is merged with the run type, so it has to be an object.
MeterSummary ==
  LET c == MayHaveBody(Search(<<"meters", "<1>", "summary">>))
  IN [Flags(c, {"run-type", "body"}, {o \in SUBSET {"run-type", "body"} : "run-type" \in o})
        EXCEPT !.bodies = {"object", "empty"}, !.message = FALSE]

\* ramp: list looks a subscription up, metrics exactly one of three keys
RampGet  == Detail(Get(<<"v1", "ramps", "<1>">>))
RampList == Requires(Document(Get(<<"v1", "subscriptions", "<subscription>", "ramps">>)), {"subscription"})
RampMetrics ==
  LET path(o) ==
        CASE "number" \in o -> <<"v1", "ramps", "<number>", "ramp-metrics">>
          [] "order" \in o  -> <<"v1", "orders", "<order>", "ramp-metrics">>
          [] OTHER          -> <<"v1", "subscriptions", "<subscription>", "ramp-metrics">>
      accepted == {{"number"}, {"order"}, {"subscription"}}
  IN Routes(Document(Get(<<"v1", "ramps">>)), {"number", "order", "subscription"},
            [o \in accepted |-> Get(path(o))])

\* commitment: periods of one commitment, or of an account between two dates
CommitmentList ==
  Keyed(Listing(<<"v1", "commitments">>, {"account-number", "type"}, ""), "account-number")
CommitmentGet       == Detail(Get(<<"v1", "commitments", "<1>">>))
CommitmentBalance   == Document(Get(<<"v1", "commitments", "<1>", "balancepreview">>))
CommitmentSchedules == Document(Get(<<"v1", "commitments", "<1>", "schedules">>))
CommitmentPeriods   ==
  LET options == {"commitment", "account-number", "start-date", "end-date"}
      accepted == {o \in SUBSET options :
                     \/ "commitment" \in o /\ "account-number" \notin o
                     \/ o = options \ {"commitment"}}
  IN Flags(Document(Get(<<"v1", "commitments", "periods">>)), options, accepted)

\* fulfillment, fulfillment-item, prepaid, omnichannel
FulfillmentGet    == Detail(Get(<<"v1", "fulfillments", "<1>">>))
FulfillmentCreate == WithBody(Post(<<"v1", "fulfillments">>))
FulfillmentUpdate == WithBody(Put(<<"v1", "fulfillments", "<1>">>))
FulfillmentDelete == Removal(Delete(<<"v1", "fulfillments", "<1>">>))
FulfillmentItemGet    == Detail(Get(<<"v1", "fulfillment-items", "<1>">>))
FulfillmentItemCreate == WithBody(Post(<<"v1", "fulfillment-items">>))
FulfillmentItemUpdate == WithBody(Put(<<"v1", "fulfillment-items", "<1>">>))
FulfillmentItemDelete == Removal(Delete(<<"v1", "fulfillment-items", "<1>">>))
PrepaidDeplete  == Confirmed(WithBody(Post(<<"v1", "prepaid-balance-funds", "deplete">>)))
PrepaidRollover == WithBody(Post(<<"v1", "ppdd", "rollover">>))
PrepaidReverseRollover == Confirmed(WithBody(Post(<<"v1", "ppdd", "reverse-rollover">>)))
OmnichannelGet    == Detail(Get(<<"v1", "omni-channel-subscriptions", "<1>">>))
OmnichannelCreate == WithBody(Post(<<"v1", "omni-channel-subscriptions">>))
OmnichannelDelete == Removal(Delete(<<"v1", "omni-channel-subscriptions", "<1>">>))
=============================================================================

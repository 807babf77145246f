--------------------------- MODULE SalesCommands ---------------------------
(***************************************************************************)
(* The commands on accounts, contacts, orders and subscriptions.           *)
(***************************************************************************)
EXTENDS CommandShapes, Naturals

\* account
AccountList == Listing(<<"object-query", "accounts">>, {"page-size", "cursor", "filter"}, "cursor")
AccountGet  == Table(Get(<<"v1", "accounts", "<1>">>))
AccountSummary == Table(Get(<<"v1", "accounts", "<1>", "summary">>))
AccountPaymentMethods == Table(Get(<<"v1", "accounts", "<1>", "payment-methods">>))
AccountPaymentMethodsDefault ==
  Detail(Get(<<"v1", "accounts", "<1>", "payment-methods", "default">>))
AccountPaymentMethodsCascading ==
  Detail(Get(<<"v1", "accounts", "<1>", "payment-methods", "cascading">>))
AccountCreate == WithBody(Post(<<"v1", "accounts">>))
AccountUpdate == WithBody(Put(<<"v1", "accounts", "<1>">>))
AccountSetCascading ==
  WithBody(Put(<<"v1", "accounts", "<1>", "payment-methods", "cascading">>))
AccountDelete == Removal(Delete(<<"v1", "accounts", "<1>">>))

\* contact: list is a ZOQL query; an account id of another form is refused like
\* a missing one
ContactList ==
  Following(Requires(Table(Search(<<"v1", "action", "query">>)), {"account-id"}),
            <<"v1", "action", "queryMore">>)
ContactGet      == Detail(Get(<<"v1", "contacts", "<1>">>))
ContactSnapshot == Detail(Get(<<"v1", "contact-snapshots", "<1>">>))
ContactCreate   == WithBody(Post(<<"v1", "contacts">>))
ContactUpdate   == WithBody(Put(<<"v1", "contacts", "<1>">>))
ContactTransfer == WithBody(Put(<<"v1", "contacts", "<1>", "transfer">>))
ContactScrub    == Confirmed(Announced(Detail(Put(<<"v1", "contacts", "<1>", "scrub">>))))
ContactDelete   == Removal(Delete(<<"v1", "contacts", "<1>">>))

\* order: list takes at most one scope, and --pending only narrows a
\* subscription
OrderScopes == {"subscription", "subscription-owner", "invoice-owner"}
OrderList ==
  LET all == Listing(<<"v1", "orders">>,
                     OrderScopes \cup {"pending", "status", "page", "page-size"}, "page")
      accepted == {o \in SUBSET all.options :
                     /\ Cardinality(o \cap OrderScopes) <= 1
                     /\ "pending" \in o => "subscription" \in o}
      path(o) ==
        CASE "pending" \in o -> <<"v1", "orders", "subscription", "<subscription>", "pending">>
          [] o \cap {"subscription", "pending"} = {"subscription"} ->
               <<"v1", "orders", "subscription", "<subscription>">>
          [] "subscription-owner" \in o ->
               <<"v1", "orders", "subscriptionOwner", "<subscription-owner>">>
          [] "invoice-owner" \in o -> <<"v1", "orders", "invoiceOwner", "<invoice-owner>">>
          [] OTHER -> <<"v1", "orders">>
  IN [Routes(all, all.options, [o \in accepted |-> Get(path(o))]) EXCEPT !.bools = {"pending"}]
OrderGet          == Detail(Get(<<"v1", "orders", "<1>">>))
OrderJobStatus    == Detail(Get(<<"v1", "async-jobs", "<1>">>))
OrderCreate       == WithBody(Post(<<"v1", "orders">>))
OrderCreateAsync  == WithBody(Post(<<"v1", "async", "orders">>))
OrderPreview      == DocumentOf(Search(<<"v1", "orders", "preview">>))
OrderPreviewAsync == WithBody(Search(<<"v1", "async", "orders", "preview">>))
OrderUpdate       == WithBody(Put(<<"v1", "orders", "<1>">>))
OrderUpdateCustomFields == WithBody(Put(<<"v1", "orders", "<1>", "customFields">>))
OrderUpdateTriggerDates == WithBody(Put(<<"v1", "orders", "<1>", "triggerDates">>))
OrderActivate     == Announced(Detail(Put(<<"v1", "orders", "<1>", "activate">>)))
OrderCancel       == Confirmed(Announced(Detail(Put(<<"v1", "orders", "<1>", "cancel">>))))
OrderDelete       == Removal(Delete(<<"v1", "orders", "<1>">>))
OrderDeleteAsync  == Confirmed(Announced(Detail(Delete(<<"v1", "async", "orders", "<1>">>))))

\* Mutant: the body is checked, the confirmation forgotten.
OrderRevertUnasked == WithBody(Post(<<"v1", "orders", "<1>", "revert">>))
OrderRevert       == Confirmed(WithBody(Post(<<"v1", "orders", "<1>", "revert">>)))

OrderActionUpdate == WithBody(Put(<<"v1", "orderActions", "<1>">>))
OrderLineItemGet  == Detail(Get(<<"v1", "order-line-items", "<1>">>))
OrderLineItemUpdate == WithBody(Put(<<"v1", "order-line-items", "<1>">>))
OrderLineItemBulkUpdate == WithBody(Post(<<"v1", "order-line-items", "bulk">>))

\* subscription
SubscriptionList ==
  Keyed(Listing(<<"v1", "subscriptions", "accounts", "<account-key>">>,
                {"account-key", "page-size", "page", "charge-detail"}, "page"), "account-key")
SubscriptionGet      == Detail(Get(<<"v1", "subscriptions", "<1>">>))
SubscriptionVersions == Detail(Get(<<"v1", "subscriptions", "<1>", "versions", "<2>">>))
SubscriptionMetrics  ==
  Requires(Table(Get(<<"v1", "subscriptions", "subscription-metrics">>)), {"subscription-numbers"})

\* A change log is looked up by number, by number and version, or by order.
SubscriptionChangelog ==
  LET path(o) ==
        CASE "order" \in o   -> <<"v1", "subscription-change-logs", "orders", "<order>">>
          [] "version" \in o -> <<"v1", "subscription-change-logs", "<number>", "versions", "<version>">>
          [] OTHER           -> <<"v1", "subscription-change-logs", "<number>">>
      accepted == {{"order"}, {"number"}, {"number", "version"}}
  IN Routes(Document(Get(<<"v1", "subscription-change-logs">>)), {"order", "number", "version"},
            [o \in accepted |-> Get(path(o))])

SubscriptionPreview       == DocumentOf(Search(<<"v1", "subscriptions", "preview">>))
SubscriptionPreviewChange == DocumentOf(Search(<<"v1", "subscriptions", "<1>", "preview">>))
SubscriptionCreate        == WithBody(Post(<<"v1", "subscriptions">>))
SubscriptionUpdate        == WithBody(Put(<<"v1", "subscriptions", "<1>">>))
SubscriptionUpdateCustomFields ==
  WithBody(Put(<<"v1", "subscriptions", "<1>", "versions", "<2>", "customFields">>))
SubscriptionRenew         == MayHaveBody(Put(<<"v1", "subscriptions", "<1>", "renew">>))
SubscriptionDelete        == Removal(Put(<<"v1", "subscriptions", "<1>", "delete">>))

\* Cancel, suspend and resume take a body, or a policy with the values the
\* policy needs: "SpecificDate" a date, "FixedPeriods" a number and a type of
\* periods.  "policy" is any policy that needs nothing.
ByPolicy(request, needs) ==
  LET policies == {"policy"} \cup DOMAIN needs
      options == {"body"} \cup policies \cup UNION {needs[p] : p \in DOMAIN needs}
      inputs == {o \in SUBSET options : Cardinality(o \cap policies) <= 1}
      accepted == {o \in inputs : \/ "body" \in o
                                  \/ \E p \in o \cap policies :
                                        p \in DOMAIN needs => needs[p] \subseteq o}
  IN [Flags(WithBody(request), options, accepted)
        EXCEPT !.inputs = inputs, !.bodies = JsonValues \cup {"empty"}]

SubscriptionCancel ==
  Confirmed(ByPolicy(Put(<<"v1", "subscriptions", "<1>", "cancel">>),
                     [SpecificDate |-> {"effective-date"}]))
SubscriptionSuspend ==
  ByPolicy(Put(<<"v1", "subscriptions", "<1>", "suspend">>),
           [SpecificDate |-> {"suspend-date"}, FixedPeriods |-> {"periods", "periods-type"}])
SubscriptionResume ==
  ByPolicy(Put(<<"v1", "subscriptions", "<1>", "resume">>),
           [SpecificDate |-> {"resume-date"}, FixedPeriods |-> {"periods", "periods-type"}])

Signup == WithBody(Post(<<"v1", "sign-up">>))
=============================================================================

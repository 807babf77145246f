--------------------------- MODULE CommandTable ---------------------------
(***************************************************************************)
(* The commands that talk to the tenant with one request or one query, by  *)
(* name, and `zr api`, which makes whatever request the user asks for.     *)
(* `data-query run`, and `order job-status --watch`, are in JobPolling.    *)
(***************************************************************************)
EXTENDS SalesCommands, BillingCommands, CatalogCommands

\* Mutant: --csv is refused when there is something to render.
ApiCheckedLast ==
  [AllowsBody(Command(Get(<<>>), <<"client", "body", "send", "csv", "render">>, "raw"))
     EXCEPT !.bodies = JsonValues \cup {"empty"}]

\* zr api: the method and the path are the user's; --csv is refused, a body
\* is optional and an empty one is no body.
Api == [AllowsBody(Command(Get(<<>>), <<"csv", "client", "body", "send", "render">>, "raw"))
          EXCEPT !.bodies = JsonValues \cup {"empty"}]

commands ==
  [ AccountList |-> AccountList, AccountGet |-> AccountGet,
    AccountSummary |-> AccountSummary,
    AccountPaymentMethods |-> AccountPaymentMethods,
    AccountPaymentMethodsDefault |-> AccountPaymentMethodsDefault,
    AccountPaymentMethodsCascading |-> AccountPaymentMethodsCascading,
    AccountCreate |-> AccountCreate, AccountUpdate |-> AccountUpdate,
    AccountSetCascading |-> AccountSetCascading,
    AccountDelete |-> AccountDelete, ContactList |-> ContactList,
    ContactGet |-> ContactGet, ContactSnapshot |-> ContactSnapshot,
    ContactCreate |-> ContactCreate, ContactUpdate |-> ContactUpdate,
    ContactTransfer |-> ContactTransfer, ContactScrub |-> ContactScrub,
    ContactDelete |-> ContactDelete, OrderList |-> OrderList,
    OrderGet |-> OrderGet, OrderJobStatus |-> OrderJobStatus,
    OrderCreate |-> OrderCreate,
    OrderCreateAsync |-> OrderCreateAsync, OrderPreview |-> OrderPreview,
    OrderPreviewAsync |-> OrderPreviewAsync, OrderUpdate |-> OrderUpdate,
    OrderUpdateCustomFields |-> OrderUpdateCustomFields,
    OrderUpdateTriggerDates |-> OrderUpdateTriggerDates,
    OrderActivate |-> OrderActivate, OrderCancel |-> OrderCancel,
    OrderDelete |-> OrderDelete, OrderDeleteAsync |-> OrderDeleteAsync,
    OrderRevert |-> OrderRevert, OrderActionUpdate |-> OrderActionUpdate,
    OrderLineItemGet |-> OrderLineItemGet,
    OrderLineItemUpdate |-> OrderLineItemUpdate,
    OrderLineItemBulkUpdate |-> OrderLineItemBulkUpdate,
    SubscriptionList |-> SubscriptionList, SubscriptionGet |-> SubscriptionGet,
    SubscriptionVersions |-> SubscriptionVersions,
    SubscriptionMetrics |-> SubscriptionMetrics,
    SubscriptionChangelog |-> SubscriptionChangelog,
    SubscriptionPreview |-> SubscriptionPreview,
    SubscriptionPreviewChange |-> SubscriptionPreviewChange,
    SubscriptionCreate |-> SubscriptionCreate,
    SubscriptionUpdate |-> SubscriptionUpdate,
    SubscriptionUpdateCustomFields |-> SubscriptionUpdateCustomFields,
    SubscriptionRenew |-> SubscriptionRenew,
    SubscriptionDelete |-> SubscriptionDelete,
    SubscriptionCancel |-> SubscriptionCancel,
    SubscriptionSuspend |-> SubscriptionSuspend,
    SubscriptionResume |-> SubscriptionResume, Signup |-> Signup,
    InvoiceList |-> InvoiceList, InvoiceGet |-> InvoiceGet,
    InvoiceItems |-> InvoiceItems, InvoiceFiles |-> InvoiceFiles,
    InvoiceUsageRateDetail |-> InvoiceUsageRateDetail,
    InvoiceEmail |-> InvoiceEmail, InvoicePost |-> InvoicePost,
    InvoiceReverse |-> InvoiceReverse, InvoiceWriteoff |-> InvoiceWriteoff,
    CreditMemoList |-> CreditMemoList, CreditMemoGet |-> CreditMemoGet,
    DebitMemoList |-> DebitMemoList, DebitMemoGet |-> DebitMemoGet,
    BillRunGet |-> BillRunGet, BillRunCreate |-> BillRunCreate,
    BillRunPost |-> BillRunPost, BillRunCancel |-> BillRunCancel,
    BillRunDelete |-> BillRunDelete, PaymentList |-> PaymentList,
    PaymentGet |-> PaymentGet, PaymentCreate |-> PaymentCreate,
    PaymentApply |-> PaymentApply, PaymentUnapply |-> PaymentUnapply,
    PaymentTransfer |-> PaymentTransfer, PaymentCancel |-> PaymentCancel,
    PaymentRefund |-> PaymentRefund, UsageGet |-> UsageGet,
    UsageCreate |-> UsageCreate, UsageUpdate |-> UsageUpdate,
    UsageDelete |-> UsageDelete, UsageUpload |-> UsageUpload,
    MeterStatus |-> MeterStatus, MeterAudit |-> MeterAudit,
    MeterRun |-> MeterRun, MeterDebug |-> MeterDebug,
    MeterSummary |-> MeterSummary, RampGet |-> RampGet, RampList |-> RampList,
    RampMetrics |-> RampMetrics, CommitmentList |-> CommitmentList,
    CommitmentGet |-> CommitmentGet, CommitmentBalance |-> CommitmentBalance,
    CommitmentSchedules |-> CommitmentSchedules,
    CommitmentPeriods |-> CommitmentPeriods, FulfillmentGet |-> FulfillmentGet,
    FulfillmentCreate |-> FulfillmentCreate,
    FulfillmentUpdate |-> FulfillmentUpdate,
    FulfillmentDelete |-> FulfillmentDelete,
    FulfillmentItemGet |-> FulfillmentItemGet,
    FulfillmentItemCreate |-> FulfillmentItemCreate,
    FulfillmentItemUpdate |-> FulfillmentItemUpdate,
    FulfillmentItemDelete |-> FulfillmentItemDelete,
    PrepaidDeplete |-> PrepaidDeplete, PrepaidRollover |-> PrepaidRollover,
    PrepaidReverseRollover |-> PrepaidReverseRollover,
    OmnichannelGet |-> OmnichannelGet, OmnichannelCreate |-> OmnichannelCreate,
    OmnichannelDelete |-> OmnichannelDelete, ProductGet |-> ProductGet,
    ProductListLegacy |-> ProductListLegacy, ProductCreate |-> ProductCreate,
    ProductUpdate |-> ProductUpdate, PlanGet |-> PlanGet,
    PlanList |-> PlanList, PlanPurchaseOptions |-> PlanPurchaseOptions,
    PlanCreate |-> PlanCreate, PlanUpdate |-> PlanUpdate,
    ChargeGet |-> ChargeGet, ChargeCreate |-> ChargeCreate,
    ChargeUpdate |-> ChargeUpdate, ChargeUpdateTiers |-> ChargeUpdateTiers,
    RatePlanGet |-> RatePlanGet, Query |-> Query,
    DataQueryList |-> DataQueryList, DataQueryGet |-> DataQueryGet,
    DataQuerySubmit |-> DataQuerySubmit, DataQueryCancel |-> DataQueryCancel,
    Api |-> Api ]

(* The requests of the typed commands, and what a request of the user's    *)
(* own is for: what the command with that method and path is for.          *)
routes == (UNION {{commands[c].route[o] : o \in commands[c].accepts} :
                    c \in DOMAIN commands \ {"Api"}})
          \cup {Search(commands[c].more) : c \in {"ContactList", "Query"}}
=============================================================================

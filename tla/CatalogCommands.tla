-------------------------- MODULE CatalogCommands --------------------------
(***************************************************************************)
(* The commands on the product catalog, and the queries.                   *)
(***************************************************************************)
EXTENDS CommandShapes

\* product
ProductGet        == Detail(Search(<<"commerce", "products", "<1>">>))
ProductListLegacy == DocumentOf(Search(<<"commerce", "legacy", "products", "list">>))
ProductCreate     == Commerce(Post(<<"commerce", "products">>))
ProductUpdate     == Commerce(Put(<<"commerce", "products">>))

\* plan: list decodes the body after it has the client
PlanGet    == Document(Search(<<"commerce", "plans", "query">>))
PlanList   ==
  [RequiresBody(Table(Search(<<"commerce", "plans", "list">>)))
     EXCEPT !.steps = <<"client", "body", "send", "render">>]
PlanPurchaseOptions ==
  Requires(Document(Search(<<"commerce", "purchase-options", "list">>)), {"plan"})
PlanCreate == Commerce(Post(<<"commerce", "plans">>))
PlanUpdate == Commerce(Put(<<"commerce", "plans">>))

\* charge and rateplan
ChargeGet         == Detail(Search(<<"commerce", "charges", "query">>))
ChargeCreate      == Commerce(Post(<<"commerce", "charges">>))
ChargeUpdate      == Commerce(Put(<<"commerce", "charges">>))
ChargeUpdateTiers == Commerce(Put(<<"commerce", "tiers">>))
RatePlanGet       == Detail(Get(<<"v1", "rateplans", "<1>">>))

\* query: ZOQL, with a limit that ends the search early
Query == Following(Flags(Table(Search(<<"v1", "action", "query">>)), {"limit"}, {{}, {"limit"}}),
                   <<"v1", "action", "queryMore">>)

\* data-query: the SQL comes from the argument or from --file, not both
Jobs == <<"query", "jobs">>
Job  == <<"query", "jobs", "<1>">>
DataQueryList   == Listing(Jobs, {"status", "page-size"}, "")
DataQueryGet    == Detail(Get(Job))
DataQuerySubmit ==
  [Flags(Announced(Detail(Request("POST", Jobs, "query"))), {"sql", "file"}, {{"sql"}, {"file"}})
     EXCEPT !.steps = <<"file">> \o @]
DataQueryCancel == Removal(Request("DELETE", Job, "query"))
=============================================================================

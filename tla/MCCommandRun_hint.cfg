SPECIFICATION Spec
CONSTANTS
  Names = {"AccountList", "OrderList", "InvoiceList"}
  Keys = {"key"}
  RawMethods = {}
  Typed = {"plain", "json", "csv", "badjq"}
INVARIANT
  HintIsComplete

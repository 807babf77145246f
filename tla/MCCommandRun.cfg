SPECIFICATION Spec
CONSTANTS
  Names <- AllCommands
  Keys = {"key", "preview", "summary", ""}
  RawMethods = {"GET", "POST", "PUT", "DELETE"}
  Typed = {"plain", "json", "csv", "jq", "template", "badjq", "badtemplate", "json and template"}
INVARIANTS
  TypeOK
  ReadOnlyHolds
  ReadsStayOpen
  ConfirmedFirst
  RefusedSendsNothing
  AppliedIsReported

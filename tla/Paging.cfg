\* Up to five rows in up to three pages.
SPECIFICATION Spec
CONSTANTS
  MaxTotal = 5
  MaxPages = 3
INVARIANT TypeOK
PROPERTY KeepsPromise
\* The command ends.
CHECK_DEADLOCK FALSE

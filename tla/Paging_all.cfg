\* A page that is none.
SPECIFICATION Spec
CONSTANTS
  MaxTotal = 5
  MaxPages = 3
INVARIANT AllPagesFetched
\* The command ends.
CHECK_DEADLOCK FALSE

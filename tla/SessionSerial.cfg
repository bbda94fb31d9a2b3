\* Requests one at a time.
SPECIFICATION Spec
CONSTANTS
  Clients = {c1}
  ApprovalId = {a1, a2}
  None = None
  Duration = 2
  Extensions = {1}
  Goals = {1, 2}
  Visibilities = {FALSE, TRUE}
  ApprovalTTL = 1
  MaxAttempts = 2
  MaxTime = 3
  MaxVersion = 7
SYMMETRY Symmetry
INVARIANTS
  OneOutstandingCode
  GuessesBounded
  EndedIsOver
PROPERTIES
  ImplementsMachine
  SpentCodeIsDead
CHECK_DEADLOCK FALSE

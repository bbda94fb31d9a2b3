\* Two requests at a time, in every interleaving.
SPECIFICATION Spec
CONSTANTS
  Clients = {c1, c2}
  ApprovalId = {a1, a2}
  None = None
  Duration = 1
  Extensions = {}
  Goals = {}
  Visibilities = {}
  ApprovalTTL = 1
  MaxAttempts = 2
  MaxTime = 1
  MaxVersion = 5
SYMMETRY Symmetry
PROPERTY EndedIsFinal
CHECK_DEADLOCK FALSE

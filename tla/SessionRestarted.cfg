\* Requests one at a time: start on a paused session.
SPECIFICATION Spec
CONSTANTS
  Clients = {c1}
  ApprovalId = {a1}
  None = None
  Duration = 2
  Extensions = {}
  Goals = {}
  Visibilities = {}
  ApprovalTTL = 1
  MaxAttempts = 2
  MaxTime = 2
  MaxVersion = 7
PROPERTY PauseFreezesCountdown
CHECK_DEADLOCK FALSE

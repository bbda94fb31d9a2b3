\* A mailbox is revoked while polls of it wait.
SPECIFICATION MCSpec
CONSTANTS
  i1 = i1
  i2 = i2
  i3 = i3
  Mailboxes = {b1}
  Sweep = sweep
  Checks = {c1}
  MessageId <- MCDistinct
  Refused = {}
  None = None
  MaxUid = 1
  MaxRestarts = 0
  Foci = {"callers"}
PROPERTY RevokedIsNotFetched
CHECK_DEADLOCK FALSE

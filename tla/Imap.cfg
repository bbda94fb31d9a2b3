\* One mailbox, its watcher, the sweep and a request, in every interleaving, and under
\* fairness.
SPECIFICATION MCSpec
CONSTANTS
  i1 = i1
  i2 = i2
  i3 = i3
  Mailboxes = {b1}
  Sweep = sweep
  Checks = {c1}
  MessageId <- MCDistinct
  Refused = {1}
  None = None
  MaxUid = 3
  MaxRestarts = 1
  Foci = {"callers", "deposits"}
INVARIANTS
  TypeOK
  WatermarkCovers
  NoLostRace
  ToldIsRecorded
PROPERTY DepositsAreSeen
CHECK_DEADLOCK FALSE

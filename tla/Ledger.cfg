\* Two deliveries at a time, in every interleaving with the life of two sessions; then
\* one review at a time, over parsed and rehearsed deposits, while totals are read.
SPECIFICATION MCSpec
CONSTANTS
  s1 = s1
  s2 = s2
  m1 = m1
  m2 = m2
  m3 = m3
  m4 = m4
  b1 = b1
  b2 = b2
  Sessions = {s1, s2}
  TestSessions = {s1}
  Watched = {s1}
  Messages = {m1, m2, m3, m4}
  Mailbox <- MCMailbox
  Linked <- MCLinked
  Profiles = {1, 2}
  Threshold <- MCThreshold
  ParseResult <- MCParseResult
  Amounts = {1}
  Deliveries = {d1, d2}
  Reviewers = {r1}
  None = None
  Skew = 0
  MaxTime = 2
  MaxLedger = 4
  Foci = {"deliveries", "reviews"}
SYMMETRY Symmetry
INVARIANTS
  TypeOK
  OneEventPerMessage
  CountedInWindow
  OnlyEarlyIsExcluded
  OneAcceptPerDeposit
  NetIsStanding
PROPERTIES
  TotalsNeverOverstate
  ImplementsBook
CHECK_DEADLOCK FALSE

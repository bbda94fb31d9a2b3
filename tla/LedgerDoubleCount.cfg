\* Two reviews of one item at a time.
SPECIFICATION MCSpec
CONSTANTS
  s1 = s1
  s2 = s2
  m1 = m1
  m2 = m2
  m3 = m3
  m4 = m4
  b1 = b1
  b2 = b2
  Sessions = {s1}
  TestSessions = {}
  Watched = {}
  Messages = {m2}
  Mailbox <- MCMailbox
  Linked <- MCLinked
  Profiles = {1, 2}
  Threshold <- MCThreshold
  ParseResult <- MCParseResult
  Amounts = {1}
  Deliveries = {d1}
  Reviewers = {r1, r2}
  None = None
  Skew = 0
  MaxTime = 0
  MaxLedger = 5
  Foci = {"reviews"}
SYMMETRY Symmetry
INVARIANT OneAcceptPerDeposit
CHECK_DEADLOCK FALSE

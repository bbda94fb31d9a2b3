CONSTANTS
  starter = starter
  growth = growth
  premium = premium
  w1 = w1
  u1 = u1
  c1 = c1
  w2 = w2
  None = none
  Missing = missing
  Unset = unset
  Starter = starter
  Paid = {growth, premium}
  Workers = {w1, w2}
  MaxSubs = 2
  MaxSales = 1
  MaxRefunds = 1
  Prices = {70, 130}
  Savings = {8}
  Discount = 5
  Offers <- MCOffers
  FirstDay <- MCFirstDay
  Waits = {12}
  Confirms = {c1, c2}
  MaxCharges = 3
  MaxEdits = 1
  User = {u0, u1, u2}
  Founder = u0
  Requests = {r1, r2}
  AskedRoles = {"owner", "media"}
  MaxSeats <- MCMaxSeats
  MaxRows = 1
  Editors = {e1, e2}
  MaxOf <- MCMaxOf
  MostOf <- MCMostOf
  Bonus = 1
  MaxMonths = 2
  Publishers = {p1, p2}
  MaxFrames = 2
  MaxChanges = 3
  Foci = {"members"}
SPECIFICATION MCSpec
INVARIANT AlwaysAnOwner
CHECK_DEADLOCK FALSE

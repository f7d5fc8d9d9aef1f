SPECIFICATION MCSpec
CONSTANTS
  g1 = g1
  g2 = g2
  h1 = h1
  h2 = h2
  x1 = x1
  r = r
  operator = operator
  None = None
  Funded = 2
  Credit = 2
  AccountIds = {g1, g2}
  HoldIds = {h1, h2}
  Units = {"SIM_COST_MICRO"}
  Requests = {r}
  Premium = {r}
  Fundings = {2}
  Bounds = {1}
  Charges = {2}
  Lifecycles = {"ACTIVE", "SUSPENDED"}
  Expiries = {1}
  Times = {0, 1}
  MAX_AMOUNT = 3
  BidIds = {1, 2}
  AuctionIds = {x1}
  Owners = {g1, g2, operator}
  Operator = operator
  Prices = {1, 2}
  Capacities = {1}
  Deadlines = {1}
  Issues = {1}
  TransferIds = {1}
  Transferred = {1}
SYMMETRY Symmetry
INVARIANTS CreditsConserved EscrowBacksBid CreditsFollowAuthority WithinCapacity
CHECK_DEADLOCK FALSE

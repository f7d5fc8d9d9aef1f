SPECIFICATION Spec
CONSTANTS
  a1 = a1
  a2 = a2
  a3 = a3
  h1 = h1
  h2 = h2
  r = r
  None = None
  AccountIds = {a1, a2, a3}
  HoldIds = {h1, h2}
  Units = {"SIM_COST_MICRO"}
  Requests = {r}
  Fundings = {3, 4}
  Bounds = {2}
  Charges = {1, 7}
  Lifecycles = {"ACTIVE", "SUSPENDED"}
  Expiries = {1, None}
  Times = {0, 1}
  MAX_AMOUNT = 7
SYMMETRY Symmetry
INVARIANTS TypeOK Consistent OverrunIsBreach EventsExplainHolds
PROPERTIES NoWorkAfterBreach ImplementsAuthority
CHECK_DEADLOCK FALSE

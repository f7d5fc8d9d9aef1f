SPECIFICATION EngineFairSpec
CONSTANTS
  None = None
  Run = Run
  Workflow = Workflow
  Treasury = Treasury
  Operator = Operator
  MAX_AMOUNT = 1000
  NTasks = 2
  NAgents = 3
  Mandatory = {2}
  Late = {}
  Deadline = 2
  Budget = 60
  Credits = 6
  Prices = {3, 7}
  Auctioned = TRUE
  PremiumCapacity = 1
  ConsultationCapacity = 1
  ReviewCapacity = 1
  Throttled = {}
  Outage = {0}
  RetryPressure = TRUE
  MaxCrashes = 1
INVARIANTS TracesMatchHolds ExecutedAtOneTick ScarcityHolds FinishedRunIsClosed
PROPERTIES RunFinishesIfRecorded
CHECK_DEADLOCK FALSE

SPECIFICATION ServingSpec
CONSTANTS
  c1 = c1
  c2 = c2
  c3 = c3
  agentA = agentA
  agentB = agentB
  None = None
  Nobody = Nobody
  Connections = {c1, c2, c3}
  Agents = {agentA, agentB}
  LIMIT = 2
  AGENT_LIMIT = 1
  MAX_AMOUNT = 2000
  a = a
  b = b
  one = one
  two = two
  Decidable = {"planning", "execution"}
  Agent = Agent
  Funded = 1204
  CASES = {one}
  MandatoryReview = {}
  StateAware = {one}
  RequestIds = {a, b}
  Workers = {w1, w2}
  DEADLINE_STEPS = 2
  CONSULTATIONS = 1
  MaxCrashes = 1
INVARIANT CountersMatch
PROPERTIES SlotsComeBack 
CHECK_DEADLOCK FALSE

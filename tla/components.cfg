SPECIFICATION SpecAll
SYMMETRY Symmetry
CONSTANTS
  Engines = {"mariadb", "postgres"}
  MaxCrashes = 1
  MaxReverts = 1
  None = None
  w1 = w1
  w2 = w2
  m1 = m1
  t1 = t1
  g1 = g1
  g2 = g2
  e1 = e1
  e2 = e2
  OfPeople <- MCPeople
  OfGovernance <- MCGovernance
  OfTimelines <- MCTimelines
  OfMessages <- MCMessages
  OfAccruals <- MCAccruals
  OfFees <- MCFees
  OfCodes <- MCCodes
  OfPlans <- MCPlans
  OfTickets <- MCTickets
CHECK_DEADLOCK FALSE
INVARIANTS
  TypeOK
  UpgradesComplete
  SchemaFitsEntities
  RolesInOrder
  TimelinesInOrder
  CostsShared
  CodesInOrder
  PlansInOrder
  TicketsInOrder
PROPERTIES
  ResidentsInOrder
  ElectionInForce
  MessagesInOrder

SPECIFICATION Spec
CONSTANTS
  Engines = {"mariadb"}
  MaxCrashes = 0
  MaxReverts = 0
CHECK_DEADLOCK FALSE
INVARIANTS SchemaServesEntities

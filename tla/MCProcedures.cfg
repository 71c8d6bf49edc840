CONSTANTS
  Schemas <- MCSchemas
  ShellPrograms <- MCShell
  AllowWalkingCancelation = FALSE
  Unusable = TRUE
  MaxSchemas = 2
  MaxShells = 1
  MaxPlans = 2
  MaxEvents = 4
SPECIFICATION ProceduresSpec
INVARIANTS ResultIsMeaning OnePlanAtATime ResultIsThere
PROPERTY SchemasEnd
CHECK_DEADLOCK FALSE

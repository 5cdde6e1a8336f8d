SPECIFICATION GatewaySpec
CONSTANTS
  None = None
  Procs = {"p", "q"}
  Paths = {"out", "state"}
  Reserved = {"state"}
  Keys = {"K"}
  MaxUpdates = 3
  MaxFailures = 1
  MaxCommands = 3
INVARIANTS AnsweredOnce NoTransit RoundTrip ProtectedWhileActive RulesMatchRecord ServiceOwnsState
PROPERTIES BackupKept
CHECK_DEADLOCK FALSE

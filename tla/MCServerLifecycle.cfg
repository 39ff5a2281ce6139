SPECIFICATION MetricsSpec
CONSTANTS
  MaxProcesses = 2
  KillMayFail = TRUE
  LateOutput = FALSE
  MaxReadings = 1
INVARIANTS
  LiveServerIsHeld
  RunningMeansReady
PROPERTIES
  CommandsEnd
  ImplementsContract
  StaleMetricsPass

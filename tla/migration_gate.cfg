SPECIFICATION MeantSpec
CONSTANTS
  Flows <- MCGated
  MaxTuples = 2
  EmitMax = 3
  Deadline = TRUE
  NoMessage = NoMessage
INVARIANT MigrationMeansTheSame
\* A run that has ended stops.
CHECK_DEADLOCK FALSE

\* Every run of every flow of the instance, with and without the deadline.
SPECIFICATION MeantSpec
CONSTANTS
  Flows <- MCFlows
  MaxTuples = 2
  EmitMax = 3
  Deadline = TRUE
  NoMessage = NoMessage
INVARIANTS RunsAsMeant
PROPERTIES KeepsThePromise
\* A run that has ended stops.
CHECK_DEADLOCK FALSE

SPECIFICATION GSpec
CONSTANTS
  opSplit = opSplit
  opStep = opStep
  opJoin = opJoin
  Operations = {opSplit, opStep, opJoin}
  Inputs <- MCInputs
  Outputs <- MCOutputs
  Values = {seven}
  Open = Open
  Most <- MCMost
  MaxFlows = 3
  MaxIds = 3
INVARIANTS TypeOK EveryInputOnce CallsInOrder ArgumentsInPlace
PROPERTIES ChangesAreExact IsWorkflow
CHECK_DEADLOCK FALSE

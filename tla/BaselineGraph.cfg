SPECIFICATION FairSpec
CONSTANTS
  N = 2
  Main = main
  Clients = {main}
  NoTask = NoTask
  Graphs <- ForkAndChain
  MaxNodes = 3
  Tasks <- ForkAndChainTasks
CHECK_DEADLOCK FALSE
INVARIANTS TypeOK GlobalAttended ExitedDrained PoolIdleMeansGraphDone
PROPERTIES IsExecutor ImplementsGraph PoolDrains GraphRuns

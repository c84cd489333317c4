SPECIFICATION FairSpec
CONSTANTS
  Sensors = {s1, s2}
  Consumer = consumer
  Main = main
  NoThread = NoThread
  QueueSize = 2
  BatchSize = 2
  Calls <- MCCalls
  MaxRows = 4
INVARIANTS TypeOK InOrder DurableBeforeDelivered Conserved
PROPERTIES ImplementsBus PublishReturns QueuedLeaves

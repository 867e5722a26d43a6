CONSTANTS
  Functors <- SplitFunctors
  Pred <- SplitPred
  Sinks <- SplitSinks
  Kind <- SplitKind
  Limit <- NoKeep
  Keep <- SplitKeep
  Aggregator <- SplitAggregator
  Sources <- SplitSources
  Number <- Numbers
SPECIFICATION FairPipelineSpec
INVARIANTS PipelineTypeOK NoValueLost NothingAbandoned
PROPERTIES ImplementsDelivery

CONSTANTS
  Functors <- SetFunctors
  Pred <- SetPred
  Sinks <- SetSinks
  Kind <- SetKind
  Limit <- NoKeep
  Keep <- SetKeep
  Aggregator <- NoKeep
  Sources <- SetSources
  Number <- Numbers
SPECIFICATION FairPipelineSpec
PROPERTIES ImplementsDelivery

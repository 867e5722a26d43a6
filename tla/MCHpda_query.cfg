CONSTANTS
  Functors <- QueryFunctorNames
  Pred <- QueryPred
  Sinks <- QuerySinks
  Kind <- QueryKind
  Limit <- QueryLimit
  Keep <- NoKeep
  Aggregator <- NoKeep
  Sources <- QuerySources
  Number <- QueryNumbers
SPECIFICATION FairPipelineSpec
INVARIANTS ForestInv DistancesAreTrue
PROPERTIES EndIsFinal ImplementsDelivery

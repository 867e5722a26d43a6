CONSTANTS
  Functors <- DiamondFunctors
  Pred <- DiamondPred
  Sinks <- DiamondSinks
  Kind <- DiamondKind
  Limit <- NoKeep
  Keep <- DiamondKeep
  Aggregator <- NoKeep
  Sources <- DiamondSources
  Number <- Numbers
SPECIFICATION PipelineSpec
INVARIANTS DeliversMeaning

SPECIFICATION Spec
CONSTANTS
    QueryVariables <- MCVariables
    BlankVariables <- MCBlanks
    ProductThreshold = 2
    Rank <- MCRank
    DefaultGraph <- MCDefault
    DpMaxPatterns = 3
    DistinctSampleCap = 2
    WalkAfter <- PathWalk
    ExpressionResult <- Evaluate
    RowsPassing <- AllPassing
    LeftJoined <- LeftJoin
    SelectSolutions <- ApplySelectPipeline
    GroupHasExists <- ContainsExists
    PipelineHasExists <- PipelineNeedsExists
    Queries <- MCQueries
    Stores <- MCStores
    Estimators <- MCEstimators
    Patterns <- MCPatterns
    Patches <- MCPatches
    MaxChanges = 1
INVARIANTS TypeOK GroupsMeanTheAlgebra PathsMeanTheirRelation ExistsMeansSubstitution ModifiersMeanTheAlgebra BlockSeesOneMoment JoinsLieBetweenMoments DescribesEachAtOneMoment PlanCostsAsClaimed
PROPERTIES CancelledReadsNoMore QueryEnds
CHECK_DEADLOCK FALSE

\* Every graph of up to four edges over three templates, weights on both sides of the bands.
SPECIFICATION BehaviorSpec
CONSTANTS
  TopNgramsSize = 2
  DominantPathMaxSteps = 2
  NgramSize = 2
  Templates <- MCTemplates
  Grams <- MCGrams
  Weights = {1, 2, 5, 10}
  MaxKeys = 4
INVARIANTS
  IterationOrderIsInvisible
  SurpriseMeansRare
  DominantPathIsGreedy
  TopNgramsAreTheTop

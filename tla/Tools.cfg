CONSTANT MaxSteps = 3
CHECK_DEADLOCK FALSE
SPECIFICATION FairSpec
INVARIANTS
  TInv
  NoUnapprovedEffect
  EffectsOnRecord
  RecoveryIsConservative
PROPERTIES
  DecisionsAreFinal
  LexiRunEnds

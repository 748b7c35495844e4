SPECIFICATION FairSpec
INVARIANTS
  TypeOK
  LayerAsAsked
  TruthSettled
  VerdictFitsComposition
  
  CallsSettled
PROPERTIES
  PageEnds

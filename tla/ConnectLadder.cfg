CONSTANTS
  s1 = s1
  s2 = s2
  Sources = {s1, s2}
  None = None
  Automatic = Automatic
  AuthCycleCap = 2
SYMMETRY SourceSymmetry
SPECIFICATION Spec
INVARIANTS
  NoRejectionNoHarm
PROPERTIES
  WipesHitTheProvenOwner
  SavedWipeIsFinal
  ImplementsBudget

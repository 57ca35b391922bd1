CONSTANTS
  e1 = e1
  e2 = e2
  w1 = w1
  w2 = w2
  link = link
  real = real
  Op = {e1, e2}
  Path = {real}
  Missing = Missing
  Torn = Torn
  None = None
  Kind <- KindMC
  Run <- RunMC
  Names <- ByName
  RealPath <- RealPathMC
SPECIFICATION Spec
INVARIANTS MutationsSerialized
CHECK_DEADLOCK FALSE

SPECIFICATION Spec
CONSTANTS
  k1 = k1
  k2 = k2
  k3 = k3
  c1 = c1
  c2 = c2
  Kinds = {k1, k2, k3}
  NoKind = NoKind
  KindConfigs <- MCKindConfigs
  Checks = {c1, c2}
  MaxStops = 1
SYMMETRY CheckSymmetry
INVARIANTS
  TypeOK
  DenialIsFinal
PROPERTIES
  RefusalJustified

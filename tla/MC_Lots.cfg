SPECIFICATION Spec
CONSTANTS
  o1 = o1
  o2 = o2
  Types <- TypesDistincts
  Ids = {1, 2, 3}
  Presents = {2, 3}
  Ops = {o1, o2}
  Pagination = 1
  BatchsDemandes = {0, 3}
  MaxLots = 2
  MaxJobs = 3
  MaxMouvements = 1
  MaxPannes = 1
INVARIANTS
  DoublonsExpliques
  OublisExpliques
  UneSeuleChaine
PROPERTIES
  LotTermine
CHECK_DEADLOCK FALSE

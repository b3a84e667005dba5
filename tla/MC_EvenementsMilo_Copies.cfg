SPECIFICATION Spec
CONSTANTS
  r1 = r1
  s1 = s1
  s2 = s2
  w1 = w1
  w2 = w2
  Absent = Absent
  Workers <- MCWorkers
  Rdvs = {r1}
  Sessions = {s1, s2}
  Refusees = {s1}
  Connus = {r1, s1, s2}
  Dates = {3, 9}
  DatesRecuperables = {3, 9}
  Motif <- PremierPrefixe
  Tentatives = 2
  MaxBatch = 2
  MaxEvenements = 2
  MaxPannes = 1
  MaxSimultanes = 0
INVARIANTS
  UneCopieParRdv
  CopieFidele
  
PROPERTY
  AcquitteApresPlanification
SYMMETRY SymetrieWorkers
CHECK_DEADLOCK FALSE

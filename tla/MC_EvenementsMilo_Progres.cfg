SPECIFICATION Spec
CONSTANTS
  r1 = r1
  s1 = s1
  s2 = s2
  w1 = w1
  w2 = w2
  Absent = Absent
  Workers <- MCWorkers
  Rdvs = {}
  Sessions = {s1}
  Refusees = {}
  Connus = {s1}
  Dates = {3}
  DatesRecuperables = {3}
  Motif <- SansPrefixe
  Tentatives = 2
  MaxBatch = 2
  MaxEvenements = 2
  MaxPannes = 1
  MaxSimultanes = 1
PROPERTY
  EvenementTraite
CHECK_DEADLOCK FALSE

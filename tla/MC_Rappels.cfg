SPECIFICATION Spec
CONSTANTS
  rdv1 = rdv1
  jeune1 = jeune1
  op1 = op1
  op2 = op2
  worker1 = worker1
  Absent = Absent
  Rdv <- MCRdv
  AC = {}
  Invitations = {}
  Jeunes = {jeune1}
  Dates <- MCDates
  Limites = {0}
  Ops <- MCOps
  Workers <- MCWorkers
  Horizon = 10
  MaxDemandes = 3
  MaxPannes = 1
  Retard = 1
SYMMETRY Symetrie
INVARIANTS
  AucunRappelPerdu
  AucunRappelPerime
  PasDeDoublon
PROPERTY AnnonceExacte
CHECK_DEADLOCK FALSE

SPECIFICATION Spec
CONSTANTS
  ac1 = ac1
  ac2 = ac2
  rdv1 = rdv1
  jeune1 = jeune1
  jeune2 = jeune2
  op1 = op1
  op2 = op2
  Absent = Absent
  Rdv <- MCRdv
  AC <- MCAC
  Invitations = {rdv1}
  Jeunes <- MCJeunes
  Dates <- MCDates
  Limites = {0, 1}
  Ops <- MCOps
  Workers = {}
  Horizon = 1
  MaxDemandes = 3
  MaxPannes = 1
  Retard = 1
SYMMETRY Symetrie
INVARIANTS
  LignesCoherentes
  SequenceIcsCroissante
PROPERTIES
  ClotureDefinitive
  ImplementeAgenda
CHECK_DEADLOCK FALSE

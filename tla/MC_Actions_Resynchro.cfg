SPECIFICATION Spec
CONSTANTS
  o1 = o1
  o2 = o2
  Inchange = Inchange
  Vide = Vide
  Actions = {1}
  Ops <- MCOps
  Creations <- MCCreations
  Modifications <- MCModifications
  Qualifications <- MCQualifications
  DernierJour = 2
  DelaiRappel = 1
  DelaiQualif = 1
  MaxBatch = 1
  MaxDemandes = 4
  MaxPannes = 1
CHECK_DEADLOCK FALSE
INVARIANT
  RappelsResynchronises

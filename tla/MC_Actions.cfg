SPECIFICATION Spec
CONSTANTS
  o1 = o1
  o2 = o2
  Inchange = Inchange
  Vide = Vide
  Actions = {1, 2}
  Ops <- MCOps
  Creations <- MCCreations
  Modifications <- MCModifications
  Qualifications <- MCQualifications
  DernierJour = 2
  DelaiRappel = 1
  DelaiQualif = 0
  MaxBatch = 1
  MaxDemandes = 4
  MaxPannes = 1
INVARIANTS
  TypeOK
  UneSeuleDeclaration
  DeclareesEnregistrees
PROPERTIES
  QualifieesIntouchables
  RappelTenu
  
CHECK_DEADLOCK FALSE

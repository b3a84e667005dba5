SPECIFICATION Spec
CONSTANTS
  j1 = j1
  j2 = j2
  o1 = o1
  o2 = o2
  Inchange = Inchange
  Absent = Absent
  Jeunes <- MCJeunes
  Ops <- MCOps
  Capacite = 1
  StatutsAvant = {"REFUS_JEUNE"}
  Reglages <- MCReglages
  MaxDemandes = 2
  MaxPannes = 1
INVARIANTS
  PlacesRespectees
  
PROPERTIES
  
  ClotureDefinitive
SYMMETRY Symetrie
CHECK_DEADLOCK FALSE

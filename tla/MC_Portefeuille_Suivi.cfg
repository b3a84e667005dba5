SPECIFICATION Spec
CONSTANTS
  c1 = c1
  c2 = c2
  c3 = c3
  j1 = j1
  j2 = j2
  a1 = a1
  a2 = a2
  g1 = g1
  g2 = g2
  l1 = l1
  o1 = o1
  o2 = o2
  Aucun = Aucun
  Absent = Absent
  Conseillers <- MCConseillers
  Agences <- MCAgences
  Ops <- MCOps
  Jeunes <- UnJeune
  AC = {a1}
  Listes = {}
  Commandes <- Mouvements
  MaxDemandes = 3
  MaxPannes = 1
  SuiviInitial <- ToutesAuPremier
  AgenceInitiale <- DeuxAgences
INVARIANTS
  TypeOK
  SuiviCoherent
  ComptesCoherents
  ArchiveConservee
PROPERTIES
  ImplementeSuivi
  AucunJeuneEfface
  EtablissementQuitte
SYMMETRY Symetrie
CHECK_DEADLOCK FALSE

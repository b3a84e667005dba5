SPECIFICATION Spec
CONSTANTS
  f1 = f1
  f2 = f2
  Absente = Absente
  Fichiers <- MCFichiers
  PiecesJeunes <- MCPiecesJeunes
  MaxEssais = 2
  MaxTeleverses = 1
  MaxJobs = 3
  MaxPannes = 1
INVARIANTS
  StockageFidele
  MessageFidele
  AnalyseSuivie
PROPERTIES
  VerdictRendu
CHECK_DEADLOCK FALSE

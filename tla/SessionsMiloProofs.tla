------------------------- MODULE SessionsMiloProofs -------------------------
(***************************************************************************)
(* What is proved of SessionsMilo for every value of its constants: places, *)
(* reminders and closure, from one invariant, Inv.  A command in flight     *)
(* that nothing overtakes knows Milo as it is, and what it has still to do  *)
(* says what Milo, Redis and the row will be.                               *)
(***************************************************************************)
EXTENDS SessionsMilo, FiniteSetTheorems, TLAPS

-----------------------------------------------------------------------------
(* What a command knows of itself                                           *)

Actif(op) == op.etape # "libre"
Ecrit(op) == op.etape \in {"desinscription", "modification", "inscription",
                           "sauvegarde"}
DuConseiller(op) == op.cmd \in {"modifier", "emarger"}

(* What each command does, and what it has still to do at each step.        *)
Demarche(op) ==
  /\ op.etape = "lecture" \/ op.aLire = {}
  /\ op.cmd = "autoinscrire" => op.etape \notin {"ligne", "desinscription",
                                                 "modification", "sauvegarde"}
  /\ op.cmd = "consulter" => ~Ecrit(op)
  /\ (op.cmd = "autoinscrire" /\ op.etape # "libre")
       => \E j \in Jeunes : op.souhaits[j] = "INSCRIT"
  /\ (op.cmd = "emarger" /\ op.etape # "libre")
       => \A j \in Jeunes : op.souhaits[j] # "DESINSCRIT"
  /\ (Ecrit(op) /\ DuConseiller(op)) => op.aSauver \in Ligne
  /\ op.etape # "desinscription" => op.supprimer = {}
  /\ op.etape \notin {"desinscription", "modification"} => ATraiter(op) = {}
  /\ op.etape \notin {"desinscription", "modification", "inscription"}
       => op.inscrire = {}
  /\ op.etape \notin {"inscription", "sauvegarde"} => op.inscrits = {}

(* Whom each command is about, and what it read of them.                    *)
Cibles(op) ==
  /\ \A j \in Jeunes :
       /\ j \in op.supprimer => op.lus[j] # Aucune /\ op.modifier[j] = "aucune"
       /\ op.modifier[j] # "aucune" => op.lus[j] # Aucune
       /\ j \in op.inscrits => op.lus[j] # Aucune
       /\ (DuConseiller(op) /\ j \in op.inscrire) => op.lus[j] = Aucune
       /\ op.cmd = "emarger" =>
            /\ j \notin op.supprimer /\ j \notin op.inscrire
            /\ op.modifier[j] # "INSCRIT"
       /\ op.cmd # "emarger" => op.modifier[j] # "PRESENT"

InvOps == \A o \in Ops : Demarche(ops[o]) /\ Cibles(ops[o])

-----------------------------------------------------------------------------
(* A command that nothing overtakes                                         *)

(* No other command, nor the closing job, goes on with it.                  *)
InvSeule ==
  /\ "session" \in perturbes => "rappels" \in perturbes
  /\ "session" \notin perturbes =>
       \A o \in Ops : Actif(ops[o]) =>
         /\ ~aClore
         /\ \A p \in Ops : Actif(ops[p]) => p = o
  /\ "rappels" \notin perturbes =>
       \A o \in Ops : (Actif(ops[o]) /\ ~Ecrit(ops[o])) => fond = {}

(* What it has read is still so when it decides.                            *)
LectureFidele(op) ==
  (Actif(op) /\ ~Ecrit(op)) =>
    /\ "inscrits" \notin op.aLire => op.lus = inscriptions
    /\ "places" \notin op.aLire => op.places = Capacite - Occupees
    /\ (op.etape = "calcul" /\ op.cmd # "autoinscrire") => op.lue = ligne

(* What it has still to change is as it was read.                           *)
CiblesFideles(op) ==
  Ecrit(op) =>
    \A j \in Jeunes :
      /\ (j \in op.supprimer \/ op.modifier[j] # "aucune" \/ j \in op.inscrits)
           => inscriptions[j].id = op.lus[j].id
      /\ j \in op.inscrits => inscriptions[j].statut = "INSCRIT"

(* The row about to be saved closes the session only if it was closed, or   *)
(* after attendance was marked for everybody.                               *)
ClotureFidele(op) ==
  (Ecrit(op) /\ DuConseiller(op)) =>
    /\ op.cmd = "modifier" => (op.aSauver.close <=> Reglee(ligne).close)
    /\ op.cmd = "emarger" =>
         /\ op.aSauver.close
         /\ \A j \in Jeunes : inscriptions[j].statut = "INSCRIT" =>
              op.modifier[j] # "aucune" \/ op.souhaits[j] = "REFUS_JEUNE"

Session(op) == LectureFidele(op) /\ CiblesFideles(op) /\ ClotureFidele(op)

InvSession ==
  "session" \notin perturbes =>
    /\ aClore => Ayant(inscriptions, {"INSCRIT"}) = {}
    /\ \A o \in Ops : Session(ops[o])

-----------------------------------------------------------------------------
(* Places                                                                   *)

(* Who has a place once these changes are made, and once the command has    *)
(* done all that it has to do                                               *)
Placees(supprimer, modifier, inscrire) ==
  {j \in Jeunes :
     \/ /\ inscriptions[j].statut \in {"INSCRIT", "PRESENT"}
        /\ j \notin supprimer
        /\ modifier[j] = "aucune"
     \/ modifier[j] = "INSCRIT"
     \/ j \in inscrire}
Finale(op) == Placees(op.supprimer, op.modifier, op.inscrire)

Places(op) ==
  (Ecrit(op) /\ op.cmd # "emarger") => Cardinality(Finale(op)) <= Capacite

InvPlaces ==
  {"session", "places"} \cap perturbes = {} =>
    /\ Occupees <= Capacite
    /\ \A o \in Ops : Places(ops[o])

-----------------------------------------------------------------------------
(* Reminders                                                                *)

EnFond(op, j, i) == \E a \in fond : a.op = op /\ a.jeune = j /\ a.id = i

(* There will be a reminder once the calls in hand are done.                *)
Futur(j, i) ==
  \/ <<j, i>> \in rappels /\ ~EnFond("retirer", j, i)
  \/ EnFond("planifier", j, i)

(* The reminder there should be, from what the command has asked for: it    *)
(* asks before Milo has changed, except for those newly registered.         *)
Attendu(op, j) ==
  IF op.etape = "modification" /\ op.modifier[j] # "aucune"
    THEN op.modifier[j] = "INSCRIT"
    ELSE /\ inscriptions[j].statut = "INSCRIT"
         /\ op.etape = "desinscription" => j \notin op.supprimer
         /\ op.etape = "inscription" => j \notin op.inscrits

(* The calls in hand are not about those whom it is still to call for.      *)
AppelsPasses(op) ==
  (Ecrit(op) /\ op.etape # "sauvegarde") =>
    \A a \in fond :
      /\ a.jeune \notin op.inscrire \cup op.inscrits
      /\ op.etape = "desinscription" => op.modifier[a.jeune] = "aucune"

(* The reminders to come are those there should be, and no two calls in     *)
(* hand are about the same reminder.                                        *)
Rappels(op) ==
  /\ AppelsPasses(op)
  /\ \A j \in Jeunes, i \in Nat :
       /\ ~(EnFond("planifier", j, i) /\ EnFond("retirer", j, i))
       /\ Futur(j, i) <=> i = inscriptions[j].id /\ Attendu(op, j)

InvRappels ==
  ("rappels" \notin perturbes /\ ~passee) =>
    /\ \A o \in Ops : Actif(ops[o]) => Rappels(ops[o])
    /\ (\A o \in Ops : ~Actif(ops[o])) => Rappels(Libre)

Inv == TypeOK /\ InvOps /\ InvSeule /\ InvSession /\ InvPlaces /\ InvRappels

-----------------------------------------------------------------------------
(* Types                                                                    *)

LEMMA LibreType ==
  /\ Libre \in Operation
  /\ ~Actif(Libre) /\ ~Ecrit(Libre) /\ Demarche(Libre) /\ Cibles(Libre)
<1>1. Libre \in Operation
  <2>1. <<Inchange, Inchange>> \in Choix \X Choix
    BY DEF Choix
  <2>2. [j \in Jeunes |-> NonDemande] \in [Jeunes -> Souhaits]
    BY DEF Souhaits
  <2>3. [j \in Jeunes |-> Aucune] \in [Jeunes -> Inscription]
    BY DEF Inscription
  <2>4. [j \in Jeunes |-> "aucune"] \in [Jeunes -> Statuts \cup {"aucune"}]
    OBVIOUS
  <2> QED BY <2>1, <2>2, <2>3, <2>4 DEF Libre, Operation, Etapes, Commandes
<1>2. ~Actif(Libre) /\ ~Ecrit(Libre)
  BY DEF Libre, Actif, Ecrit
<1>3. Demarche(Libre)
  BY <1>2 DEF Libre, Demarche, ATraiter
<1>4. Cibles(Libre)
  BY DEF Libre, Cibles
<1> QED BY <1>1, <1>2, <1>3, <1>4

LEMMA InscriptionType ==
  ASSUME NEW x \in Inscription
  PROVE  /\ x.id \in Nat
         /\ x # Aucune => x.statut \in Statuts /\ x.id \in Nat \ {0}
         /\ x = Aucune <=> x.statut = "aucune"
         /\ x = Aucune <=> x.id = 0
<1>1. "aucune" \notin Statuts
  BY DEF Statuts
<1>2. CASE x = Aucune
  BY <1>1, <1>2 DEF Aucune
<1>3. CASE x \in [statut : Statuts, id : Nat \ {0}]
  BY <1>1, <1>3 DEF Aucune
<1> QED BY <1>2, <1>3 DEF Inscription

-----------------------------------------------------------------------------
(* The steps of one command                                                 *)

(* A step of a command leaves the others alone: what is said of them when   *)
(* nothing overtakes it is that they are idle.                              *)
LEMMA Local ==
  ASSUME Inv, NEW o \in Ops, Actif(ops[o]),
         \A p \in Ops : p # o => ops'[p] = ops[p],
         perturbes \subseteq perturbes',
         perturbes' # perturbes => "session" \notin perturbes' \/ "session" \in perturbes,
         aClore' = aClore \/ ~Actif(ops'[o]),
         Demarche(ops[o])', Cibles(ops[o])',
         (Actif(ops'[o]) /\ ~Ecrit(ops'[o])) =>
           Actif(ops[o]) /\ ~Ecrit(ops[o]) /\ fond' = fond,
         "session" \notin perturbes' =>
           /\ aClore' => Ayant(inscriptions', {"INSCRIT"}) = {}
           /\ Session(ops[o])',
         {"session", "places"} \cap perturbes' = {} =>
           Occupees' <= Capacite /\ Places(ops[o])',
         ("rappels" \notin perturbes' /\ ~passee') => Rappels(ops[o])'
  PROVE  InvOps' /\ InvSeule' /\ InvSession' /\ InvPlaces' /\ InvRappels'
<1>1. InvOps'
  BY DEF Inv, InvOps, Demarche, Cibles, ATraiter, DuConseiller, Ecrit
<1>2. InvSeule'
  BY DEF Inv, InvSeule, Actif, Ecrit
<1>3. ASSUME "session" \notin perturbes', NEW p \in Ops, p # o
      PROVE  ~Actif(ops'[p]) /\ ~Ecrit(ops'[p])
  BY <1>3 DEF Inv, InvSeule, Actif, Ecrit
<1>4. InvSession'
  <2>1. ASSUME "session" \notin perturbes', NEW p \in Ops, p # o
        PROVE  Session(ops[p])'
    BY <1>3, <2>1 DEF Session, LectureFidele, CiblesFideles, ClotureFidele,
                      Actif, Ecrit
  <2> QED BY <2>1 DEF InvSession
<1>5. InvPlaces'
  <2>1. ASSUME "session" \notin perturbes', NEW p \in Ops, p # o
        PROVE  Places(ops[p])'
    BY <1>3, <2>1 DEF Places, Ecrit
  <2> QED BY <2>1 DEF InvPlaces
<1>6. InvRappels'
  <2> SUFFICES ASSUME "rappels" \notin perturbes', ~passee'
               PROVE  /\ \A p \in Ops : Actif(ops'[p]) => Rappels(ops[p])'
                      /\ (\A p \in Ops : ~Actif(ops'[p])) => Rappels(Libre)'
    BY DEF InvRappels, Actif
  <2>1. "session" \notin perturbes'
    BY <1>2 DEF InvSeule
  <2>2. \A p \in Ops : Actif(ops'[p]) => Rappels(ops[p])'
    BY <1>3, <2>1
  <2>3. ~Actif(ops'[o]) => Rappels(Libre)'
    BY LibreType DEF Rappels, AppelsPasses, Attendu, Libre, Actif, Ecrit
  <2> QED BY <2>2, <2>3
<1> QED BY <1>1, <1>2, <1>4, <1>5, <1>6

-----------------------------------------------------------------------------
(* Reading                                                                  *)

LEMMA OperationType ==
  ASSUME TypeOK, NEW o \in Ops
  PROVE  /\ ops[o] \in Operation
         /\ ops[o].lus \in [Jeunes -> Inscription]
         /\ ops[o].modifier \in [Jeunes -> Statuts \cup {"aucune"}]
         /\ ops[o].souhaits \in [Jeunes -> Souhaits]
         /\ ops[o].supprimer \subseteq Jeunes /\ ops[o].inscrire \subseteq Jeunes
         /\ ops[o].inscrits \subseteq Jeunes
         /\ ops[o].places \in Int
         /\ ops[o].lue \in Ligne \cup {Absent}
         /\ ops[o].aSauver \in Ligne \cup {Absent}
BY DEF TypeOK, Operation

LEMMA OccupeesType ==
  ASSUME NEW S \in SUBSET Jeunes
  PROVE  IsFiniteSet(S) /\ Cardinality(S) \in Nat
BY ConstantsAssumption, FS_Subset, FS_CardinalityType

LEMMA PasLireMilo ==
  ASSUME Inv, NEW o \in Ops, NEW quoi \in {"places", "inscrits"}, LireMilo(o, quoi)
  PROVE  Inv'
<1>1. /\ ops[o] \in Operation /\ ops[o].etape = "lecture"
      /\ TypeOK /\ InvOps /\ Actif(ops[o]) /\ ~Ecrit(ops[o])
  BY OperationType DEF Inv, LireMilo, Actif, Ecrit
<1>2. Occupees \in Nat /\ Capacite - Occupees \in Int
  BY OccupeesType, ConstantsAssumption DEF Occupees, Ayant
<1> DEFINE places == IF quoi = "places" THEN Capacite - Occupees ELSE ops[o].places
           lus == IF quoi = "inscrits" THEN inscriptions ELSE ops[o].lus
           reste == ops[o].aLire \ {quoi}
           etape == IF reste # {} THEN "lecture"
                    ELSE IF ops[o].cmd = "autoinscrire" THEN "calcul" ELSE "ligne"
           op == [ops[o] EXCEPT !.places = places, !.lus = lus, !.aLire = reste,
                                !.etape = etape]
<1>3. ops' = [ops EXCEPT ![o] = op]
  BY <1>1 DEF LireMilo, TypeOK
<1>4. /\ places \in Int /\ lus \in [Jeunes -> Inscription]
      /\ reste \in SUBSET {"places", "inscrits"} /\ etape \in Etapes
  BY <1>1, <1>2, OperationType DEF TypeOK, Operation, Etapes
<1> HIDE DEF places, lus, reste, etape
<1>5. /\ op \in Operation
      /\ op.cmd = ops[o].cmd /\ op.souhaits = ops[o].souhaits
      /\ op.aLire = reste /\ op.places = places /\ op.lus = lus
      /\ op.aSauver = ops[o].aSauver /\ op.supprimer = ops[o].supprimer
      /\ op.modifier = ops[o].modifier /\ op.inscrire = ops[o].inscrire
      /\ op.inscrits = ops[o].inscrits /\ op.etape = etape
  BY <1>1, <1>4 DEF Operation
<1> HIDE DEF op
<1>6. /\ ops' \in [Ops -> Operation] /\ ops'[o] = op
      /\ \A p \in Ops : p # o => ops'[p] = ops[p]
  BY <1>1, <1>3, <1>5 DEF TypeOK
<1>7. UNCHANGED <<inscriptions, instances, passee, ligne, aClore, rappels, fond,
                  demandes, pannes, perturbes>>
  BY DEF LireMilo
<1>8. TypeOK'
  BY <1>1, <1>6, <1>7 DEF TypeOK
<1>9. /\ etape \in {"lecture", "ligne", "calcul"} /\ Actif(op) /\ ~Ecrit(op)
      /\ etape # "lecture" => reste = {}
      /\ etape = "calcul" => ops[o].cmd = "autoinscrire"
      /\ etape = "ligne" => ops[o].cmd # "autoinscrire"
  BY <1>5 DEF etape, Actif, Ecrit
<1>10. Demarche(op) /\ Cibles(op)
  BY <1>1, <1>5, <1>9 DEF InvOps, Demarche, Cibles, DuConseiller, ATraiter, Ecrit
<1>11. ASSUME "session" \notin perturbes'
       PROVE  /\ ~aClore'
              /\ Session(ops[o])'
  <2>1. ~aClore /\ Session(ops[o])
    BY <1>1, <1>7, <1>11 DEF Inv, InvSeule, InvSession
  <2>2. Occupees' = Occupees
    BY <1>7 DEF Occupees, Ayant
  <2>3. LectureFidele(ops[o])'
    BY <1>1, <1>5, <1>6, <1>7, <1>9, <2>1, <2>2
       DEF Session, LectureFidele, lus, places, reste
  <2>4. CiblesFideles(ops[o])' /\ ClotureFidele(ops[o])'
    BY <1>6, <1>9 DEF CiblesFideles, ClotureFidele
  <2> QED BY <1>7, <2>1, <2>3, <2>4 DEF Session
<1>12. ASSUME {"session", "places"} \cap perturbes' = {}
       PROVE  Occupees' <= Capacite /\ Places(ops[o])'
  BY <1>6, <1>7, <1>9, <1>12 DEF Inv, InvPlaces, Places, Occupees, Ayant
<1>13. ASSUME "rappels" \notin perturbes', ~passee'
       PROVE  Rappels(ops[o])'
  <2>1. Rappels(ops[o])
    BY <1>1, <1>7, <1>13 DEF Inv, InvRappels
  <2>2. \A j \in Jeunes : Attendu(ops[o], j)' <=> Attendu(ops[o], j)
    BY <1>1, <1>6, <1>7, <1>9 DEF Attendu, Ecrit
  <2> QED BY <1>6, <1>7, <1>9, <2>1, <2>2 DEF Rappels, AppelsPasses, EnFond, Futur
<1> QED
  <2>1. InvOps' /\ InvSeule' /\ InvSession' /\ InvPlaces' /\ InvRappels'
    BY <1>1, <1>6, <1>7, <1>9, <1>10, <1>11, <1>12, <1>13, Local
  <2> QED BY <1>8, <2>1 DEF Inv

LEMMA PasLireLigne ==
  ASSUME Inv, NEW o \in Ops, LireLigne(o)
  PROVE  Inv'
<1>1. /\ ops[o] \in Operation /\ ops[o].etape = "ligne"
      /\ TypeOK /\ InvOps /\ Actif(ops[o]) /\ ~Ecrit(ops[o])
      /\ Demarche(ops[o]) /\ Cibles(ops[o])
  BY OperationType DEF Inv, InvOps, LireLigne, Actif, Ecrit
<1> DEFINE op == [ops[o] EXCEPT !.lue = ligne, !.etape = "calcul"]
<1>2. ops' = [ops EXCEPT ![o] = op]
  BY <1>1 DEF LireLigne, TypeOK
<1>3. /\ op \in Operation
      /\ op.cmd = ops[o].cmd /\ op.souhaits = ops[o].souhaits
      /\ op.aLire = ops[o].aLire /\ op.places = ops[o].places
      /\ op.lus = ops[o].lus /\ op.lue = ligne
      /\ op.aSauver = ops[o].aSauver /\ op.supprimer = ops[o].supprimer
      /\ op.modifier = ops[o].modifier /\ op.inscrire = ops[o].inscrire
      /\ op.inscrits = ops[o].inscrits /\ op.etape = "calcul"
  BY <1>1 DEF Operation, Etapes, TypeOK
<1> HIDE DEF op
<1>4. /\ ops' \in [Ops -> Operation] /\ ops'[o] = op
      /\ \A p \in Ops : p # o => ops'[p] = ops[p]
  BY <1>1, <1>2, <1>3 DEF TypeOK
<1>5. UNCHANGED <<inscriptions, instances, passee, ligne, aClore, rappels, fond,
                  demandes, pannes, perturbes>>
  BY DEF LireLigne
<1>6. TypeOK'
  BY <1>1, <1>4, <1>5 DEF TypeOK
<1>7. Actif(op) /\ ~Ecrit(op)
  BY <1>3 DEF Actif, Ecrit
<1>8. Demarche(op) /\ Cibles(op)
  BY <1>1, <1>3, <1>7 DEF Demarche, Cibles, DuConseiller, ATraiter
<1>9. ASSUME "session" \notin perturbes'
      PROVE  ~aClore' /\ Session(ops[o])'
  <2>1. ~aClore /\ Session(ops[o])
    BY <1>1, <1>5, <1>9 DEF Inv, InvSeule, InvSession
  <2>2. Occupees' = Occupees
    BY <1>5 DEF Occupees, Ayant
  <2>3. LectureFidele(ops[o])'
    BY <1>1, <1>3, <1>4, <1>5, <2>1, <2>2 DEF Session, LectureFidele
  <2>4. CiblesFideles(ops[o])' /\ ClotureFidele(ops[o])'
    BY <1>4, <1>7 DEF CiblesFideles, ClotureFidele
  <2> QED BY <1>5, <2>1, <2>3, <2>4 DEF Session
<1>10. ASSUME {"session", "places"} \cap perturbes' = {}
       PROVE  Occupees' <= Capacite /\ Places(ops[o])'
  BY <1>4, <1>5, <1>7, <1>10 DEF Inv, InvPlaces, Places, Occupees, Ayant
<1>11. ASSUME "rappels" \notin perturbes', ~passee'
       PROVE  Rappels(ops[o])'
  <2>1. Rappels(ops[o])
    BY <1>1, <1>5, <1>11 DEF Inv, InvRappels
  <2>2. \A j \in Jeunes : Attendu(ops[o], j)' <=> Attendu(ops[o], j)
    BY <1>1, <1>3, <1>4, <1>5 DEF Attendu
  <2> QED BY <1>4, <1>5, <1>7, <2>1, <2>2 DEF Rappels, AppelsPasses, EnFond, Futur
<1> QED
  <2>1. InvOps' /\ InvSeule' /\ InvSession' /\ InvPlaces' /\ InvRappels'
    BY <1>1, <1>4, <1>5, <1>7, <1>8, <1>9, <1>10, <1>11, Local
  <2> QED BY <1>6, <2>1 DEF Inv

-----------------------------------------------------------------------------
(* The end of a command, whatever its reason                                *)

LEMMA Liberation ==
  ASSUME Inv, NEW o \in Ops, Actif(ops[o]),
         ops' = [ops EXCEPT ![o] = Libre],
         UNCHANGED <<inscriptions, instances, passee, rappels, fond, demandes>>,
         ligne' \in Ligne \cup {Absent}, aClore' \in BOOLEAN, pannes' \in Nat,
         perturbes' \in {perturbes, perturbes \cup {"rappels"}},
         (Ecrit(ops[o]) /\ ops[o].etape # "sauvegarde") => "rappels" \in perturbes',
         (aClore' /\ "session" \notin perturbes) =>
           Ayant(inscriptions, {"INSCRIT"}) = {}
  PROVE  Inv'
<1>1. TypeOK /\ Demarche(ops[o])
  BY DEF Inv, InvOps
<1>2. /\ ops' \in [Ops -> Operation] /\ ops'[o] = Libre
      /\ \A p \in Ops : p # o => ops'[p] = ops[p]
  BY <1>1, LibreType DEF TypeOK
<1>3. TypeOK'
  BY <1>1, <1>2 DEF TypeOK
<1>4. "session" \in perturbes' <=> "session" \in perturbes
  OBVIOUS
<1>5. Session(ops[o])' /\ Places(ops[o])'
  BY <1>2, LibreType DEF Session, LectureFidele, CiblesFideles, ClotureFidele,
                         Places
<1>6. ASSUME {"session", "places"} \cap perturbes' = {}
      PROVE  Occupees' <= Capacite
  BY <1>6 DEF Inv, InvPlaces, Occupees, Ayant
<1>7. ASSUME "rappels" \notin perturbes', ~passee'
      PROVE  Rappels(ops[o])'
  <2>1. Rappels(ops[o]) /\ (Ecrit(ops[o]) => ops[o].etape = "sauvegarde")
    BY <1>7 DEF Inv, InvRappels
  <2>2. Libre.etape = "libre"
    BY DEF Libre
  <2>3. \A j \in Jeunes : Attendu(ops[o], j)' <=> Attendu(ops[o], j)
    BY <1>2, <2>1, <2>2 DEF Attendu, Ecrit
  <2>4. AppelsPasses(ops[o])'
    BY <1>2, LibreType DEF AppelsPasses
  <2> QED BY <2>1, <2>3, <2>4 DEF Rappels, EnFond, Futur
<1>8. aClore' => aClore \/ ~Actif(ops'[o])
  BY <1>2, LibreType
<1>9. (aClore' /\ "session" \notin perturbes') => Ayant(inscriptions', {"INSCRIT"}) = {}
  BY <1>4 DEF Ayant
<1> QED
  <2>1. InvOps' /\ InvSeule' /\ InvSession' /\ InvPlaces' /\ InvRappels'
    BY <1>1, <1>2, <1>4, <1>5, <1>6, <1>7, <1>8, <1>9, LibreType, Local
  <2> QED BY <1>3, <2>1 DEF Inv

LEMMA PasConsulter ==
  ASSUME Inv, NEW o \in Ops, Consulter(o)
  PROVE  Inv'
<1>1. /\ TypeOK /\ Demarche(ops[o]) /\ ops[o].etape = "calcul"
      /\ Actif(ops[o]) /\ ~Ecrit(ops[o])
  BY DEF Inv, InvOps, Consulter, Actif, Ecrit
<1>2. ASSUME aClore', "session" \notin perturbes
      PROVE  Ayant(inscriptions, {"INSCRIT"}) = {}
  <2>1. ~aClore /\ ops[o].lus = inscriptions
    BY <1>1, <1>2 DEF Inv, InvSeule, InvSession, Session, LectureFidele, Demarche
  <2>2. EmargeeMaisPasClose(ops[o])
    BY <1>2, <2>1 DEF Consulter
  <2> QED BY <2>1, <2>2 DEF EmargeeMaisPasClose
<1>3. aClore' \in BOOLEAN
  <2>1. aClore' = (aClore \/ EmargeeMaisPasClose(ops[o]))
    BY DEF Consulter
  <2>2. CASE aClore \/ EmargeeMaisPasClose(ops[o])
    BY <2>1, <2>2
  <2>3. CASE ~(aClore \/ EmargeeMaisPasClose(ops[o]))
    BY <2>1, <2>3
  <2> QED BY <2>2, <2>3
<1>4. /\ ops' = [ops EXCEPT ![o] = Libre]
      /\ UNCHANGED <<inscriptions, instances, passee, ligne, rappels, fond,
                     demandes, pannes, perturbes>>
  BY DEF Consulter
<1> QED BY <1>1, <1>2, <1>3, <1>4, Liberation DEF TypeOK

LEMMA PasSauverLigne ==
  ASSUME Inv, NEW o \in Ops, SauverLigne(o)
  PROVE  Inv'
<1>1. /\ TypeOK /\ ops[o].etape = "sauvegarde" /\ Actif(ops[o])
      /\ ops[o].aSauver \in Ligne \cup {Absent}
  BY OperationType DEF Inv, SauverLigne, Actif
<1>2. (aClore /\ "session" \notin perturbes) => Ayant(inscriptions, {"INSCRIT"}) = {}
  BY DEF Inv, InvSession
<1> QED BY <1>1, <1>2, Liberation DEF SauverLigne, Enregistrer, TypeOK

LEMMA PasEchec ==
  ASSUME Inv, NEW o \in Ops, Echec(o)
  PROVE  Inv'
<1>1. TypeOK /\ Actif(ops[o]) /\ pannes \in Nat
  BY DEF Inv, Echec, Actif, TypeOK
<1>2. (aClore /\ "session" \notin perturbes) => Ayant(inscriptions, {"INSCRIT"}) = {}
  BY DEF Inv, InvSession
<1>3. /\ ops' = [ops EXCEPT ![o] = Libre]
      /\ UNCHANGED <<inscriptions, instances, passee, ligne, aClore, rappels,
                     fond, demandes>>
  BY DEF Echec
<1>4. pannes' \in Nat
  <2>1. pannes' = pannes \/ pannes' = pannes + 1
    BY DEF Echec
  <2> QED BY <1>1, <2>1
<1>5. perturbes' = IF ops[o].etape \in {"desinscription", "modification", "inscription"}
                     THEN perturbes \cup {"rappels"} ELSE perturbes
  BY DEF Echec
<1>6. /\ perturbes' \in {perturbes, perturbes \cup {"rappels"}}
      /\ (Ecrit(ops[o]) /\ ops[o].etape # "sauvegarde") => "rappels" \in perturbes'
  BY <1>5 DEF Ecrit
<1>7. ligne' \in Ligne \cup {Absent} /\ aClore' \in BOOLEAN
  BY <1>1, <1>3 DEF TypeOK
<1> QED BY <1>1, <1>2, <1>3, <1>4, <1>6, <1>7, Liberation

LEMMA PasRefuser ==
  ASSUME Inv, NEW o \in Ops, ops[o].etape = "calcul", Refuser(o),
         UNCHANGED <<inscriptions, instances, passee, ligne, aClore, rappels,
                     demandes, pannes, perturbes>>
  PROVE  Inv'
<1>1. TypeOK /\ Actif(ops[o]) /\ ~Ecrit(ops[o])
  BY DEF Inv, Actif, Ecrit
<1>2. (aClore /\ "session" \notin perturbes) => Ayant(inscriptions, {"INSCRIT"}) = {}
  BY DEF Inv, InvSession
<1> QED BY <1>1, <1>2, Liberation DEF Refuser, TypeOK

-----------------------------------------------------------------------------
(* The changes at Milo                                                      *)

LEMMA AppelsType ==
  ASSUME NEW op \in {"planifier", "retirer"}, NEW js \in SUBSET Jeunes,
         NEW lus \in [Jeunes -> Inscription], \A j \in js : lus[j] # Aucune
  PROVE  Appels(op, js, lus) \subseteq Appel
<1>1. \A j \in js : lus[j].id \in Nat \ {0}
  BY InscriptionType
<1> QED BY <1>1 DEF Appels, Appel

LEMMA DansAppels ==
  ASSUME NEW op, NEW js, NEW lus
  PROVE  /\ \A a \in Appels(op, js, lus) :
              a.op = op /\ a.jeune \in js /\ a.id = lus[a.jeune].id
         /\ \A j \in js : \E a \in Appels(op, js, lus) :
              a.op = op /\ a.jeune = j /\ a.id = lus[j].id
<1>1. \A a \in Appels(op, js, lus) :
        a.op = op /\ a.jeune \in js /\ a.id = lus[a.jeune].id
  BY DEF Appels
<1>2. ASSUME NEW j \in js
      PROVE  \E a \in Appels(op, js, lus) :
               a.op = op /\ a.jeune = j /\ a.id = lus[j].id
  <2>1. [op |-> op, jeune |-> j, id |-> lus[j].id] \in Appels(op, js, lus)
    BY DEF Appels
  <2> QED BY <2>1
<1> QED BY <1>1, <1>2

LEMMA AjoutAppels ==
  ASSUME NEW op, NEW js, NEW lus,
         fond' = fond \cup Appels(op, js, lus)
  PROVE  /\ \A quoi, j, i : EnFond(quoi, j, i)' <=>
              EnFond(quoi, j, i) \/ (quoi = op /\ j \in js /\ i = lus[j].id)
         /\ \A a \in fond' : a \in fond \/ (a.jeune \in js /\ a.op = op)
BY DansAppels DEF EnFond

(* A decision that Cibles, ClotureFidele and the places allow               *)
Justifiee(op, supprimer, modifier, inscrire, aSauver) ==
  /\ \A j \in Jeunes :
       /\ j \in supprimer => op.lus[j] # Aucune /\ modifier[j] = "aucune"
       /\ modifier[j] # "aucune" => op.lus[j] # Aucune
       /\ j \in inscrire => op.lus[j] = Aucune
       /\ op.cmd = "emarger" =>
            /\ j \notin supprimer /\ j \notin inscrire
            /\ modifier[j] # "INSCRIT"
            /\ op.lus[j].statut = "INSCRIT" =>
                 modifier[j] # "aucune" \/ op.souhaits[j] = "REFUS_JEUNE"
       /\ op.cmd = "modifier" => modifier[j] # "PRESENT"
  /\ op.cmd = "modifier" =>
       /\ "session" \notin perturbes => (aSauver.close <=> Reglee(ligne).close)
       /\ {"session", "places"} \cap perturbes = {} =>
            Cardinality(Placees(supprimer, modifier, inscrire)) <= Capacite
  /\ op.cmd = "emarger" => aSauver.close

LEMMA PasSauver ==
  ASSUME Inv, NEW o \in Ops, ops[o].etape = "calcul", DuConseiller(ops[o]),
         NEW supprimer \in SUBSET Jeunes, NEW inscrire \in SUBSET Jeunes,
         NEW modifier \in [Jeunes -> Statuts \cup {"aucune"}],
         NEW aSauver \in Ligne,
         Sauver(o, supprimer, modifier, inscrire, aSauver),
         UNCHANGED <<inscriptions, instances, passee, ligne, aClore, rappels,
                     demandes, pannes, perturbes>>,
         Justifiee(ops[o], supprimer, modifier, inscrire, aSauver)
  PROVE  Inv'
<1>1. /\ ops[o] \in Operation /\ TypeOK /\ Actif(ops[o]) /\ ~Ecrit(ops[o])
      /\ Demarche(ops[o]) /\ Cibles(ops[o])
      /\ ops[o].lus \in [Jeunes -> Inscription] /\ ops[o].aLire = {}
  BY OperationType DEF Inv, InvOps, Actif, Ecrit, Demarche
<1> DEFINE op == [ops[o] EXCEPT !.etape = "desinscription",
                                !.supprimer = supprimer, !.modifier = modifier,
                                !.inscrire = inscrire, !.aSauver = aSauver]
<1>2. ops' = [ops EXCEPT ![o] = op]
  BY <1>1 DEF Sauver, TypeOK
<1>3. /\ op \in Operation
      /\ op.cmd = ops[o].cmd /\ op.souhaits = ops[o].souhaits
      /\ op.aLire = {} /\ op.lus = ops[o].lus
      /\ op.aSauver = aSauver /\ op.supprimer = supprimer
      /\ op.modifier = modifier /\ op.inscrire = inscrire
      /\ op.inscrits = ops[o].inscrits /\ op.etape = "desinscription"
  BY <1>1 DEF Operation, Etapes
<1> HIDE DEF op
<1>4. /\ ops' \in [Ops -> Operation] /\ ops'[o] = op
      /\ \A p \in Ops : p # o => ops'[p] = ops[p]
  BY <1>1, <1>2, <1>3 DEF TypeOK
<1>5. fond' = fond \cup Appels("retirer", supprimer, ops[o].lus)
  BY DEF Sauver
<1>6. TypeOK'
  <2>1. fond' \subseteq Appel
    BY <1>1, <1>5, AppelsType DEF TypeOK, Justifiee
  <2> QED BY <1>1, <1>4, <2>1 DEF TypeOK
<1>7. Actif(op) /\ Ecrit(op) /\ op.inscrits = {}
  BY <1>1, <1>3 DEF Actif, Ecrit, Demarche
<1>8. Demarche(op) /\ Cibles(op)
  BY <1>1, <1>3, <1>7 DEF Demarche, Cibles, DuConseiller, ATraiter, Justifiee
<1>9. ASSUME "session" \notin perturbes'
      PROVE  ~aClore' /\ Session(ops[o])'
  <2>1. ~aClore /\ ops[o].lus = inscriptions
    BY <1>1, <1>9 DEF Inv, InvSeule, InvSession, Session, LectureFidele
  <2>2. LectureFidele(ops[o])'
    BY <1>4, <1>7 DEF LectureFidele
  <2>3. CiblesFideles(ops[o])'
    BY <1>3, <1>4, <1>7, <2>1 DEF CiblesFideles, Justifiee
  <2>4. ClotureFidele(ops[o])'
    BY <1>3, <1>4, <1>9, <2>1 DEF ClotureFidele, Reglee, SansLigne, Justifiee
  <2> QED BY <2>1, <2>2, <2>3, <2>4 DEF Session
<1>10. ASSUME {"session", "places"} \cap perturbes' = {}
       PROVE  Occupees' <= Capacite /\ Places(ops[o])'
  <2>1. Occupees' <= Capacite
    BY <1>10 DEF Inv, InvPlaces, Occupees, Ayant
  <2>2. Places(ops[o])'
    BY <1>3, <1>4, <1>10 DEF Places, Finale, Placees, DuConseiller, Justifiee
  <2> QED BY <2>1, <2>2
<1>11. ASSUME "rappels" \notin perturbes', ~passee'
       PROVE  Rappels(ops[o])'
  <2>1. Rappels(ops[o]) /\ fond = {}
    BY <1>1, <1>11 DEF Inv, InvRappels, InvSeule
  <2>2. ops[o].lus = inscriptions
    BY <1>1, <1>11 DEF Inv, InvSeule, InvSession, Session, LectureFidele
  <2>3. /\ \A quoi, j, i : EnFond(quoi, j, i)' <=>
              quoi = "retirer" /\ j \in supprimer /\ i = inscriptions[j].id
        /\ \A a \in fond' : a.jeune \in supprimer
    <3>1. \A quoi, j, i : ~EnFond(quoi, j, i)
      BY <2>1 DEF EnFond
    <3>2. /\ \A quoi, j, i : EnFond(quoi, j, i)' <=>
                EnFond(quoi, j, i)
                \/ (quoi = "retirer" /\ j \in supprimer /\ i = ops[o].lus[j].id)
          /\ \A a \in fond' : a \in fond \/ (a.jeune \in supprimer /\ a.op = "retirer")
      BY <1>5, AjoutAppels
    <3> QED BY <2>1, <2>2, <3>1, <3>2
  <2>4. AppelsPasses(ops[o])'
    BY <1>1, <1>3, <1>4, <1>7, <2>3 DEF AppelsPasses, Justifiee
  <2>5. ASSUME NEW j \in Jeunes, NEW i \in Nat
        PROVE  Futur(j, i)' <=> i = inscriptions'[j].id /\ Attendu(ops[o], j)'
    <3>1. <<j, i>> \in rappels <=> i = inscriptions[j].id /\ inscriptions[j].statut = "INSCRIT"
      BY <1>1, <2>1 DEF Rappels, Futur, EnFond, Attendu
    <3> QED BY <1>3, <1>4, <2>3, <3>1 DEF Futur, Attendu
  <2> QED BY <2>3, <2>4, <2>5 DEF Rappels
<1> QED
  <2>1. InvOps' /\ InvSeule' /\ InvSession' /\ InvPlaces' /\ InvRappels'
    BY <1>1, <1>4, <1>7, <1>8, <1>9, <1>10, <1>11, Local
  <2> QED BY <1>6, <2>1 DEF Inv

-----------------------------------------------------------------------------
(* Decisions                                                                *)

LEMMA RegleeType ==
  ASSUME NEW l \in Ligne \cup {Absent}
  PROVE  /\ Reglee(l) \in Ligne
         /\ Reglee(l).close <=> l # Absent /\ l.close
<1>1. CASE l = Absent
  BY <1>1 DEF Reglee, SansLigne, Ligne
<1>2. CASE l \in Ligne /\ l # Absent
  <2>1. (l.visible \/ l.auto) \in BOOLEAN
    OBVIOUS
  <2> QED BY <1>2, <2>1 DEF Reglee, Ligne
<1> QED BY <1>1, <1>2

LEMMA LigneModifieeType ==
  ASSUME NEW lue \in Ligne \cup {Absent}, NEW reglage \in Choix \X Choix
  PROVE  /\ LigneModifiee(lue, reglage) \in Ligne
         /\ LigneModifiee(lue, reglage).close = Reglee(lue).close
<1> DEFINE s == Reglee(lue)
           auto == IF reglage[2] = Inchange THEN s.auto ELSE reglage[2]
           visible == IF reglage[1] = Inchange THEN s.visible ELSE reglage[1]
<1>1. s \in Ligne /\ auto \in BOOLEAN
  BY RegleeType DEF Ligne, Choix
<1>2. (visible \/ auto) \in BOOLEAN
  OBVIOUS
<1>3. LigneModifiee(lue, reglage) = [s EXCEPT !.auto = auto, !.visible = visible \/ auto]
  BY DEF LigneModifiee
<1> HIDE DEF s, auto, visible
<1>4. [s EXCEPT !.auto = auto, !.visible = visible \/ auto] \in Ligne
  BY <1>1, <1>2 DEF Ligne
<1>5. [s EXCEPT !.auto = auto, !.visible = visible \/ auto].close = s.close
  BY <1>1 DEF Ligne
<1> QED BY <1>3, <1>4, <1>5 DEF s

(* The places asked for are enough: those who leave free theirs.            *)
LEMMA PlacesComptees ==
  ASSUME NEW occ \in SUBSET Jeunes, NEW prises \in SUBSET Jeunes,
         NEW liberees \in SUBSET Jeunes, liberees \subseteq occ,
         Capacite - Cardinality(occ) >= Cardinality(prises) - Cardinality(liberees),
         NEW F \in SUBSET Jeunes, F \subseteq (occ \ liberees) \cup prises
  PROVE  Cardinality(F) <= Capacite
<1>1. /\ IsFiniteSet(occ) /\ IsFiniteSet(prises) /\ IsFiniteSet(liberees)
      /\ Cardinality(occ) \in Nat /\ Cardinality(prises) \in Nat
      /\ Cardinality(liberees) \in Nat
  BY OccupeesType
<1>2. /\ IsFiniteSet(occ \ liberees) /\ Cardinality(occ \ liberees) \in Nat
      /\ Cardinality(occ \ liberees) = Cardinality(occ) - Cardinality(liberees)
  <2>1. occ \cap liberees = liberees
    OBVIOUS
  <2>2. /\ IsFiniteSet(occ \ liberees)
        /\ Cardinality(occ \ liberees) = Cardinality(occ) - Cardinality(occ \cap liberees)
    BY <1>1, FS_Difference
  <2> QED BY <2>1, <2>2, FS_CardinalityType
<1> DEFINE U == (occ \ liberees) \cup prises
           I == (occ \ liberees) \cap prises
<1>3. IsFiniteSet(U) /\ Cardinality(U) \in Nat
      /\ Cardinality(U) <= Cardinality(occ \ liberees) + Cardinality(prises)
  <2>1. Cardinality(I) \in Nat
    BY OccupeesType
  <2>2. /\ IsFiniteSet(U)
        /\ Cardinality(U) = Cardinality(occ \ liberees) + Cardinality(prises)
                              - Cardinality(I)
    BY <1>1, <1>2, FS_Union
  <2>3. Cardinality(U) \in Nat
    BY <2>2, FS_CardinalityType
  <2> HIDE DEF U, I
  <2> QED BY <1>1, <1>2, <2>1, <2>2, <2>3
<1>4. Cardinality(F) <= Cardinality(U) /\ Cardinality(F) \in Nat
  BY <1>3, FS_Subset, OccupeesType
<1> HIDE DEF U
<1> QED BY <1>1, <1>2, <1>3, <1>4, ConstantsAssumption

LEMMA PasDeciderModifier ==
  ASSUME Inv, NEW o \in Ops, ops[o].etape = "calcul", DeciderModifier(o),
         UNCHANGED <<inscriptions, instances, passee, ligne, aClore, rappels,
                     demandes, pannes, perturbes>>
  PROVE  Inv'
<1> DEFINE op == ops[o]
<1>1. /\ op \in Operation /\ op.cmd = "modifier" /\ Actif(op) /\ ~Ecrit(op)
      /\ op.lus \in [Jeunes -> Inscription] /\ op.souhaits \in [Jeunes -> Souhaits]
      /\ op.lue \in Ligne \cup {Absent} /\ op.reglage \in Choix \X Choix
      /\ op.aLire = {} /\ DuConseiller(op)
  BY OperationType DEF Inv, InvOps, Demarche, DeciderModifier, Actif, Ecrit,
                       DuConseiller, Operation
<1>2. CASE ~PlacesSuffisantes(op)
  BY <1>2, PasRefuser DEF DeciderModifier
<1>3. CASE PlacesSuffisantes(op)
  <2> DEFINE supprimer == ASupprimer(op)
             modifier == AModifier(op)
             inscrire == AInscrire(op)
             aSauver == LigneModifiee(op.lue, op.reglage)
  <2>1. /\ Sauver(o, supprimer, modifier, inscrire, aSauver)
        /\ supprimer \in SUBSET Jeunes /\ inscrire \in SUBSET Jeunes
    BY <1>3 DEF DeciderModifier, ASupprimer, AInscrire
  <2>2. /\ modifier \in [Jeunes -> Statuts \cup {"aucune"}]
        /\ \A j \in Jeunes :
             /\ j \in supprimer => op.lus[j] # Aucune /\ modifier[j] = "aucune"
             /\ modifier[j] # "aucune" => op.lus[j] # Aucune
             /\ j \in inscrire => op.lus[j] = Aucune
             /\ modifier[j] # "PRESENT"
    BY DEF ASupprimer, AModifier, AInscrire, Statuts
  <2>3. aSauver \in Ligne /\ aSauver.close = Reglee(op.lue).close
    BY <1>1, LigneModifieeType
  <2>4. "session" \notin perturbes => op.lus = inscriptions /\ op.lue = ligne
                                      /\ op.places = Capacite - Occupees
    BY <1>1 DEF Inv, InvSession, Session, LectureFidele
  <2>5. ASSUME {"session", "places"} \cap perturbes = {}
        PROVE  Cardinality(Placees(supprimer, modifier, inscrire)) <= Capacite
    <3> DEFINE occ == Ayant(inscriptions, {"INSCRIT", "PRESENT"})
               inscrits == Ayant(op.lus, {"INSCRIT"})
               prises == AInscrire(op) \cup {j \in Jeunes : AModifier(op)[j] = "INSCRIT"}
               liberees == inscrits \cap
                 (ASupprimer(op) \cup {j \in Jeunes : AModifier(op)[j] # "aucune"})
               F == Placees(supprimer, modifier, inscrire)
    <3>1. Capacite - Cardinality(occ) >= Cardinality(prises) - Cardinality(liberees)
      BY <1>3, <2>4, <2>5 DEF PlacesSuffisantes, Occupees
    <3>2. /\ occ \in SUBSET Jeunes /\ prises \in SUBSET Jeunes
          /\ liberees \in SUBSET Jeunes /\ F \in SUBSET Jeunes
      BY DEF Ayant, AInscrire, Placees
    <3>3. op.lus = inscriptions
      BY <2>4, <2>5
    <3>4. liberees \subseteq occ
      BY <3>3 DEF Ayant
    <3>5. F \subseteq (occ \ liberees) \cup prises
      <4> SUFFICES ASSUME NEW j \in F, j \notin prises PROVE j \in occ \ liberees
        OBVIOUS
      <4>1. j \in Jeunes /\ modifier[j] # "INSCRIT" /\ j \notin inscrire
        BY DEF Placees
      <4>2. /\ inscriptions[j].statut \in {"INSCRIT", "PRESENT"}
            /\ j \notin supprimer /\ modifier[j] = "aucune"
        BY <4>1 DEF Placees
      <4> QED BY <4>1, <4>2 DEF Ayant
    <3> HIDE DEF occ, inscrits, prises, liberees, F
    <3>6. Cardinality(F) <= Capacite
      BY <3>1, <3>2, <3>4, <3>5, PlacesComptees
    <3> QED BY <3>6 DEF F
  <2> HIDE DEF supprimer, modifier, inscrire, aSauver
  <2>6. Justifiee(op, supprimer, modifier, inscrire, aSauver)
    BY <1>1, <2>2, <2>3, <2>4, <2>5 DEF Justifiee
  <2> QED BY <1>1, <2>1, <2>2, <2>3, <2>6, PasSauver
<1> QED BY <1>2, <1>3

LEMMA PasDeciderEmarger ==
  ASSUME Inv, NEW o \in Ops, ops[o].etape = "calcul", DeciderEmarger(o),
         UNCHANGED <<inscriptions, instances, passee, ligne, aClore, rappels,
                     demandes, pannes, perturbes>>
  PROVE  Inv'
<1> DEFINE op == ops[o]
<1>1. /\ op \in Operation /\ op.cmd = "emarger" /\ Actif(op) /\ ~Ecrit(op)
      /\ op.lus \in [Jeunes -> Inscription] /\ op.souhaits \in [Jeunes -> Souhaits]
      /\ op.lue \in Ligne \cup {Absent} /\ DuConseiller(op)
  BY OperationType DEF Inv, InvOps, Demarche, DeciderEmarger, Actif, Ecrit,
                       DuConseiller, Operation
<1>2. CASE ~MemesInscrits(op)
  BY <1>2, PasRefuser DEF DeciderEmarger
<1>3. CASE MemesInscrits(op)
  <2> DEFINE modifier == Presences(op)
             aSauver == [Reglee(op.lue) EXCEPT !.close = TRUE]
             personne == {}
  <2>1. /\ Sauver(o, personne, modifier, personne, aSauver)
        /\ personne \in SUBSET Jeunes /\ \A j \in Jeunes : j \notin personne
    BY <1>3 DEF DeciderEmarger
  <2>2. aSauver \in Ligne /\ aSauver.close
    <3>1. Reglee(op.lue) \in Ligne
      BY <1>1, RegleeType
    <3> QED BY <3>1 DEF Ligne
  <2>3. \A j \in Jeunes : op.souhaits[j] # NonDemande <=> op.lus[j] # Aucune
    BY <1>3 DEF MemesInscrits
  <2>4. \A j \in Jeunes : op.souhaits[j] \in {NonDemande, "INSCRIT", "PRESENT", "REFUS_JEUNE"}
    BY <1>1 DEF Inv, InvOps, Demarche, Souhaits, Statuts, Actif
  <2>5. /\ modifier \in [Jeunes -> Statuts \cup {"aucune"}]
        /\ \A j \in Jeunes :
             /\ modifier[j] # "aucune" => op.lus[j] # Aucune
             /\ modifier[j] # "INSCRIT"
             /\ op.lus[j].statut = "INSCRIT" =>
                  modifier[j] # "aucune" \/ op.souhaits[j] = "REFUS_JEUNE"
    BY <1>1, <2>3, <2>4, InscriptionType DEF Presences, Statuts, NonDemande
  <2> HIDE DEF modifier, aSauver, personne
  <2>6. Justifiee(op, personne, modifier, personne, aSauver)
    BY <1>1, <2>1, <2>2, <2>5 DEF Justifiee
  <2> QED BY <1>1, <2>1, <2>2, <2>5, <2>6, PasSauver
<1> QED BY <1>2, <1>3

LEMMA PasDeciderAutoinscrire ==
  ASSUME Inv, NEW o \in Ops, ops[o].etape = "calcul", DeciderAutoinscrire(o),
         UNCHANGED <<inscriptions, instances, passee, ligne, aClore, rappels,
                     demandes, pannes, perturbes>>
  PROVE  Inv'
<1> DEFINE j == CHOOSE k \in Jeunes : ops[o].souhaits[k] = "INSCRIT"
           op == [ops[o] EXCEPT !.etape = "inscription", !.inscrire = {j}]
<1>1. /\ ops[o] \in Operation /\ TypeOK /\ Actif(ops[o]) /\ ~Ecrit(ops[o])
      /\ ops[o].lus \in [Jeunes -> Inscription] /\ ops[o].places \in Int
      /\ Demarche(ops[o]) /\ Cibles(ops[o]) /\ ops[o].cmd = "autoinscrire"
  BY OperationType DEF Inv, InvOps, DeciderAutoinscrire, Actif, Ecrit
<1>2. j \in Jeunes
  BY <1>1 DEF Demarche, Actif
<1> HIDE DEF j
<1>3. CASE ~PeutInscrire(ops[o], j)
  <2>1. Refuser(o)
    BY <1>3 DEF DeciderAutoinscrire, Refuser, j
  <2> QED BY <2>1, PasRefuser
<1>4. CASE PeutInscrire(ops[o], j)
  <2>1. ops' = [ops EXCEPT ![o] = op] /\ fond' = fond
    BY <1>1, <1>4 DEF DeciderAutoinscrire, TypeOK, j
  <2>2. /\ op \in Operation
        /\ op.cmd = "autoinscrire" /\ op.souhaits = ops[o].souhaits
        /\ op.aLire = {} /\ op.lus = ops[o].lus
        /\ op.supprimer = {} /\ \A k \in Jeunes : op.modifier[k] = "aucune"
        /\ op.inscrire = {j} /\ op.inscrits = {} /\ op.etape = "inscription"
    <3>1. /\ op \in Operation
          /\ op.cmd = "autoinscrire" /\ op.souhaits = ops[o].souhaits
          /\ op.aLire = ops[o].aLire /\ op.lus = ops[o].lus
          /\ op.supprimer = ops[o].supprimer /\ op.modifier = ops[o].modifier
          /\ op.inscrire = {j} /\ op.inscrits = ops[o].inscrits
          /\ op.etape = "inscription"
      BY <1>1, <1>2 DEF Operation, Etapes
    <3>2. ops[o].etape = "calcul"
      OBVIOUS
    <3> HIDE DEF op
    <3> QED BY <1>1, <3>1, <3>2 DEF Demarche, ATraiter
  <2> HIDE DEF op
  <2>3. /\ ops' \in [Ops -> Operation] /\ ops'[o] = op
        /\ \A p \in Ops : p # o => ops'[p] = ops[p]
    BY <1>1, <2>1, <2>2 DEF TypeOK
  <2>4. TypeOK'
    BY <1>1, <2>1, <2>3 DEF TypeOK
  <2>5. Actif(op) /\ Ecrit(op)
    BY <2>2 DEF Actif, Ecrit
  <2>6. Demarche(op) /\ Cibles(op)
    BY <1>1, <2>2, <2>5 DEF Demarche, Cibles, DuConseiller, ATraiter
  <2>7. "session" \notin perturbes' =>
          /\ ~aClore /\ ops[o].lus = inscriptions
          /\ ops[o].places = Capacite - Occupees
    BY <1>1 DEF Inv, InvSeule, InvSession, Session, LectureFidele, Demarche
  <2>8. "session" \notin perturbes' => Session(ops[o])'
    BY <2>2, <2>3, <2>5 DEF Session, LectureFidele, CiblesFideles, ClotureFidele,
                            DuConseiller
  <2>9. ASSUME {"session", "places"} \cap perturbes' = {}
        PROVE  Occupees' <= Capacite /\ Places(ops[o])'
    <3> DEFINE occ == Ayant(inscriptions, {"INSCRIT", "PRESENT"})
    <3>1. Occupees <= Capacite /\ Occupees' = Occupees /\ Occupees = Cardinality(occ)
      BY <2>9 DEF Inv, InvPlaces, Occupees, Ayant
    <3>2. occ \in SUBSET Jeunes /\ j \notin occ
      BY <1>4, <2>7, <2>9 DEF Ayant, PeutInscrire
    <3>3. Cardinality(occ) \in Nat /\ Cardinality(occ) + 1 <= Capacite
      BY <1>4, <2>7, <2>9, <3>1, <3>2, OccupeesType, ConstantsAssumption DEF PeutInscrire
    <3>4. Cardinality(occ \cup {j}) = Cardinality(occ) + 1
      BY <3>2, OccupeesType, FS_AddElement
    <3>5. Finale(ops[o])' = occ \cup {j}
      BY <1>2, <2>2, <2>3 DEF Finale, Placees, Ayant
    <3> HIDE DEF occ
    <3> QED BY <3>1, <3>3, <3>4, <3>5 DEF Places
  <2>10. ASSUME "rappels" \notin perturbes', ~passee'
         PROVE  Rappels(ops[o])'
    <3>1. Rappels(ops[o]) /\ fond = {}
      BY <1>1, <2>10 DEF Inv, InvRappels, InvSeule
    <3>2. \A k \in Jeunes : Attendu(ops[o], k)' <=> Attendu(ops[o], k)
      BY <2>2, <2>3 DEF Attendu
    <3>3. AppelsPasses(ops[o])'
      BY <2>1, <3>1 DEF AppelsPasses
    <3> QED BY <2>1, <3>1, <3>2, <3>3 DEF Rappels, EnFond, Futur
  <2>11. InvOps' /\ InvSeule' /\ InvSession' /\ InvPlaces' /\ InvRappels'
    BY <1>1, <2>3, <2>5, <2>6, <2>7, <2>8, <2>9, <2>10, Local
  <2> QED BY <2>4, <2>11 DEF Inv
<1> QED BY <1>3, <1>4

LEMMA PasDecider ==
  ASSUME Inv, NEW o \in Ops, Decider(o)
  PROVE  Inv'
BY PasDeciderModifier, PasDeciderEmarger, PasDeciderAutoinscrire DEF Decider

LEMMA PasDesinscrire ==
  ASSUME Inv, NEW o \in Ops, NEW j \in Jeunes, Desinscrire(o, j)
  PROVE  Inv'
<1> DEFINE op == [ops[o] EXCEPT !.supprimer = @ \ {j}]
<1>1. /\ ops[o] \in Operation /\ TypeOK /\ Actif(ops[o]) /\ Ecrit(ops[o])
      /\ Demarche(ops[o]) /\ Cibles(ops[o])
      /\ ops[o].etape = "desinscription" /\ j \in ops[o].supprimer
      /\ ops[o].inscrits = {} /\ ops[o].modifier[j] = "aucune"
  BY OperationType DEF Inv, InvOps, Desinscrire, Actif, Ecrit, Demarche, Cibles
<1>2. ops' = [ops EXCEPT ![o] = op]
  BY <1>1 DEF Desinscrire, TypeOK
<1>3. /\ op \in Operation
      /\ op.cmd = ops[o].cmd /\ op.souhaits = ops[o].souhaits
      /\ op.aLire = ops[o].aLire /\ op.lus = ops[o].lus
      /\ op.aSauver = ops[o].aSauver /\ op.supprimer = ops[o].supprimer \ {j}
      /\ op.modifier = ops[o].modifier /\ op.inscrire = ops[o].inscrire
      /\ op.inscrits = ops[o].inscrits /\ op.etape = "desinscription"
  BY <1>1 DEF Operation
<1> HIDE DEF op
<1>4. /\ ops' \in [Ops -> Operation] /\ ops'[o] = op
      /\ \A p \in Ops : p # o => ops'[p] = ops[p]
  BY <1>1, <1>2, <1>3 DEF TypeOK
<1>5. /\ inscriptions' = [inscriptions EXCEPT ![j] = Aucune]
      /\ UNCHANGED <<instances, passee, ligne, aClore, rappels, fond, demandes,
                     pannes, perturbes>>
  BY DEF Desinscrire
<1>6. /\ inscriptions' \in [Jeunes -> Inscription]
      /\ inscriptions'[j].statut = "aucune" /\ inscriptions'[j].id = 0
      /\ \A k \in Jeunes : k # j => inscriptions'[k] = inscriptions[k]
  BY <1>1, <1>5 DEF TypeOK, Aucune, Inscription
<1>7. TypeOK'
  BY <1>1, <1>4, <1>5, <1>6 DEF TypeOK
<1>8. Actif(op) /\ Ecrit(op)
  BY <1>3 DEF Actif, Ecrit
<1>9. Demarche(op) /\ Cibles(op)
  BY <1>1, <1>3, <1>8 DEF Demarche, Cibles, DuConseiller, ATraiter
<1>10. ASSUME "session" \notin perturbes'
       PROVE  ~aClore' /\ Session(ops[o])'
  <2>1. ~aClore /\ Session(ops[o])
    BY <1>1, <1>5, <1>10 DEF Inv, InvSeule, InvSession
  <2>2. LectureFidele(ops[o])'
    BY <1>4, <1>8 DEF LectureFidele
  <2>3. CiblesFideles(ops[o])'
    BY <1>1, <1>3, <1>4, <1>6, <2>1 DEF Session, CiblesFideles
  <2>4. ClotureFidele(ops[o])'
    BY <1>1, <1>3, <1>4, <1>5, <1>6, <2>1
       DEF Session, ClotureFidele, DuConseiller, Reglee, SansLigne
  <2> QED BY <1>5, <2>1, <2>2, <2>3, <2>4 DEF Session
<1>11. ASSUME {"session", "places"} \cap perturbes' = {}
       PROVE  Occupees' <= Capacite /\ Places(ops[o])'
  <2> DEFINE occ == Ayant(inscriptions, {"INSCRIT", "PRESENT"})
             occ2 == Ayant(inscriptions', {"INSCRIT", "PRESENT"})
  <2>1. /\ occ \in SUBSET Jeunes /\ occ2 \in SUBSET occ
        /\ Occupees = Cardinality(occ) /\ Occupees' = Cardinality(occ2)
    BY <1>6 DEF Ayant, Occupees
  <2>2. Occupees <= Capacite /\ Places(ops[o])
    BY <1>5, <1>11 DEF Inv, InvPlaces
  <2>3. Cardinality(occ2) <= Cardinality(occ) /\ Cardinality(occ) \in Nat
        /\ Cardinality(occ2) \in Nat
    BY <2>1, OccupeesType, FS_Subset
  <2>4. Finale(ops[o])' = Finale(ops[o])
    BY <1>1, <1>3, <1>4, <1>6 DEF Finale, Placees
  <2> HIDE DEF occ, occ2
  <2> QED BY <1>1, <1>3, <1>4, <2>1, <2>2, <2>3, <2>4, ConstantsAssumption
          DEF Places
<1>12. ASSUME "rappels" \notin perturbes', ~passee'
       PROVE  Rappels(ops[o])'
  <2>1. Rappels(ops[o])
    BY <1>1, <1>5, <1>12 DEF Inv, InvRappels
  <2>2. AppelsPasses(ops[o])'
    BY <1>1, <1>3, <1>4, <1>5, <2>1 DEF Rappels, AppelsPasses
  <2>3. \A k \in Jeunes :
          /\ Attendu(ops[o], k)' <=> Attendu(ops[o], k)
          /\ Attendu(ops[o], k) => inscriptions'[k] = inscriptions[k]
    BY <1>1, <1>3, <1>4, <1>6 DEF Attendu
  <2> QED BY <1>5, <2>1, <2>2, <2>3 DEF Rappels, EnFond, Futur
<1> QED
  <2>1. InvOps' /\ InvSeule' /\ InvSession' /\ InvPlaces' /\ InvRappels'
    BY <1>1, <1>4, <1>5, <1>8, <1>9, <1>10, <1>11, <1>12, Local
  <2> QED BY <1>7, <2>1 DEF Inv

LEMMA PasModifierInscription ==
  ASSUME Inv, NEW o \in Ops, NEW j \in Jeunes, ModifierInscription(o, j)
  PROVE  Inv'
<1> DEFINE op == [ops[o] EXCEPT !.modifier[j] = "aucune"]
           statut == ops[o].modifier[j]
<1>1. /\ ops[o] \in Operation /\ TypeOK /\ Actif(ops[o]) /\ Ecrit(ops[o])
      /\ Demarche(ops[o]) /\ Cibles(ops[o])
      /\ ops[o].modifier \in [Jeunes -> Statuts \cup {"aucune"}]
      /\ ops[o].lus \in [Jeunes -> Inscription]
      /\ ops[o].etape = "modification" /\ statut # "aucune"
      /\ ops[o].inscrits = {} /\ ops[o].supprimer = {}
  BY OperationType DEF Inv, InvOps, ModifierInscription, ATraiter, Actif, Ecrit,
                       Demarche
<1>2. ops' = [ops EXCEPT ![o] = op]
  BY <1>1 DEF ModifierInscription, TypeOK
<1>3. /\ op \in Operation
      /\ op.cmd = ops[o].cmd /\ op.souhaits = ops[o].souhaits
      /\ op.aLire = ops[o].aLire /\ op.lus = ops[o].lus
      /\ op.aSauver = ops[o].aSauver /\ op.supprimer = ops[o].supprimer
      /\ op.inscrire = ops[o].inscrire
      /\ op.inscrits = ops[o].inscrits /\ op.etape = "modification"
      /\ op.modifier[j] = "aucune"
      /\ \A k \in Jeunes : k # j => op.modifier[k] = ops[o].modifier[k]
  <2>1. [ops[o].modifier EXCEPT ![j] = "aucune"] \in [Jeunes -> Statuts \cup {"aucune"}]
    BY <1>1
  <2> QED BY <1>1, <2>1 DEF Operation
<1> HIDE DEF op
<1>4. /\ ops' \in [Ops -> Operation] /\ ops'[o] = op
      /\ \A p \in Ops : p # o => ops'[p] = ops[p]
  BY <1>1, <1>2, <1>3 DEF TypeOK
<1>5. /\ inscriptions' = [inscriptions EXCEPT ![j].statut = statut]
      /\ UNCHANGED <<instances, passee, ligne, aClore, rappels, fond, demandes,
                     pannes>>
      /\ perturbes' \in {perturbes, perturbes \cup {"places"}}
      /\ statut = "INSCRIT" =>
           \A k \in ATraiter(ops[o]) : ops[o].modifier[k] = "INSCRIT"
      /\ inscriptions[j].id = ops[o].lus[j].id
  BY DEF ModifierInscription
<1>6. /\ inscriptions[j] \in [statut : Statuts, id : Nat \ {0}]
      /\ statut \in Statuts
  <2>1. ops[o].lus[j] # Aucune /\ inscriptions[j] \in Inscription
    BY <1>1 DEF Cibles, TypeOK
  <2>2. inscriptions[j] # Aucune
    BY <1>1, <1>5, <2>1, InscriptionType DEF Aucune
  <2> QED BY <1>1, <2>1, <2>2 DEF Inscription
<1>7. /\ inscriptions' \in [Jeunes -> Inscription]
      /\ inscriptions'[j].statut = statut /\ inscriptions'[j].id = inscriptions[j].id
      /\ \A k \in Jeunes : k # j => inscriptions'[k] = inscriptions[k]
  <2>1. /\ [inscriptions[j] EXCEPT !.statut = statut] \in Inscription
        /\ [inscriptions[j] EXCEPT !.statut = statut].statut = statut
        /\ [inscriptions[j] EXCEPT !.statut = statut].id = inscriptions[j].id
    BY <1>6 DEF Inscription
  <2>2. inscriptions' = [inscriptions EXCEPT ![j] = [inscriptions[j] EXCEPT !.statut = statut]]
    BY <1>1, <1>5 DEF TypeOK
  <2> QED BY <1>1, <2>1, <2>2 DEF TypeOK
<1> HIDE DEF statut
<1>8. TypeOK'
  BY <1>1, <1>4, <1>5, <1>7 DEF TypeOK
<1>9. Actif(op) /\ Ecrit(op)
  BY <1>3 DEF Actif, Ecrit
<1>10. Demarche(op) /\ Cibles(op)
  BY <1>1, <1>3, <1>9 DEF Demarche, Cibles, DuConseiller, ATraiter
<1>11. ASSUME "session" \notin perturbes'
       PROVE  ~aClore' /\ Session(ops[o])'
  <2>1. ~aClore /\ Session(ops[o])
    BY <1>1, <1>5, <1>11 DEF Inv, InvSeule, InvSession
  <2>2. LectureFidele(ops[o])'
    BY <1>4, <1>9 DEF LectureFidele
  <2>3. CiblesFideles(ops[o])'
    BY <1>1, <1>3, <1>4, <1>7, <2>1 DEF Session, CiblesFideles
  <2>4. ClotureFidele(ops[o])'
    BY <1>1, <1>3, <1>4, <1>5, <1>7, <2>1
       DEF Session, ClotureFidele, DuConseiller, Reglee, SansLigne, Cibles, statut
  <2> QED BY <1>5, <2>1, <2>2, <2>3, <2>4 DEF Session
<1>12. ASSUME {"session", "places"} \cap perturbes' = {}
       PROVE  Occupees' <= Capacite /\ Places(ops[o])'
  <2> DEFINE occ == Ayant(inscriptions, {"INSCRIT", "PRESENT"})
             occ2 == Ayant(inscriptions', {"INSCRIT", "PRESENT"})
             finale == Finale(ops[o])
  <2>1. /\ occ \in SUBSET Jeunes /\ occ2 \in SUBSET Jeunes /\ finale \in SUBSET Jeunes
        /\ Occupees = Cardinality(occ) /\ Occupees' = Cardinality(occ2)
    BY DEF Ayant, Occupees, Finale, Placees
  <2>2. Cardinality(occ) <= Capacite /\ Places(ops[o])
    BY <1>5, <1>12, <2>1 DEF Inv, InvPlaces
  <2>3. CASE ops[o].cmd = "emarger"
    <3>1. Occupees' <= Capacite
      <4>1. Cardinality(occ2) \in Nat
        BY <2>1, OccupeesType
      <4>2. ~(Occupees' > Capacite)
        BY <1>12, <2>3 DEF ModifierInscription
      <4> HIDE DEF occ2
      <4> QED BY <2>1, <4>1, <4>2, ConstantsAssumption
    <3> QED BY <1>3, <1>4, <2>3, <3>1 DEF Places
  <2>4. CASE ops[o].cmd # "emarger"
    <3>1. Finale(ops[o])' = finale
      BY <1>1, <1>3, <1>4, <1>6, <1>7, <2>4
         DEF Finale, Placees, Cibles, Statuts, statut
    <3>2. Cardinality(finale) <= Capacite
      BY <1>1, <2>2, <2>4 DEF Places
    <3>3. occ2 \subseteq occ \/ occ2 \subseteq finale
      <4>1. CASE statut = "INSCRIT"
        <5>1. \A k \in Jeunes : ops[o].modifier[k] \in {"aucune", "INSCRIT"}
          BY <1>1, <1>5, <4>1 DEF ATraiter
        <5>2. occ2 \subseteq finale
          BY <1>1, <1>7, <4>1, <5>1 DEF Ayant, Finale, Placees, statut
        <5> QED BY <5>2
      <4>2. CASE statut # "INSCRIT"
        <5>1. statut = "REFUS_JEUNE"
          BY <1>1, <1>6, <2>4, <4>2 DEF Cibles, Statuts, statut
        <5> QED BY <1>7, <5>1 DEF Ayant
      <4> QED BY <4>1, <4>2
    <3>4. Cardinality(occ2) <= Capacite
      <4>1. /\ Cardinality(occ2) <= Cardinality(occ) \/ Cardinality(occ2) <= Cardinality(finale)
            /\ Cardinality(occ2) \in Nat /\ Cardinality(occ) \in Nat
            /\ Cardinality(finale) \in Nat
        BY <2>1, <3>3, OccupeesType, FS_Subset
      <4> HIDE DEF occ, occ2, finale
      <4> QED BY <2>2, <3>2, <4>1, ConstantsAssumption
    <3> QED BY <2>1, <3>1, <3>2, <3>4 DEF Places
  <2> QED BY <2>3, <2>4
<1>13. ASSUME "rappels" \notin perturbes', ~passee'
       PROVE  Rappels(ops[o])'
  <2>1. Rappels(ops[o])
    BY <1>1, <1>5, <1>13 DEF Inv, InvRappels
  <2>2. AppelsPasses(ops[o])'
    BY <1>1, <1>3, <1>4, <1>5, <2>1 DEF Rappels, AppelsPasses
  <2>3. \A k \in Jeunes :
          /\ Attendu(ops[o], k)' <=> Attendu(ops[o], k)
          /\ inscriptions'[k].id = inscriptions[k].id
    BY <1>1, <1>3, <1>4, <1>7 DEF Attendu, statut
  <2> QED BY <1>5, <2>1, <2>2, <2>3 DEF Rappels, EnFond, Futur
<1> QED
  <2>1. InvOps' /\ InvSeule' /\ InvSession' /\ InvPlaces' /\ InvRappels'
    BY <1>1, <1>4, <1>5, <1>9, <1>10, <1>11, <1>12, <1>13, Local
  <2> QED BY <1>8, <2>1 DEF Inv

LEMMA PasDemarrerModifications ==
  ASSUME Inv, NEW o \in Ops, DemarrerModifications(o)
  PROVE  Inv'
<1> DEFINE op == [ops[o] EXCEPT !.etape = "modification"]
           inscrits == {j \in ATraiter(ops[o]) : ops[o].modifier[j] = "INSCRIT"}
           autres == ATraiter(ops[o]) \ inscrits
<1>1. /\ ops[o] \in Operation /\ TypeOK /\ Actif(ops[o]) /\ Ecrit(ops[o])
      /\ Demarche(ops[o]) /\ Cibles(ops[o])
      /\ ops[o].lus \in [Jeunes -> Inscription]
      /\ ops[o].etape = "desinscription" /\ ops[o].supprimer = {}
      /\ ops[o].inscrits = {}
  BY OperationType DEF Inv, InvOps, DemarrerModifications, Actif, Ecrit, Demarche
<1>2. ops' = [ops EXCEPT ![o] = op]
  BY <1>1 DEF DemarrerModifications, TypeOK
<1>3. /\ op \in Operation
      /\ op.cmd = ops[o].cmd /\ op.souhaits = ops[o].souhaits
      /\ op.aLire = ops[o].aLire /\ op.lus = ops[o].lus
      /\ op.aSauver = ops[o].aSauver /\ op.supprimer = {}
      /\ op.modifier = ops[o].modifier /\ op.inscrire = ops[o].inscrire
      /\ op.inscrits = {} /\ op.etape = "modification"
  BY <1>1 DEF Operation, Etapes
<1> HIDE DEF op
<1>4. /\ ops' \in [Ops -> Operation] /\ ops'[o] = op
      /\ \A p \in Ops : p # o => ops'[p] = ops[p]
  BY <1>1, <1>2, <1>3 DEF TypeOK
<1>5. UNCHANGED <<inscriptions, instances, passee, ligne, aClore, rappels,
                  demandes, pannes, perturbes>>
  BY DEF DemarrerModifications
<1>6. fond' = fond \cup (Appels("planifier", inscrits, ops[o].lus)
                           \cup Appels("retirer", autres, ops[o].lus))
  BY DEF DemarrerModifications, AppelsModifications
<1>7. /\ inscrits \in SUBSET Jeunes /\ autres \in SUBSET Jeunes
      /\ \A j \in inscrits \cup autres : ops[o].lus[j] # Aucune
      /\ \A j \in Jeunes : /\ j \in inscrits <=> ops[o].modifier[j] = "INSCRIT"
                           /\ j \in autres <=> ops[o].modifier[j] \notin {"INSCRIT", "aucune"}
  BY <1>1 DEF ATraiter, Cibles
<1> HIDE DEF inscrits, autres
<1>8. TypeOK'
  <2>1. fond' \subseteq Appel
    BY <1>1, <1>6, <1>7, AppelsType DEF TypeOK
  <2> QED BY <1>1, <1>4, <1>5, <2>1 DEF TypeOK
<1>9. Actif(op) /\ Ecrit(op)
  BY <1>3 DEF Actif, Ecrit
<1>10. Demarche(op) /\ Cibles(op)
  BY <1>1, <1>3, <1>9 DEF Demarche, Cibles, DuConseiller, ATraiter
<1>11. ASSUME "session" \notin perturbes'
       PROVE  ~aClore' /\ Session(ops[o])'
  <2>1. ~aClore /\ Session(ops[o])
    BY <1>1, <1>5, <1>11 DEF Inv, InvSeule, InvSession
  <2>2. LectureFidele(ops[o])'
    BY <1>4, <1>9 DEF LectureFidele
  <2>3. CiblesFideles(ops[o])'
    BY <1>1, <1>3, <1>4, <1>5, <2>1 DEF Session, CiblesFideles
  <2>4. ClotureFidele(ops[o])'
    BY <1>1, <1>3, <1>4, <1>5, <2>1
       DEF Session, ClotureFidele, DuConseiller, Reglee, SansLigne
  <2> QED BY <1>5, <2>1, <2>2, <2>3, <2>4 DEF Session
<1>12. ASSUME {"session", "places"} \cap perturbes' = {}
       PROVE  Occupees' <= Capacite /\ Places(ops[o])'
  <2>1. Occupees <= Capacite /\ Places(ops[o])
    BY <1>5, <1>12 DEF Inv, InvPlaces
  <2>2. Finale(ops[o])' = Finale(ops[o])
    BY <1>1, <1>3, <1>4, <1>5 DEF Finale, Placees
  <2> QED BY <1>1, <1>3, <1>4, <1>5, <2>1, <2>2 DEF Places, Occupees, Ayant
<1>13. ASSUME "rappels" \notin perturbes', ~passee'
       PROVE  Rappels(ops[o])'
  <2>1. Rappels(ops[o])
    BY <1>1, <1>5, <1>13 DEF Inv, InvRappels
  <2>2. "session" \notin perturbes
    BY <1>5, <1>13 DEF Inv, InvSeule
  <2>3. \A j \in Jeunes : ops[o].modifier[j] # "aucune" =>
          ops[o].lus[j].id = inscriptions[j].id
    BY <1>1, <2>2 DEF Inv, InvSession, Session, CiblesFideles
  <2>4. \A a \in fond : /\ ops[o].modifier[a.jeune] = "aucune"
                        /\ a.jeune \notin ops[o].inscrire
    BY <1>1, <2>1 DEF Rappels, AppelsPasses
  <2>5. \A j \in inscrits \cup autres : ops[o].lus[j].id = inscriptions[j].id
                                        /\ \A quoi, i : ~EnFond(quoi, j, i)
    BY <1>7, <2>3, <2>4 DEF EnFond
  <2>6. \A quoi, j, i : EnFond(quoi, j, i)' <=>
          \/ EnFond(quoi, j, i)
          \/ quoi = "planifier" /\ j \in inscrits /\ i = ops[o].lus[j].id
          \/ quoi = "retirer" /\ j \in autres /\ i = ops[o].lus[j].id
    BY <1>6, DansAppels DEF EnFond
  <2>7. AppelsPasses(ops[o])'
    <3>1. ASSUME NEW a \in fond'
          PROVE  a.jeune \notin ops[o].inscrire
      <4>1. a \in fond \/ a.jeune \in inscrits \cup autres
        BY <1>6, DansAppels
      <4>2. \A j \in inscrits \cup autres : j \notin ops[o].inscrire
        <5>1. CASE DuConseiller(ops[o])
          BY <1>1, <1>7, <5>1 DEF Cibles
        <5>2. CASE ~DuConseiller(ops[o])
          BY <1>1, <5>2 DEF Demarche, DuConseiller, Operation, Commandes
        <5> QED BY <5>1, <5>2
      <4> QED BY <2>4, <4>1, <4>2
    <3> QED BY <1>3, <1>4, <3>1 DEF AppelsPasses
  <2>8. ASSUME NEW j \in Jeunes, NEW i \in Nat
        PROVE  /\ ~(EnFond("planifier", j, i)' /\ EnFond("retirer", j, i)')
               /\ Futur(j, i)' <=> i = inscriptions'[j].id /\ Attendu(ops[o], j)'
    <3>1. /\ ~(EnFond("planifier", j, i) /\ EnFond("retirer", j, i))
          /\ Futur(j, i) <=> i = inscriptions[j].id /\ inscriptions[j].statut = "INSCRIT"
      BY <1>1, <2>1 DEF Rappels, Attendu
    <3>2. CASE ops[o].modifier[j] = "aucune"
      <4>1. j \notin inscrits /\ j \notin autres
        BY <1>7, <3>2
      <4> QED BY <1>3, <1>4, <1>5, <2>6, <3>1, <3>2, <4>1 DEF Futur, Attendu
    <3>3. CASE ops[o].modifier[j] = "INSCRIT"
      <4>1. j \in inscrits /\ j \notin autres
        BY <1>7, <3>3
      <4> QED BY <1>3, <1>4, <1>5, <2>5, <2>6, <3>1, <3>3, <4>1 DEF Futur, Attendu
    <3>4. CASE ops[o].modifier[j] \notin {"aucune", "INSCRIT"}
      <4>1. j \notin inscrits /\ j \in autres
        BY <1>7, <3>4
      <4> QED BY <1>3, <1>4, <1>5, <2>5, <2>6, <3>1, <3>4, <4>1 DEF Futur, Attendu
    <3> QED BY <3>2, <3>3, <3>4
  <2> QED BY <2>7, <2>8 DEF Rappels
<1> QED
  <2>1. InvOps' /\ InvSeule' /\ InvSession' /\ InvPlaces' /\ InvRappels'
    BY <1>1, <1>4, <1>5, <1>9, <1>10, <1>11, <1>12, <1>13, Local
  <2> QED BY <1>8, <2>1 DEF Inv

LEMMA PasDemarrerInscriptions ==
  ASSUME Inv, NEW o \in Ops, DemarrerInscriptions(o)
  PROVE  Inv'
<1> DEFINE op == [ops[o] EXCEPT !.etape = "inscription"]
<1>1. /\ ops[o] \in Operation /\ TypeOK /\ Actif(ops[o]) /\ Ecrit(ops[o])
      /\ Demarche(ops[o]) /\ Cibles(ops[o])
      /\ ops[o].etape = "modification" /\ ops[o].supprimer = {}
      /\ ATraiter(ops[o]) = {} /\ ops[o].inscrits = {}
  BY OperationType DEF Inv, InvOps, DemarrerInscriptions, Actif, Ecrit, Demarche
<1>2. ops' = [ops EXCEPT ![o] = op]
  BY <1>1 DEF DemarrerInscriptions, TypeOK
<1>3. /\ op \in Operation
      /\ op.cmd = ops[o].cmd /\ op.souhaits = ops[o].souhaits
      /\ op.aLire = ops[o].aLire /\ op.lus = ops[o].lus
      /\ op.aSauver = ops[o].aSauver /\ op.supprimer = ops[o].supprimer
      /\ op.modifier = ops[o].modifier /\ op.inscrire = ops[o].inscrire
      /\ op.inscrits = ops[o].inscrits /\ op.etape = "inscription"
  BY <1>1 DEF Operation, Etapes
<1> HIDE DEF op
<1>4. /\ ops' \in [Ops -> Operation] /\ ops'[o] = op
      /\ \A p \in Ops : p # o => ops'[p] = ops[p]
  BY <1>1, <1>2, <1>3 DEF TypeOK
<1>5. UNCHANGED <<inscriptions, instances, passee, ligne, aClore, rappels, fond,
                  demandes, pannes, perturbes>>
  BY DEF DemarrerInscriptions
<1>6. TypeOK'
  BY <1>1, <1>4, <1>5 DEF TypeOK
<1>7. Actif(op) /\ Ecrit(op)
  BY <1>3 DEF Actif, Ecrit
<1>8. Demarche(op) /\ Cibles(op)
  BY <1>1, <1>3, <1>7 DEF Demarche, Cibles, DuConseiller, ATraiter
<1>9. ASSUME "session" \notin perturbes'
      PROVE  ~aClore' /\ Session(ops[o])'
  <2>1. ~aClore /\ Session(ops[o])
    BY <1>1, <1>5, <1>9 DEF Inv, InvSeule, InvSession
  <2>2. LectureFidele(ops[o])'
    BY <1>4, <1>7 DEF LectureFidele
  <2>3. CiblesFideles(ops[o])'
    BY <1>1, <1>3, <1>4, <1>5, <2>1 DEF Session, CiblesFideles
  <2>4. ClotureFidele(ops[o])'
    BY <1>1, <1>3, <1>4, <1>5, <2>1
       DEF Session, ClotureFidele, DuConseiller, Reglee, SansLigne
  <2> QED BY <1>5, <2>1, <2>2, <2>3, <2>4 DEF Session
<1>10. ASSUME {"session", "places"} \cap perturbes' = {}
       PROVE  Occupees' <= Capacite /\ Places(ops[o])'
  <2>1. Occupees <= Capacite /\ Places(ops[o])
    BY <1>5, <1>10 DEF Inv, InvPlaces
  <2>2. Finale(ops[o])' = Finale(ops[o])
    BY <1>3, <1>4, <1>5 DEF Finale, Placees
  <2> QED BY <1>1, <1>3, <1>4, <1>5, <2>1, <2>2 DEF Places, Occupees, Ayant
<1>11. ASSUME "rappels" \notin perturbes', ~passee'
       PROVE  Rappels(ops[o])'
  <2>1. Rappels(ops[o])
    BY <1>1, <1>5, <1>11 DEF Inv, InvRappels
  <2>2. AppelsPasses(ops[o])'
    BY <1>1, <1>3, <1>4, <1>5, <2>1 DEF Rappels, AppelsPasses
  <2>3. \A k \in Jeunes : Attendu(ops[o], k)' <=> Attendu(ops[o], k)
    BY <1>1, <1>3, <1>4, <1>5 DEF Attendu, ATraiter
  <2> QED BY <1>5, <2>1, <2>2, <2>3 DEF Rappels, EnFond, Futur
<1> QED
  <2>1. InvOps' /\ InvSeule' /\ InvSession' /\ InvPlaces' /\ InvRappels'
    BY <1>1, <1>4, <1>5, <1>7, <1>8, <1>9, <1>10, <1>11, Local
  <2> QED BY <1>6, <2>1 DEF Inv

LEMMA PasInscrire ==
  ASSUME Inv, NEW o \in Ops, NEW j \in Jeunes, Inscrire(o, j)
  PROVE  Inv'
<1> DEFINE nouvelle == [statut |-> "INSCRIT", id |-> instances[j] + 1]
           op == [ops[o] EXCEPT !.inscrire = @ \ {j}, !.inscrits = @ \cup {j},
                                !.lus[j] = inscriptions'[j]]
<1>1. /\ ops[o] \in Operation /\ TypeOK /\ Actif(ops[o]) /\ Ecrit(ops[o])
      /\ Demarche(ops[o]) /\ Cibles(ops[o])
      /\ ops[o].lus \in [Jeunes -> Inscription] /\ ops[o].inscrits \subseteq Jeunes
      /\ ops[o].etape = "inscription" /\ j \in ops[o].inscrire
      /\ ops[o].supprimer = {} /\ ops[o].cmd # "emarger"
      /\ \A k \in Jeunes : ops[o].modifier[k] = "aucune"
  BY OperationType DEF Inv, InvOps, Inscrire, Actif, Ecrit, Demarche, Cibles, ATraiter
<1>2. /\ inscriptions' = [inscriptions EXCEPT ![j] = nouvelle]
      /\ instances' = [instances EXCEPT ![j] = @ + 1]
      /\ UNCHANGED <<passee, ligne, aClore, rappels, fond, demandes, pannes,
                     perturbes>>
      /\ inscriptions[j] = Aucune
  BY DEF Inscrire
<1>3. nouvelle \in Inscription /\ nouvelle # Aucune /\ instances[j] + 1 \in Nat
  <2>1. instances[j] + 1 \in Nat \ {0}
    BY <1>1 DEF TypeOK
  <2> QED BY <2>1 DEF Inscription, Statuts, Aucune
<1>4. /\ inscriptions' \in [Jeunes -> Inscription] /\ inscriptions'[j] = nouvelle
      /\ \A k \in Jeunes : k # j => inscriptions'[k] = inscriptions[k]
      /\ instances' \in [Jeunes -> Nat] /\ instances'[j] = instances[j] + 1
      /\ \A k \in Jeunes : k # j => instances'[k] = instances[k]
  BY <1>1, <1>2, <1>3 DEF TypeOK
<1>5. nouvelle.statut = "INSCRIT" /\ nouvelle.id = instances[j] + 1
  OBVIOUS
<1> HIDE DEF nouvelle
<1>6. ops' = [ops EXCEPT ![o] = op]
  BY <1>1 DEF Inscrire, TypeOK
<1>7. /\ op \in Operation
      /\ op.cmd = ops[o].cmd /\ op.souhaits = ops[o].souhaits
      /\ op.aLire = ops[o].aLire /\ op.aSauver = ops[o].aSauver
      /\ op.supprimer = {} /\ op.modifier = ops[o].modifier
      /\ op.inscrire = ops[o].inscrire \ {j}
      /\ op.inscrits = ops[o].inscrits \cup {j} /\ op.etape = "inscription"
      /\ op.lus[j] = nouvelle
      /\ \A k \in Jeunes : k # j => op.lus[k] = ops[o].lus[k]
  <2>1. [ops[o].lus EXCEPT ![j] = inscriptions'[j]] \in [Jeunes -> Inscription]
    BY <1>1, <1>3, <1>4
  <2> QED BY <1>1, <1>4, <2>1 DEF Operation
<1> HIDE DEF op
<1>8. /\ ops' \in [Ops -> Operation] /\ ops'[o] = op
      /\ \A p \in Ops : p # o => ops'[p] = ops[p]
  BY <1>1, <1>6, <1>7 DEF TypeOK
<1>9. TypeOK'
  <2>1. \A k \in Jeunes : inscriptions'[k].id <= instances'[k]
    BY <1>1, <1>4, <1>5, <1>3 DEF TypeOK
  <2> QED BY <1>1, <1>2, <1>4, <1>8, <2>1 DEF TypeOK
<1>10. Actif(op) /\ Ecrit(op)
  BY <1>7 DEF Actif, Ecrit
<1>11. Demarche(op) /\ Cibles(op)
  BY <1>1, <1>3, <1>7, <1>10 DEF Demarche, Cibles, DuConseiller, ATraiter
<1>12. ASSUME "session" \notin perturbes'
       PROVE  ~aClore' /\ Session(ops[o])'
  <2>1. ~aClore /\ Session(ops[o])
    BY <1>1, <1>2, <1>12 DEF Inv, InvSeule, InvSession
  <2>2. LectureFidele(ops[o])'
    BY <1>8, <1>10 DEF LectureFidele
  <2>3. CiblesFideles(ops[o])'
    BY <1>1, <1>4, <1>5, <1>7, <1>8, <2>1 DEF Session, CiblesFideles
  <2>4. ClotureFidele(ops[o])'
    BY <1>1, <1>2, <1>7, <1>8, <2>1
       DEF Session, ClotureFidele, DuConseiller, Reglee, SansLigne
  <2> QED BY <1>2, <2>1, <2>2, <2>3, <2>4 DEF Session
<1>13. ASSUME {"session", "places"} \cap perturbes' = {}
       PROVE  Occupees' <= Capacite /\ Places(ops[o])'
  <2> DEFINE occ2 == Ayant(inscriptions', {"INSCRIT", "PRESENT"})
             finale == Finale(ops[o])
  <2>1. /\ occ2 \in SUBSET finale /\ finale \in SUBSET Jeunes
        /\ Occupees' = Cardinality(occ2)
    BY <1>1, <1>4 DEF Ayant, Occupees, Finale, Placees
  <2>2. Cardinality(finale) <= Capacite
    BY <1>1, <1>2, <1>13 DEF Inv, InvPlaces, Places
  <2>3. Finale(ops[o])' = finale
    BY <1>1, <1>4, <1>5, <1>7, <1>8 DEF Finale, Placees
  <2>4. Cardinality(occ2) <= Cardinality(finale) /\ Cardinality(occ2) \in Nat
        /\ Cardinality(finale) \in Nat
    BY <2>1, OccupeesType, FS_Subset
  <2> HIDE DEF occ2, finale
  <2> QED BY <2>1, <2>2, <2>3, <2>4, ConstantsAssumption DEF Places
<1>14. ASSUME "rappels" \notin perturbes', ~passee'
       PROVE  Rappels(ops[o])'
  <2>1. Rappels(ops[o])
    BY <1>1, <1>2, <1>14 DEF Inv, InvRappels
  <2>2. AppelsPasses(ops[o])'
    BY <1>1, <1>2, <1>7, <1>8, <2>1 DEF Rappels, AppelsPasses
  <2>3. Aucune.statut = "aucune"
    BY DEF Aucune
  <2>4. \A k \in Jeunes :
          /\ Attendu(ops[o], k)' <=> Attendu(ops[o], k)
          /\ Attendu(ops[o], k) => inscriptions'[k] = inscriptions[k]
    BY <1>1, <1>2, <1>4, <1>5, <1>7, <1>8, <2>3 DEF Attendu
  <2> QED BY <1>2, <2>1, <2>2, <2>4 DEF Rappels, EnFond, Futur
<1> QED
  <2>1. InvOps' /\ InvSeule' /\ InvSession' /\ InvPlaces' /\ InvRappels'
    BY <1>1, <1>2, <1>8, <1>10, <1>11, <1>12, <1>13, <1>14, Local
  <2> QED BY <1>9, <2>1 DEF Inv

LEMMA PasTerminerInscriptions ==
  ASSUME Inv, NEW o \in Ops, TerminerInscriptions(o)
  PROVE  Inv'
<1> DEFINE sauve == [ops[o] EXCEPT !.etape = "sauvegarde"]
           op == IF ops[o].cmd = "autoinscrire" THEN Libre ELSE sauve
           inscrits == ops[o].inscrits
<1>1. /\ ops[o] \in Operation /\ TypeOK /\ Actif(ops[o]) /\ Ecrit(ops[o])
      /\ Demarche(ops[o]) /\ Cibles(ops[o])
      /\ ops[o].lus \in [Jeunes -> Inscription] /\ inscrits \subseteq Jeunes
      /\ ops[o].etape = "inscription" /\ ops[o].inscrire = {}
      /\ ops[o].supprimer = {} /\ ATraiter(ops[o]) = {}
  BY OperationType DEF Inv, InvOps, TerminerInscriptions, Actif, Ecrit, Demarche
<1>2. ops' = [ops EXCEPT ![o] = op]
  BY <1>1 DEF TerminerInscriptions, TypeOK
<1>3. /\ sauve \in Operation
      /\ sauve.cmd = ops[o].cmd /\ sauve.souhaits = ops[o].souhaits
      /\ sauve.aLire = ops[o].aLire /\ sauve.lus = ops[o].lus
      /\ sauve.aSauver = ops[o].aSauver /\ sauve.supprimer = {}
      /\ sauve.modifier = ops[o].modifier /\ sauve.inscrire = {}
      /\ sauve.inscrits = inscrits /\ sauve.etape = "sauvegarde"
  BY <1>1 DEF Operation, Etapes
<1> HIDE DEF sauve
<1>4. /\ ops' \in [Ops -> Operation] /\ ops'[o] = op
      /\ \A p \in Ops : p # o => ops'[p] = ops[p]
  BY <1>1, <1>2, <1>3, LibreType DEF TypeOK
<1>5. /\ UNCHANGED <<inscriptions, instances, passee, ligne, aClore, rappels,
                     demandes, pannes, perturbes>>
      /\ fond' = fond \cup Appels("planifier", inscrits, ops[o].lus)
  BY DEF TerminerInscriptions
<1>6. TypeOK'
  <2>1. \A j \in inscrits : ops[o].lus[j] # Aucune
    BY <1>1 DEF Cibles
  <2>2. fond' \subseteq Appel
    BY <1>1, <1>5, <2>1, AppelsType DEF TypeOK
  <2> QED BY <1>1, <1>4, <1>5, <2>2 DEF TypeOK
<1>7. ops[o].cmd # "autoinscrire" =>
        /\ Actif(op) /\ Ecrit(op) /\ op = sauve
        /\ Demarche(op) /\ Cibles(op)
  BY <1>1, <1>3 DEF Actif, Ecrit, Demarche, Cibles, DuConseiller, ATraiter
<1>8. ops[o].cmd = "autoinscrire" =>
        op = Libre /\ ~Actif(op) /\ ~Ecrit(op) /\ Demarche(op) /\ Cibles(op)
  BY LibreType
<1> HIDE DEF op
<1>9. ASSUME "session" \notin perturbes'
      PROVE  ~aClore' /\ Session(ops[o])'
  <2>1. ~aClore /\ Session(ops[o])
    BY <1>1, <1>5, <1>9 DEF Inv, InvSeule, InvSession
  <2>2. CASE ops[o].cmd = "autoinscrire"
    BY <1>4, <1>5, <1>8, <2>1, <2>2 DEF Session, LectureFidele, CiblesFideles,
                                        ClotureFidele
  <2>3. CASE ops[o].cmd # "autoinscrire"
    <3>1. LectureFidele(ops[o])'
      BY <1>4, <1>7, <2>3 DEF LectureFidele
    <3>2. CiblesFideles(ops[o])'
      BY <1>1, <1>3, <1>4, <1>5, <1>7, <2>1, <2>3 DEF Session, CiblesFideles
    <3>3. ClotureFidele(ops[o])'
      BY <1>1, <1>3, <1>4, <1>5, <1>7, <2>1, <2>3
         DEF Session, ClotureFidele, DuConseiller, Reglee, SansLigne
    <3> QED BY <1>5, <2>1, <3>1, <3>2, <3>3 DEF Session
  <2> QED BY <2>2, <2>3
<1>10. ASSUME {"session", "places"} \cap perturbes' = {}
       PROVE  Occupees' <= Capacite /\ Places(ops[o])'
  <2>1. Occupees <= Capacite /\ Places(ops[o])
    BY <1>5, <1>10 DEF Inv, InvPlaces
  <2>2. CASE ops[o].cmd = "autoinscrire"
    BY <1>4, <1>5, <1>8, <2>1, <2>2 DEF Places, Occupees, Ayant
  <2>3. CASE ops[o].cmd # "autoinscrire"
    <3>1. Finale(ops[o])' = Finale(ops[o])
      BY <1>1, <1>3, <1>4, <1>5, <1>7, <2>3 DEF Finale, Placees
    <3> QED BY <1>1, <1>3, <1>4, <1>5, <1>7, <2>1, <2>3, <3>1
            DEF Places, Occupees, Ayant
  <2> QED BY <2>2, <2>3
<1>11. ASSUME "rappels" \notin perturbes', ~passee'
       PROVE  Rappels(ops[o])'
  <2>1. Rappels(ops[o]) /\ "session" \notin perturbes
    BY <1>1, <1>5, <1>11 DEF Inv, InvRappels, InvSeule
  <2>2. \A j \in inscrits : /\ ops[o].lus[j].id = inscriptions[j].id
                            /\ inscriptions[j].statut = "INSCRIT"
                            /\ \A quoi, i : ~EnFond(quoi, j, i)
    <3>1. \A a \in fond : a.jeune \notin inscrits
      BY <1>1, <2>1 DEF Rappels, AppelsPasses
    <3> QED BY <1>1, <2>1, <3>1 DEF Inv, InvSession, Session, CiblesFideles, EnFond
  <2>3. \A quoi, j, i : EnFond(quoi, j, i)' <=>
          EnFond(quoi, j, i)
          \/ (quoi = "planifier" /\ j \in inscrits /\ i = ops[o].lus[j].id)
    BY <1>5, AjoutAppels
  <2>4. AppelsPasses(ops[o])'
    BY <1>3, <1>4, <1>7, <1>8 DEF AppelsPasses
  <2>5. ASSUME NEW j \in Jeunes, NEW i \in Nat
        PROVE  /\ ~(EnFond("planifier", j, i)' /\ EnFond("retirer", j, i)')
               /\ Futur(j, i)' <=> i = inscriptions'[j].id /\ Attendu(ops[o], j)'
    <3>1. /\ ~(EnFond("planifier", j, i) /\ EnFond("retirer", j, i))
          /\ Futur(j, i) <=> /\ i = inscriptions[j].id
                             /\ inscriptions[j].statut = "INSCRIT"
                             /\ j \notin inscrits
      BY <1>1, <2>1 DEF Rappels, Attendu
    <3>2. Attendu(ops[o], j)' <=> inscriptions[j].statut = "INSCRIT"
      <4>1. Libre.etape = "libre"
        BY DEF Libre
      <4> QED BY <1>3, <1>4, <1>5, <1>7, <1>8, <4>1 DEF Attendu
    <3>3. CASE j \in inscrits
      BY <1>5, <2>2, <2>3, <3>1, <3>2, <3>3 DEF Futur
    <3>4. CASE j \notin inscrits
      BY <1>5, <2>3, <3>1, <3>2, <3>4 DEF Futur
    <3> QED BY <3>3, <3>4
  <2> QED BY <2>4, <2>5 DEF Rappels
<1> QED
  <2>1. Demarche(ops[o])' /\ Cibles(ops[o])'
    BY <1>4, <1>7, <1>8
  <2>2. Actif(ops'[o]) => Ecrit(ops'[o])
    BY <1>4, <1>7, <1>8
  <2>3. InvOps' /\ InvSeule' /\ InvSession' /\ InvPlaces' /\ InvRappels'
    BY <1>1, <1>4, <1>5, <1>9, <1>10, <1>11, <2>1, <2>2, Local
  <2> QED BY <1>6, <2>3 DEF Inv

-----------------------------------------------------------------------------
(* A new command                                                            *)

LEMMA SouhaitsType ==
  ASSUME NEW cmd \in Commandes, NEW s \in SouhaitsDe(cmd)
  PROVE  /\ s \in [Jeunes -> Souhaits]
         /\ cmd = "autoinscrire" => \E j \in Jeunes : s[j] = "INSCRIT"
         /\ cmd = "emarger" => \A j \in Jeunes : s[j] # "DESINSCRIT"
<1>1. CASE cmd = "modifier"
  BY <1>1, Zenon DEF SouhaitsDe, Souhaits, Statuts
<1>2. CASE cmd = "emarger"
  <2>1. SouhaitsDe(cmd) = [Jeunes -> {NonDemande} \cup Statuts]
    BY <1>2 DEF SouhaitsDe
  <2> QED BY <1>2, <2>1 DEF Souhaits, Statuts, NonDemande
<1>3. CASE cmd = "autoinscrire"
  <2>1. PICK k \in Jeunes : s = [j \in Jeunes |-> IF j = k THEN "INSCRIT" ELSE NonDemande]
    BY <1>3 DEF SouhaitsDe
  <2> QED BY <1>3, <2>1 DEF Souhaits, Statuts
<1>4. CASE cmd = "consulter"
  <2>1. s = [j \in Jeunes |-> NonDemande]
    BY <1>4 DEF SouhaitsDe
  <2> QED BY <1>4, <2>1 DEF Souhaits
<1> QED BY <1>1, <1>2, <1>3, <1>4 DEF Commandes

LEMMA PasDemarrer ==
  ASSUME Inv, NEW o \in Ops, NEW cmd \in Commandes, Demarrer(o, cmd)
  PROVE  Inv'
<1>1. TypeOK /\ ~Actif(ops[o])
  BY DEF Inv, Demarrer, Actif
<1>2. PICK s \in SouhaitsDe(cmd),
           r \in IF cmd = "modifier" THEN Reglages ELSE {<<Inchange, Inchange>>} :
        ops' = [ops EXCEPT ![o] =
                  [Libre EXCEPT !.etape = "lecture", !.cmd = cmd,
                                !.souhaits = s, !.reglage = r,
                                !.aLire = {"places", "inscrits"}]]
  BY DEF Demarrer
<1>3. /\ s \in [Jeunes -> Souhaits] /\ r \in Choix \X Choix
      /\ cmd = "autoinscrire" => \E j \in Jeunes : s[j] = "INSCRIT"
      /\ cmd = "emarger" => \A j \in Jeunes : s[j] # "DESINSCRIT"
  BY SouhaitsType, ConstantsAssumption DEF Choix
<1> DEFINE op == [Libre EXCEPT !.etape = "lecture", !.cmd = cmd,
                               !.souhaits = s, !.reglage = r,
                               !.aLire = {"places", "inscrits"}]
<1>4. /\ op \in Operation /\ op.etape = "lecture" /\ op.cmd = cmd
      /\ op.souhaits = s /\ op.aLire = {"places", "inscrits"}
      /\ op.supprimer = {} /\ op.inscrire = {} /\ op.inscrits = {}
      /\ \A j \in Jeunes : op.modifier[j] = "aucune"
  <2>1. /\ op \in Operation /\ op.etape = "lecture" /\ op.cmd = cmd
        /\ op.souhaits = s /\ op.aLire = {"places", "inscrits"}
        /\ op.supprimer = Libre.supprimer /\ op.inscrire = Libre.inscrire
        /\ op.inscrits = Libre.inscrits /\ op.modifier = Libre.modifier
    BY <1>3, LibreType DEF Operation, Etapes
  <2>2. /\ Libre.supprimer = {} /\ Libre.inscrire = {} /\ Libre.inscrits = {}
        /\ \A j \in Jeunes : Libre.modifier[j] = "aucune"
    BY DEF Libre
  <2> HIDE DEF op
  <2> QED BY <2>1, <2>2
<1> HIDE DEF op
<1>5. /\ ops' \in [Ops -> Operation] /\ ops'[o] = op
      /\ \A p \in Ops : p # o => ops'[p] = ops[p]
  BY <1>1, <1>2, <1>4 DEF TypeOK, op
<1>6. /\ UNCHANGED <<inscriptions, instances, passee, ligne, aClore, rappels, fond,
                     pannes>>
      /\ demandes' = demandes + 1
      /\ perturbes' = IF EnCours THEN perturbes \cup {"session", "rappels"} ELSE perturbes
  BY DEF Demarrer
<1>7. TypeOK'
  <2>1. demandes' \in Nat
    BY <1>1, <1>6 DEF TypeOK
  <2>2. perturbes' \subseteq {"session", "rappels", "places"}
    BY <1>1, <1>6 DEF TypeOK
  <2> QED BY <1>1, <1>5, <1>6, <2>1, <2>2 DEF TypeOK
<1>8. Actif(op) /\ ~Ecrit(op) /\ Demarche(op) /\ Cibles(op)
  BY <1>3, <1>4 DEF Actif, Ecrit, Demarche, Cibles, ATraiter, DuConseiller
<1>9. ASSUME "session" \notin perturbes' \/ "rappels" \notin perturbes'
      PROVE  /\ perturbes' = perturbes /\ ~aClore /\ fond = {}
             /\ \A p \in Ops : ~Actif(ops[p])
             /\ \A p \in Ops : p # o => ~Actif(ops'[p]) /\ ~Ecrit(ops'[p])
  <2>1. ~EnCours
    BY <1>6, <1>9
  <2> QED BY <1>5, <1>6, <2>1 DEF EnCours, Actif, Ecrit
<1>10. InvOps'
  BY <1>5, <1>8 DEF Inv, InvOps, Demarche, Cibles, ATraiter, DuConseiller, Ecrit
<1>11. InvSeule'
  <2>1. "session" \in perturbes' => "rappels" \in perturbes'
    BY <1>6 DEF Inv, InvSeule
  <2>2. ASSUME "session" \notin perturbes'
        PROVE  ~aClore' /\ \A p, q \in Ops : Actif(ops'[p]) /\ Actif(ops'[q]) => p = q
    BY <1>6, <1>9, <2>2
  <2>3. "rappels" \notin perturbes' => fond' = {}
    BY <1>6, <1>9
  <2> QED BY <2>1, <2>2, <2>3 DEF InvSeule, Actif, Ecrit
<1>12. InvSession'
  <2>1. ASSUME "session" \notin perturbes', NEW p \in Ops
        PROVE  Session(ops[p])'
    <3>1. CASE p = o
      BY <1>4, <1>5, <1>8, <3>1 DEF Session, LectureFidele, CiblesFideles, ClotureFidele
    <3>2. CASE p # o
      BY <1>9, <2>1, <3>2 DEF Session, LectureFidele, CiblesFideles, ClotureFidele
    <3> QED BY <3>1, <3>2
  <2> QED BY <1>6, <1>9, <2>1 DEF InvSession
<1>13. InvPlaces'
  <2> SUFFICES ASSUME {"session", "places"} \cap perturbes' = {}
               PROVE  Occupees' <= Capacite /\ \A p \in Ops : Places(ops[p])'
    BY DEF InvPlaces
  <2>1. Occupees' <= Capacite
    BY <1>6 DEF Inv, InvPlaces, Occupees, Ayant
  <2>2. ASSUME NEW p \in Ops PROVE ~Ecrit(ops'[p])
    BY <1>5, <1>8, <1>9
  <2> QED BY <2>1, <2>2 DEF Places
<1>14. InvRappels'
  <2> SUFFICES ASSUME "rappels" \notin perturbes', ~passee'
               PROVE  /\ \A p \in Ops : Actif(ops'[p]) => Rappels(ops[p])'
                      /\ (\A p \in Ops : ~Actif(ops'[p])) => Rappels(Libre)'
    BY DEF InvRappels, Actif
  <2>1. Rappels(Libre)
    BY <1>6, <1>9 DEF Inv, InvRappels
  <2>2. Libre.etape = "libre"
    BY DEF Libre
  <2>3. Rappels(ops[o])'
    BY <1>4, <1>5, <1>6, <1>8, <1>9, <2>1, <2>2
       DEF Rappels, AppelsPasses, Attendu, EnFond, Futur
  <2> QED BY <1>5, <1>8, <1>9, <2>3
<1> QED BY <1>7, <1>10, <1>11, <1>12, <1>13, <1>14 DEF Inv

-----------------------------------------------------------------------------
(* Outside, and jobs                                                        *)

(* The steps that leave the commands, the registrations and the row alone   *)
LEMMA CommandesIntactes ==
  ASSUME Inv, UNCHANGED <<inscriptions, ligne, ops, aClore>>,
         fond' \subseteq fond,
         perturbes' \in {perturbes, perturbes \cup {"rappels"}}
  PROVE  InvOps' /\ InvSeule' /\ InvSession' /\ InvPlaces'
<1>1. InvOps'
  BY DEF Inv, InvOps, Demarche, Cibles, ATraiter, DuConseiller, Ecrit
<1>2. InvSeule'
  BY DEF Inv, InvSeule, Actif, Ecrit
<1>3. InvSession'
  <2>1. /\ \A S : Ayant(inscriptions, S)' = Ayant(inscriptions, S)
        /\ Occupees' = Occupees
    BY DEF Ayant, Occupees
  <2>2. ASSUME "session" \notin perturbes', NEW o \in Ops
        PROVE  Session(ops[o])'
    <3>1. Session(ops[o]) /\ ops'[o] = ops[o]
      BY <2>2 DEF Inv, InvSession
    <3>2. LectureFidele(ops[o])'
      BY <2>1, <3>1 DEF Session, LectureFidele, Actif, Ecrit
    <3>3. CiblesFideles(ops[o])'
      BY <3>1 DEF Session, CiblesFideles, Ecrit
    <3>4. ClotureFidele(ops[o])'
      BY <3>1 DEF Session, ClotureFidele, Ecrit, DuConseiller, Reglee, SansLigne
    <3> QED BY <3>2, <3>3, <3>4 DEF Session
  <2> QED BY <2>1, <2>2 DEF Inv, InvSession, Ayant
<1>4. InvPlaces'
  BY DEF Inv, InvPlaces, Places, Finale, Placees, Occupees, Ayant, Ecrit
<1> QED BY <1>1, <1>2, <1>3, <1>4

LEMMA PasCommencer ==
  ASSUME Inv, Commencer
  PROVE  Inv'
<1>1. TypeOK'
  BY DEF Inv, TypeOK, Commencer
<1>2. InvOps' /\ InvSeule' /\ InvSession' /\ InvPlaces'
  BY CommandesIntactes DEF Commencer
<1>3. InvRappels'
  BY DEF Commencer, InvRappels
<1> QED BY <1>1, <1>2, <1>3 DEF Inv

LEMMA PasExecuterAppel ==
  ASSUME Inv, NEW a \in fond, ExecuterAppel(a)
  PROVE  Inv'
<1>1. /\ TypeOK /\ a \in Appel /\ a.jeune \in Jeunes /\ a.id \in Nat \ {0}
      /\ a.op \in {"planifier", "retirer"}
  BY DEF Inv, TypeOK, Appel
<1>2. /\ UNCHANGED <<inscriptions, instances, passee, ligne, aClore, ops,
                     demandes, pannes, perturbes>>
      /\ fond' = fond \ {a}
      /\ rappels' = IF a.op = "retirer" THEN rappels \ {<<a.jeune, a.id>>}
                    ELSE IF passee THEN rappels ELSE rappels \cup {<<a.jeune, a.id>>}
  BY DEF ExecuterAppel
<1>3. TypeOK'
  <2>1. rappels' \subseteq Jeunes \X (Nat \ {0})
    BY <1>1, <1>2 DEF TypeOK
  <2> QED BY <1>1, <1>2, <2>1 DEF TypeOK
<1>4. InvOps' /\ InvSeule' /\ InvSession' /\ InvPlaces'
  BY <1>2, CommandesIntactes
<1>5. ASSUME "rappels" \notin perturbes, ~passee, NEW op, Rappels(op)
      PROVE  /\ \A j \in Jeunes, i \in Nat :
                  /\ ~(EnFond("planifier", j, i)' /\ EnFond("retirer", j, i)')
                  /\ Futur(j, i)' <=> Futur(j, i)
             /\ \A b \in fond' : b \in fond
  <2>1. /\ a.op = "retirer" => EnFond("retirer", a.jeune, a.id)
        /\ a.op = "planifier" => EnFond("planifier", a.jeune, a.id)
        /\ ~(EnFond("planifier", a.jeune, a.id) /\ EnFond("retirer", a.jeune, a.id))
    BY <1>1, <1>5 DEF EnFond, Rappels
  <2>2. ASSUME NEW quoi, NEW j, NEW i
        PROVE  /\ EnFond(quoi, j, i)' => EnFond(quoi, j, i)
               /\ EnFond(quoi, j, i) =>
                    \/ EnFond(quoi, j, i)'
                    \/ quoi = a.op /\ j = a.jeune /\ i = a.id
    BY <1>2 DEF EnFond
  <2>3. ASSUME NEW j \in Jeunes, NEW i \in Nat
        PROVE  Futur(j, i)' <=> Futur(j, i)
    <3>1. CASE j = a.jeune /\ i = a.id
      BY <1>1, <1>2, <1>5, <2>1, <2>2, <3>1 DEF Futur
    <3>2. CASE ~(j = a.jeune /\ i = a.id)
      <4>1. <<j, i>> \in rappels' <=> <<j, i>> \in rappels
        BY <1>2, <3>2
      <4> QED BY <2>2, <3>2, <4>1 DEF Futur
    <3> QED BY <3>1, <3>2
  <2> QED BY <1>2, <1>5, <2>2, <2>3 DEF Rappels
<1>6. InvRappels'
  <2> SUFFICES ASSUME "rappels" \notin perturbes, ~passee
               PROVE  /\ \A p \in Ops : Actif(ops[p]) => Rappels(ops[p])'
                      /\ (\A p \in Ops : ~Actif(ops[p])) => Rappels(Libre)'
    BY <1>2 DEF InvRappels
  <2>1. ASSUME NEW p \in Ops, Actif(ops[p])
        PROVE  Rappels(ops[p])'
    <3>1. Rappels(ops[p])
      BY <2>1 DEF Inv, InvRappels
    <3>2. AppelsPasses(ops[p])'
      BY <1>2, <3>1 DEF Rappels, AppelsPasses, Ecrit
    <3> QED BY <1>2, <1>5, <3>1, <3>2 DEF Rappels, Attendu
  <2>2. ASSUME \A p \in Ops : ~Actif(ops[p])
        PROVE  Rappels(Libre)'
    <3>1. Rappels(Libre)
      BY <2>2 DEF Inv, InvRappels
    <3>2. AppelsPasses(Libre)'
      BY LibreType DEF AppelsPasses
    <3> QED BY <1>2, <1>5, <3>1, <3>2 DEF Rappels, Attendu
  <2> QED BY <2>1, <2>2
<1> QED BY <1>3, <1>4, <1>6 DEF Inv

LEMMA PasEchecAppel ==
  ASSUME Inv, NEW a \in fond, EchecAppel(a)
  PROVE  Inv'
<1>1. TypeOK'
  <2>1. pannes' \in Nat
    BY DEF Inv, TypeOK, EchecAppel
  <2> QED BY <2>1 DEF Inv, TypeOK, EchecAppel
<1>2. InvOps' /\ InvSeule' /\ InvSession' /\ InvPlaces'
  BY CommandesIntactes DEF EchecAppel
<1>3. InvRappels'
  BY DEF EchecAppel, InvRappels
<1> QED BY <1>1, <1>2, <1>3 DEF Inv

LEMMA PasCloreSession ==
  ASSUME Inv, CloreSession
  PROVE  Inv'
<1>1. /\ TypeOK /\ aClore /\ aClore' = FALSE
      /\ UNCHANGED <<inscriptions, instances, passee, rappels, ops, fond,
                     demandes, pannes, perturbes>>
  BY DEF Inv, CloreSession
<1>2. ligne' \in Ligne /\ ligne'.close
  <2> DEFINE visible == IF ligne = Absent THEN FALSE ELSE ligne.visible
  <2>1. Reglee(ligne) \in Ligne /\ visible \in BOOLEAN
    BY <1>1, RegleeType DEF TypeOK, Ligne
  <2>2. ligne' = [Reglee(ligne) EXCEPT !.visible = visible, !.close = TRUE]
    BY DEF CloreSession
  <2> HIDE DEF visible
  <2> QED BY <2>1, <2>2 DEF Ligne
<1>3. TypeOK'
  BY <1>1, <1>2 DEF TypeOK
<1>4. "session" \notin perturbes => \A o \in Ops : ~Actif(ops[o]) /\ ~Ecrit(ops[o])
  BY <1>1 DEF Inv, InvSeule, Actif, Ecrit
<1>5. InvOps' /\ InvSeule'
  BY <1>1 DEF Inv, InvOps, InvSeule, Demarche, Cibles, ATraiter, DuConseiller,
              Actif, Ecrit
<1>6. InvSession'
  <2>1. ASSUME "session" \notin perturbes, NEW o \in Ops
        PROVE  Session(ops[o])'
    <3>1. ops'[o] = ops[o] /\ ~Actif(ops[o]) /\ ~Ecrit(ops[o])
      BY <1>1, <1>4, <2>1
    <3> QED BY <3>1 DEF Session, LectureFidele, CiblesFideles, ClotureFidele
  <2> QED BY <1>1, <2>1 DEF InvSession
<1>7. InvPlaces'
  BY <1>1 DEF Inv, InvPlaces, Places, Finale, Placees, Occupees, Ayant, Ecrit
<1>8. InvRappels'
  BY <1>1 DEF Inv, InvRappels, Rappels, AppelsPasses, EnFond, Futur, Attendu,
              Actif, Ecrit, Libre
<1> QED BY <1>3, <1>5, <1>6, <1>7, <1>8 DEF Inv

-----------------------------------------------------------------------------
(* The invariant                                                            *)

LEMMA Debut == Init => Inv
<1> SUFFICES ASSUME Init PROVE Inv
  OBVIOUS
<1>1. /\ inscriptions \in [Jeunes -> Inscrites]
      /\ Cardinality(Ayant(inscriptions, {"INSCRIT"})) <= Capacite
  BY DEF Init, Depart
<1>2. /\ instances = [j \in Jeunes |-> inscriptions[j].id]
      /\ rappels = Ayant(inscriptions, {"INSCRIT"}) \X {1}
      /\ ops = [o \in Ops |-> Libre]
      /\ passee = FALSE /\ ligne = Absent /\ aClore = FALSE /\ fond = {}
      /\ demandes = 0 /\ pannes = 0 /\ perturbes = {}
  BY DEF Init
<1>3. ASSUME NEW j \in Jeunes
      PROVE  /\ inscriptions[j] \in Inscription
             /\ inscriptions[j].statut \in {"aucune", "INSCRIT", "REFUS_JEUNE"}
             /\ inscriptions[j].statut # "aucune" => inscriptions[j].id = 1
  <2>1. CASE inscriptions[j] = Aucune
    BY <2>1 DEF Inscription, Aucune
  <2>2. CASE inscriptions[j] \in {[statut |-> s, id |-> 1] : s \in StatutsAvant}
    <3>1. PICK s \in StatutsAvant : inscriptions[j] = [statut |-> s, id |-> 1]
      BY <2>2
    <3>2. s \in {"INSCRIT", "REFUS_JEUNE"}
      BY ConstantsAssumption
    <3> QED BY <3>1, <3>2 DEF Inscription, Statuts
  <2> QED BY <1>1, <2>1, <2>2 DEF Inscrites
<1>4. \A o \in Ops : ops[o] = Libre
  BY <1>2
<1>5. TypeOK
  <2>1. inscriptions \in [Jeunes -> Inscription]
    BY <1>1, <1>3
  <2>2. /\ instances \in [Jeunes -> Nat]
        /\ \A j \in Jeunes : inscriptions[j].id <= instances[j]
    BY <1>2, <1>3, InscriptionType
  <2>3. rappels \subseteq Jeunes \X (Nat \ {0})
    BY <1>2 DEF Ayant
  <2>4. ops \in [Ops -> Operation]
    BY <1>2, LibreType
  <2>5. ligne \in Ligne \cup {Absent} /\ passee \in BOOLEAN /\ aClore \in BOOLEAN
    BY <1>2
  <2>6. {demandes, pannes} \subseteq Nat /\ fond \subseteq Appel
    BY <1>2
  <2>7. perturbes \subseteq {"session", "rappels", "places"}
    BY <1>2
  <2> QED BY <2>1, <2>2, <2>3, <2>4, <2>5, <2>6, <2>7 DEF TypeOK
<1>6. InvOps
  BY <1>4, LibreType DEF InvOps
<1>7. InvSeule
  BY <1>2, <1>4, LibreType DEF InvSeule
<1>8. InvSession
  BY <1>2, <1>4, LibreType DEF InvSession, Session, LectureFidele, CiblesFideles,
                               ClotureFidele
<1>9. InvPlaces
  <2>1. Ayant(inscriptions, {"INSCRIT", "PRESENT"}) = Ayant(inscriptions, {"INSCRIT"})
    BY <1>3 DEF Ayant
  <2> QED BY <1>1, <1>4, <2>1, LibreType DEF InvPlaces, Occupees, Places
<1>10. InvRappels
  <2>1. \A quoi, j, i : ~EnFond(quoi, j, i)
    BY <1>2 DEF EnFond
  <2>2. Libre.etape = "libre"
    BY DEF Libre
  <2>3. ASSUME NEW j \in Jeunes, NEW i \in Nat
        PROVE  Futur(j, i) <=> i = inscriptions[j].id /\ Attendu(Libre, j)
    <3>1. <<j, i>> \in rappels <=> inscriptions[j].statut = "INSCRIT" /\ i = 1
      BY <1>2 DEF Ayant
    <3> QED BY <1>3, <2>1, <2>2, <3>1 DEF Futur, Attendu
  <2>4. Rappels(Libre)
    BY <2>1, <2>3, LibreType DEF Rappels, AppelsPasses
  <2> QED BY <1>4, <2>4, LibreType DEF InvRappels
<1> QED BY <1>5, <1>6, <1>7, <1>8, <1>9, <1>10 DEF Inv

LEMMA Repos ==
  ASSUME Inv, UNCHANGED vars
  PROVE  Inv'
<1>1. TypeOK'
  BY DEF Inv, TypeOK, vars
<1>2. InvOps' /\ InvSeule' /\ InvSession' /\ InvPlaces'
  BY CommandesIntactes DEF vars
<1>3. InvRappels'
  BY DEF Inv, vars, InvRappels, Rappels, AppelsPasses, EnFond, Futur, Attendu,
         Actif, Ecrit, Libre
<1> QED BY <1>1, <1>2, <1>3 DEF Inv

LEMMA Suite == Inv /\ [Next]_vars => Inv'
<1> SUFFICES ASSUME Inv, [Next]_vars PROVE Inv'
  OBVIOUS
<1>1. CASE Commencer
  BY <1>1, PasCommencer
<1>2. CASE CloreSession
  BY <1>2, PasCloreSession
<1>3. ASSUME NEW o \in Ops, NEW cmd \in Commandes, Demarrer(o, cmd)
      PROVE  Inv'
  BY <1>3, PasDemarrer
<1>4. ASSUME NEW o \in Ops, NEW quoi \in {"places", "inscrits"}, LireMilo(o, quoi)
      PROVE  Inv'
  BY <1>4, PasLireMilo
<1>5. ASSUME NEW o \in Ops, LireLigne(o) \/ Decider(o) \/ Consulter(o)
      PROVE  Inv'
  BY <1>5, PasLireLigne, PasDecider, PasConsulter
<1>6. ASSUME NEW o \in Ops, NEW j \in Jeunes,
             Desinscrire(o, j) \/ ModifierInscription(o, j) \/ Inscrire(o, j)
      PROVE  Inv'
  BY <1>6, PasDesinscrire, PasModifierInscription, PasInscrire
<1>7. ASSUME NEW o \in Ops,
             \/ DemarrerModifications(o)
             \/ DemarrerInscriptions(o)
             \/ TerminerInscriptions(o)
             \/ SauverLigne(o)
             \/ Echec(o)
      PROVE  Inv'
  BY <1>7, PasDemarrerModifications, PasDemarrerInscriptions,
     PasTerminerInscriptions, PasSauverLigne, PasEchec
<1>8. ASSUME NEW a \in fond, ExecuterAppel(a) \/ EchecAppel(a)
      PROVE  Inv'
  BY <1>8, PasExecuterAppel, PasEchecAppel
<1>9. CASE UNCHANGED vars
  BY <1>9, Repos
<1> QED BY <1>1, <1>2, <1>3, <1>4, <1>5, <1>6, <1>7, <1>8, <1>9 DEF Next

LEMMA Invariant == Spec => []Inv
BY Debut, Suite, PTL DEF Spec

-----------------------------------------------------------------------------
(* What the invariant gives                                                 *)

(* The registrations, the row, the commands and the calls to the planner    *)
(* keep their shape, and an instance number is never above those given.     *)
THEOREM Typage == Spec => []TypeOK
<1>1. Inv => TypeOK
  BY DEF Inv
<1> QED BY <1>1, Invariant, PTL

(* Whatever the order in which Milo makes the changes, and wherever they    *)
(* stop, a command that nothing overtakes never fills more places than      *)
(* there are: verifierNombrePlaces counts those who leave, and they leave   *)
(* before the others come.                                                  *)
THEOREM PlacesToujours == Spec => []PlacesRespectees
<1>1. Inv => PlacesRespectees
  <2> SUFFICES ASSUME Inv, {"session", "places"} \cap perturbes = {}
               PROVE  ~(Occupees > Capacite)
    BY DEF PlacesRespectees
  <2>1. Occupees <= Capacite
    BY DEF Inv, InvPlaces
  <2>2. Occupees \in Nat
    BY OccupeesType DEF Occupees, Ayant
  <2> QED BY <2>1, <2>2, ConstantsAssumption
<1> QED BY <1>1, Invariant, PTL

(* Once the commands and their calls to the planner are done, those who are *)
(* registered have the reminder of their instance and nobody else has one,  *)
(* although save asks for the reminders before Milo has made the changes.   *)
THEOREM RappelsToujours == Spec => []RappelsDesInscrits
<1>1. Inv => RappelsDesInscrits
  <2> SUFFICES ASSUME Inv, Calme, ~passee, "rappels" \notin perturbes
               PROVE  rappels = {<<j, inscriptions[j].id>> :
                                   j \in Ayant(inscriptions, {"INSCRIT"})}
    BY DEF RappelsDesInscrits
  <2>1. fond = {} /\ \A o \in Ops : ~Actif(ops[o])
    BY DEF Calme, EnCours, Actif
  <2>2. Rappels(Libre)
    BY <2>1 DEF Inv, InvRappels
  <2>3. rappels \subseteq Jeunes \X (Nat \ {0}) /\ inscriptions \in [Jeunes -> Inscription]
    BY DEF Inv, TypeOK
  <2>4. Libre.etape = "libre"
    BY DEF Libre
  <2>5. ASSUME NEW j \in Jeunes, NEW i \in Nat
        PROVE  <<j, i>> \in rappels
                 <=> i = inscriptions[j].id /\ inscriptions[j].statut = "INSCRIT"
    BY <2>1, <2>2, <2>4 DEF Rappels, Futur, EnFond, Attendu
  <2>6. \A j \in Jeunes : inscriptions[j].id \in Nat
    BY <2>3, InscriptionType
  <2>7. ASSUME NEW r \in rappels
        PROVE  r \in {<<j, inscriptions[j].id>> :
                        j \in Ayant(inscriptions, {"INSCRIT"})}
    <3>1. PICK j \in Jeunes, i \in Nat \ {0} : r = <<j, i>>
      BY <2>3
    <3> QED BY <2>5, <3>1 DEF Ayant
  <2>8. ASSUME NEW j \in Ayant(inscriptions, {"INSCRIT"})
        PROVE  <<j, inscriptions[j].id>> \in rappels
    BY <2>5, <2>6 DEF Ayant
  <2> QED BY <2>7, <2>8
<1> QED BY <1>1, Invariant, PTL

-----------------------------------------------------------------------------
(* Closure                                                                  *)

(* The two steps that write the row                                         *)
LEMMA EcritLigne ==
  ASSUME Inv, [Next]_vars, ligne' # ligne
  PROVE  CloreSession \/ \E o \in Ops : SauverLigne(o)
<1>1. CASE Commencer
  BY <1>1 DEF Commencer
<1>2. ASSUME NEW o \in Ops, NEW cmd \in Commandes, Demarrer(o, cmd)
      PROVE  FALSE
  BY <1>2 DEF Demarrer
<1>3. ASSUME NEW o \in Ops, NEW quoi \in {"places", "inscrits"}, LireMilo(o, quoi)
      PROVE  FALSE
  BY <1>3 DEF LireMilo
<1>4. ASSUME NEW o \in Ops, LireLigne(o) \/ Decider(o) \/ Consulter(o)
      PROVE  FALSE
  BY <1>4 DEF LireLigne, Decider, Consulter
<1>5. ASSUME NEW o \in Ops, NEW j \in Jeunes,
             Desinscrire(o, j) \/ ModifierInscription(o, j) \/ Inscrire(o, j)
      PROVE  FALSE
  BY <1>5 DEF Desinscrire, ModifierInscription, Inscrire
<1>6. ASSUME NEW o \in Ops,
             \/ DemarrerModifications(o)
             \/ DemarrerInscriptions(o)
             \/ TerminerInscriptions(o)
             \/ Echec(o)
      PROVE  FALSE
  BY <1>6 DEF DemarrerModifications, DemarrerInscriptions, TerminerInscriptions,
              Echec
<1>7. ASSUME NEW a \in fond, ExecuterAppel(a) \/ EchecAppel(a)
      PROVE  FALSE
  BY <1>7 DEF ExecuterAppel, EchecAppel
<1> QED BY <1>1, <1>2, <1>3, <1>4, <1>5, <1>6, <1>7 DEF Next, vars

(* What a command that nothing overtakes saves                              *)
LEMMA LigneSauvee ==
  ASSUME Inv, NEW o \in Ops, SauverLigne(o), "session" \notin perturbes
  PROVE  /\ ligne' \in Ligne
         /\ (ligne # Absent /\ ligne.close) => ligne'.close
         /\ (ligne'.close /\ (ligne = Absent \/ ~ligne.close)) =>
              \A j \in Ayant(inscriptions, {"INSCRIT"}) : LaisseParLaListe(j)
<1>1. /\ ops[o] \in Operation /\ Demarche(ops[o]) /\ ClotureFidele(ops[o])
      /\ ops[o].etape = "sauvegarde" /\ ligne' = ops[o].aSauver
      /\ ligne \in Ligne \cup {Absent}
  BY OperationType DEF Inv, InvOps, InvSession, Session, SauverLigne, Enregistrer, TypeOK
<1>2. ops[o].cmd \in Commandes /\ Ecrit(ops[o])
  BY <1>1 DEF Operation, Ecrit
<1>3. ops[o].cmd \in {"modifier", "emarger"}
  BY <1>1, <1>2 DEF Demarche, Commandes
<1>4. /\ ops[o].aSauver \in Ligne /\ ATraiter(ops[o]) = {}
  BY <1>1, <1>2, <1>3 DEF Demarche, DuConseiller
<1>5. Reglee(ligne).close <=> ligne # Absent /\ ligne.close
  BY <1>1, RegleeType
<1>6. CASE ops[o].cmd = "modifier"
  <2>1. ligne'.close <=> ligne # Absent /\ ligne.close
    BY <1>1, <1>2, <1>5, <1>6 DEF ClotureFidele, DuConseiller
  <2> QED BY <1>1, <1>4, <2>1
<1>7. CASE ops[o].cmd = "emarger"
  <2>1. /\ ligne'.close
        /\ \A j \in Jeunes : inscriptions[j].statut = "INSCRIT" =>
             ops[o].modifier[j] # "aucune" \/ ops[o].souhaits[j] = "REFUS_JEUNE"
    BY <1>1, <1>2, <1>7 DEF ClotureFidele, DuConseiller
  <2>2. \A j \in Jeunes : ops[o].modifier[j] = "aucune"
    BY <1>4 DEF ATraiter
  <2> QED BY <1>1, <1>4, <1>7, <2>1, <2>2 DEF Ayant, LaisseParLaListe
<1> QED BY <1>3, <1>6, <1>7

(* A command or the closing job closes the session only when nobody is left *)
(* merely registered, but for those whom the list marked says to have       *)
(* refused: the row is saved after Milo, and what Milo was asked is over.   *)
THEOREM ClotureToujoursPropre == Spec => CloturePropre
<1>1. ASSUME Inv, [Next]_vars, ligne' # ligne, ligne' # Absent, ligne'.close,
             ligne = Absent \/ ~ligne.close, "session" \notin perturbes,
             NEW j \in Ayant(inscriptions, {"INSCRIT"})
      PROVE  LaisseParLaListe(j)
  <2>1. CASE CloreSession
    BY <1>1, <2>1 DEF CloreSession, Inv, InvSession
  <2>2. CASE \E o \in Ops : SauverLigne(o)
    BY <1>1, <2>2, LigneSauvee
  <2> QED BY <1>1, <2>1, <2>2, EcritLigne
<1>2. Inv /\ [Next]_vars =>
        [(ligne' # ligne /\ ligne' # Absent /\ ligne'.close
            /\ (ligne = Absent \/ ~ligne.close) /\ "session" \notin perturbes)
           => \A j \in Ayant(inscriptions, {"INSCRIT"}) : LaisseParLaListe(j)]_vars
  BY <1>1
<1> QED BY <1>2, Invariant, PTL DEF Spec, CloturePropre

(* A closed session stays closed: the row saved by a command that nothing   *)
(* overtakes was read when it was already closed.                           *)
THEOREM ClotureToujoursDefinitive == Spec => ClotureDefinitive
<1>1. ASSUME Inv, [Next]_vars, "session" \notin perturbes, ligne # Absent, ligne.close
      PROVE  ligne' # Absent /\ ligne'.close
  <2>1. Absent \notin Ligne
    BY ConstantsAssumption
  <2>2. CASE ligne' = ligne
    BY <1>1, <2>2
  <2>3. CASE CloreSession
    <3>1. ligne' = [Reglee(ligne) EXCEPT !.visible = ligne.visible, !.close = TRUE]
      BY <1>1, <2>3 DEF CloreSession
    <3>2. Reglee(ligne) \in Ligne /\ ligne \in Ligne
      BY <1>1, RegleeType DEF Inv, TypeOK
    <3> QED BY <2>1, <3>1, <3>2 DEF Ligne
  <2>4. CASE \E o \in Ops : SauverLigne(o)
    BY <1>1, <2>1, <2>4, LigneSauvee
  <2> QED BY <1>1, <2>2, <2>3, <2>4, EcritLigne
<1>2. Inv /\ [Next]_vars =>
        [("session" \notin perturbes /\ ligne # Absent /\ ligne.close)
           => ligne' # Absent /\ ligne'.close]_vars
  BY <1>1
<1> QED BY <1>2, Invariant, PTL DEF Spec, ClotureDefinitive
=============================================================================

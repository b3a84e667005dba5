--------------------------- MODULE ActionsProofs ---------------------------
(***************************************************************************)
(* Proofs about Actions: what Milo knows of an action and what its row says *)
(* agree, an action declared to Milo is never changed again, and the        *)
(* reminder of an action is planned for its day and sent on it, unless      *)
(* commands overlapped or something failed.                                 *)
(*                                                                          *)
(* The invariant is said of each action on its own.  A command takes one    *)
(* step at a time, Suivre: two lemmas say what such a step must do for an   *)
(* action it holds (SuivreIsole, SuivreFixe) and that it does nothing to    *)
(* the others; the lemmas on each step of a command only check that.        *)
(***************************************************************************)
EXTENDS Actions, FiniteSetTheorems, TLAPS

-----------------------------------------------------------------------------
(* The inductive invariant                                                  *)

Motifs == {"ligne", "rappel", "resynchro", "supprimee"}

(* A row: done when it has an end date, an SNP only when it is done.        *)
Correcte(l) ==
  /\ l.statut = "TERMINEE" <=> l.fin # Vide
  /\ EstQualifiee(l) => l.statut = "TERMINEE" /\ l.debut <= l.fin

Lignes == {l \in Action : Correcte(l)}
Lues == [Actions -> Lignes \cup {Vide}]

Operation ==
  [etape : Etapes, cmd : Commandes, reste : SUBSET Actions,
   infos : Infos \cup Qualification \cup {Vide}, lus : Lues,
   vues : SUBSET Actions, aSauver : Lignes \cup {Vide}]

Parcours ==
  [actif : BOOLEAN, offset : Nat, page : SUBSET Actions, taille : Nat, lus : Lues]

Types ==
  /\ jour \in Jours
  /\ lignes \in Lues
  /\ rappels \subseteq Actions \X Int
  /\ envoyes \subseteq Actions \X Int
  /\ milo \in [Actions -> Nat]
  /\ ops \in [Ops -> Operation]
  /\ job \in Parcours
  /\ pannes \in 0 .. MaxPannes
  /\ perturbes \in [Actions -> SUBSET Motifs]

Premiere(op, a) == a \in op.reste /\ \A b \in op.reste : a <= b

(* What a command in flight can be, whatever the rows are.                  *)
Reguliere(op) ==
  /\ op.etape = "libre" => op.reste = {}
  /\ op.etape # "libre" =>
       /\ op.cmd = "modifier" => op.infos \in Infos
       /\ op.cmd = "qualifier" => op.infos \in Qualification
       /\ op.cmd = "creer" => /\ op.etape \in {"sauvegarde", "rappel"}
                              /\ op.lus = [a \in Actions |-> Vide]
                              /\ \A a, b \in op.reste : a = b
  /\ op.etape = "milo" => op.cmd = "qualifier" /\ op.infos.code = "SNP"
  /\ op.etape = "rappel" => op.cmd = "creer"
  /\ op.etape = "sauvegarde" => op.cmd \in {"creer", "modifier", "qualifier"}
  /\ op.etape \in {"milo", "sauvegarde", "rappel"} =>
       /\ op.aSauver \in Lignes
       /\ EstQualifiee(op.aSauver) <=> op.cmd = "qualifier" /\ op.infos.code = "SNP"
       /\ op.cmd # "creer" => \A a \in Actions : Premiere(op, a) =>
            op.lus[a] # Vide /\ ~EstQualifiee(op.lus[a])

Parcourue ==
  /\ ~job.actif => job.page = {}
  /\ \A a \in job.page : job.lus[a] # Vide /\ job.lus[a].qualif \in {"aucune", "code"}

Structure == Parcourue /\ \A o \in Ops : Reguliere(ops[o])

(* A row that a command read, or has just created, is still the row.        *)
Lue(op) == op.etape \in {"calcul", "milo", "sauvegarde"}
AJour(op, a, l) ==
  /\ Lue(op) => op.lus[a] = l
  /\ op.etape = "rappel" => op.aSauver = l

(* One command, or the nightly job, holds the action, and knows its row.    *)
Isolee(a) ==
  /\ \A o, p \in Ops : a \in ops[o].reste /\ a \in ops[p].reste => o = p
  /\ \A o \in Ops : a \in ops[o].reste =>
       a \notin job.page /\ AJour(ops[o], a, lignes[a])
  /\ a \in job.page => job.lus[a] = lignes[a]

(* Milo has been told, and the row is not saved yet.                        *)
EnRoute(op, a) ==
  /\ Premiere(op, a)
  /\ op.etape = "sauvegarde"
  /\ op.cmd = "qualifier" /\ op.infos.code = "SNP"

Snp(l) == l # Vide /\ EstQualifiee(l)

Comptee(a) ==
  milo[a] = IF Snp(lignes[a]) \/ \E o \in Ops : EnRoute(ops[o], a) THEN 1 ELSE 0

(* An action that is being created is nowhere yet.                          *)
Neuve(a) == lignes[a] = Vide /\ perturbes[a] = {}
Naissante(op) == op.cmd = "creer" /\ op.etape = "sauvegarde"
Nouveaute(a) ==
  /\ \A o \in Ops : a \in ops[o].reste /\ Naissante(ops[o]) => Neuve(a)
  /\ Neuve(a) => \A r \in rappels : r[1] # a

(* Deadline e is that of every row of a, and the reminder is planned for    *)
(* it, or about to be.                                                      *)
Echeance(op, a, e) ==
  /\ Lue(op) /\ op.lus[a] # Vide => op.lus[a].echeance = e
  /\ op.etape = "rappel" => op.aSauver.echeance = e

Fixe(a, e) ==
  /\ lignes[a] # Vide => lignes[a].echeance = e
  /\ \A o \in Ops : a \in ops[o].reste => Echeance(ops[o], a, e)
  /\ a \in job.page => job.lus[a].echeance = e
  /\ \A r \in rappels : r[1] = a => r[2] = e - DelaiRappel
  /\ \/ Neuve(a)
     \/ e - DelaiRappel <= jour
     \/ <<a, e - DelaiRappel>> \in rappels
     \/ \E o \in Ops : a \in ops[o].reste /\ ops[o].etape = "rappel"

Reglee(a) == {"rappel", "resynchro"} \cap perturbes[a] = {}

Saine(a) ==
  /\ "ligne" \notin perturbes[a] => Isolee(a) /\ Comptee(a)
  /\ Nouveaute(a)
  /\ Reglee(a) => \E e \in Jours : Fixe(a, e)

Inv == Types /\ Structure /\ \A a \in Actions : Saine(a)

-----------------------------------------------------------------------------
(* Rows                                                                     *)

LEMMA Bornes ==
  /\ DernierJour \in Nat /\ DelaiRappel \in Nat /\ DelaiQualif \in Nat
  /\ MaxPannes \in Nat /\ MaxBatch \in Nat
  /\ Jours \subseteq Nat /\ Actions \subseteq Nat
  /\ Vide \notin Jours /\ Vide \notin Lignes
BY ConstantsAssumption, FS_CardinalityType DEF Jours, Lignes

LEMMA ChampsDe ==
  ASSUME NEW l \in Lignes
  PROVE  /\ l \in Action /\ l # Vide
         /\ l.statut \in Statuts /\ l.echeance \in Jours
         /\ l.debut \in Jours \cup {Vide} /\ l.fin \in Jours \cup {Vide}
         /\ l.qualif \in EtatsQualif
         /\ l.statut = "TERMINEE" <=> l.fin # Vide
         /\ l.qualif = "SNP" => l.statut = "TERMINEE" /\ l.debut <= l.fin
BY Bornes DEF Lignes, Correcte, Action, EstQualifiee

(* Whatever is created is a row that is not an SNP.                         *)
LEMMA LigneNouvelle ==
  ASSUME NEW c \in Creation
  PROVE  Nouvelle(c) \in Lignes /\ ~EstQualifiee(Nouvelle(c))
<1>1. Nouvelle(c) \in Action
  BY DEF Creation, Nouvelle, Action, EtatsQualif
<1>2. ~EstQualifiee(Nouvelle(c))
  BY DEF Nouvelle, EstQualifiee
<1>3. Nouvelle(c).statut = "TERMINEE" <=> Nouvelle(c).fin # Vide
  BY Bornes DEF Creation, Nouvelle
<1> QED BY <1>1, <1>2, <1>3 DEF Lignes, Correcte

(* The end date follows the status: updateAction.                           *)
LEMMA LigneModifiee ==
  ASSUME NEW l \in Lignes, NEW infos \in Infos, jour \in Jours,
         Modifiable(l, infos)
  PROVE  /\ Modifiee(l, infos) \in Lignes
         /\ ~EstQualifiee(Modifiee(l, infos))
         /\ Modifiee(l, infos).echeance = Demande(infos, "echeance", l)
<1> DEFINE statut == Demande(infos, "statut", l)
           fin == FinReelle(l, statut, infos.fin)
<1>1. /\ infos.statut \in Statuts \cup {Inchange}
      /\ infos.echeance \in Jours \cup {Inchange}
      /\ infos.fin \in Jours \cup {Inchange} /\ infos.code \in BOOLEAN
  BY DEF Infos
<1>2. statut \in Statuts /\ Demande(infos, "echeance", l) \in Jours
  BY <1>1, ChampsDe DEF Demande
<1>3. infos.fin # Inchange => statut = "TERMINEE"
  BY DEF Modifiable
<1>4. fin \in Jours \cup {Vide} /\ (statut = "TERMINEE" <=> fin # Vide)
  BY <1>1, <1>3, ChampsDe, Bornes DEF FinReelle
<1>5. /\ Modifiee(l, infos) \in Action
      /\ Modifiee(l, infos).statut = statut
      /\ Modifiee(l, infos).fin = fin
      /\ Modifiee(l, infos).echeance = Demande(infos, "echeance", l)
      /\ Modifiee(l, infos).qualif = IF infos.code THEN "code" ELSE l.qualif
  BY <1>1, <1>2, <1>4, ChampsDe DEF Modifiee, Action, EtatsQualif
<1>6. ~EstQualifiee(Modifiee(l, infos))
  BY <1>5 DEF Modifiable, EstQualifiee
<1> QED BY <1>4, <1>5, <1>6 DEF Lignes, Correcte

(* A qualified action is done, and began before it ended: qualifier.        *)
LEMMA LigneQualifiee ==
  ASSUME NEW l \in Lignes, NEW q \in Qualification, l.statut = "TERMINEE",
         q.code = "SNP" => DatesDe(l, q).debut <= DatesDe(l, q).fin
  PROVE  /\ Qualifiee(l, q) \in Lignes
         /\ Qualifiee(l, q).qualif = q.code
         /\ Qualifiee(l, q).echeance = l.echeance
<1> DEFINE fin == DatesDe(l, q).fin
           debut == DatesDe(l, q).debut
<1>1. /\ q.code \in {"SNP", "NON_SNP"}
      /\ q.debut \in Jours \cup {Inchange} /\ q.fin \in Jours \cup {Inchange}
  BY DEF Qualification
<1>2. fin \in Jours /\ debut \in Jours
  BY <1>1, ChampsDe DEF DatesDe
<1>3. /\ Qualifiee(l, q) \in Action
      /\ Qualifiee(l, q).statut = l.statut
      /\ Qualifiee(l, q).fin = fin /\ Qualifiee(l, q).debut = debut
      /\ Qualifiee(l, q).echeance = l.echeance
      /\ Qualifiee(l, q).qualif = q.code
  BY <1>1, <1>2, ChampsDe DEF Qualifiee, Action, EtatsQualif
<1> QED BY <1>2, <1>3, Bornes DEF Lignes, Correcte, EstQualifiee

(* The nightly job ends an open action, and qualifies it as a NON_SNP.      *)
LEMMA LigneAutomatique ==
  ASSUME NEW l \in Lignes, l.qualif \in {"aucune", "code"}, jour \in Jours
  PROVE  /\ Automatique(l) \in Lignes
         /\ ~EstQualifiee(Automatique(l))
         /\ Automatique(l).echeance = l.echeance
<1> DEFINE m == IF l.statut = "TERMINEE" THEN l ELSE Modifiee(l, Terminer)
<1>1. /\ Terminer \in Infos /\ Terminer.statut = "TERMINEE"
      /\ Terminer.echeance = Inchange
  BY DEF Terminer, Infos, Statuts
<1>2. /\ QualifAuto \in Qualification /\ QualifAuto.code = "NON_SNP"
  BY DEF QualifAuto, Qualification
<1>3. Modifiable(l, Terminer)
  <2>1. Demande(Terminer, "statut", l) = "TERMINEE"
    BY ConstantsAssumption, <1>1 DEF Demande, Statuts
  <2> QED BY <2>1 DEF Modifiable, EstQualifiee
<1>4. /\ m \in Lignes /\ m.statut = "TERMINEE" /\ m.echeance = l.echeance
  <2>1. CASE l.statut = "TERMINEE"
    BY <2>1
  <2>2. CASE l.statut # "TERMINEE"
    <3>1. Modifiee(l, Terminer) \in Lignes
      BY <1>1, <1>3, LigneModifiee
    <3>2. Modifiee(l, Terminer).echeance = l.echeance
      BY <1>1, <1>3, LigneModifiee DEF Demande
    <3>3. Modifiee(l, Terminer).statut = "TERMINEE"
      BY <1>1, ChampsDe, ConstantsAssumption DEF Modifiee, Demande, Statuts, Action
    <3> QED BY <2>2, <3>1, <3>2, <3>3
  <2> QED BY <2>1, <2>2
<1>5. Automatique(l) = Qualifiee(m, QualifAuto)
  BY DEF Automatique
<1> HIDE DEF m
<1>6. /\ Qualifiee(m, QualifAuto) \in Lignes /\ Qualifiee(m, QualifAuto).qualif = "NON_SNP"
      /\ Qualifiee(m, QualifAuto).echeance = m.echeance
  BY <1>2, <1>4, LigneQualifiee
<1> QED BY <1>4, <1>5, <1>6 DEF EstQualifiee

-----------------------------------------------------------------------------
(* A step of a command                                                      *)

LEMMA SuivreOps ==
  ASSUME Types, NEW o \in Ops, NEW op \in Operation, Suivre(o, op)
  PROVE  /\ ops' \in [Ops -> Operation]
         /\ ops'[o] = op
         /\ \A p \in Ops : p # o => ops'[p] = ops[p]
BY DEF Types, Suivre

LEMMA SuivreStructure ==
  ASSUME Types, Structure, NEW o \in Ops, NEW op \in Operation, Suivre(o, op),
         Reguliere(op), job' = job
  PROVE  Structure'
<1>1. Parcourue'
  BY DEF Structure, Parcourue
<1>2. \A p \in Ops : Reguliere(ops'[p])
  BY SuivreOps DEF Structure
<1> QED BY <1>1, <1>2 DEF Structure, Reguliere, Premiere

LEMMA LibreFaits ==
  /\ Libre \in Operation /\ Reguliere(Libre)
  /\ Libre.reste = {} /\ Libre.etape = "libre"
  /\ Libre.lus = [a \in Actions |-> Vide]
<1>1. [a \in Actions |-> Vide] \in Lues
  BY DEF Lues
<1>2. Libre \in Operation
  BY <1>1 DEF Libre, Operation, Etapes, Commandes
<1> QED BY <1>2 DEF Libre, Reguliere

(* What a step of command o, that ends in op, does for action a, but for    *)
(* what concerns Milo and the deadlines.                                    *)
Suite(o, op, a) ==
  /\ Suivre(o, op)
  /\ op.reste \subseteq ops[o].reste
  /\ jour' = jour /\ job' = job
  /\ perturbes[a] \subseteq perturbes'[a]
  /\ a \notin ops[o].reste =>
       /\ lignes'[a] = lignes[a] /\ milo'[a] = milo[a]
       /\ perturbes'[a] = perturbes[a]
       /\ \A d : <<a, d>> \in rappels' <=> <<a, d>> \in rappels
  /\ a \in op.reste => ~Naissante(op)
  /\ Neuve(a)' => Neuve(a) /\ \A d : <<a, d>> \in rappels' => <<a, d>> \in rappels

(* The command knows the row it holds, and Milo was told what is saved.     *)
SuiteIsolee(o, op, a) ==
  "ligne" \notin perturbes'[a] /\ a \in ops[o].reste =>
    /\ a \in op.reste => AJour(op, a, lignes'[a])
    /\ milo'[a] = IF Snp(lignes'[a]) \/ EnRoute(op, a) THEN 1 ELSE 0

SuiteReglee(o, a) ==
  a \in ops[o].reste /\ Reglee(a)' => \E e \in Jours : Fixe(a, e)'

LEMMA SuivreIsole ==
  ASSUME Types, NEW o \in Ops, NEW op \in Operation, NEW a \in Actions,
         Isolee(a), Comptee(a), "ligne" \notin perturbes'[a],
         Suite(o, op, a), SuiteIsolee(o, op, a)
  PROVE  Isolee(a)' /\ Comptee(a)'
<1>1. /\ ops'[o] = op /\ op.reste \subseteq ops[o].reste /\ job' = job
      /\ \A p \in Ops : p # o => ops'[p] = ops[p]
  BY SuivreOps DEF Suite
<1>2. CASE a \in ops[o].reste
  <2>1. \A p \in Ops : p # o => a \notin ops[p].reste /\ a \notin ops'[p].reste
    BY <1>1, <1>2 DEF Isolee
  <2>2. a \notin job.page
    BY <1>2 DEF Isolee
  <2>3. /\ a \in op.reste => AJour(op, a, lignes'[a])
        /\ milo'[a] = IF Snp(lignes'[a]) \/ EnRoute(op, a) THEN 1 ELSE 0
    BY <1>2 DEF SuiteIsolee
  <2>4. Isolee(a)'
    BY <1>1, <2>1, <2>2, <2>3 DEF Isolee, AJour, Lue
  <2>5. (\E p \in Ops : EnRoute(ops'[p], a)) <=> EnRoute(op, a)
    BY <1>1, <2>1 DEF EnRoute, Premiere
  <2> QED BY <2>3, <2>4, <2>5 DEF Comptee, Snp, EnRoute, Premiere, EstQualifiee
<1>3. CASE a \notin ops[o].reste
  <2>1. lignes'[a] = lignes[a] /\ milo'[a] = milo[a]
    BY <1>3 DEF Suite
  <2>2. a \notin op.reste
    BY <1>1, <1>3
  <2>3. Isolee(a)'
    BY <1>1, <1>3, <2>1, <2>2 DEF Isolee, AJour, Lue
  <2>4. \A p \in Ops : EnRoute(ops'[p], a) <=> EnRoute(ops[p], a)
    BY <1>1, <1>3, <2>2 DEF EnRoute, Premiere
  <2> QED BY <2>1, <2>3, <2>4 DEF Comptee, Snp, EnRoute, Premiere, EstQualifiee
<1> QED BY <1>2, <1>3

LEMMA SuivreFixe ==
  ASSUME Types, NEW o \in Ops, NEW op \in Operation, NEW a \in Actions,
         NEW e \in Jours, Fixe(a, e), Suivre(o, op),
         jour' = jour, job' = job, op.reste \subseteq ops[o].reste,
         a \in op.reste => Echeance(op, a, e),
         lignes'[a] # Vide => lignes'[a].echeance = e,
         \A d : <<a, d>> \in rappels' <=> <<a, d>> \in rappels,
         rappels' \subseteq Actions \X Int,
         Neuve(a) => Neuve(a)',
         a \in ops[o].reste => ops[o].etape # "rappel"
  PROVE  Fixe(a, e)'
<1>1. /\ ops'[o] = op
      /\ \A p \in Ops : p # o => ops'[p] = ops[p]
  BY SuivreOps
<1>2. \A p \in Ops : a \in ops'[p].reste => Echeance(ops'[p], a, e)
  BY <1>1 DEF Fixe
<1>3. \A r \in rappels' : r[1] = a => r[2] = e - DelaiRappel
  <2> SUFFICES ASSUME NEW r \in rappels', r[1] = a
               PROVE  r[2] = e - DelaiRappel
    OBVIOUS
  <2>1. r = <<a, r[2]>>
    OBVIOUS
  <2>2. r \in rappels
    BY <2>1
  <2> QED BY <2>2 DEF Fixe
<1>4. (\E p \in Ops : a \in ops[p].reste /\ ops[p].etape = "rappel")
        => \E p \in Ops : a \in ops'[p].reste /\ ops'[p].etape = "rappel"
  BY <1>1
<1>5. a \in job'.page => job'.lus[a].echeance = e
  BY DEF Fixe
<1>6. \/ Neuve(a)'
      \/ e - DelaiRappel <= jour'
      \/ <<a, e - DelaiRappel>> \in rappels'
      \/ \E p \in Ops : a \in ops'[p].reste /\ ops'[p].etape = "rappel"
  BY <1>4 DEF Fixe
<1> QED BY <1>2, <1>3, <1>5, <1>6 DEF Fixe, Echeance, Lue

LEMMA SuivreNouveau ==
  ASSUME Types, NEW o \in Ops, NEW op \in Operation, NEW a \in Actions,
         Saine(a), Suite(o, op, a), rappels' \subseteq Actions \X Int
  PROVE  Nouveaute(a)'
<1>1. /\ ops'[o] = op /\ op.reste \subseteq ops[o].reste
      /\ \A p \in Ops : p # o => ops'[p] = ops[p]
  BY SuivreOps DEF Suite
<1>2. \A p \in Ops : a \in ops'[p].reste /\ Naissante(ops'[p]) => Neuve(a)'
  <2> SUFFICES ASSUME NEW p \in Ops, a \in ops'[p].reste, Naissante(ops'[p])
               PROVE  Neuve(a)'
    OBVIOUS
  <2>1. p # o
    BY <1>1 DEF Suite
  <2>2. a \in ops[p].reste /\ Neuve(a)
    BY <1>1, <2>1 DEF Saine, Nouveaute
  <2>3. a \notin ops[o].reste
    BY <2>1, <2>2 DEF Saine, Isolee, Neuve
  <2> QED BY <2>2, <2>3 DEF Suite, Neuve
<1>3. Neuve(a)' => \A r \in rappels' : r[1] # a
  <2> SUFFICES ASSUME Neuve(a)', NEW r \in rappels', r[1] = a
               PROVE  FALSE
    OBVIOUS
  <2>1. r = <<a, r[2]>>
    OBVIOUS
  <2>2. r \in rappels /\ Neuve(a)
    BY <2>1 DEF Suite
  <2> QED BY <2>2 DEF Saine, Nouveaute
<1> QED BY <1>2, <1>3 DEF Nouveaute, Naissante

LEMMA SuivreSaine ==
  ASSUME Types, NEW o \in Ops, NEW op \in Operation, NEW a \in Actions,
         Saine(a), Suite(o, op, a), SuiteIsolee(o, op, a), SuiteReglee(o, a),
         rappels' \subseteq Actions \X Int
  PROVE  Saine(a)'
<1>1. "ligne" \notin perturbes'[a] => Isolee(a)' /\ Comptee(a)'
  <2>1. "ligne" \notin perturbes'[a] => "ligne" \notin perturbes[a]
    BY DEF Suite
  <2> QED BY <2>1, SuivreIsole DEF Saine
<1>2. Nouveaute(a)'
  BY SuivreNouveau
<1>3. Reglee(a)' => \E e \in Jours : Fixe(a, e)'
  <2>1. CASE a \in ops[o].reste
    BY <2>1 DEF SuiteReglee
  <2>2. CASE a \notin ops[o].reste
    <3> SUFFICES ASSUME Reglee(a)' PROVE \E e \in Jours : Fixe(a, e)'
      OBVIOUS
    <3>1. perturbes'[a] = perturbes[a] /\ lignes'[a] = lignes[a]
      BY <2>2 DEF Suite
    <3>2. PICK e \in Jours : Fixe(a, e)
      BY <3>1 DEF Saine, Reglee
    <3>3. Neuve(a) => Neuve(a)'
      BY <3>1 DEF Neuve
    <3>4. /\ jour' = jour /\ job' = job /\ op.reste \subseteq ops[o].reste
          /\ Suivre(o, op)
          /\ \A d : <<a, d>> \in rappels' <=> <<a, d>> \in rappels
      BY <2>2 DEF Suite
    <3>5. lignes'[a] # Vide => lignes'[a].echeance = e
      BY <3>1, <3>2 DEF Fixe
    <3>6. Fixe(a, e)'
      BY <2>2, <3>2, <3>3, <3>4, <3>5, SuivreFixe
    <3> QED BY <3>6
  <2> QED BY <2>1, <2>2
<1> QED BY <1>1, <1>2, <1>3 DEF Saine

(* A step that only moves the command: what it holds of a row it read       *)
(* before, or reads now.                                                    *)
LEMMA EtapeSaine ==
  ASSUME Types, NEW o \in Ops, NEW op \in Operation, NEW a \in Actions,
         Saine(a), Suivre(o, op), op.reste \subseteq ops[o].reste,
         UNCHANGED <<jour, lignes, rappels, milo, job, perturbes>>,
         ops[o].etape \notin {"sauvegarde", "rappel"},
         a \in op.reste =>
           /\ op.etape # "rappel" /\ ~Naissante(op) /\ ~EnRoute(op, a)
           /\ \/ op.lus[a] = lignes[a]
              \/ Lue(ops[o]) /\ op.lus[a] = ops[o].lus[a]
  PROVE  Saine(a)'
<1>1. Suite(o, op, a)
  BY DEF Suite, Neuve
<1>2. ~EnRoute(ops[o], a)
  BY DEF EnRoute
<1>3. ~EnRoute(op, a)
  BY DEF EnRoute, Premiere
<1>4. SuiteIsolee(o, op, a)
  <2> SUFFICES ASSUME "ligne" \notin perturbes[a], a \in ops[o].reste
               PROVE  /\ a \in op.reste => AJour(op, a, lignes[a])
                      /\ milo[a] = IF Snp(lignes[a]) THEN 1 ELSE 0
    BY <1>3 DEF SuiteIsolee
  <2>1. Isolee(a) /\ Comptee(a)
    BY DEF Saine
  <2>2. \A p \in Ops : ~EnRoute(ops[p], a)
    BY <1>2, <2>1 DEF Isolee, EnRoute, Premiere
  <2>3. a \in op.reste => op.lus[a] = lignes[a]
    BY <2>1 DEF Isolee, AJour
  <2> QED BY <2>1, <2>2, <2>3 DEF Comptee, AJour
<1>5. SuiteReglee(o, a)
  <2> SUFFICES ASSUME Reglee(a) PROVE \E e \in Jours : Fixe(a, e)'
    BY DEF SuiteReglee, Reglee
  <2>1. PICK e \in Jours : Fixe(a, e)
    BY DEF Saine
  <2>2. a \in op.reste => Echeance(op, a, e)
    BY <2>1 DEF Fixe, Echeance
  <2>3. Neuve(a)' <=> Neuve(a)
    BY DEF Neuve
  <2>4. /\ lignes'[a] # Vide => lignes'[a].echeance = e
        /\ rappels' \subseteq Actions \X Int
        /\ \A d : <<a, d>> \in rappels' <=> <<a, d>> \in rappels
        /\ jour' = jour /\ job' = job
    BY <2>1 DEF Fixe, Types
  <2>5. Fixe(a, e)'
    BY <2>1, <2>2, <2>3, <2>4, SuivreFixe
  <2> QED BY <2>5
<1>6. rappels' \subseteq Actions \X Int
  BY DEF Types
<1> QED BY <1>1, <1>4, <1>5, <1>6, SuivreSaine

LEMMA PasserFaits ==
  ASSUME Types, Structure, NEW o \in Ops, NEW a \in Actions,
         ops[o].etape # "libre", ops[o].cmd \in {"modifier", "qualifier"},
         Passer(o, a)
  PROVE  \E op \in Operation :
           /\ Suivre(o, op) /\ Reguliere(op)
           /\ op.reste \subseteq ops[o].reste /\ a \notin op.reste
           /\ op.etape \in {"libre", "calcul"}
           /\ \A b \in op.reste : op.lus[b] = ops[o].lus[b]
<1> DEFINE reste == ops[o].reste \ {a}
           suite == [ops[o] EXCEPT !.etape = "calcul", !.reste = reste,
                                   !.aSauver = Vide]
<1>1. ops[o] \in Operation /\ Reguliere(ops[o])
  BY DEF Types, Structure
<1>2. CASE reste = {}
  <2>1. Suivre(o, Libre)
    BY <1>2 DEF Passer
  <2> QED BY <2>1, LibreFaits
<1>3. CASE reste # {}
  <2>1. Suivre(o, suite)
    BY <1>3 DEF Passer
  <2>2. /\ suite \in Operation
        /\ suite.etape = "calcul" /\ suite.reste = reste
        /\ suite.lus = ops[o].lus /\ suite.cmd = ops[o].cmd
        /\ suite.infos = ops[o].infos
    BY <1>1 DEF Operation, Etapes
  <2>3. Reguliere(suite)
    BY <1>1, <2>2 DEF Reguliere
  <2> HIDE DEF suite
  <2> QED BY <2>1, <2>2, <2>3
<1> QED BY <1>2, <1>3

Reste ==
  /\ UNCHANGED <<jour, lignes, rappels, envoyes, milo, job, perturbes>>
  /\ pannes' \in 0 .. MaxPannes

LEMMA TypesOps ==
  ASSUME Types, NEW o \in Ops, NEW op \in Operation, Suivre(o, op), Reste
  PROVE  Types'
BY SuivreOps DEF Types, Reste

LEMMA EtapeInv ==
  ASSUME Inv, NEW o \in Ops, NEW op \in Operation, Suivre(o, op), Reguliere(op),
         op.reste \subseteq ops[o].reste, Reste,
         ops[o].etape \notin {"sauvegarde", "rappel"},
         \A a \in op.reste :
           /\ op.etape # "rappel" /\ ~Naissante(op) /\ ~EnRoute(op, a)
           /\ \/ op.lus[a] = lignes[a]
              \/ Lue(ops[o]) /\ op.lus[a] = ops[o].lus[a]
  PROVE  Inv'
<1>1. Types' /\ Structure'
  BY TypesOps, SuivreStructure DEF Inv, Reste
<1>2. ASSUME NEW a \in Actions
      PROVE  Saine(a)'
  BY EtapeSaine DEF Inv, Reste
<1> QED BY <1>1, <1>2 DEF Inv

LEMMA LireActionsInv ==
  ASSUME Inv, NEW o \in Ops, LireActions(o)
  PROVE  Inv'
<1> DEFINE lus == [a \in Actions |-> IF a \in ops[o].reste THEN lignes[a] ELSE Vide]
           op == [ops[o] EXCEPT !.lus = lus,
                    !.vues = commentees \cap ops[o].reste, !.etape = "calcul"]
<1>1. ops[o] \in Operation /\ Reguliere(ops[o]) /\ lignes \in Lues
  BY DEF Inv, Types, Structure
<1>2. lus \in Lues
  BY <1>1 DEF Lues
<1>3. /\ op \in Operation
      /\ op.etape = "calcul" /\ op.reste = ops[o].reste /\ op.lus = lus
      /\ op.cmd = ops[o].cmd /\ op.infos = ops[o].infos
  BY <1>1, <1>2 DEF Operation, Etapes
<1>4. ops[o].etape = "lecture" /\ Suivre(o, op) /\ Reste
  BY DEF LireActions, Reste, Inv, Types
<1> HIDE DEF op
<1>5. Reguliere(op)
  BY <1>1, <1>3, <1>4 DEF Reguliere
<1>6. \A a \in op.reste : op.lus[a] = lignes[a]
  BY <1>1, <1>3 DEF Operation
<1>7. op.etape # "rappel" /\ ~Naissante(op) /\ \A a : ~EnRoute(op, a)
  BY <1>3 DEF Naissante, EnRoute
<1> QED BY <1>3, <1>4, <1>5, <1>6, <1>7, EtapeInv

(* A command that decides what the row of its first action becomes.         *)
LEMMA DecisionInv ==
  ASSUME Inv, NEW o \in Ops, NEW a \in Actions, NEW l \in Lignes,
         NEW etape \in {"milo", "sauvegarde"},
         Premiere(ops[o], a), ops[o].etape = "calcul",
         ops[o].cmd \in {"modifier", "qualifier"},
         ops[o].lus[a] # Vide, ~EstQualifiee(ops[o].lus[a]),
         EstQualifiee(l) <=> ops[o].cmd = "qualifier" /\ ops[o].infos.code = "SNP",
         etape = "milo" <=> ops[o].cmd = "qualifier" /\ ops[o].infos.code = "SNP",
         Suivre(o, [ops[o] EXCEPT !.etape = etape, !.aSauver = l]), Reste
  PROVE  Inv'
<1> DEFINE op == [ops[o] EXCEPT !.etape = etape, !.aSauver = l]
<1>1. ops[o] \in Operation /\ Reguliere(ops[o])
  BY DEF Inv, Types, Structure
<1>2. /\ op \in Operation
      /\ op.etape = etape /\ op.aSauver = l
      /\ op.reste = ops[o].reste /\ op.lus = ops[o].lus
      /\ op.cmd = ops[o].cmd /\ op.infos = ops[o].infos
  BY <1>1 DEF Operation, Etapes
<1>3. Suivre(o, op)
  OBVIOUS
<1> HIDE DEF op
<1>4. \A b \in Actions : Premiere(op, b) => b = a
  <2> SUFFICES ASSUME NEW b \in Actions, Premiere(op, b) PROVE b = a
    OBVIOUS
  <2>1. a <= b /\ b <= a /\ a \in Nat /\ b \in Nat
    BY <1>2, Bornes DEF Premiere
  <2> QED BY <2>1
<1>5. Reguliere(op)
  BY <1>1, <1>2, <1>4 DEF Reguliere
<1>6. op.etape # "rappel" /\ ~Naissante(op) /\ \A b : ~EnRoute(op, b)
  BY <1>2 DEF Naissante, EnRoute
<1>7. Lue(ops[o]) /\ ops[o].etape \notin {"sauvegarde", "rappel"}
  BY DEF Lue
<1>8. \A b \in op.reste :
           /\ op.etape # "rappel" /\ ~Naissante(op) /\ ~EnRoute(op, b)
           /\ \/ op.lus[b] = lignes[b]
              \/ Lue(ops[o]) /\ op.lus[b] = ops[o].lus[b]
  BY <1>2, <1>6, <1>7
<1>9. op.reste \subseteq ops[o].reste
  BY <1>2
<1> QED BY <1>2, <1>3, <1>5, <1>7, <1>8, <1>9, EtapeInv

LEMMA LusDe ==
  ASSUME Types, NEW o \in Ops, NEW a \in Actions
  PROVE  /\ ops[o] \in Operation
         /\ ops[o].lus[a] \in Lignes \cup {Vide}
         /\ ops[o].reste \subseteq Actions
BY DEF Types, Operation, Lues

LEMMA PasserInv ==
  ASSUME Inv, NEW o \in Ops, NEW a \in Actions,
         ops[o].etape \in {"calcul", "milo"},
         ops[o].cmd \in {"modifier", "qualifier"}, Passer(o, a), Reste
  PROVE  Inv'
<1>1. PICK op \in Operation :
           /\ Suivre(o, op) /\ Reguliere(op)
           /\ op.reste \subseteq ops[o].reste /\ a \notin op.reste
           /\ op.etape \in {"libre", "calcul"}
           /\ \A b \in op.reste : op.lus[b] = ops[o].lus[b]
  BY PasserFaits DEF Inv
<1>2. op.etape # "rappel" /\ ~Naissante(op) /\ \A b : ~EnRoute(op, b)
  BY <1>1 DEF Naissante, EnRoute
<1>3. Lue(ops[o]) /\ ops[o].etape \notin {"sauvegarde", "rappel"}
  BY DEF Lue
<1>4. \A b \in op.reste :
           /\ op.etape # "rappel" /\ ~Naissante(op) /\ ~EnRoute(op, b)
           /\ \/ op.lus[b] = lignes[b]
              \/ Lue(ops[o]) /\ op.lus[b] = ops[o].lus[b]
  BY <1>1, <1>2, <1>3
<1> QED BY <1>1, <1>3, <1>4, EtapeInv

LEMMA DeciderInv ==
  ASSUME Inv, NEW o \in Ops, NEW a \in Actions, Decider(o, a)
  PROVE  Inv'
<1> DEFINE l == ops[o].lus[a]
           infos == ops[o].infos
<1>1. /\ Premiere(ops[o], a) /\ ops[o].etape = "calcul" /\ Reste
  BY DEF Decider, EnTete, Premiere, Reste, Inv, Types
<1>2. ops[o] \in Operation /\ Reguliere(ops[o]) /\ jour \in Jours
      /\ l \in Lignes \cup {Vide}
  BY LusDe DEF Inv, Types, Structure
<1>3. CASE DeciderModification(o, a) /\ l # Vide /\ Modifiable(l, infos)
  <2>1. ops[o].cmd = "modifier" /\ infos \in Infos /\ ~EstQualifiee(l)
    BY <1>1, <1>2, <1>3 DEF DeciderModification, Reguliere, Modifiable
  <2>2. Modifiee(l, infos) \in Lignes /\ ~EstQualifiee(Modifiee(l, infos))
    BY <1>2, <1>3, <2>1, LigneModifiee
  <2>3. Suivre(o, [ops[o] EXCEPT !.etape = "sauvegarde",
                                 !.aSauver = Modifiee(l, infos)])
    BY <1>3 DEF DeciderModification
  <2>4. l # Vide
    BY <1>3
  <2> HIDE DEF l, infos
  <2>5. l = ops[o].lus[a]
    BY DEF l
  <2> QED BY <1>1, <2>1, <2>2, <2>3, <2>4, <2>5, DecisionInv
<1>4. CASE DeciderQualification(o, a) /\ l # Vide /\ Qualifiable(l, infos)
  <2> DEFINE etape == IF infos.code = "SNP" THEN "milo" ELSE "sauvegarde"
  <2>1. ops[o].cmd = "qualifier" /\ infos \in Qualification /\ ~EstQualifiee(l)
    BY <1>1, <1>2, <1>4 DEF DeciderQualification, Reguliere, Qualifiable
  <2>2. l.statut = "TERMINEE" /\ DatesDe(l, infos).debut <= DatesDe(l, infos).fin
    BY <1>4 DEF Qualifiable, EstTerminee
  <2>3. Qualifiee(l, infos) \in Lignes /\ Qualifiee(l, infos).qualif = infos.code
    BY <1>2, <1>4, <2>1, <2>2, LigneQualifiee
  <2>4. Suivre(o, [ops[o] EXCEPT !.etape = etape, !.aSauver = Qualifiee(l, infos)])
    BY <1>4 DEF DeciderQualification
  <2>5. EstQualifiee(Qualifiee(l, infos)) <=> infos.code = "SNP"
    BY <2>3 DEF EstQualifiee
  <2>6. l # Vide
    BY <1>4
  <2>7. etape \in {"milo", "sauvegarde"} /\ (etape = "milo" <=> infos.code = "SNP")
    OBVIOUS
  <2> HIDE DEF l, infos, etape
  <2>8. l = ops[o].lus[a] /\ infos = ops[o].infos
    BY DEF l, infos
  <2> QED BY <1>1, <2>1, <2>3, <2>4, <2>5, <2>6, <2>7, <2>8, DecisionInv
<1>5. CASE /\ ~(DeciderModification(o, a) /\ l # Vide /\ Modifiable(l, infos))
           /\ ~(DeciderQualification(o, a) /\ l # Vide /\ Qualifiable(l, infos))
  <2>1. Passer(o, a) /\ ops[o].cmd \in {"modifier", "qualifier"}
    BY <1>5 DEF Decider, DeciderModification, DeciderQualification
  <2> QED BY <1>1, <2>1, PasserInv
<1> QED BY <1>3, <1>4, <1>5

LEMMA CommenterInv ==
  ASSUME Inv, NEW o \in Ops, NEW a \in Actions, Commenter(o, a)
  PROVE  Inv'
<1>1. /\ Suivre(o, Libre) /\ Reste /\ ops[o].etape = "calcul"
  BY DEF Commenter, Finir, Reste, Inv, Types
<1> QED BY <1>1, LibreFaits, EtapeInv

-----------------------------------------------------------------------------
(* Milo                                                                     *)

LEMMA Pannes ==
  ASSUME Types, pannes < MaxPannes, pannes' = pannes + 1
  PROVE  pannes' \in 0 .. MaxPannes
BY Bornes DEF Types

LEMMA PerturberFaits ==
  ASSUME Types, NEW as, NEW quoi \in SUBSET Motifs, Perturber(as, quoi)
  PROVE  /\ perturbes' \in [Actions -> SUBSET Motifs]
         /\ \A a \in Actions :
              /\ perturbes[a] \subseteq perturbes'[a]
              /\ a \in as => perturbes'[a] = perturbes[a] \cup quoi
              /\ a \notin as => perturbes'[a] = perturbes[a]
BY DEF Types, Perturber

(* The row and the reminders stay: the deadline is the same.                *)
LEMMA MemeEcheance ==
  ASSUME Types, NEW o \in Ops, NEW op \in Operation, NEW a \in Actions,
         Saine(a), Suivre(o, op), op.reste \subseteq ops[o].reste,
         UNCHANGED <<jour, rappels, job>>, lignes'[a] = lignes[a],
         perturbes[a] \subseteq perturbes'[a], Neuve(a) => Neuve(a)',
         ops[o].etape # "rappel",
         a \in op.reste =>
           op.etape # "rappel" /\ Lue(ops[o]) /\ op.lus[a] = ops[o].lus[a]
  PROVE  SuiteReglee(o, a)
<1> SUFFICES ASSUME Reglee(a)', a \in ops[o].reste
             PROVE  \E e \in Jours : Fixe(a, e)'
  BY DEF SuiteReglee
<1>1. PICK e \in Jours : Fixe(a, e)
  BY DEF Saine, Reglee
<1>2. a \in op.reste => Echeance(op, a, e)
  BY <1>1 DEF Fixe, Echeance
<1>3. /\ lignes'[a] # Vide => lignes'[a].echeance = e
      /\ rappels' \subseteq Actions \X Int
      /\ \A d : <<a, d>> \in rappels' <=> <<a, d>> \in rappels
      /\ jour' = jour /\ job' = job
  BY <1>1 DEF Fixe, Types
<1>4. Fixe(a, e)'
  BY <1>1, <1>2, <1>3, SuivreFixe
<1> QED BY <1>4

(* The command is about to tell Milo: it knows that the action is not SNP.  *)
LEMMA AvantMilo ==
  ASSUME Inv, NEW o \in Ops, NEW a \in Actions, Premiere(ops[o], a),
         ops[o].etape = "milo"
  PROVE  /\ "ligne" \notin perturbes[a] => milo[a] = 0 /\ ~Snp(lignes[a])
         /\ ~Neuve(a)
         /\ \A b \in ops[o].reste : b # a => ~Premiere(ops[o], b)
<1>1. Reguliere(ops[o]) /\ a \in ops[o].reste
  BY DEF Inv, Structure, Premiere
<1>2. ops[o].lus[a] # Vide /\ ~EstQualifiee(ops[o].lus[a])
  BY <1>1 DEF Reguliere
<1>3. ASSUME "ligne" \notin perturbes[a]
      PROVE  milo[a] = 0 /\ ~Snp(lignes[a]) /\ lignes[a] # Vide
  <2>1. Isolee(a) /\ Comptee(a)
    BY <1>3 DEF Inv, Saine
  <2>2. lignes[a] = ops[o].lus[a]
    BY <1>1, <2>1 DEF Isolee, AJour, Lue
  <2>3. \A p \in Ops : ~EnRoute(ops[p], a)
    BY <1>1, <2>1 DEF Isolee, EnRoute, Premiere
  <2> QED BY <1>2, <2>1, <2>2, <2>3 DEF Comptee, Snp
<1>4. ~Neuve(a)
  BY <1>3 DEF Neuve
<1>5. ASSUME NEW b \in ops[o].reste, b # a, Premiere(ops[o], b)
      PROVE  FALSE
  <2>1. a <= b /\ b <= a /\ a \in Nat /\ b \in Nat
    BY <1>1, <1>5, Bornes, LusDe DEF Premiere, Inv
  <2> QED BY <1>5, <2>1
<1> QED BY <1>3, <1>4, <1>5

LEMMA MiloAccepte ==
  ASSUME Inv, NEW o \in Ops, NEW a \in Actions, Premiere(ops[o], a),
         ops[o].etape = "milo", milo' = [milo EXCEPT ![a] = @ + 1],
         Suivre(o, [ops[o] EXCEPT !.etape = "sauvegarde"]),
         UNCHANGED <<jour, lignes, rappels, envoyes, job, pannes, perturbes>>
  PROVE  Inv'
<1> DEFINE op == [ops[o] EXCEPT !.etape = "sauvegarde"]
<1>1. ops[o] \in Operation /\ Reguliere(ops[o]) /\ Types
  BY DEF Inv, Types, Structure
<1>2. /\ op \in Operation /\ op.etape = "sauvegarde"
      /\ op.reste = ops[o].reste /\ op.lus = ops[o].lus
      /\ op.cmd = ops[o].cmd /\ op.infos = ops[o].infos
      /\ op.aSauver = ops[o].aSauver
  BY <1>1 DEF Operation, Etapes
<1>3. Suivre(o, op)
  OBVIOUS
<1> HIDE DEF op
<1>4. Reguliere(op)
  BY <1>1, <1>2 DEF Reguliere, Premiere
<1>5. milo' \in [Actions -> Nat] /\ milo'[a] = milo[a] + 1
      /\ \A b \in Actions : b # a => milo'[b] = milo[b]
  BY <1>1 DEF Types
<1>6. Types'
  BY <1>1, <1>2, <1>3, <1>5, SuivreOps DEF Types
<1>7. Structure'
  BY <1>1, <1>2, <1>3, <1>4, SuivreStructure DEF Inv
<1>8. ASSUME NEW b \in Actions
      PROVE  Saine(b)'
  <2>1. Saine(b) /\ a \in ops[o].reste
    BY DEF Inv, Premiere
  <2>2. ~Naissante(op) /\ op.cmd = "qualifier" /\ op.infos.code = "SNP"
    BY <1>1, <1>2 DEF Naissante, Reguliere
  <2>3. Suite(o, op, b)
    BY <1>2, <1>3, <1>5, <2>1, <2>2 DEF Suite, Neuve
  <2>4. SuiteIsolee(o, op, b)
    <3> SUFFICES ASSUME "ligne" \notin perturbes[b], b \in ops[o].reste
                 PROVE  /\ AJour(op, b, lignes[b])
                        /\ milo'[b] = IF Snp(lignes[b]) \/ EnRoute(op, b)
                                        THEN 1 ELSE 0
      BY <1>2 DEF SuiteIsolee, Snp, EstQualifiee
    <3>1. Isolee(b) /\ Comptee(b)
      BY <2>1 DEF Saine
    <3>2. AJour(op, b, lignes[b])
      BY <1>2, <3>1 DEF Isolee, AJour, Lue
    <3>3. CASE b = a
      BY <1>2, <1>5, <2>2, <3>2, <3>3, AvantMilo DEF EnRoute, Premiere
    <3>4. CASE b # a
      <4>1. ~EnRoute(op, b)
        BY <1>2, <3>4, AvantMilo DEF EnRoute, Premiere
      <4>2. \A p \in Ops : ~EnRoute(ops[p], b)
        BY <3>1 DEF Isolee, EnRoute, Premiere
      <4> QED BY <1>5, <3>1, <3>2, <3>4, <4>1, <4>2 DEF Comptee
    <3> QED BY <3>3, <3>4
  <2>5. SuiteReglee(o, b)
    BY <1>1, <1>2, <1>3, <2>1, MemeEcheance DEF Neuve, Lue
  <2>6. rappels' \subseteq Actions \X Int
    BY <1>1 DEF Types
  <2> QED BY <1>1, <1>2, <2>1, <2>3, <2>4, <2>5, <2>6, SuivreSaine
<1> QED BY <1>6, <1>7, <1>8 DEF Inv

LEMMA MiloPerdu ==
  ASSUME Inv, NEW o \in Ops, NEW a \in Actions, Premiere(ops[o], a),
         ops[o].etape = "milo", milo' = [milo EXCEPT ![a] = @ + 1],
         Suivre(o, Libre), Perturber({a}, {"ligne"}), pannes' \in 0 .. MaxPannes,
         UNCHANGED <<jour, lignes, rappels, envoyes, job>>
  PROVE  Inv'
<1>1. Types /\ a \in ops[o].reste
  BY DEF Inv, Premiere
<1>2. milo' \in [Actions -> Nat] /\ \A b \in Actions : b # a => milo'[b] = milo[b]
  BY <1>1 DEF Types
<1>3. /\ perturbes' \in [Actions -> SUBSET Motifs]
      /\ \A b \in Actions : /\ perturbes[b] \subseteq perturbes'[b]
                            /\ b # a => perturbes'[b] = perturbes[b]
      /\ perturbes'[a] = perturbes[a] \cup {"ligne"}
  BY <1>1, PerturberFaits DEF Motifs
<1>4. Types'
  BY <1>1, <1>2, <1>3, LibreFaits, SuivreOps DEF Types
<1>5. Structure'
  BY <1>1, LibreFaits, SuivreStructure DEF Inv
<1>6. ASSUME NEW b \in Actions
      PROVE  Saine(b)'
  <2>1. Saine(b)
    BY DEF Inv
  <2>2. Neuve(b) <=> Neuve(b)'
    BY <1>3, AvantMilo DEF Neuve
  <2>3. Suite(o, Libre, b)
    BY <1>1, <1>2, <1>3, <2>2, LibreFaits DEF Suite, Neuve
  <2>4. SuiteIsolee(o, Libre, b)
    <3> SUFFICES ASSUME "ligne" \notin perturbes'[b], b \in ops[o].reste
                 PROVE  milo'[b] = IF Snp(lignes[b]) THEN 1 ELSE 0
      BY LibreFaits DEF SuiteIsolee, EnRoute, Snp, EstQualifiee
    <3>1. b # a /\ Isolee(b) /\ Comptee(b)
      BY <1>3, <2>1 DEF Saine
    <3>2. \A p \in Ops : ~EnRoute(ops[p], b)
      BY <3>1 DEF Isolee, EnRoute, Premiere
    <3> QED BY <1>2, <3>1, <3>2 DEF Comptee
  <2>5. SuiteReglee(o, b)
    BY <1>1, <1>3, <2>1, <2>2, LibreFaits, MemeEcheance
  <2>6. rappels' \subseteq Actions \X Int
    BY <1>1 DEF Types
  <2> QED BY <1>1, <2>1, <2>3, <2>4, <2>5, <2>6, LibreFaits, SuivreSaine
<1> QED BY <1>4, <1>5, <1>6 DEF Inv

LEMMA DeclarerMiloInv ==
  ASSUME Inv, NEW o \in Ops, NEW a \in Actions, DeclarerMilo(o, a)
  PROVE  Inv'
<1>1. /\ Premiere(ops[o], a) /\ ops[o].etape = "milo" /\ Types
      /\ UNCHANGED <<jour, lignes, rappels, envoyes, job>>
  BY DEF DeclarerMilo, EnTete, Premiere, Inv
<1>2. CASE /\ milo' = [milo EXCEPT ![a] = @ + 1]
           /\ Suivre(o, [ops[o] EXCEPT !.etape = "sauvegarde"])
           /\ UNCHANGED <<pannes, perturbes>>
  BY <1>1, <1>2, MiloAccepte
<1>3. CASE /\ pannes < MaxPannes /\ pannes' = pannes + 1
           /\ Passer(o, a) /\ UNCHANGED <<milo, perturbes>>
  <2>1. Reste
    BY <1>1, <1>3, Pannes DEF Reste
  <2>2. ops[o].cmd = "qualifier"
    BY <1>1 DEF Inv, Structure, Reguliere
  <2> QED BY <1>1, <1>3, <2>1, <2>2, PasserInv
<1>4. CASE /\ pannes < MaxPannes /\ pannes' = pannes + 1
           /\ milo' = [milo EXCEPT ![a] = @ + 1]
           /\ Finir(o) /\ Perturber({a}, {"ligne"})
  BY <1>1, <1>4, Pannes, MiloPerdu DEF Finir
<1> QED BY <1>2, <1>3, <1>4 DEF DeclarerMilo

-----------------------------------------------------------------------------
(* Rows are saved                                                           *)

LEMMA SauverFaits ==
  ASSUME Inv, NEW o \in Ops, NEW a \in Actions, Premiere(ops[o], a),
         ops[o].etape = "sauvegarde", ops[o].cmd # "creer"
  PROVE  /\ "ligne" \notin perturbes[a] =>
              milo[a] = IF EnRoute(ops[o], a) THEN 1 ELSE 0
         /\ ~Neuve(a)
         /\ ops[o].lus[a] # Vide
         /\ \A b \in ops[o].reste : b # a => ~Premiere(ops[o], b)
<1>1. Reguliere(ops[o]) /\ a \in ops[o].reste
  BY DEF Inv, Structure, Premiere
<1>2. ops[o].lus[a] # Vide /\ ~EstQualifiee(ops[o].lus[a])
  BY <1>1 DEF Reguliere
<1>3. ASSUME "ligne" \notin perturbes[a]
      PROVE  /\ milo[a] = IF EnRoute(ops[o], a) THEN 1 ELSE 0
             /\ lignes[a] # Vide
  <2>1. Isolee(a) /\ Comptee(a)
    BY <1>3 DEF Inv, Saine
  <2>2. lignes[a] = ops[o].lus[a]
    BY <1>1, <2>1 DEF Isolee, AJour, Lue
  <2>3. (\E p \in Ops : EnRoute(ops[p], a)) <=> EnRoute(ops[o], a)
    BY <1>1, <2>1 DEF Isolee, EnRoute, Premiere
  <2> QED BY <1>2, <2>1, <2>2, <2>3 DEF Comptee, Snp
<1>4. ~Neuve(a)
  BY <1>3 DEF Neuve
<1>5. ASSUME NEW b \in ops[o].reste, b # a, Premiere(ops[o], b)
      PROVE  FALSE
  <2>1. a <= b /\ b <= a /\ a \in Nat /\ b \in Nat
    BY <1>1, <1>5, Bornes, LusDe DEF Premiere, Inv
  <2> QED BY <1>5, <2>1
<1> QED BY <1>2, <1>3, <1>4, <1>5

(* A modification or a qualification.                                       *)
LEMMA SauverModification ==
  ASSUME Inv, NEW o \in Ops, NEW a \in Actions, Sauvegarder(o, a),
         ops[o].cmd # "creer"
  PROVE  Inv'
<1> DEFINE l == ops[o].aSauver
<1>1. /\ Premiere(ops[o], a) /\ ops[o].etape = "sauvegarde"
      /\ lignes' = [lignes EXCEPT ![a] = l] /\ Passer(o, a)
      /\ UNCHANGED <<jour, rappels, envoyes, milo, job, pannes>>
  BY DEF Sauvegarder, EnTete, Premiere
<1>2. /\ Types /\ Structure /\ Reguliere(ops[o]) /\ a \in ops[o].reste
      /\ ops[o].cmd \in {"modifier", "qualifier"}
      /\ l \in Lignes
      /\ EstQualifiee(l) <=> ops[o].cmd = "qualifier" /\ ops[o].infos.code = "SNP"
  BY <1>1 DEF Inv, Structure, Reguliere, Premiere
<1>3. PICK op \in Operation :
           /\ Suivre(o, op) /\ Reguliere(op)
           /\ op.reste \subseteq ops[o].reste /\ a \notin op.reste
           /\ op.etape \in {"libre", "calcul"}
           /\ \A b \in op.reste : op.lus[b] = ops[o].lus[b]
  BY <1>1, <1>2, PasserFaits
<1>4. lignes' \in Lues /\ lignes'[a] = l
      /\ \A b \in Actions : b # a => lignes'[b] = lignes[b]
  BY <1>1, <1>2 DEF Types, Lues
<1>5. /\ perturbes' \in [Actions -> SUBSET Motifs]
      /\ \A b \in Actions : /\ perturbes[b] \subseteq perturbes'[b]
                            /\ b # a => perturbes'[b] = perturbes[b]
      /\ perturbes'[a] \subseteq perturbes[a] \cup {"rappel"}
      /\ Reglee(a)' => l.echeance = ops[o].lus[a].echeance
  <2> DEFINE as == {b \in {a} : /\ ops[o].cmd # "creer"
                                /\ l.echeance # ops[o].lus[b].echeance}
  <2>1. Perturber(as, {"rappel"})
    BY DEF Sauvegarder
  <2>2. as \subseteq {a}
    OBVIOUS
  <2>3. a \in as <=> l.echeance # ops[o].lus[a].echeance
    OBVIOUS
  <2> HIDE DEF as
  <2>4. /\ perturbes' \in [Actions -> SUBSET Motifs]
        /\ \A b \in Actions : /\ perturbes[b] \subseteq perturbes'[b]
                              /\ b \in as => perturbes'[b] = perturbes[b] \cup {"rappel"}
                              /\ b \notin as => perturbes'[b] = perturbes[b]
    BY <1>2, <2>1, PerturberFaits DEF Motifs
  <2> QED BY <2>2, <2>3, <2>4 DEF Reglee
<1>6. Types'
  BY <1>1, <1>2, <1>3, <1>4, <1>5, SuivreOps DEF Types
<1>7. Structure'
  BY <1>1, <1>2, <1>3, SuivreStructure
<1>8. ASSUME NEW b \in Actions
      PROVE  Saine(b)'
  <2>1. Saine(b) /\ l # Vide
    BY <1>2, Bornes DEF Inv
  <2>2. ~Naissante(op) /\ ~EnRoute(op, b) /\ op.etape # "rappel"
    BY <1>3 DEF Naissante, EnRoute
  <2>3. Suite(o, op, b)
    BY <1>1, <1>2, <1>3, <1>4, <1>5, <2>1, <2>2 DEF Suite, Neuve
  <2>4. SuiteIsolee(o, op, b)
    <3> SUFFICES ASSUME "ligne" \notin perturbes'[b], b \in ops[o].reste
                 PROVE  /\ b \in op.reste => AJour(op, b, lignes'[b])
                        /\ milo[b] = IF Snp(lignes'[b]) THEN 1 ELSE 0
      BY <1>1, <2>2 DEF SuiteIsolee
    <3>1. "ligne" \notin perturbes[b]
      BY <1>5
    <3>2. Isolee(b) /\ Comptee(b)
      BY <2>1, <3>1 DEF Saine
    <3>3. CASE b = a
      <4>1. milo[a] = IF EnRoute(ops[o], a) THEN 1 ELSE 0
        BY <1>1, <1>2, <3>1, <3>3, SauverFaits
      <4>2. EnRoute(ops[o], a) <=> Snp(l)
        BY <1>1, <1>2, <2>1 DEF EnRoute, Snp
      <4> QED BY <1>3, <1>4, <3>3, <4>1, <4>2
    <3>4. CASE b # a
      <4>1. \A p \in Ops : ~EnRoute(ops[p], b)
        BY <1>1, <1>2, <3>2, <3>4, SauverFaits DEF Isolee, EnRoute, Premiere
      <4>2. b \in op.reste => op.lus[b] = lignes[b]
        BY <1>1, <1>3, <3>2 DEF Isolee, AJour, Lue
      <4> QED BY <1>4, <2>2, <3>2, <3>4, <4>1, <4>2 DEF Comptee, AJour
    <3> QED BY <3>3, <3>4
  <2>5. SuiteReglee(o, b)
    <3>1. CASE b = a
      <4> SUFFICES ASSUME Reglee(a)' PROVE \E e \in Jours : Fixe(a, e)'
        BY <3>1 DEF SuiteReglee
      <4>1. PICK e \in Jours : Fixe(a, e)
        BY <1>5, <2>1, <3>1 DEF Saine, Reglee
      <4>2. l.echeance = e
        BY <1>1, <1>2, <1>5, <4>1, SauverFaits DEF Fixe, Echeance, Lue
      <4>3. ~Neuve(a) /\ a \notin op.reste /\ ops[o].etape # "rappel"
        BY <1>1, <1>2, <1>3, SauverFaits
      <4>4. /\ lignes'[a] # Vide => lignes'[a].echeance = e
            /\ rappels' \subseteq Actions \X Int
            /\ \A d : <<a, d>> \in rappels' <=> <<a, d>> \in rappels
            /\ jour' = jour /\ job' = job
        BY <1>1, <1>2, <1>4, <4>2 DEF Types
      <4>5. Fixe(a, e)'
        BY <1>2, <1>3, <4>1, <4>3, <4>4, SuivreFixe
      <4> QED BY <4>5
    <3>2. CASE b # a
      BY <1>1, <1>2, <1>3, <1>4, <1>5, <2>1, <2>2, <3>2, MemeEcheance DEF Neuve, Lue
    <3> QED BY <3>1, <3>2
  <2>6. rappels' \subseteq Actions \X Int
    BY <1>1, <1>2 DEF Types
  <2> QED BY <1>2, <1>3, <2>1, <2>3, <2>4, <2>5, <2>6, SuivreSaine
<1> QED BY <1>6, <1>7, <1>8 DEF Inv

(* The creation is saved: its reminder is next.                             *)
LEMMA SauverCreation ==
  ASSUME Inv, NEW o \in Ops, NEW a \in Actions, Sauvegarder(o, a),
         ops[o].cmd = "creer"
  PROVE  Inv'
<1> DEFINE l == ops[o].aSauver
           op == [ops[o] EXCEPT !.etape = "rappel"]
<1>1. /\ a \in ops[o].reste /\ ops[o].etape = "sauvegarde"
      /\ lignes' = [lignes EXCEPT ![a] = l] /\ Suivre(o, op)
      /\ UNCHANGED <<jour, rappels, envoyes, milo, job, pannes>>
  BY DEF Sauvegarder, EnTete
<1>2. /\ Types /\ Structure /\ Reguliere(ops[o]) /\ ops[o] \in Operation
      /\ l \in Lignes /\ ~EstQualifiee(l)
      /\ ops[o].lus = [b \in Actions |-> Vide]
      /\ \A b \in ops[o].reste : b = a
  BY <1>1 DEF Inv, Structure, Reguliere, Types
<1>3. /\ op \in Operation /\ op.etape = "rappel"
      /\ op.reste = ops[o].reste /\ op.lus = ops[o].lus
      /\ op.cmd = "creer" /\ op.infos = ops[o].infos /\ op.aSauver = l
  BY <1>2 DEF Operation, Etapes
<1> HIDE DEF op
<1>4. Reguliere(op)
  BY <1>2, <1>3 DEF Reguliere
<1>5. lignes' \in Lues /\ lignes'[a] = l /\ l # Vide
      /\ \A b \in Actions : b # a => lignes'[b] = lignes[b]
  BY <1>1, <1>2, Bornes DEF Types, Lues
<1>6. perturbes' = perturbes
  <2>1. Perturber({b \in {a} : /\ ops[o].cmd # "creer"
                               /\ l.echeance # ops[o].lus[b].echeance}, {"rappel"})
    BY DEF Sauvegarder
  <2>2. {b \in {a} : /\ ops[o].cmd # "creer"
                     /\ l.echeance # ops[o].lus[b].echeance} = {}
    OBVIOUS
  <2>3. perturbes' = [b \in Actions |-> perturbes[b]]
    BY <2>1, <2>2 DEF Perturber
  <2> QED BY <1>2, <2>3 DEF Types
<1>7. Types'
  BY <1>1, <1>2, <1>3, <1>5, <1>6, SuivreOps DEF Types
<1>8. Structure'
  BY <1>1, <1>2, <1>3, <1>4, SuivreStructure
<1>9. Neuve(a) /\ Isolee(a) /\ Comptee(a)
  BY <1>1 DEF Inv, Saine, Nouveaute, Naissante, Neuve
<1>10. /\ ops'[o] = op
       /\ \A p \in Ops : p # o => ops'[p] = ops[p]
  BY <1>1, <1>2, <1>3, SuivreOps
<1>11. ASSUME NEW b \in Actions
      PROVE  Saine(b)'
  <2>1. Saine(b)
    BY DEF Inv
  <2>2. ~Naissante(op) /\ ~EnRoute(op, b)
    BY <1>3 DEF Naissante, EnRoute
  <2>3. Suite(o, op, b)
    BY <1>1, <1>2, <1>3, <1>5, <1>6, <2>2 DEF Suite, Neuve
  <2>4. SuiteIsolee(o, op, b)
    <3> SUFFICES ASSUME b = a
                 PROVE  /\ AJour(op, a, lignes'[a])
                        /\ milo[a] = 0 /\ ~Snp(lignes'[a])
      BY <1>1, <1>2, <2>2 DEF SuiteIsolee
    <3>1. \A p \in Ops : ~EnRoute(ops[p], a)
      BY <1>1, <1>9 DEF Isolee, EnRoute, Premiere
    <3> QED BY <1>2, <1>3, <1>5, <1>9, <3>1 DEF AJour, Lue, Snp, Comptee, Neuve
  <2>5. SuiteReglee(o, b)
    <3>1. PICK e \in Jours : e = l.echeance
      BY <1>2, ChampsDe
    <3> SUFFICES ASSUME b = a
                 PROVE  Fixe(a, e)'
      BY <1>2 DEF SuiteReglee
    <3>2. \A p \in Ops : a \in ops'[p].reste => p = o
      BY <1>1, <1>9, <1>10 DEF Isolee
    <3>3. a \notin job'.page
      BY <1>1, <1>9 DEF Isolee
    <3>4. \A r \in rappels' : r[1] # a
      BY <1>1, <1>9, <2>1 DEF Saine, Nouveaute
    <3>5. Echeance(op, a, e)
      BY <1>3, <3>1 DEF Echeance, Lue
    <3>6. a \in ops'[o].reste /\ ops'[o].etape = "rappel"
      BY <1>1, <1>3, <1>10
    <3> QED BY <1>5, <1>10, <3>1, <3>2, <3>3, <3>4, <3>5, <3>6
             DEF Fixe, Echeance, Lue
  <2>6. rappels' \subseteq Actions \X Int
    BY <1>1, <1>2 DEF Types
  <2> QED BY <1>2, <1>3, <2>1, <2>3, <2>4, <2>5, <2>6, SuivreSaine
<1> QED BY <1>7, <1>8, <1>11 DEF Inv

(* The reminder is planned, or noted as missing.                            *)
LEMMA PlanifierRappelInv ==
  ASSUME Inv, NEW o \in Ops, NEW a \in Actions, PlanifierRappel(o, a)
  PROVE  Inv'
<1> DEFINE l == ops[o].aSauver
           e == l.echeance
<1>1. /\ a \in ops[o].reste /\ ops[o].etape = "rappel" /\ Suivre(o, Libre)
      /\ UNCHANGED <<jour, lignes, envoyes, milo, job>>
  BY DEF PlanifierRappel, Finir
<1>2. /\ Types /\ Structure /\ l \in Lignes /\ e \in Jours
      /\ \A b \in ops[o].reste : b = a
  BY <1>1, ChampsDe DEF Inv, Structure, Reguliere
<1>3. \/ /\ rappels' = rappels \cup {<<a, e - DelaiRappel>>}
         /\ Perturber({a}, {}) /\ pannes' = pannes
      \/ /\ rappels' = rappels
         /\ Perturber({a}, {"rappel"}) /\ pannes' \in 0 .. MaxPannes
  BY <1>2, Pannes DEF PlanifierRappel, JourDuRappel, Types
<1>4. /\ perturbes' \in [Actions -> SUBSET Motifs]
      /\ \A b \in Actions : /\ perturbes[b] \subseteq perturbes'[b]
                            /\ b # a => perturbes'[b] = perturbes[b]
      /\ "ligne" \notin perturbes'[a] => "ligne" \notin perturbes[a]
      /\ Reglee(a)' => Reglee(a) /\ rappels' = rappels \cup {<<a, e - DelaiRappel>>}
  BY <1>2, <1>3, PerturberFaits DEF Motifs, Reglee
<1>5. rappels' \subseteq Actions \X Int /\ pannes' \in 0 .. MaxPannes
  <2>1. e - DelaiRappel \in Int
    <3>1. e \in Nat
      BY <1>2, Bornes
    <3>2. DelaiRappel \in Nat
      BY Bornes
    <3> HIDE DEF e
    <3> QED BY <3>1, <3>2
  <2>2. rappels \subseteq Actions \X Int /\ pannes \in 0 .. MaxPannes
    BY <1>2 DEF Types
  <2>3. <<a, e - DelaiRappel>> \in Actions \X Int
    BY <2>1
  <2> QED BY <1>3, <2>2, <2>3
<1>6. Types'
  BY <1>1, <1>2, <1>4, <1>5, LibreFaits, SuivreOps DEF Types
<1>7. Structure'
  BY <1>1, <1>2, LibreFaits, SuivreStructure
<1>8. ~Neuve(a)
  <2>1. Neuve(a) => Isolee(a)
    BY DEF Neuve, Inv, Saine
  <2>2. l # Vide
    BY <1>2, Bornes
  <2> QED BY <1>1, <2>1, <2>2 DEF Isolee, AJour, Neuve
<1>9. /\ ops'[o] = Libre /\ Libre.reste = {}
      /\ \A p \in Ops : p # o => ops'[p] = ops[p]
  BY <1>1, <1>2, LibreFaits, SuivreOps
<1>10. ASSUME NEW b \in Actions
      PROVE  Saine(b)'
  <2>1. Saine(b)
    BY DEF Inv
  <2>2. b \notin Libre.reste /\ ~EnRoute(Libre, b)
    BY <1>9 DEF EnRoute, Premiere
  <2>3. Neuve(b)' => Neuve(b) /\ b # a
    BY <1>1, <1>4, <1>8 DEF Neuve
  <2>4. b # a => \A d : <<b, d>> \in rappels' <=> <<b, d>> \in rappels
    BY <1>3
  <2>5. Suite(o, Libre, b)
    BY <1>1, <1>2, <1>4, <1>9, <2>2, <2>3, <2>4 DEF Suite
  <2>6. SuiteIsolee(o, Libre, b)
    <3> SUFFICES ASSUME b = a, "ligne" \notin perturbes[a]
                 PROVE  milo[a] = IF Snp(lignes[a]) THEN 1 ELSE 0
      BY <1>1, <1>2, <1>4, <2>2 DEF SuiteIsolee, Snp, EstQualifiee
    <3>1. Isolee(a) /\ Comptee(a)
      BY <2>1 DEF Saine
    <3>2. \A p \in Ops : ~EnRoute(ops[p], a)
      BY <1>1, <3>1 DEF Isolee, EnRoute, Premiere
    <3> QED BY <3>1, <3>2 DEF Comptee
  <2>7. SuiteReglee(o, b)
    <3> SUFFICES ASSUME b = a, Reglee(a)' PROVE \E f \in Jours : Fixe(a, f)'
      BY <1>2 DEF SuiteReglee
    <3>1. Reglee(a) /\ rappels' = rappels \cup {<<a, e - DelaiRappel>>}
      BY <1>4
    <3>2. PICK f \in Jours : Fixe(a, f)
      BY <2>1, <3>1 DEF Saine
    <3>3. f = e
      BY <1>1, <3>2 DEF Fixe, Echeance
    <3>4. \A p \in Ops : a \in ops'[p].reste => Echeance(ops'[p], a, f)
      BY <1>9, <3>2 DEF Fixe
    <3>5. \A r \in rappels' : r[1] = a => r[2] = f - DelaiRappel
      BY <3>1, <3>2, <3>3 DEF Fixe
    <3>6. <<a, f - DelaiRappel>> \in rappels'
      BY <3>1, <3>3
    <3>7. Fixe(a, f)'
      BY <1>1, <3>2, <3>4, <3>5, <3>6 DEF Fixe, Echeance, Lue
    <3> QED BY <3>7
  <2> QED BY <1>2, <1>5, <2>1, <2>5, <2>6, <2>7, LibreFaits, SuivreSaine
<1> QED BY <1>6, <1>7, <1>10 DEF Inv

(* The row goes away, its reminder stays.                                   *)
LEMMA SupprimerInv ==
  ASSUME Inv, NEW o \in Ops, NEW a \in Actions, Supprimer(o, a)
  PROVE  Inv'
<1>1. /\ a \in ops[o].reste /\ ops[o].etape = "calcul" /\ Suivre(o, Libre)
      /\ UNCHANGED <<jour, rappels, envoyes, milo, job, pannes>>
      /\ Types /\ Structure
  BY DEF Supprimer, Finir, EnTete, Inv
<1>2. CASE ~Supprimable(o, a)
  <2>1. Reste
    BY <1>1, <1>2 DEF Supprimer, Reste, Types
  <2> QED BY <1>1, <2>1, LibreFaits, EtapeInv
<1>3. CASE Supprimable(o, a)
  <2>1. lignes' = [lignes EXCEPT ![a] = Vide] /\ Perturber({a}, {"supprimee"})
    BY <1>3 DEF Supprimer
  <2>2. lignes' \in Lues /\ lignes'[a] = Vide
        /\ \A b \in Actions : b # a => lignes'[b] = lignes[b]
    BY <1>1, <2>1 DEF Types, Lues
  <2>3. /\ perturbes' \in [Actions -> SUBSET Motifs]
        /\ \A b \in Actions : /\ perturbes[b] \subseteq perturbes'[b]
                              /\ b # a => perturbes'[b] = perturbes[b]
        /\ perturbes'[a] = perturbes[a] \cup {"supprimee"}
    BY <1>1, <2>1, PerturberFaits DEF Motifs
  <2>4. Types'
    BY <1>1, <2>2, <2>3, LibreFaits, SuivreOps DEF Types
  <2>5. Structure'
    BY <1>1, LibreFaits, SuivreStructure
  <2>6. ops[o].lus[a] # Vide /\ ~Snp(ops[o].lus[a])
    <3>1. ops[o].lus[a] # Vide /\ ~EstTerminee(ops[o].lus[a])
      BY <1>3 DEF Supprimable
    <3>2. ops[o].lus[a] \in Lignes
      BY <1>1, <3>1, LusDe
    <3> QED BY <3>1, <3>2, ChampsDe DEF EstTerminee, Snp, EstQualifiee
  <2>7. ASSUME NEW b \in Actions, "ligne" \notin perturbes[b], b \in ops[o].reste
        PROVE  /\ Isolee(b) /\ lignes[b] = ops[o].lus[b]
               /\ milo[b] = IF Snp(lignes[b]) THEN 1 ELSE 0
    <3>1. Isolee(b) /\ Comptee(b)
      BY <2>7 DEF Inv, Saine
    <3>2. \A p \in Ops : ~EnRoute(ops[p], b)
      BY <1>1, <2>7, <3>1 DEF Isolee, EnRoute, Premiere
    <3> QED BY <1>1, <2>7, <3>1, <3>2 DEF Comptee, Isolee, AJour, Lue
  <2>8. ~Neuve(a)
    BY <1>1, <2>6, <2>7 DEF Neuve
  <2>9. ASSUME NEW b \in Actions
        PROVE  Saine(b)'
    <3>1. Saine(b)
      BY DEF Inv
    <3>2. b \notin Libre.reste /\ ~EnRoute(Libre, b)
      BY LibreFaits DEF EnRoute, Premiere
    <3>3. Suite(o, Libre, b)
      BY <1>1, <2>2, <2>3, <3>2, LibreFaits DEF Suite, Neuve
    <3>4. SuiteIsolee(o, Libre, b)
      <4> SUFFICES ASSUME b \in ops[o].reste, "ligne" \notin perturbes[b]
                   PROVE  milo[b] = IF Snp(lignes'[b]) THEN 1 ELSE 0
        BY <1>1, <2>3, <3>2 DEF SuiteIsolee
      <4>1. CASE b = a
        BY <2>2, <2>6, <2>7, <4>1 DEF Snp
      <4>2. CASE b # a
        BY <2>2, <2>7, <4>2
      <4> QED BY <4>1, <4>2
    <3>5. SuiteReglee(o, b)
      <4>1. CASE b # a
        BY <1>1, <2>2, <2>3, <3>1, <3>2, <4>1, LibreFaits, MemeEcheance DEF Neuve
      <4>2. CASE b = a
        <5> SUFFICES ASSUME Reglee(a)' PROVE \E e \in Jours : Fixe(a, e)'
          BY <4>2 DEF SuiteReglee
        <5>1. PICK e \in Jours : Fixe(a, e)
          BY <2>3, <3>1, <4>2 DEF Saine, Reglee
        <5>2. rappels' \subseteq Actions \X Int
          BY <1>1 DEF Types
        <5>3. Fixe(a, e)'
          BY <1>1, <2>2, <2>8, <3>2, <4>2, <5>1, <5>2, LibreFaits, SuivreFixe
        <5> QED BY <5>3
      <4> QED BY <4>1, <4>2
    <3>6. rappels' \subseteq Actions \X Int
      BY <1>1 DEF Types
    <3> QED BY <1>1, <3>1, <3>3, <3>4, <3>5, <3>6, LibreFaits, SuivreSaine
  <2> QED BY <2>4, <2>5, <2>9 DEF Inv
<1> QED BY <1>2, <1>3

(* The process of the command stops.                                        *)
LEMMA InterrompreInv ==
  ASSUME Inv, NEW o \in Ops, Interrompre(o)
  PROVE  Inv'
<1> DEFINE quoi == IF ops[o].etape = "sauvegarde" THEN {"ligne"}
                   ELSE IF ops[o].etape = "rappel" THEN {"rappel"} ELSE {}
<1>1. /\ Suivre(o, Libre) /\ Perturber(ops[o].reste, quoi)
      /\ UNCHANGED <<jour, lignes, rappels, envoyes, milo, job>>
      /\ pannes' \in 0 .. MaxPannes /\ Types /\ Structure
  BY Pannes DEF Interrompre, Finir, Inv
<1>2. /\ perturbes' \in [Actions -> SUBSET Motifs]
      /\ \A b \in Actions :
           /\ perturbes[b] \subseteq perturbes'[b]
           /\ b \in ops[o].reste => perturbes'[b] = perturbes[b] \cup quoi
           /\ b \notin ops[o].reste => perturbes'[b] = perturbes[b]
  <2>1. quoi \in SUBSET Motifs
    BY DEF Motifs
  <2> HIDE DEF quoi
  <2> QED BY <1>1, <2>1, PerturberFaits
<1>3. Types'
  BY <1>1, <1>2, LibreFaits, SuivreOps DEF Types
<1>4. Structure'
  BY <1>1, LibreFaits, SuivreStructure
<1>5. ASSUME NEW b \in Actions
      PROVE  Saine(b)'
  <2>1. Saine(b)
    BY DEF Inv
  <2>2. b \notin Libre.reste /\ ~EnRoute(Libre, b)
    BY LibreFaits DEF EnRoute, Premiere
  <2>3. Suite(o, Libre, b)
    BY <1>1, <1>2, <2>2, LibreFaits DEF Suite, Neuve
  <2>4. SuiteIsolee(o, Libre, b)
    <3> SUFFICES ASSUME b \in ops[o].reste, "ligne" \notin perturbes'[b]
                 PROVE  milo[b] = IF Snp(lignes[b]) THEN 1 ELSE 0
      BY <1>1, <2>2 DEF SuiteIsolee, Snp, EstQualifiee
    <3>1. "ligne" \notin perturbes[b] /\ ops[o].etape # "sauvegarde"
      BY <1>2
    <3>2. Isolee(b) /\ Comptee(b)
      BY <2>1, <3>1 DEF Saine
    <3>3. \A p \in Ops : ~EnRoute(ops[p], b)
      BY <3>1, <3>2 DEF Isolee, EnRoute, Premiere
    <3> QED BY <3>2, <3>3 DEF Comptee
  <2>5. SuiteReglee(o, b)
    <3> SUFFICES ASSUME b \in ops[o].reste, Reglee(b)'
                 PROVE  \E e \in Jours : Fixe(b, e)'
      BY DEF SuiteReglee
    <3>1. Reglee(b) /\ ops[o].etape # "rappel"
      BY <1>2 DEF Reglee
    <3>2. CASE Neuve(b)
      <4>1. \A p \in Ops : b \notin ops'[p].reste
        BY <1>1, <2>1, <2>2, <3>2, LibreFaits, SuivreOps DEF Neuve, Saine, Isolee
      <4>2. b \notin job.page /\ lignes[b] = Vide
        BY <2>1, <3>2 DEF Neuve, Saine, Isolee
      <4>3. \A r \in rappels : r[1] # b
        BY <2>1, <3>2 DEF Saine, Nouveaute
      <4>4. 0 \in Jours /\ 0 - DelaiRappel <= jour'
        BY <1>1, Bornes DEF Jours, Types
      <4>5. Fixe(b, 0)'
        BY <1>1, <4>1, <4>2, <4>3, <4>4 DEF Fixe
      <4> QED BY <4>4, <4>5
    <3>3. CASE ~Neuve(b)
      BY <1>1, <1>2, <2>1, <2>2, <3>1, <3>3, LibreFaits, MemeEcheance DEF SuiteReglee
    <3> QED BY <3>2, <3>3
  <2>6. rappels' \subseteq Actions \X Int
    BY <1>1 DEF Types
  <2> QED BY <1>1, <2>1, <2>3, <2>4, <2>5, <2>6, LibreFaits, SuivreSaine
<1> QED BY <1>3, <1>4, <1>5 DEF Inv

-----------------------------------------------------------------------------
(* Commands start                                                           *)

(* What a command that starts does to its actions.                          *)
Debut(o, op) ==
  /\ Suivre(o, op) /\ ops[o].etape = "libre" /\ op.etape # "libre"
  /\ UNCHANGED <<jour, lignes, rappels, envoyes, milo, job, pannes>>
  /\ Perturber({a \in op.reste : Occupee(a)}, {"ligne"})

LEMMA OccupeeFaits ==
  ASSUME Types, Structure, NEW a \in Actions
  PROVE  Occupee(a) <=> a \in job.page \/ \E o \in Ops : a \in ops[o].reste
BY DEF Occupee, Concernes, Structure, Reguliere

LEMMA DebutInv ==
  ASSUME Inv, NEW o \in Ops, NEW op \in Operation, Debut(o, op), Reguliere(op),
         \/ op.etape = "lecture" /\ \A a \in op.reste : lignes[a] # Vide
         \/ Naissante(op) /\ \A a \in op.reste : Neuve(a) /\ ~Occupee(a)
  PROVE  Inv'
<1>1. Types /\ Structure /\ Suivre(o, op) /\ ops[o].reste = {}
      /\ UNCHANGED <<jour, lignes, rappels, envoyes, milo, job, pannes>>
  BY DEF Debut, Inv, Structure, Reguliere
<1>2. /\ ops' \in [Ops -> Operation] /\ ops'[o] = op
      /\ \A p \in Ops : p # o => ops'[p] = ops[p]
  BY <1>1, SuivreOps
<1>3. /\ perturbes' \in [Actions -> SUBSET Motifs]
      /\ \A b \in Actions :
           /\ perturbes[b] \subseteq perturbes'[b]
           /\ b \in op.reste /\ Occupee(b) => perturbes'[b] = perturbes[b] \cup {"ligne"}
           /\ ~(b \in op.reste /\ Occupee(b)) => perturbes'[b] = perturbes[b]
  <2>1. Perturber({b \in op.reste : Occupee(b)}, {"ligne"})
    BY DEF Debut
  <2> QED BY <1>1, <2>1, PerturberFaits DEF Motifs
<1>4. Types'
  BY <1>1, <1>2, <1>3 DEF Types
<1>5. Structure'
  BY <1>1, SuivreStructure
<1>6. ASSUME NEW b \in Actions
      PROVE  Saine(b)'
  <2>1. Saine(b)
    BY DEF Inv
  <2>2. b \in op.reste =>
          \/ op.etape = "lecture" /\ lignes[b] # Vide
          \/ Naissante(op) /\ Neuve(b) /\ ~Occupee(b)
    OBVIOUS
  <2>3. Occupee(b) <=> b \in job.page \/ \E p \in Ops : b \in ops[p].reste
    BY <1>1, OccupeeFaits
  <2>4. ~EnRoute(op, b)
    BY DEF EnRoute, Naissante
  <2>5. Naissante(op) /\ b \in op.reste => op.lus[b] = Vide
    BY DEF Reguliere, Naissante
  <2>6. ASSUME "ligne" \notin perturbes'[b]
        PROVE  Isolee(b)' /\ Comptee(b)'
    <3>1. Isolee(b) /\ Comptee(b)
      BY <1>3, <2>1, <2>6 DEF Saine
    <3>2. b \in op.reste => b \notin job.page /\ \A p \in Ops : b \notin ops[p].reste
      BY <1>3, <2>3, <2>6
    <3>3. b \in op.reste => AJour(op, b, lignes[b])
      BY <2>2, <2>5 DEF AJour, Lue, Naissante, Neuve
    <3>4. Isolee(b)'
      BY <1>1, <1>2, <3>1, <3>2, <3>3 DEF Isolee, AJour, Lue
    <3>5. ~EnRoute(ops[o], b)
      BY <1>1 DEF EnRoute, Premiere
    <3>6. \A p \in Ops : EnRoute(ops'[p], b) <=> EnRoute(ops[p], b)
      BY <1>2, <2>4, <3>5
    <3> QED BY <1>1, <3>1, <3>4, <3>6 DEF Comptee, Snp, EstQualifiee, EnRoute, Premiere
  <2>7. Neuve(b) => Neuve(b)'
    <3> SUFFICES ASSUME Neuve(b) PROVE perturbes'[b] = perturbes[b]
      BY <1>1 DEF Neuve
    <3>1. ~(b \in op.reste /\ Occupee(b))
      BY <2>2 DEF Neuve
    <3> QED BY <1>3, <3>1
  <2>8. Nouveaute(b)'
    BY <1>1, <1>2, <1>3, <2>1, <2>2, <2>7 DEF Saine, Nouveaute, Naissante, Neuve
  <2>9. ASSUME Reglee(b)'
        PROVE  \E e \in Jours : Fixe(b, e)'
    <3>1. PICK e \in Jours : Fixe(b, e)
      BY <1>3, <2>1, <2>9 DEF Saine, Reglee
    <3>2. b \in op.reste => Echeance(op, b, e)
      BY <2>2, <2>5 DEF Echeance, Lue, Naissante
    <3>3. \A p \in Ops : b \in ops'[p].reste => Echeance(ops'[p], b, e)
      BY <1>2, <3>1, <3>2 DEF Fixe
    <3>4. (\E p \in Ops : b \in ops[p].reste /\ ops[p].etape = "rappel")
            => \E p \in Ops : b \in ops'[p].reste /\ ops'[p].etape = "rappel"
      BY <1>1, <1>2
    <3>5. Fixe(b, e)'
      BY <1>1, <2>7, <3>1, <3>3, <3>4 DEF Fixe, Echeance, Lue
    <3> QED BY <3>5
  <2> QED BY <2>6, <2>8, <2>9 DEF Saine
<1> QED BY <1>4, <1>5, <1>6 DEF Inv

LEMMA PrendreInv ==
  ASSUME Inv, NEW o \in Ops, NEW cmd \in Commandes, NEW as \in SUBSET Actions,
         NEW infos \in Infos \cup Qualification \cup {Vide},
         \A a \in as : Existe(a), cmd # "creer",
         cmd = "modifier" => infos \in Infos,
         cmd = "qualifier" => infos \in Qualification,
         Prendre(o, cmd, as, infos)
  PROVE  Inv'
<1> DEFINE op == [Libre EXCEPT !.etape = "lecture", !.cmd = cmd, !.reste = as,
                               !.infos = infos]
<1>1. /\ op \in Operation
      /\ op.etape = "lecture" /\ op.cmd = cmd /\ op.reste = as /\ op.infos = infos
  BY LibreFaits DEF Operation, Etapes
<1>2. Reguliere(op)
  BY <1>1 DEF Reguliere
<1>3. Suivre(o, op)
  BY DEF Prendre
<1> HIDE DEF op
<1>4. Debut(o, op)
  BY <1>1, <1>3 DEF Prendre, Debut
<1>5. \A a \in op.reste : lignes[a] # Vide
  BY <1>1 DEF Existe
<1> QED BY <1>1, <1>2, <1>4, <1>5, DebutInv

LEMMA DemanderCreationInv ==
  ASSUME Inv, NEW o \in Ops, NEW a \in Actions, DemanderCreation(o, a)
  PROVE  Inv'
<1>1. PICK c \in Creations :
        /\ ops[o].etape = "libre"
        /\ Suivre(o, [Libre EXCEPT !.etape = "sauvegarde", !.cmd = "creer",
                                   !.reste = {a}, !.aSauver = Nouvelle(c)])
  BY DEF DemanderCreation
<1> DEFINE op == [Libre EXCEPT !.etape = "sauvegarde", !.cmd = "creer",
                               !.reste = {a}, !.aSauver = Nouvelle(c)]
<1>2. Nouvelle(c) \in Lignes /\ ~EstQualifiee(Nouvelle(c))
  BY ConstantsAssumption, LigneNouvelle
<1>3. /\ op \in Operation
      /\ op.etape = "sauvegarde" /\ op.cmd = "creer" /\ op.reste = {a}
      /\ op.aSauver = Nouvelle(c) /\ op.lus = [b \in Actions |-> Vide]
  BY <1>2, LibreFaits DEF Operation, Etapes, Commandes
<1>4. Suivre(o, op)
  BY <1>1
<1> HIDE DEF op
<1>5. Reguliere(op)
  BY <1>2, <1>3 DEF Reguliere
<1>6. Neuve(a) /\ ~Occupee(a)
      /\ UNCHANGED <<jour, lignes, rappels, envoyes, milo, job, pannes, perturbes>>
  BY DEF DemanderCreation, Neuve
<1>7. Perturber({b \in op.reste : Occupee(b)}, {"ligne"})
  <2>1. {b \in op.reste : Occupee(b)} = {}
    BY <1>3, <1>6
  <2>2. perturbes' = [b \in Actions |-> perturbes[b]]
    BY <1>6 DEF Inv, Types
  <2> QED BY <2>1, <2>2 DEF Perturber
<1>8. Debut(o, op)
  BY <1>1, <1>3, <1>4, <1>6, <1>7 DEF Debut
<1>9. Naissante(op) /\ \A b \in op.reste : Neuve(b) /\ ~Occupee(b)
  BY <1>3, <1>6 DEF Naissante
<1> QED BY <1>3, <1>5, <1>8, <1>9, DebutInv

LEMMA DemanderInv ==
  ASSUME Inv, NEW o \in Ops, Demander(o)
  PROVE  Inv'
<1>1. ASSUME NEW a \in Actions, DemanderCreation(o, a)
      PROVE  Inv'
  BY <1>1, DemanderCreationInv
<1>2. ASSUME NEW a \in Actions, Existe(a), NEW m \in Modifications,
             Prendre(o, "modifier", {a}, m)
      PROVE  Inv'
  <2>1. m \in Infos
    BY ConstantsAssumption
  <2> QED BY <1>2, <2>1, PrendreInv DEF Commandes
<1>3. ASSUME NEW a \in Actions, Existe(a), NEW cmd \in {"supprimer", "commenter"},
             Prendre(o, cmd, {a}, Vide)
      PROVE  Inv'
  BY <1>3, PrendreInv DEF Commandes
<1>4. ASSUME NEW as \in SUBSET Actions, \A a \in as : Existe(a),
             NEW q \in Qualifications, Prendre(o, "qualifier", as, q)
      PROVE  Inv'
  <2>1. q \in Qualification
    BY ConstantsAssumption
  <2> QED BY <1>4, <2>1, PrendreInv DEF Commandes
<1> QED BY <1>1, <1>2, <1>3, <1>4 DEF Demander

-----------------------------------------------------------------------------
(* The nightly job                                                          *)

(* The job moves on in its pages: nothing is written.                       *)
LEMMA JobInv ==
  ASSUME Inv, job' \in Parcours, Parcourue', pannes' \in 0 .. MaxPannes,
         UNCHANGED <<jour, lignes, rappels, envoyes, milo, ops>>,
         perturbes' \in [Actions -> SUBSET Motifs],
         \A a \in Actions :
           /\ a \in job'.page => \/ a \in job.page /\ job'.lus[a] = job.lus[a]
                                 \/ lignes[a] # Vide /\ job'.lus[a] = lignes[a]
           /\ perturbes[a] \subseteq perturbes'[a]
           /\ Neuve(a) => perturbes'[a] = perturbes[a]
           /\ a \in job'.page /\ "ligne" \notin perturbes'[a] =>
                \A o \in Ops : a \notin ops[o].reste
  PROVE  Inv'
<1>1. Types'
  BY DEF Inv, Types
<1>2. Structure'
  BY DEF Inv, Structure, Reguliere, Premiere
<1>3. ASSUME NEW a \in Actions
      PROVE  Saine(a)'
  <2>1. Saine(a) /\ perturbes[a] \subseteq perturbes'[a]
    BY DEF Inv
  <2>2. "ligne" \notin perturbes'[a] => Isolee(a)' /\ Comptee(a)'
    <3> SUFFICES ASSUME "ligne" \notin perturbes'[a] PROVE Isolee(a)' /\ Comptee(a)'
      OBVIOUS
    <3>1. Isolee(a) /\ Comptee(a)
      BY <2>1 DEF Saine
    <3>2. Comptee(a)'
      BY <3>1 DEF Comptee, Snp, EnRoute, Premiere, EstQualifiee
    <3>3. Isolee(a)'
      BY <3>1 DEF Isolee, AJour, Lue
    <3> QED BY <3>2, <3>3
  <2>3. Nouveaute(a)'
    BY <2>1 DEF Saine, Nouveaute, Naissante, Neuve
  <2>4. ASSUME Reglee(a)'
        PROVE  \E e \in Jours : Fixe(a, e)'
    <3>1. PICK e \in Jours : Fixe(a, e)
      BY <2>1, <2>4 DEF Saine, Reglee
    <3>2. Neuve(a) => Neuve(a)'
      BY DEF Neuve
    <3>3. a \in job'.page => job'.lus[a].echeance = e
      BY <3>1 DEF Fixe
    <3>4. Fixe(a, e)'
      BY <3>1, <3>2, <3>3 DEF Fixe, Echeance, Lue
    <3> QED BY <3>4
  <2> QED BY <2>2, <2>3, <2>4 DEF Saine
<1> QED BY <1>1, <1>2, <1>3 DEF Inv

LEMMA LirePageInv ==
  ASSUME Inv, NEW offset \in Nat, job.page = {}, LirePage(offset)
  PROVE  Inv'
<1> DEFINE page == Page(offset)
           lus == [a \in Actions |-> IF a \in page THEN lignes[a] ELSE Vide]
<1>1. /\ page \subseteq Actions
      /\ \A a \in page : lignes[a] # Vide /\ AQualifier(lignes[a])
  BY DEF Page, Vieilles, Existe
<1>2. Types /\ Structure
  BY DEF Inv
<1>3. job' = [actif |-> TRUE, offset |-> offset + MaxBatch, page |-> page,
              taille |-> Cardinality(page), lus |-> lus]
  BY DEF LirePage
<1>4. Cardinality(page) \in Nat
  <2>1. IsFiniteSet(page)
    BY <1>1, ConstantsAssumption, FS_Subset
  <2> QED BY <2>1, FS_CardinalityType
<1>5. lus \in Lues /\ \A a \in page : lus[a] = lignes[a]
  BY <1>1, <1>2 DEF Types, Lues
<1>6. /\ UNCHANGED <<jour, lignes, rappels, envoyes, milo, ops, pannes>>
      /\ Perturber({a \in page : \E o \in Ops : a \in Concernes(o)}, {"ligne"})
  BY DEF LirePage
<1> HIDE DEF page, lus
<1>7. job' \in Parcours
  BY <1>1, <1>3, <1>4, <1>5, Bornes DEF Parcours
<1>8. Parcourue'
  BY <1>1, <1>3, <1>5 DEF Parcourue, AQualifier
<1>9. /\ perturbes' \in [Actions -> SUBSET Motifs]
      /\ \A a \in Actions :
           /\ perturbes[a] \subseteq perturbes'[a]
           /\ (a \in page /\ \E o \in Ops : a \in Concernes(o))
                => "ligne" \in perturbes'[a]
           /\ a \notin page => perturbes'[a] = perturbes[a]
  BY <1>2, <1>6, PerturberFaits DEF Motifs
<1>10. \A a \in Actions, o \in Ops : a \in ops[o].reste => a \in Concernes(o)
  BY <1>2 DEF Structure, Reguliere, Concernes
<1>11. \A a \in Actions :
           /\ a \in job'.page => \/ a \in job.page /\ job'.lus[a] = job.lus[a]
                                 \/ lignes[a] # Vide /\ job'.lus[a] = lignes[a]
           /\ perturbes[a] \subseteq perturbes'[a]
           /\ Neuve(a) => perturbes'[a] = perturbes[a]
           /\ a \in job'.page /\ "ligne" \notin perturbes'[a] =>
                \A o \in Ops : a \notin ops[o].reste
  BY <1>1, <1>3, <1>5, <1>9, <1>10 DEF Neuve
<1>12. pannes' \in 0 .. MaxPannes
  BY <1>2, <1>6 DEF Types
<1> QED BY <1>6, <1>7, <1>8, <1>9, <1>11, <1>12, JobInv

LEMMA ArretJobInv ==
  ASSUME Inv, job' = JobArrete, pannes' \in 0 .. MaxPannes,
         UNCHANGED <<jour, lignes, rappels, envoyes, milo, ops, perturbes>>
  PROVE  Inv'
<1>1. JobArrete \in Parcours /\ JobArrete.page = {} /\ ~JobArrete.actif
  BY DEF JobArrete, Parcours, Lues
<1>2. Parcourue'
  BY <1>1 DEF Parcourue
<1>3. perturbes' \in [Actions -> SUBSET Motifs]
  BY DEF Inv, Types
<1> QED BY <1>1, <1>2, <1>3, JobInv

LEMMA QualifierFaits ==
  ASSUME Inv, NEW a \in Actions, QualifierAutomatiquement(a)
  PROVE  /\ a \in job.page /\ job.lus[a] \in Lignes
         /\ job.lus[a].qualif \in {"aucune", "code"}
         /\ lignes' = [lignes EXCEPT ![a] = Automatique(job.lus[a])]
         /\ Automatique(job.lus[a]) \in Lignes
         /\ ~EstQualifiee(Automatique(job.lus[a]))
         /\ Automatique(job.lus[a]).echeance = job.lus[a].echeance
<1>1. /\ a \in job.page
      /\ lignes' = [lignes EXCEPT ![a] = Automatique(job.lus[a])]
  BY DEF QualifierAutomatiquement
<1>2. job.lus[a] \in Lignes /\ job.lus[a].qualif \in {"aucune", "code"}
  BY <1>1 DEF Inv, Types, Parcours, Lues, Structure, Parcourue
<1> QED BY <1>1, <1>2, LigneAutomatique DEF Inv, Types

LEMMA QualifierAutomatiquementInv ==
  ASSUME Inv, NEW a \in Actions, QualifierAutomatiquement(a)
  PROVE  Inv'
<1> DEFINE l == Automatique(job.lus[a])
<1>1. /\ Types /\ Structure /\ a \in job.page /\ l \in Lignes
      /\ l # Vide /\ ~Snp(l) /\ l.echeance = job.lus[a].echeance
  BY QualifierFaits, Bornes DEF Inv, Snp
<1>2. /\ lignes' \in Lues /\ lignes'[a] = l
      /\ \A b \in Actions : b # a => lignes'[b] = lignes[b]
  BY <1>1, QualifierFaits DEF Types, Lues
<1>3. /\ job' \in Parcours /\ job'.page = job.page \ {a}
      /\ job'.lus = job.lus /\ job'.actif = job.actif
  <2>1. job' = [job EXCEPT !.page = @ \ {a}]
    BY DEF QualifierAutomatiquement
  <2>2. job \in Parcours
    BY <1>1 DEF Types
  <2> QED BY <2>1, <2>2 DEF Parcours
<1>4. UNCHANGED <<jour, rappels, envoyes, milo, ops, pannes, perturbes>>
  BY DEF QualifierAutomatiquement
<1> HIDE DEF l
<1>5. Types'
  BY <1>1, <1>2, <1>3, <1>4 DEF Types
<1>6. Structure'
  BY <1>1, <1>3, <1>4 DEF Structure, Parcourue, Reguliere, Premiere
<1>7. ASSUME NEW b \in Actions
      PROVE  Saine(b)'
  <2>1. Saine(b)
    BY DEF Inv
  <2>2. "ligne" \notin perturbes'[b] => Isolee(b)' /\ Comptee(b)'
    <3> SUFFICES ASSUME "ligne" \notin perturbes[b] PROVE Isolee(b)' /\ Comptee(b)'
      BY <1>4
    <3>1. Isolee(b) /\ Comptee(b)
      BY <2>1 DEF Saine
    <3>2. CASE b # a
      BY <1>2, <1>3, <1>4, <3>1, <3>2
         DEF Isolee, AJour, Lue, Comptee, Snp, EnRoute, Premiere, EstQualifiee
    <3>3. CASE b = a
      <4>1. \A o \in Ops : b \notin ops'[o].reste /\ ~EnRoute(ops[o], b)
        BY <1>1, <1>4, <3>1, <3>3 DEF Isolee, EnRoute, Premiere
      <4>2. ~Snp(lignes[b])
        BY <1>1, <3>1, <3>3 DEF Isolee, Structure, Parcourue, Snp, EstQualifiee
      <4>3. milo'[b] = 0
        BY <1>4, <3>1, <4>1, <4>2 DEF Comptee
      <4>4. Isolee(b)'
        BY <1>3, <3>3, <4>1 DEF Isolee
      <4>5. \A o \in Ops : ~EnRoute(ops'[o], b)
        BY <1>4, <4>1
      <4> QED BY <1>1, <1>2, <3>3, <4>3, <4>4, <4>5
              DEF Comptee, Snp, EnRoute, Premiere, EstQualifiee
    <3> QED BY <3>2, <3>3
  <2>3. Neuve(b)' => Neuve(b)
    BY <1>1, <1>2, <1>4 DEF Neuve
  <2>4. Neuve(b) => Neuve(b)' \/ b = a
    BY <1>2, <1>4 DEF Neuve
  <2>5. Neuve(a) => FALSE
    BY <1>1 DEF Neuve, Inv, Saine, Isolee, Structure, Parcourue
  <2>6. Nouveaute(b)'
    BY <1>4, <2>1, <2>3, <2>4, <2>5 DEF Saine, Nouveaute, Naissante
  <2>7. ASSUME Reglee(b)'
        PROVE  \E e \in Jours : Fixe(b, e)'
    <3>1. PICK e \in Jours : Fixe(b, e)
      BY <1>4, <2>1, <2>7 DEF Saine, Reglee
    <3>2. lignes'[b] # Vide => lignes'[b].echeance = e
      BY <1>1, <1>2, <3>1 DEF Fixe
    <3>3. Neuve(b) => Neuve(b)'
      BY <2>4, <2>5
    <3>4. Fixe(b, e)'
      BY <1>3, <1>4, <3>1, <3>2, <3>3 DEF Fixe, Echeance, Lue
    <3> QED BY <3>4
  <2> QED BY <2>2, <2>6, <2>7 DEF Saine
<1> QED BY <1>5, <1>6, <1>7 DEF Inv

-----------------------------------------------------------------------------
(* Time, reminders, resynchronisation                                       *)

(* Rows, commands and the job stay as they are.                             *)
LEMMA FigeInv ==
  ASSUME Inv, jour' \in Jours, jour' >= jour, pannes' \in 0 .. MaxPannes,
         UNCHANGED <<lignes, milo, ops, job>>,
         rappels' \subseteq Actions \X Int, envoyes' \subseteq Actions \X Int,
         perturbes' \in [Actions -> SUBSET Motifs],
         \A a \in Actions :
           /\ perturbes[a] \subseteq perturbes'[a]
           /\ Neuve(a) => /\ perturbes'[a] = perturbes[a]
                          /\ \A d : <<a, d>> \in rappels' => <<a, d>> \in rappels
           /\ Reglee(a)' /\ ~Neuve(a) =>
                /\ \A d : <<a, d>> \in rappels' => <<a, d>> \in rappels
                /\ \A d \in Int : <<a, d>> \in rappels =>
                     <<a, d>> \in rappels' \/ d <= jour'
  PROVE  Inv'
<1>1. Types'
  BY DEF Inv, Types
<1>2. Structure'
  BY DEF Inv, Structure, Parcourue, Reguliere, Premiere
<1>3. ASSUME NEW a \in Actions
      PROVE  Saine(a)'
  <2>1. Saine(a) /\ perturbes[a] \subseteq perturbes'[a] /\ Types
    BY DEF Inv
  <2>2. "ligne" \notin perturbes'[a] => Isolee(a)' /\ Comptee(a)'
    <3> SUFFICES ASSUME "ligne" \notin perturbes'[a] PROVE Isolee(a)' /\ Comptee(a)'
      OBVIOUS
    <3>1. Isolee(a) /\ Comptee(a)
      BY <2>1 DEF Saine
    <3>2. Comptee(a)'
      BY <3>1 DEF Comptee, Snp, EnRoute, Premiere, EstQualifiee
    <3>3. Isolee(a)'
      BY <3>1 DEF Isolee, AJour, Lue
    <3> QED BY <3>2, <3>3
  <2>3. Neuve(a) <=> Neuve(a)'
    BY <2>1 DEF Neuve
  <2>4. \A r \in rappels' : r[1] = a => r = <<a, r[2]>> /\ r[2] \in Int
    OBVIOUS
  <2>5. Nouveaute(a)'
    <3>1. \A o \in Ops : a \in ops'[o].reste /\ Naissante(ops'[o]) => Neuve(a)'
      BY <2>1, <2>3 DEF Saine, Nouveaute
    <3>2. ASSUME Neuve(a)', NEW r \in rappels', r[1] = a
          PROVE  FALSE
      <4>1. r \in rappels
        BY <2>3, <2>4, <3>2
      <4> QED BY <2>1, <2>3, <3>2, <4>1 DEF Saine, Nouveaute
    <3> QED BY <3>1, <3>2 DEF Nouveaute, Naissante
  <2>6. ASSUME Reglee(a)'
        PROVE  \E e \in Jours : Fixe(a, e)'
    <3>1. PICK e \in Jours : Fixe(a, e)
      BY <2>1, <2>6 DEF Saine, Reglee
    <3>2. \A d : <<a, d>> \in rappels' => <<a, d>> \in rappels
      BY <2>6
    <3>3. \A r \in rappels' : r[1] = a => r[2] = e - DelaiRappel
      <4> SUFFICES ASSUME NEW r \in rappels', r[1] = a PROVE r[2] = e - DelaiRappel
        OBVIOUS
      <4>1. r \in rappels
        BY <2>4, <3>2
      <4> QED BY <3>1, <4>1 DEF Fixe
    <3>4. e \in Nat /\ DelaiRappel \in Nat /\ jour \in Nat /\ jour' \in Nat
      BY <2>1, Bornes DEF Types
    <3>5. e - DelaiRappel <= jour => e - DelaiRappel <= jour'
      BY <3>4
    <3>6. e - DelaiRappel \in Int
      BY <3>4
    <3>7. <<a, e - DelaiRappel>> \in rappels /\ ~Neuve(a) =>
            <<a, e - DelaiRappel>> \in rappels' \/ e - DelaiRappel <= jour'
      BY <2>6, <3>6
    <3>8. \/ Neuve(a)'
          \/ e - DelaiRappel <= jour'
          \/ <<a, e - DelaiRappel>> \in rappels'
          \/ \E o \in Ops : a \in ops'[o].reste /\ ops'[o].etape = "rappel"
      BY <2>3, <3>1, <3>5, <3>7 DEF Fixe
    <3>9. Fixe(a, e)'
      BY <3>1, <3>3, <3>8 DEF Fixe, Echeance, Lue
    <3> QED BY <3>9
  <2> QED BY <2>2, <2>5, <2>6 DEF Saine
<1> QED BY <1>1, <1>2, <1>3 DEF Inv

LEMMA PasserJourInv ==
  ASSUME Inv, PasserJour
  PROVE  Inv'
<1>1. /\ Types /\ jour' = jour + 1 /\ jour < DernierJour
      /\ UNCHANGED <<lignes, rappels, envoyes, milo, ops, job, perturbes>>
  BY DEF PasserJour, Inv
<1>2. jour' \in Jours /\ jour' >= jour
  BY <1>1, Bornes DEF Types, Jours
<1>3. pannes' \in 0 .. MaxPannes
  BY <1>1, Pannes DEF PasserJour, Types
<1>4. /\ rappels' \subseteq Actions \X Int /\ envoyes' \subseteq Actions \X Int
      /\ perturbes' \in [Actions -> SUBSET Motifs]
  BY <1>1 DEF Types
<1> QED BY <1>1, <1>2, <1>3, <1>4, FigeInv

LEMMA ExecuterRappelInv ==
  ASSUME Inv, NEW r \in rappels, ExecuterRappel(r)
  PROVE  Inv'
<1>1. /\ Types /\ r[2] <= jour /\ rappels' = rappels \ {r}
      /\ UNCHANGED <<jour, lignes, milo, ops, job, pannes, perturbes>>
      /\ envoyes' \subseteq envoyes \cup {<<r[1], jour>>}
  BY DEF ExecuterRappel, Dus, Inv
<1>2. r \in Actions \X Int /\ r = <<r[1], r[2]>> /\ jour \in Int
  BY <1>1, Bornes DEF Types
<1>3. /\ rappels' \subseteq Actions \X Int /\ envoyes' \subseteq Actions \X Int
      /\ perturbes' \in [Actions -> SUBSET Motifs]
      /\ pannes' \in 0 .. MaxPannes /\ jour' \in Jours /\ jour' >= jour
  BY <1>1, <1>2 DEF Types
<1>4. \A a, d : <<a, d>> \in rappels => <<a, d>> \in rappels' \/ d <= jour'
  BY <1>1
<1> QED BY <1>1, <1>3, <1>4, FigeInv

LEMMA ResynchroniserInv ==
  ASSUME Inv, Resynchroniser
  PROVE  Inv'
<1>1. /\ Types
      /\ UNCHANGED <<jour, lignes, envoyes, milo, ops, job, pannes>>
      /\ Perturber({a \in Actions : Existe(a) \/ perturbes[a] # {}}, {"resynchro"})
      /\ rappels' = {<<a, JourDuRappel(lignes[a])>> :
                       a \in {b \in ARappeler : DoitEnvoyer(lignes[b])}}
  BY DEF Resynchroniser, Inv
<1>2. \A a \in ARappeler : /\ a \in Actions /\ lignes[a] # Vide
                           /\ JourDuRappel(lignes[a]) \in Int
  <2> SUFFICES ASSUME NEW a \in ARappeler
               PROVE  /\ a \in Actions /\ lignes[a] # Vide
                      /\ JourDuRappel(lignes[a]) \in Int
    OBVIOUS
  <2>1. a \in Actions /\ lignes[a] # Vide
    BY DEF ARappeler, Existe
  <2>2. lignes[a] \in Lignes
    BY <1>1, <2>1 DEF Types, Lues
  <2>3. lignes[a].echeance \in Nat /\ DelaiRappel \in Nat
    BY <2>2, ChampsDe, Bornes
  <2> QED BY <2>1, <2>3 DEF JourDuRappel
<1>3. rappels' \subseteq Actions \X Int
  BY <1>1, <1>2
<1>4. /\ perturbes' \in [Actions -> SUBSET Motifs]
      /\ \A a \in Actions :
           /\ perturbes[a] \subseteq perturbes'[a]
           /\ Neuve(a) => perturbes'[a] = perturbes[a]
           /\ ~Neuve(a) => ~Reglee(a)'
  BY <1>1, PerturberFaits DEF Motifs, Existe, Neuve, Reglee
<1>5. \A a, d : <<a, d>> \in rappels' => a \in Actions /\ ~Neuve(a)
  BY <1>1, <1>2 DEF Neuve
<1>6. /\ envoyes' \subseteq Actions \X Int /\ pannes' \in 0 .. MaxPannes
      /\ jour' \in Jours /\ jour' >= jour
  BY <1>1, Bornes DEF Types
<1> QED BY <1>1, <1>3, <1>4, <1>5, <1>6, FigeInv

LEMMA RienInv ==
  ASSUME Inv, UNCHANGED vars
  PROVE  Inv'
<1>1. /\ UNCHANGED <<jour, lignes, rappels, envoyes, milo, ops, job, pannes, perturbes>>
  BY DEF vars
<1>2. /\ rappels' \subseteq Actions \X Int /\ envoyes' \subseteq Actions \X Int
      /\ perturbes' \in [Actions -> SUBSET Motifs] /\ pannes' \in 0 .. MaxPannes
      /\ jour' \in Jours /\ jour' >= jour
  BY <1>1, Bornes DEF Inv, Types
<1> QED BY <1>1, <1>2, FigeInv

-----------------------------------------------------------------------------
(* The invariant                                                            *)

LEMMA InvInit == Init => Inv
<1> SUFFICES ASSUME Init PROVE Inv
  OBVIOUS
<1>1. Types
  <2>1. 0 \in Jours /\ 0 \in 0 .. MaxPannes
    BY Bornes DEF Jours
  <2>2. JobArrete \in Parcours
    BY DEF JobArrete, Parcours, Lues
  <2> QED BY <2>1, <2>2, LibreFaits DEF Init, Types, Lues
<1>2. Structure
  BY LibreFaits DEF Init, Structure, Parcourue, JobArrete
<1>3. \A o \in Ops : ops[o].reste = {}
  BY LibreFaits DEF Init
<1>4. ASSUME NEW a \in Actions
      PROVE  Saine(a)
  <2>1. Isolee(a)
    BY <1>3 DEF Init, Isolee, JobArrete
  <2>2. Comptee(a)
    BY <1>3 DEF Init, Comptee, EnRoute, Premiere, Snp
  <2>3. Nouveaute(a)
    BY <1>3 DEF Init, Nouveaute
  <2>4. 0 \in Jours /\ Fixe(a, 0)
    BY <1>3, Bornes DEF Init, Fixe, JobArrete, Neuve, Jours
  <2> QED BY <2>1, <2>2, <2>3, <2>4 DEF Saine
<1> QED BY <1>1, <1>2, <1>4 DEF Inv

LEMMA SauvegarderInv ==
  ASSUME Inv, NEW o \in Ops, NEW a \in Actions, Sauvegarder(o, a)
  PROVE  Inv'
BY SauverCreation, SauverModification

LEMMA LancerJobInv ==
  ASSUME Inv, LancerJob
  PROVE  Inv'
<1>1. job.page = {} /\ LirePage(0)
  BY DEF LancerJob, Inv, Structure, Parcourue
<1> QED BY <1>1, LirePageInv

LEMMA ContinuerJobInv ==
  ASSUME Inv, ContinuerJob
  PROVE  Inv'
<1>1. job.page = {} /\ job.offset \in Nat /\ pannes \in 0 .. MaxPannes
  BY DEF ContinuerJob, Inv, Types, Parcours
<1>2. CASE PageSuivante
  BY <1>1, <1>2, LirePageInv DEF ContinuerJob
<1>3. CASE ~PageSuivante
  BY <1>1, <1>3, ArretJobInv DEF ContinuerJob
<1> QED BY <1>2, <1>3

LEMMA ArreterJobInv ==
  ASSUME Inv, ArreterJob
  PROVE  Inv'
<1>1. pannes' \in 0 .. MaxPannes
  BY Pannes DEF ArreterJob, Inv
<1> QED BY <1>1, ArretJobInv DEF ArreterJob

LEMMA InvPas == Inv /\ [Next]_vars => Inv'
<1> SUFFICES ASSUME Inv, [Next]_vars PROVE Inv'
  OBVIOUS
<1>1. ASSUME NEW o \in Ops,
             \/ Demander(o)
             \/ LireActions(o)
             \/ Interrompre(o)
      PROVE  Inv'
  BY <1>1, DemanderInv, LireActionsInv, InterrompreInv
<1>2. ASSUME NEW o \in Ops, NEW a \in Actions,
             \/ Decider(o, a)
             \/ DeclarerMilo(o, a)
             \/ Sauvegarder(o, a)
             \/ PlanifierRappel(o, a)
             \/ Supprimer(o, a)
             \/ Commenter(o, a)
      PROVE  Inv'
  BY <1>2, DeciderInv, DeclarerMiloInv, SauvegarderInv, PlanifierRappelInv,
     SupprimerInv, CommenterInv
<1>3. CASE LancerJob \/ ContinuerJob \/ ArreterJob
  BY <1>3, LancerJobInv, ContinuerJobInv, ArreterJobInv
<1>4. ASSUME NEW a \in Actions, QualifierAutomatiquement(a)
      PROVE  Inv'
  BY <1>4, QualifierAutomatiquementInv
<1>5. ASSUME NEW r \in rappels, ExecuterRappel(r)
      PROVE  Inv'
  BY <1>5, ExecuterRappelInv
<1>6. CASE PasserJour \/ Resynchroniser
  BY <1>6, PasserJourInv, ResynchroniserInv
<1>7. CASE UNCHANGED vars
  BY <1>7, RienInv
<1> QED BY <1>1, <1>2, <1>3, <1>4, <1>5, <1>6, <1>7 DEF Next

(* The inductive invariant: of each action that nothing disturbed, at most  *)
(* one command or the job holds it and knows its row, Milo was told once of *)
(* what is saved or is about to be, and its rows have one deadline, which   *)
(* its reminder is planned for.                                             *)
THEOREM InvToujours == Spec => []Inv
BY InvInit, InvPas, PTL DEF Spec

(* Every row keeps its type, is done exactly when it has an end date, and   *)
(* is an SNP only when it is done: TypeOK (updateAction, qualifier).        *)
THEOREM Typage == Spec => []TypeOK
<1>1. ASSUME Inv
      PROVE  TypeOK
  <2>1. Types /\ Structure
    BY <1>1 DEF Inv
  <2>2. \A a \in Actions : lignes[a] \in Lignes \cup {Vide}
    BY <2>1 DEF Types, Lues
  <2>3. \A a \in Actions : lignes[a] \in Action \cup {Vide}
    BY <2>2, ChampsDe
  <2>4. \A a \in Actions : Existe(a) =>
          (lignes[a].statut = "TERMINEE" <=> lignes[a].fin # Vide)
    BY <2>2, ChampsDe DEF Existe
  <2>5. \A a \in Declarees :
          lignes[a].statut = "TERMINEE" /\ lignes[a].debut <= lignes[a].fin
    BY <2>2, ChampsDe DEF Declarees, Existe, EstQualifiee
  <2>6. rappels \cup envoyes \subseteq Actions \X Int
    BY <2>1 DEF Types
  <2>7. \A o \in Ops : ops[o].etape \in Etapes /\ ops[o].cmd \in Commandes
    BY <2>1 DEF Types, Operation
  <2>8. job.page \subseteq Actions
    BY <2>1 DEF Types, Parcours
  <2> QED BY <2>1, <2>3, <2>4, <2>5, <2>6, <2>7, <2>8 DEF TypeOK, Types
<1> QED BY <1>1, InvToujours, PTL

-----------------------------------------------------------------------------
(* The properties                                                           *)

(* Milo is told once of an action: UneSeuleDeclaration                      *)
(* (QualifierActionsMiloCommandHandler refuses what is already qualified).  *)
THEOREM DeclareeUneFois == Spec => []UneSeuleDeclaration
<1>1. ASSUME Inv
      PROVE  UneSeuleDeclaration
  BY <1>1 DEF Inv, Saine, Comptee, UneSeuleDeclaration
<1> QED BY <1>1, InvToujours, PTL

(* Once commands are over, Milo knows of the SNP of the table and of no     *)
(* other: DeclareesEnregistrees, wherever Milo refused or the process       *)
(* stopped before the row was to be saved.                                  *)
THEOREM DeclarationsEnregistrees == Spec => []DeclareesEnregistrees
<1>1. ASSUME Inv
      PROVE  DeclareesEnregistrees
  <2> SUFFICES ASSUME NEW a \in Actions, ~Occupee(a), "ligne" \notin perturbes[a]
               PROVE  milo[a] = 1 <=> a \in Declarees
    BY DEF DeclareesEnregistrees
  <2>1. Comptee(a) /\ Types /\ Structure
    BY <1>1 DEF Inv, Saine
  <2>2. \A o \in Ops : ~EnRoute(ops[o], a)
    BY <2>1, OccupeeFaits DEF EnRoute, Premiere
  <2> QED BY <2>1, <2>2 DEF Comptee, Snp, Declarees, Existe
<1> QED BY <1>1, InvToujours, PTL

(* A command that saves, deletes, or the job: what it holds is not an SNP.  *)
LEMMA SnpIntouchee ==
  ASSUME Inv, [Next]_vars, NEW a \in Actions, Snp(lignes[a]),
         "ligne" \notin perturbes'[a]
  PROVE  lignes'[a] = lignes[a]
<1>1. Types /\ Structure /\ Saine(a)
  BY DEF Inv
<1>2. ASSUME NEW o \in Ops, NEW b \in Actions, Sauvegarder(o, b)
      PROVE  lignes'[a] = lignes[a]
  <2>1. lignes' = [lignes EXCEPT ![b] = ops[o].aSauver] /\ b \in ops[o].reste
        /\ Premiere(ops[o], b) /\ ops[o].etape = "sauvegarde"
    BY <1>2 DEF Sauvegarder, EnTete, Premiere
  <2>2. perturbes[a] \subseteq perturbes'[a]
    BY <1>1, <1>2, PerturberFaits DEF Sauvegarder, Motifs
  <2>3. Isolee(a)
    BY <1>1, <2>2 DEF Saine
  <2>4. CASE a = b
    <3>1. ops[o].lus[a] = lignes[a]
      BY <2>1, <2>3, <2>4 DEF Isolee, AJour, Lue
    <3>2. ops[o].cmd = "creer" => ops[o].lus[a] = Vide
      BY <1>1, <2>1 DEF Structure, Reguliere
    <3>3. ops[o].cmd # "creer" => ~EstQualifiee(ops[o].lus[a])
      BY <1>1, <2>1, <2>4 DEF Structure, Reguliere
    <3> QED BY <3>1, <3>2, <3>3 DEF Snp
  <2>5. CASE a # b
    BY <1>1, <2>1, <2>5 DEF Types, Lues
  <2> QED BY <2>4, <2>5
<1>3. ASSUME NEW o \in Ops, NEW b \in Actions, Supprimer(o, b)
      PROVE  lignes'[a] = lignes[a]
  <2>1. CASE ~Supprimable(o, b)
    BY <1>3, <2>1 DEF Supprimer
  <2>2. CASE Supprimable(o, b)
    <3>1. /\ lignes' = [lignes EXCEPT ![b] = Vide] /\ b \in ops[o].reste
          /\ Perturber({b}, {"supprimee"}) /\ ops[o].etape = "calcul"
      BY <1>3, <2>2 DEF Supprimer, EnTete
    <3>2. perturbes[a] \subseteq perturbes'[a]
      BY <1>1, <3>1, PerturberFaits DEF Motifs
    <3>3. Isolee(a)
      BY <1>1, <3>2 DEF Saine
    <3>4. CASE a = b
      <4>1. ops[o].lus[a] = lignes[a] /\ ~EstTerminee(lignes[a])
        BY <2>2, <3>1, <3>3, <3>4 DEF Isolee, AJour, Lue, Supprimable
      <4>2. lignes[a] \in Lignes
        BY <1>1 DEF Types, Lues, Snp
      <4> QED BY <4>1, <4>2, ChampsDe DEF Snp, EstQualifiee, EstTerminee
    <3>5. CASE a # b
      BY <1>1, <3>1, <3>5 DEF Types, Lues
    <3> QED BY <3>4, <3>5
  <2> QED BY <2>1, <2>2
<1>4. ASSUME NEW b \in Actions, QualifierAutomatiquement(b)
      PROVE  lignes'[a] = lignes[a]
  <2>1. /\ lignes' = [lignes EXCEPT ![b] = Automatique(job.lus[b])]
        /\ b \in job.page /\ perturbes' = perturbes
    BY <1>4 DEF QualifierAutomatiquement
  <2>2. a # b
    BY <1>1, <2>1 DEF Saine, Isolee, Structure, Parcourue, Snp, EstQualifiee
  <2> QED BY <1>1, <2>1, <2>2 DEF Types, Lues
<1>5. ASSUME NEW o \in Ops, Demander(o)
      PROVE  lignes'[a] = lignes[a]
  BY <1>5 DEF Demander, DemanderCreation, Prendre
<1>6. ASSUME NEW o \in Ops, LireActions(o) \/ Interrompre(o)
      PROVE  lignes'[a] = lignes[a]
  BY <1>6 DEF LireActions, Interrompre
<1>7. ASSUME NEW o \in Ops, NEW b \in Actions,
             Decider(o, b) \/ DeclarerMilo(o, b) \/ PlanifierRappel(o, b)
               \/ Commenter(o, b)
      PROVE  lignes'[a] = lignes[a]
  BY <1>7 DEF Decider, DeclarerMilo, PlanifierRappel, Commenter
<1>8. CASE LancerJob \/ ContinuerJob \/ ArreterJob
  BY <1>8 DEF LancerJob, ContinuerJob, ArreterJob, LirePage
<1>9. CASE PasserJour \/ Resynchroniser \/ \E r \in rappels : ExecuterRappel(r)
  BY <1>9 DEF PasserJour, Resynchroniser, ExecuterRappel
<1>10. CASE UNCHANGED vars
  BY <1>10 DEF vars
<1> QED BY <1>2, <1>3, <1>4, <1>5, <1>6, <1>7, <1>8, <1>9, <1>10 DEF Next

(* The row of an SNP stays for ever: QualifieesIntouchables, but for a      *)
(* command that overlapped another one (updateAction, qualifier, delete and *)
(* the nightly job decide on the row as they read it).                      *)
THEOREM SnpIntouchables == Spec => QualifieesIntouchables
<1>1. Inv /\ [Next]_vars =>
        \A a \in Declarees : "ligne" \notin perturbes'[a] => lignes'[a] = lignes[a]
  BY SnpIntouchee DEF Declarees, Existe, Snp
<1> QED BY <1>1, InvToujours, PTL DEF Spec, QualifieesIntouchables

LEMMA RappelAttendu == Inv => RappelPlanifie
<1> SUFFICES ASSUME Inv, NEW a \in SansRappel
             PROVE  {"rappel", "resynchro"} \cap perturbes[a] # {}
  BY DEF RappelPlanifie
<1>1. /\ a \in Actions /\ lignes[a] # Vide /\ ~Occupee(a)
      /\ lignes[a].echeance > jour + DelaiRappel
      /\ <<a, lignes[a].echeance - DelaiRappel>> \notin rappels
  BY DEF SansRappel, Existe
<1>2. Types /\ Structure /\ Saine(a)
  BY <1>1 DEF Inv
<1>3. \A o \in Ops : a \notin ops[o].reste
  BY <1>1, <1>2, OccupeeFaits
<1>4. ASSUME NEW e \in Jours, Fixe(a, e)
      PROVE  FALSE
  <2>1. lignes[a].echeance = e /\ ~Neuve(a)
    BY <1>1, <1>4 DEF Fixe, Neuve
  <2>2. e - DelaiRappel <= jour
    BY <1>1, <1>3, <1>4, <2>1 DEF Fixe
  <2>3. e \in Nat /\ jour \in Nat /\ DelaiRappel \in Nat
    BY <1>2, Bornes DEF Types
  <2> QED BY <1>1, <2>1, <2>2, <2>3
<1> QED BY <1>2, <1>4 DEF Saine, Reglee

LEMMA RappelServi ==
  ASSUME Inv, [Next]_vars, NEW r \in rappels
  PROVE  RappelEnvoye(r)
<1> SUFFICES ASSUME r \notin rappels', r[2] = jour, Existe(r[1]), Reglee(r[1])',
                    Ouverte(lignes[r[1]]), lignes[r[1]].rappel
             PROVE  r \in envoyes'
  BY DEF RappelEnvoye, Reglee
<1>1. Types /\ r \in Actions \X Int /\ r = <<r[1], r[2]>>
  BY DEF Inv, Types
<1>2. ASSUME NEW s \in rappels, ExecuterRappel(s)
      PROVE  r \in envoyes'
  <2>1. s = r /\ perturbes' = perturbes
    BY <1>2 DEF ExecuterRappel
  <2>2. PICK e \in Jours : Fixe(r[1], e)
    BY <1>1, <2>1 DEF Inv, Saine, Reglee
  <2>3. lignes[r[1]].echeance = e /\ r[2] = e - DelaiRappel
    BY <2>2 DEF Fixe, Existe
  <2>4. e \in Nat /\ jour \in Nat /\ DelaiRappel \in Nat
    BY <1>1, Bornes DEF Types
  <2>5. lignes[r[1]].echeance = jour + DelaiRappel
    BY <2>3, <2>4
  <2>6. DoitEnvoyer(lignes[r[1]])
    BY <2>5 DEF DoitEnvoyer
  <2>7. <<r[1], jour>> \in envoyes'
    BY <1>2, <2>1, <2>6 DEF ExecuterRappel
  <2> QED BY <1>1, <2>7
<1>3. CASE Resynchroniser
  <2>1. /\ Perturber({a \in Actions : Existe(a) \/ perturbes[a] # {}}, {"resynchro"})
    BY <1>3 DEF Resynchroniser
  <2>2. perturbes'[r[1]] = perturbes[r[1]] \cup {"resynchro"}
    BY <1>1, <2>1, PerturberFaits DEF Motifs
  <2> QED BY <2>2 DEF Reglee
<1>4. ASSUME NEW o \in Ops, NEW a \in Actions, PlanifierRappel(o, a)
      PROVE  r \in rappels'
  BY <1>4 DEF PlanifierRappel
<1>5. ASSUME NEW o \in Ops, Demander(o)
      PROVE  r \in rappels'
  BY <1>5 DEF Demander, DemanderCreation, Prendre
<1>6. ASSUME NEW o \in Ops, LireActions(o) \/ Interrompre(o)
      PROVE  r \in rappels'
  BY <1>6 DEF LireActions, Interrompre
<1>7. ASSUME NEW o \in Ops, NEW a \in Actions,
             Decider(o, a) \/ DeclarerMilo(o, a) \/ Sauvegarder(o, a)
               \/ Supprimer(o, a) \/ Commenter(o, a)
      PROVE  r \in rappels'
  BY <1>7 DEF Decider, DeclarerMilo, Sauvegarder, Supprimer, Commenter
<1>8. CASE LancerJob \/ ContinuerJob \/ ArreterJob
  BY <1>8 DEF LancerJob, ContinuerJob, ArreterJob, LirePage
<1>9. CASE PasserJour \/ \E a \in Actions : QualifierAutomatiquement(a)
  BY <1>9 DEF PasserJour, QualifierAutomatiquement
<1>10. CASE UNCHANGED vars
  BY <1>10 DEF vars
<1> QED BY <1>2, <1>3, <1>4, <1>5, <1>6, <1>7, <1>8, <1>9, <1>10 DEF Next

(* An open action that wants a reminder has it in Redis until its day, when *)
(* it is sent: RappelTenu, unless its deadline moved, its planning failed   *)
(* or SynchronizeJobs emptied the queue.                                    *)
THEOREM RappelsTenus == Spec => RappelTenu
<1>1. Inv' => RappelPlanifie'
  BY RappelAttendu, PTL
<1>2. Inv /\ Inv' /\ [Next]_vars =>
        RappelPlanifie' /\ \A r \in rappels : RappelEnvoye(r)
  BY <1>1, RappelServi
<1> QED BY <1>2, InvToujours, PTL DEF Spec, RappelTenu
=============================================================================

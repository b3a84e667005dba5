-------------------------- MODULE RendezVousProofs --------------------------
(***************************************************************************)
(* What is proved of RendezVous for every value of its constants.           *)
(*                                                                          *)
(* First the types of the rows and of the jobs.  Then the rows stay         *)
(* coherent whatever overlaps or fails, and the commands on an appointment  *)
(* implement Agenda as long as they neither overlap nor fail.  Last, the    *)
(* reminders and the invitations.                                           *)
(***************************************************************************)
EXTENDS RendezVous, FiniteSetTheorems, TLAPS

-----------------------------------------------------------------------------
(* Rows and jobs keep their types                                           *)

LEMMA ReposType == Repos \in Travail
<1>1. (CHOOSE r \in Rdv : TRUE) \in Rdv
  BY ConstantsAssumption
<1> QED BY <1>1 DEF Repos, Travail, JoursRappel

LEMMA LibreType == Libre \in Operation
BY DEF Libre, Operation, Commandes, PasDeMail, PasDIcs

LEMMA PoursuivreType ==
  ASSUME NEW op \in Operation
  PROVE  Poursuivre(op) \in Operation
BY LibreType DEF Poursuivre

LEMMA MailType ==
  ASSUME NEW r \in Rdv
  PROVE  Mail(r) \in Nat \cup {PasDIcs, PasDeMail}
BY DEF Mail

LEMMA RappelsType ==
  ASSUME NEW date
  PROVE  JoursDeRappel(date) \in SUBSET JoursRappel
BY DEF JoursDeRappel

LEMMA LignesType ==
  ASSUME NEW ligne \in Ligne, NEW d \in Dates, NEW js \in SUBSET Jeunes,
         NEW l \in Limites
  PROVE  /\ NouvelleLigne(d, js, l) \in Ligne
         /\ LigneModifiee(ligne, d, js, l) \in Ligne
         /\ LigneClose(ligne, js) \in Ligne
         /\ LigneSans(ligne, js) \in Ligne
BY DEF NouvelleLigne, LigneModifiee, LigneClose, LigneSans, Ligne, PasDIcs

LEMMA NouvelleLigneType ==
  ASSUME NEW d \in Dates, NEW js \in SUBSET Jeunes, NEW l \in Limites
  PROVE  NouvelleLigne(d, js, l) \in Ligne
BY DEF NouvelleLigne, Ligne, PasDIcs

LEMMA IncrementerType ==
  ASSUME NEW r \in Rdv, rdvs \in [Rdv -> Ligne \cup {Absent}]
  PROVE  /\ IncrementerIcs(r) \in [Rdv -> Ligne \cup {Absent}]
         /\ Existe(r) => /\ IncrementerIcs(r)[r] = [rdvs[r] EXCEPT !.ics = @ + 1]
                         /\ rdvs[r].ics + 1 \in Nat
<1>1. CASE Existe(r)
  <2>1. rdvs[r] \in Ligne /\ rdvs[r].ics + 1 \in Nat
    BY <1>1 DEF Existe, Ligne, PasDIcs
  <2>2. [rdvs[r] EXCEPT !.ics = @ + 1] \in Ligne
    BY <2>1 DEF Ligne
  <2> QED BY <1>1, <2>1, <2>2 DEF IncrementerIcs
<1>2. CASE ~Existe(r)
  BY <1>2 DEF IncrementerIcs
<1> QED BY <1>1, <1>2

(* The queue holds jobs, each id once.                                      *)
JobsOK(js) == js \subseteq Job /\ \A i, j \in js : i.id = j.id => i = j

LEMMA FileBullType ==
  ASSUME NEW js, JobsOK(js)
  PROVE  /\ \A job \in Job : JobsOK(AjouterJob(js, job))
         /\ \A ids : JobsOK(SupprimerJobs(js, ids))
         /\ \A job \in js, etat \in EtatsJob : JobsOK(ChangerEtat(js, job, etat))
<1>1. ASSUME NEW job \in js, NEW etat \in EtatsJob
      PROVE  JobsOK(ChangerEtat(js, job, etat))
  <2>1. job \in Job
    BY DEF JobsOK
  <2>2. [job EXCEPT !.etat = etat] \in Job /\ [job EXCEPT !.etat = etat].id = job.id
    BY <2>1 DEF Job
  <2> QED BY <2>2 DEF JobsOK, ChangerEtat
<1>2. \A job \in Job : JobsOK(AjouterJob(js, job))
  BY DEF JobsOK, AjouterJob
<1>3. \A ids : JobsOK(SupprimerJobs(js, ids))
  BY DEF JobsOK, SupprimerJobs
<1> QED BY <1>1, <1>2, <1>3

(* What the actions leave to show, by groups of variables.                  *)
LEMMA TypeInit == Init => TypeOK
BY ReposType, LibreType, ConstantsAssumption DEF Init, TypeOK

LEMMA TypeDemarrer ==
  ASSUME TypeOK, NEW o \in Ops, NEW op \in Operation, Demarrer(o, op),
         uuids' \subseteq Rdv
  PROVE  TypeOK'
<1>1. op.touches \subseteq Rdv
  BY DEF Operation
<1>2. demandes' \in 0 .. MaxDemandes
  BY ConstantsAssumption DEF TypeOK, Demarrer
<1> QED BY <1>1, <1>2 DEF TypeOK, Demarrer

LEMMA EcritureType ==
  ASSUME NEW r \in Rdv, NEW lu \in Ligne \cup {Absent}, NEW ligne \in Ligne
  PROVE  [rdv |-> r, lu |-> lu, ligne |-> ligne] \in Ecriture
BY DEF Ecriture

LEMMA TypeCreer ==
  ASSUME TypeOK, NEW o \in Ops, Creer(o)
  PROVE  TypeOK'
<1>1. PICK r \in Rdv \ uuids, d \in Dates, js \in SUBSET Jeunes, l \in Limites :
        /\ uuids' = uuids \cup {r}
        /\ Demarrer(o, [Libre EXCEPT
             !.etape = "ecriture", !.cmd = "creer", !.touches = {r}, !.date = d,
             !.ecritures = {[rdv |-> r, lu |-> Absent,
                             ligne |-> NouvelleLigne(d, js, l)]}])
  BY DEF Creer
<1>2. [rdv |-> r, lu |-> Absent, ligne |-> NouvelleLigne(d, js, l)] \in Ecriture
  BY NouvelleLigneType, EcritureType
<1>3. [Libre EXCEPT
             !.etape = "ecriture", !.cmd = "creer", !.touches = {r}, !.date = d,
             !.ecritures = {[rdv |-> r, lu |-> Absent,
                             ligne |-> NouvelleLigne(d, js, l)]}] \in Operation
  BY <1>2, LibreType DEF Libre, Operation, Commandes
<1>4. uuids' \subseteq Rdv
  BY <1>1 DEF TypeOK
<1> QED BY <1>1, <1>3, <1>4, TypeDemarrer

LEMMA TypeModifier ==
  ASSUME TypeOK, NEW o \in Ops, Modifier(o)
  PROVE  TypeOK'
<1>1. PICK r \in Rdv, d \in Dates, js \in SUBSET Jeunes, l \in Limites :
        /\ Existe(r)
        /\ Demarrer(o, [Libre EXCEPT
             !.etape = "ecriture", !.cmd = "modifier", !.touches = {r},
             !.date = d, !.change = d # rdvs[r].date,
             !.ecritures = {[rdv |-> r, lu |-> rdvs[r],
                             ligne |-> LigneModifiee(rdvs[r], d, js, l)]}])
  BY DEF Modifier
<1>2. rdvs[r] \in Ligne
  BY <1>1 DEF Existe, TypeOK
<1>3. [rdv |-> r, lu |-> rdvs[r],
       ligne |-> LigneModifiee(rdvs[r], d, js, l)] \in Ecriture
  BY <1>2, LignesType, EcritureType
<1>4. [Libre EXCEPT
             !.etape = "ecriture", !.cmd = "modifier", !.touches = {r},
             !.date = d, !.change = d # rdvs[r].date,
             !.ecritures = {[rdv |-> r, lu |-> rdvs[r],
                             ligne |-> LigneModifiee(rdvs[r], d, js, l)]}]
        \in Operation
  BY <1>3, LibreType DEF Libre, Operation, Commandes
<1>5. uuids' \subseteq Rdv
  BY DEF TypeOK, Modifier
<1> QED BY <1>1, <1>4, <1>5, TypeDemarrer

LEMMA TypeClore ==
  ASSUME TypeOK, NEW o \in Ops, Clore(o)
  PROVE  TypeOK'
<1>1. PICK r \in Rdv : Existe(r) /\ \E presents \in SUBSET rdvs[r].jeunes :
         Demarrer(o, [Libre EXCEPT
           !.etape = "ecriture", !.cmd = "clore", !.touches = {r},
           !.ecritures = {[rdv |-> r, lu |-> rdvs[r],
                           ligne |-> LigneClose(rdvs[r], presents)]}])
  BY DEF Clore
<1>2. PICK presents \in SUBSET rdvs[r].jeunes :
         Demarrer(o, [Libre EXCEPT
           !.etape = "ecriture", !.cmd = "clore", !.touches = {r},
           !.ecritures = {[rdv |-> r, lu |-> rdvs[r],
                           ligne |-> LigneClose(rdvs[r], presents)]}])
  BY <1>1
<1>3. rdvs[r] \in Ligne
  BY <1>1 DEF Existe, TypeOK
<1>4. presents \in SUBSET Jeunes
  BY <1>3 DEF Ligne
<1>5. LigneClose(rdvs[r], presents) \in Ligne
  BY <1>3, <1>4 DEF LigneClose, Ligne
<1>6. [rdv |-> r, lu |-> rdvs[r],
       ligne |-> LigneClose(rdvs[r], presents)] \in Ecriture
  BY <1>3, <1>5, EcritureType
<1>7. [Libre EXCEPT
           !.etape = "ecriture", !.cmd = "clore", !.touches = {r},
           !.ecritures = {[rdv |-> r, lu |-> rdvs[r],
                           ligne |-> LigneClose(rdvs[r], presents)]}] \in Operation
  BY <1>6, LibreType DEF Libre, Operation, Commandes
<1>8. uuids' \subseteq Rdv
  BY DEF TypeOK, Clore
<1> QED BY <1>2, <1>7, <1>8, TypeDemarrer

LEMMA TypeSupprimer ==
  ASSUME TypeOK, NEW o \in Ops, Supprimer(o)
  PROVE  TypeOK'
<1>1. PICK r \in Rdv :
        Demarrer(o, [Libre EXCEPT
          !.etape = "ics", !.cmd = "supprimer", !.touches = {r}])
  BY DEF Supprimer
<1>2. [Libre EXCEPT !.etape = "ics", !.cmd = "supprimer", !.touches = {r}]
        \in Operation
  BY LibreType DEF Libre, Operation, Commandes
<1>3. uuids' \subseteq Rdv
  BY DEF TypeOK, Supprimer
<1> QED BY <1>1, <1>2, <1>3, TypeDemarrer

LEMMA TypeDesinscrire ==
  ASSUME TypeOK, NEW o \in Ops, Desinscrire(o)
  PROVE  TypeOK'
<1> DEFINE animations == {r \in AC : Existe(r)}
           lignes(js) == {[rdv |-> r, lu |-> rdvs[r],
                           ligne |-> LigneSans(rdvs[r], js)] : r \in animations}
           op(js) == [Libre EXCEPT
             !.etape = "ecriture", !.cmd = "desinscrire", !.touches = animations,
             !.ecritures = lignes(js)]
<1>1. PICK js \in SUBSET Jeunes : Demarrer(o, op(js))
  BY DEF Desinscrire
<1>2. \A r \in animations : r \in Rdv /\ rdvs[r] \in Ligne
  BY ConstantsAssumption DEF Existe, TypeOK
<1>3. \A r \in animations : LigneSans(rdvs[r], js) \in Ligne
  BY <1>2 DEF LigneSans, Ligne
<1>4. lignes(js) \subseteq Ecriture
  BY <1>2, <1>3 DEF Ecriture
<1>5. animations \subseteq Rdv
  BY <1>2
<1>6. op(js) \in Operation
  <2> HIDE DEF animations, lignes
  <2> QED BY <1>4, <1>5, LibreType DEF Libre, Operation, Commandes
<1>7. uuids' \subseteq Rdv
  BY DEF TypeOK, Desinscrire
<1> QED BY <1>1, <1>6, <1>7, TypeDemarrer

LEMMA ApresSauvegardeType ==
  ASSUME NEW op \in Operation, NEW r \in Rdv
  PROVE  ApresSauvegarde(op, r) \in Operation
<1>1. RappelsARetirer(op) \in SUBSET JoursRappel
  BY DEF RappelsARetirer
<1>2. [op EXCEPT !.etape = "fond", !.ecritures = {},
          !.ajouter = JoursDeRappel(op.date), !.mail = Mail(r)] \in Operation
  BY RappelsType, MailType DEF Operation
<1>3. [op EXCEPT !.etape = "fond", !.ecritures = {},
          !.retirer = RappelsARetirer(op), !.mail = Mail(r)] \in Operation
  BY <1>1, MailType DEF Operation
<1> QED BY <1>2, <1>3, PoursuivreType, LibreType DEF ApresSauvegarde

LEMMA OpsType ==
  ASSUME TypeOK, NEW o \in Ops, NEW op \in Operation
  PROVE  [ops EXCEPT ![o] = op] \in [Ops -> Operation]
BY DEF TypeOK

(* What becomes of a command in flight is a command in flight.              *)
LEMMA SuitesType ==
  ASSUME NEW op \in Operation
  PROVE  /\ \A e \in op.ecritures : ApresEcriture(op, e) \in Operation
         /\ \A n \in Nat \cup {PasDIcs, PasDeMail} : ApresIcs(op, n) \in Operation
         /\ ApresDestruction(op) \in Operation
         /\ ApresAssociations(op) \in Operation
         /\ \A k : RappelRetire(op, k) \in Operation
         /\ \A k : RappelAjoute(op, k) \in Operation
         /\ InvitationEnvoyee(op) \in Operation
         /\ PlanificationAbandonnee(op) \in Operation
<1>1. ASSUME NEW e \in op.ecritures PROVE ApresEcriture(op, e) \in Operation
  <2>1. e.rdv \in Rdv
    BY DEF Operation, Ecriture
  <2>2. [op EXCEPT !.ecritures = @ \ {e}] \in Operation
    BY DEF Operation
  <2> QED BY <2>1, <2>2, ApresSauvegardeType DEF ApresEcriture
<1>2. ASSUME NEW n \in Nat \cup {PasDIcs, PasDeMail}
      PROVE  ApresIcs(op, n) \in Operation
  BY DEF ApresIcs, Operation
<1>3. ApresDestruction(op) \in Operation
  BY DEF ApresDestruction, Operation
<1>4. ApresAssociations(op) \in Operation
  BY DEF ApresAssociations, Operation
<1>5. ASSUME NEW k PROVE RappelRetire(op, k) \in Operation
  <2>1. [op EXCEPT !.retirer = @ \ {k},
          !.ajouter = IF Replanifie(op, k) THEN JoursDeRappel(op.date) ELSE {}]
          \in Operation
    BY RappelsType DEF Operation
  <2> QED BY <2>1, PoursuivreType DEF RappelRetire
<1>6. ASSUME NEW k PROVE RappelAjoute(op, k) \in Operation
  <2>1. [op EXCEPT !.ajouter = @ \ {k}] \in Operation
    BY DEF Operation
  <2> QED BY <2>1, PoursuivreType DEF RappelAjoute
<1>7. InvitationEnvoyee(op) \in Operation
  <2>1. [op EXCEPT !.mail = PasDeMail] \in Operation
    BY DEF Operation
  <2> QED BY <2>1, PoursuivreType DEF InvitationEnvoyee
<1>8. PlanificationAbandonnee(op) \in Operation
  <2>1. [op EXCEPT !.retirer = {}, !.ajouter = {}] \in Operation
    BY DEF Operation
  <2> QED BY <2>1, PoursuivreType DEF PlanificationAbandonnee
<1> QED BY <1>1, <1>2, <1>3, <1>4, <1>5, <1>6, <1>7, <1>8

LEMMA OperationType ==
  ASSUME TypeOK, NEW o \in Ops
  PROVE  /\ ops[o] \in Operation
         /\ ops[o].touches \subseteq Rdv
         /\ ops[o].ecritures \subseteq Ecriture
         /\ ops[o].ajouter \subseteq JoursRappel
         /\ ops[o].date \in Dates \cup {0}
         /\ ops[o].mail \in Nat \cup {PasDIcs, PasDeMail}
BY DEF TypeOK, Operation

LEMMA TypeSauver ==
  ASSUME TypeOK, NEW o \in Ops, Sauver(o)
  PROVE  TypeOK'
<1>1. PICK e \in ops[o].ecritures :
        /\ rdvs' = [rdvs EXCEPT ![e.rdv] = e.ligne]
        /\ ops' = [ops EXCEPT ![o] = ApresEcriture(ops[o], e)]
        /\ planifieLe' = IF ops[o].cmd = "creer"
                         THEN [planifieLe EXCEPT ![e.rdv] = horloge]
                         ELSE planifieLe
  BY DEF Sauver
<1>2. ops[o] \in Operation /\ e \in Ecriture
  BY OperationType
<1>3. e.rdv \in Rdv /\ e.ligne \in Ligne
  BY <1>2 DEF Ecriture
<1>4. rdvs' \in [Rdv -> Ligne \cup {Absent}]
  BY <1>1, <1>3 DEF TypeOK
<1>5. ops' \in [Ops -> Operation]
  BY <1>1, <1>2, SuitesType, OpsType
<1>6. planifieLe' \in [Rdv -> 0 .. Horizon]
  BY <1>1 DEF TypeOK
<1> QED BY <1>4, <1>5, <1>6 DEF TypeOK, Sauver

LEMMA TypeIcsSuppression ==
  ASSUME TypeOK, NEW o \in Ops, IcsSuppression(o)
  PROVE  TypeOK'
<1>1. PICK r \in ops[o].touches :
        /\ rdvs' = IncrementerIcs(r)
        /\ ops' = [ops EXCEPT ![o] =
             ApresIcs(ops[o], IF Existe(r) /\ r \in Invitations
                              THEN rdvs'[r].ics ELSE Mail(r))]
  BY DEF IcsSuppression
<1>2. ops[o] \in Operation /\ r \in Rdv
  BY OperationType
<1>3. rdvs' \in [Rdv -> Ligne \cup {Absent}]
  BY <1>1, <1>2, IncrementerType DEF TypeOK
<1>4. Existe(r) => rdvs'[r].ics \in Nat
  <2>1. SUFFICES ASSUME Existe(r) PROVE rdvs'[r].ics \in Nat
    OBVIOUS
  <2>2. rdvs[r] \in Ligne
    BY <2>1, <1>2 DEF TypeOK, Existe
  <2>3. rdvs'[r] = [rdvs[r] EXCEPT !.ics = @ + 1] /\ rdvs[r].ics + 1 \in Nat
    BY <1>1, <1>2, <2>1, IncrementerType DEF TypeOK
  <2> QED BY <2>2, <2>3 DEF Ligne
<1>5. (IF Existe(r) /\ r \in Invitations THEN rdvs'[r].ics ELSE Mail(r))
        \in Nat \cup {PasDIcs, PasDeMail}
  BY <1>2, <1>4, MailType
<1>6. ops' \in [Ops -> Operation]
  BY <1>1, <1>2, <1>5, SuitesType, OpsType
<1> QED BY <1>3, <1>6 DEF TypeOK, IcsSuppression

LEMMA TypeDetruire ==
  ASSUME TypeOK, NEW o \in Ops, Detruire(o)
  PROVE  TypeOK'
<1>1. ops' \in [Ops -> Operation]
  BY OperationType, SuitesType, OpsType DEF Detruire
<1>2. rdvs' \in [Rdv -> Ligne \cup {Absent}]
  BY DEF Detruire, TypeOK
<1> QED BY <1>1, <1>2 DEF Detruire, TypeOK

LEMMA TypeDetruireAssociations ==
  ASSUME TypeOK, NEW o \in Ops, DetruireAssociations(o)
  PROVE  TypeOK'
<1>1. ops' \in [Ops -> Operation]
  BY OperationType, SuitesType, OpsType DEF DetruireAssociations
<1>2. PICK r \in ops[o].touches :
        rdvs' = IF Existe(r)
                THEN [rdvs EXCEPT ![r] = LigneSans(rdvs[r], Jeunes)]
                ELSE rdvs
  BY DEF DetruireAssociations
<1>3. r \in Rdv
  BY OperationType
<1>4. Existe(r) => LigneSans(rdvs[r], Jeunes) \in Ligne
  BY <1>3 DEF Existe, TypeOK, LigneSans, Ligne
<1>5. rdvs' \in [Rdv -> Ligne \cup {Absent}]
  BY <1>2, <1>3, <1>4 DEF TypeOK
<1> QED BY <1>1, <1>5 DEF DetruireAssociations, TypeOK

LEMMA TypeRetirerRappel ==
  ASSUME TypeOK, NEW o \in Ops, RetirerRappel(o)
  PROVE  TypeOK'
<1>1. PICK r \in ops[o].touches, k \in ops[o].retirer :
        /\ jobs' = SupprimerJobs(jobs, {<<r, k>>})
        /\ ops' = [ops EXCEPT ![o] = RappelRetire(ops[o], k)]
        /\ planifieLe' = IF Replanifie(ops[o], k)
                         THEN [planifieLe EXCEPT ![r] = horloge] ELSE planifieLe
        /\ UNCHANGED <<horloge, rdvs, uuids, workers, demandes, pannes, annonces,
                       invitations, perturbes>>
  BY DEF RetirerRappel
<1>2. r \in Rdv
  BY OperationType
<1>3. ops' \in [Ops -> Operation]
  BY <1>1, OperationType, SuitesType, OpsType
<1>4. jobs' \subseteq Job /\ \A i, j \in jobs' : i.id = j.id => i = j
  BY <1>1, FileBullType DEF TypeOK, JobsOK
<1>5. planifieLe' \in [Rdv -> 0 .. Horizon]
  BY <1>1, <1>2 DEF TypeOK
<1> QED BY <1>1, <1>3, <1>4, <1>5 DEF TypeOK

LEMMA TypeAjouterRappel ==
  ASSUME TypeOK, NEW o \in Ops, AjouterRappel(o)
  PROVE  TypeOK'
<1>1. PICK r \in ops[o].touches, k \in ops[o].ajouter :
        /\ jobs' = AjouterJob(jobs, [id |-> <<r, k>>, etat |-> "attente",
                                     echeance |-> ops[o].date - k])
        /\ ops' = [ops EXCEPT ![o] = RappelAjoute(ops[o], k)]
        /\ UNCHANGED <<horloge, rdvs, uuids, workers, demandes, pannes, annonces,
                       invitations, planifieLe, perturbes>>
  BY DEF AjouterRappel
<1>2. r \in Rdv /\ k \in JoursRappel
  BY OperationType
<1>3. ops[o].date - k \in Int
  <2>1. ops[o].date \in Dates \cup {0}
    BY OperationType
  <2>2. \A d \in Dates \cup {0}, i \in JoursRappel : d - i \in Int
    BY ConstantsAssumption DEF JoursRappel
  <2> QED BY <1>2, <2>1, <2>2
<1>4. [id |-> <<r, k>>, etat |-> "attente", echeance |-> ops[o].date - k] \in Job
  BY <1>2, <1>3 DEF Job, EtatsJob
<1>5. jobs' \subseteq Job /\ \A i, j \in jobs' : i.id = j.id => i = j
  BY <1>1, <1>4, FileBullType DEF TypeOK, JobsOK
<1>6. ops' \in [Ops -> Operation]
  BY <1>1, OperationType, SuitesType, OpsType
<1> QED BY <1>1, <1>5, <1>6 DEF TypeOK

LEMMA TypeEnvoyerInvitation ==
  ASSUME TypeOK, NEW o \in Ops, EnvoyerInvitation(o)
  PROVE  TypeOK'
<1> DEFINE seq(r) == IF ops[o].mail # PasDIcs THEN ops[o].mail
                     ELSE IF Existe(r) THEN rdvs[r].ics + 1 ELSE PasDIcs
<1>1. PICK r \in ops[o].touches :
        /\ rdvs' = IF ops[o].mail = PasDIcs THEN IncrementerIcs(r) ELSE rdvs
        /\ invitations' = IF seq(r) = PasDIcs THEN invitations
                          ELSE [invitations EXCEPT ![r] = Append(@, seq(r))]
  BY DEF EnvoyerInvitation
<1>2. r \in Rdv
  BY OperationType
<1>3. rdvs' \in [Rdv -> Ligne \cup {Absent}]
  BY <1>1, <1>2, IncrementerType DEF TypeOK
<1>4. seq(r) \in Nat \cup {PasDIcs}
  <2>1. ops[o].mail # PasDIcs => ops[o].mail \in Nat
    BY OperationType DEF EnvoyerInvitation
  <2>2. Existe(r) => rdvs[r].ics + 1 \in Nat
    BY <1>2, IncrementerType DEF TypeOK
  <2> QED BY <2>1, <2>2
<1>5. invitations' \in [Rdv -> Seq(Nat)]
  <2>1. seq(r) # PasDIcs => Append(invitations[r], seq(r)) \in Seq(Nat)
    <3> HIDE DEF seq
    <3> QED BY <1>2, <1>4 DEF TypeOK
  <2> HIDE DEF seq
  <2> QED BY <1>1, <1>2, <2>1 DEF TypeOK
<1>6. ops' \in [Ops -> Operation]
  BY OperationType, SuitesType, OpsType DEF EnvoyerInvitation
<1> QED BY <1>3, <1>5, <1>6 DEF TypeOK, EnvoyerInvitation

LEMMA TypeEchecRedis ==
  ASSUME TypeOK, NEW o \in Ops, EchecRedis(o)
  PROVE  TypeOK'
<1>1. ops' \in [Ops -> Operation]
  BY OperationType, SuitesType, OpsType DEF EchecRedis
<1>2. pannes' \in 0 .. MaxPannes
  BY ConstantsAssumption DEF EchecRedis, TypeOK
<1>3. perturbes' \subseteq Rdv
  BY OperationType DEF EchecRedis, TypeOK
<1> QED BY <1>1, <1>2, <1>3 DEF TypeOK, EchecRedis

LEMMA TypeAbandon ==
  ASSUME TypeOK, NEW o \in Ops, Abandon(o)
  PROVE  TypeOK'
<1>1. ops' \in [Ops -> Operation]
  BY LibreType, OpsType DEF Abandon
<1>2. pannes' \in 0 .. MaxPannes
  BY ConstantsAssumption DEF Abandon, TypeOK
<1>3. perturbes' \subseteq Rdv
  BY OperationType DEF Abandon, TypeOK
<1> QED BY <1>1, <1>2, <1>3 DEF TypeOK, Abandon

LEMMA TypePrendreJob ==
  ASSUME TypeOK, NEW w \in Workers, PrendreJob(w)
  PROVE  TypeOK'
<1>1. PICK j \in JobsEchus(jobs, horloge) :
       /\ jobs' = ChangerEtat(jobs, j, "actif")
       /\ workers' = [workers EXCEPT ![w] =
            [etape |-> "pris", id |-> j.id, lu |-> Absent]]
       /\ perturbes' = IF EnCours(j.id[1]) THEN perturbes \cup {j.id[1]}
                                           ELSE perturbes
  BY DEF PrendreJob
<1>2. j \in jobs /\ j \in Job
  BY DEF JobsEchus, TypeOK
<1>3. j.id \in Rdv \X JoursRappel /\ j.id[1] \in Rdv
  BY <1>2 DEF Job
<1>4. jobs' \subseteq Job /\ \A i, k \in jobs' : i.id = k.id => i = k
  BY <1>1, <1>2, FileBullType DEF TypeOK, JobsOK, EtatsJob
<1>5. [etape |-> "pris", id |-> j.id, lu |-> Absent] \in Travail
  BY <1>3 DEF Travail
<1>6. workers' \in [Workers -> Travail]
  BY <1>1, <1>5 DEF TypeOK
<1>7. perturbes' \subseteq Rdv
  BY <1>1, <1>3 DEF TypeOK
<1> QED BY <1>4, <1>6, <1>7 DEF TypeOK, PrendreJob

LEMMA TypeLireRendezVous ==
  ASSUME TypeOK, NEW w \in Workers, LireRendezVous(w)
  PROVE  TypeOK'
<1>1. workers[w] \in Travail
  BY DEF TypeOK
<1>2. rdvs[workers[w].id[1]] \in Ligne \cup {Absent}
  BY <1>1 DEF TypeOK, Travail
<1>3. [workers[w] EXCEPT !.etape = "lu", !.lu = rdvs[workers[w].id[1]]] \in Travail
  BY <1>1, <1>2 DEF Travail
<1>4. workers' \in [Workers -> Travail]
  BY <1>3 DEF LireRendezVous, TypeOK
<1> QED BY <1>4 DEF TypeOK, LireRendezVous

LEMMA TypeEnvoyerRappel ==
  ASSUME TypeOK, NEW w \in Workers, EnvoyerRappel(w)
  PROVE  TypeOK'
<1>1. workers[w] \in Travail
  BY DEF TypeOK
<1> DEFINE lu == workers[w].lu
           textes == IF lu = Absent THEN {} ELSE TextesPossibles(lu.date - horloge)
           annonce(t) == [rdv |-> workers[w].id[1], texte |-> t,
                          date |-> lu.date, jeunes |-> lu.jeunes]
<1>2. \/ annonces' = annonces
      \/ \E t \in textes : annonces' = Append(annonces, annonce(t))
  BY DEF EnvoyerRappel
<1>3. ASSUME NEW t \in textes PROVE annonce(t) \in Annonce
  <2>1. lu # Absent /\ t \in Textes
    BY <1>3 DEF TextesPossibles
  <2>2. lu \in Ligne /\ workers[w].id[1] \in Rdv
    BY <1>1, <2>1 DEF Travail
  <2> QED BY <2>1, <2>2 DEF Annonce, Ligne
<1>4. annonces' \in Seq(Annonce)
  <2>1. annonces \in Seq(Annonce)
    BY DEF TypeOK
  <2>2. ASSUME NEW t \in textes, annonces' = Append(annonces, annonce(t))
        PROVE  annonces' \in Seq(Annonce)
    <3> DEFINE a == annonce(t)
    <3>1. a \in Annonce
      BY <1>3
    <3>2. annonces' = Append(annonces, a)
      BY <2>2
    <3> HIDE DEF a
    <3> QED BY <2>1, <3>1, <3>2
  <2> QED BY <1>2, <2>1, <2>2
<1>5. jobs' \subseteq Job /\ \A i, k \in jobs' : i.id = k.id => i = k
  BY FileBullType DEF EnvoyerRappel, TypeOK, JobsOK, EtatsJob
<1>6. workers' \in [Workers -> Travail]
  BY ReposType DEF EnvoyerRappel, TypeOK
<1> QED BY <1>4, <1>5, <1>6 DEF TypeOK, EnvoyerRappel

LEMMA TypeArretWorker ==
  ASSUME TypeOK, NEW w \in Workers, ArretWorker(w)
  PROVE  TypeOK'
<1>1. jobs' \subseteq Job /\ \A i, k \in jobs' : i.id = k.id => i = k
  BY FileBullType DEF ArretWorker, TypeOK, JobsOK, EtatsJob
<1>2. workers' \in [Workers -> Travail]
  BY ReposType DEF ArretWorker, TypeOK
<1>3. pannes' \in 0 .. MaxPannes
  BY ConstantsAssumption DEF ArretWorker, TypeOK
<1>4. perturbes' \subseteq Rdv
  BY DEF ArretWorker, TypeOK, Travail
<1> QED BY <1>1, <1>2, <1>3, <1>4 DEF TypeOK, ArretWorker

LEMMA TypeAvancer ==
  ASSUME TypeOK, Avancer
  PROVE  TypeOK'
<1>1. horloge' \in 0 .. Horizon
  BY ConstantsAssumption DEF Avancer, TypeOK
<1> QED BY <1>1 DEF TypeOK, Avancer

(* Every variable keeps its type, and a job id is in the queue once: two     *)
(* reminders of the same appointment and kind never coexist in Redis.       *)
THEOREM Typage == Spec => []TypeOK
<1>1. TypeOK /\ [Next]_vars => TypeOK'
  <2> SUFFICES ASSUME TypeOK, [Next]_vars PROVE TypeOK'
    OBVIOUS
  <2>1. CASE UNCHANGED vars
    BY <2>1 DEF vars, TypeOK
  <2>2. ASSUME NEW o \in Ops, Commande(o) PROVE TypeOK'
    BY <2>2, TypeCreer, TypeModifier, TypeClore, TypeSupprimer, TypeDesinscrire,
       TypeSauver, TypeIcsSuppression, TypeDetruire, TypeDetruireAssociations,
       TypeRetirerRappel, TypeAjouterRappel, TypeEnvoyerInvitation,
       TypeEchecRedis, TypeAbandon
       DEF Commande
  <2>3. ASSUME NEW w \in Workers, Executer(w) PROVE TypeOK'
    BY <2>3, TypePrendreJob, TypeLireRendezVous, TypeEnvoyerRappel,
       TypeArretWorker
       DEF Executer
  <2>4. CASE Avancer
    BY <2>4, TypeAvancer
  <2> QED BY <2>1, <2>2, <2>3, <2>4 DEF Next
<1> QED BY <1>1, TypeInit, PTL DEF Spec

-----------------------------------------------------------------------------
(* The inductive invariants                                                 *)

(* The rows, and the rows about to be saved.                                *)
Coherence ==
  /\ LignesCoherentes
  /\ \A o \in Ops : \A e \in ops[o].ecritures : LigneCoherente(e.rdv, e.ligne)

(* What is left of a command at each step.                                  *)
Forme(op) ==
  /\ op.ecritures # {} => op.etape = "ecriture"
  /\ op.etape # "fond" => op.retirer = {} /\ op.ajouter = {}
  /\ \A e \in op.ecritures : e.rdv \in op.touches
  /\ \A e, f \in op.ecritures : e.rdv = f.rdv => e = f
  /\ op.etape \in {"ics", "destruction", "associations"} =>
       \A r, s \in op.touches : r = s

Structure == \A o \in Ops : Forme(ops[o])

(* The row a command saves is the one that the command of the agenda makes  *)
(* of the row it has read.                                                  *)
Justifiee(cmd, e) ==
  \/ /\ cmd = "creer"
     /\ e.lu = Absent
     /\ e.rdv \in uuids
     /\ \E d \in Dates, js \in SUBSET Jeunes, l \in Limites :
          CreationPermise(e.rdv, js, l) /\ e.ligne = NouvelleLigne(d, js, l)
  \/ /\ cmd = "modifier"
     /\ e.lu # Absent
     /\ \E d \in Dates, js \in SUBSET Jeunes, l \in Limites :
          /\ ModificationPermise(e.rdv, e.lu, js, l)
          /\ e.ligne = LigneModifiee(e.lu, d, js, l)
  \/ /\ cmd = "clore"
     /\ e.lu # Absent
     /\ CloturePermise(e.lu)
     /\ \E js \in SUBSET e.lu.jeunes : e.ligne = LigneClose(e.lu, js)
  \/ /\ cmd = "desinscrire"
     /\ e.lu # Absent
     /\ e.rdv \in AC
     /\ \E js \in SUBSET Jeunes : e.ligne = LigneSans(e.lu, js)

(* What command o relies on, of the undisturbed appointment r it touches.   *)
IsoleDe(o, r) ==
  /\ \A p \in Ops : r \in ops[p].touches => p = o
  /\ \A e \in ops[o].ecritures :
       e.rdv = r => e.lu = rdvs[r] /\ Justifiee(ops[o].cmd, e)
  /\ ops[o].etape \in {"ics", "destruction"} =>
       Existe(r) /\ SuppressionPermise(r, rdvs[r])
  /\ ops[o].etape = "associations" => ~Existe(r)

Isolation == \A o \in Ops : \A r \in ops[o].touches \ perturbes : IsoleDe(o, r)

Identites == \A r \in Rdv \ perturbes : Existe(r) => r \in uuids

InvAgenda == Structure /\ Isolation /\ Identites

-----------------------------------------------------------------------------
(* Coherence of the rows                                                    *)

LEMMA CoherenceDesLignes ==
  ASSUME NEW r \in Rdv, NEW ligne \in Ligne, NEW d \in Dates,
         NEW js \in SUBSET Jeunes, NEW l \in Limites
  PROVE  /\ CreationPermise(r, js, l) =>
              LigneCoherente(r, NouvelleLigne(d, js, l))
         /\ ModificationPermise(r, ligne, js, l) =>
              LigneCoherente(r, LigneModifiee(ligne, d, js, l))
         /\ LigneCoherente(r, ligne) /\ js \subseteq ligne.jeunes =>
              LigneCoherente(r, LigneClose(ligne, js))
BY DEF CreationPermise, ModificationPermise, NouvelleLigne, LigneModifiee,
       LigneClose, LigneCoherente, Ligne

LEMMA CoherenceSans ==
  ASSUME NEW r \in Rdv, NEW ligne \in Ligne, NEW js \in SUBSET Jeunes,
         LigneCoherente(r, ligne)
  PROVE  LigneCoherente(r, LigneSans(ligne, js))
<1>1. LigneSans(ligne, js).jeunes = ligne.jeunes \ js
  BY DEF LigneSans, Ligne
<1>2. IsFiniteSet(ligne.jeunes)
  BY ConstantsAssumption, FS_Subset DEF Ligne
<1>3. /\ Cardinality(ligne.jeunes \ js) \in Nat
      /\ Cardinality(ligne.jeunes) \in Nat
      /\ Cardinality(ligne.jeunes \ js) <= Cardinality(ligne.jeunes)
  <2>1. IsFiniteSet(ligne.jeunes \ js)
    BY <1>2, FS_Subset
  <2> QED BY <1>2, <2>1, FS_Subset, FS_CardinalityType
<1>4. ligne.limite \in Nat
  BY ConstantsAssumption DEF Ligne
<1>5. /\ LigneSans(ligne, js).limite = ligne.limite
      /\ LigneSans(ligne, js).presents = ligne.presents \ js
      /\ LigneSans(ligne, js).clos = ligne.clos
  BY DEF LigneSans, Ligne
<1>6. ligne.limite # 0 =>
        r \in AC /\ Cardinality(ligne.jeunes \ js) <= ligne.limite
  <2>1. ligne.limite # 0 => r \in AC /\ Cardinality(ligne.jeunes) <= ligne.limite
    BY DEF LigneCoherente
  <2> QED BY <2>1, <1>3, <1>4
<1>7. /\ ligne.presents \ js \subseteq ligne.jeunes \ js
      /\ ligne.presents \ js # {} => ligne.clos
  BY DEF LigneCoherente
<1> QED BY <1>1, <1>5, <1>6, <1>7 DEF LigneCoherente

(* A command goes on with the same appointments and fewer rows to save, or  *)
(* ends.                                                                    *)
Suite(op, q) ==
  \/ q = Libre
  \/ /\ q.touches = op.touches
     /\ q.cmd = op.cmd
     /\ q.ecritures \subseteq op.ecritures

LEMMA SuitePoursuivre ==
  ASSUME NEW op, NEW q, Suite(op, q)
  PROVE  Suite(op, Poursuivre(q))
BY DEF Suite, Poursuivre

LEMMA Suites ==
  ASSUME NEW op \in Operation
  PROVE  /\ \A e \in op.ecritures : /\ Suite(op, ApresEcriture(op, e))
                                    /\ e \notin ApresEcriture(op, e).ecritures
         /\ \A n : Suite(op, ApresIcs(op, n))
         /\ Suite(op, ApresDestruction(op))
         /\ Suite(op, ApresAssociations(op))
         /\ \A k : Suite(op, RappelRetire(op, k))
         /\ \A k : Suite(op, RappelAjoute(op, k))
         /\ Suite(op, InvitationEnvoyee(op))
         /\ Suite(op, PlanificationAbandonnee(op))
<1>1. Libre.ecritures = {}
  BY DEF Libre
<1>2. ASSUME NEW e \in op.ecritures
      PROVE  /\ Suite(op, ApresEcriture(op, e))
             /\ e \notin ApresEcriture(op, e).ecritures
  <2> DEFINE q == [op EXCEPT !.etape = "fond", !.ecritures = {},
                     !.ajouter = JoursDeRappel(op.date), !.mail = Mail(e.rdv)]
             m == [op EXCEPT !.etape = "fond", !.ecritures = {},
                     !.retirer = RappelsARetirer(op), !.mail = Mail(e.rdv)]
             s == [op EXCEPT !.ecritures = @ \ {e}]
  <2>1. Suite(op, q) /\ Suite(op, m) /\ q.ecritures = {} /\ m.ecritures = {}
    BY DEF Operation, Suite
  <2>2. Suite(op, s) /\ e \notin s.ecritures
    BY DEF Operation, Suite
  <2>3. ApresSauvegarde(op, e.rdv) \in {Libre, Poursuivre(q), Poursuivre(m)}
    BY DEF ApresSauvegarde
  <2>4. ApresEcriture(op, e) \in {s, ApresSauvegarde(op, e.rdv)}
    BY DEF ApresEcriture
  <2> HIDE DEF q, m, s
  <2>5. Poursuivre(q) \in {Libre, q} /\ Poursuivre(m) \in {Libre, m}
    BY DEF Poursuivre
  <2>6. ApresEcriture(op, e) \in {s, Libre, q, m}
    BY <2>3, <2>4, <2>5
  <2> QED BY <1>1, <2>1, <2>2, <2>6 DEF Suite
<1>3. ASSUME NEW n PROVE Suite(op, ApresIcs(op, n))
  BY DEF ApresIcs, Operation, Suite
<1>4. Suite(op, ApresDestruction(op)) /\ Suite(op, ApresAssociations(op))
  BY DEF ApresDestruction, ApresAssociations, Operation, Suite
<1>5. ASSUME NEW k PROVE Suite(op, RappelRetire(op, k))
  <2>1. Suite(op, [op EXCEPT !.retirer = @ \ {k},
          !.ajouter = IF Replanifie(op, k) THEN JoursDeRappel(op.date) ELSE {}])
    BY DEF Operation, Suite
  <2> QED BY <2>1, SuitePoursuivre DEF RappelRetire
<1>6. ASSUME NEW k PROVE Suite(op, RappelAjoute(op, k))
  <2>1. Suite(op, [op EXCEPT !.ajouter = @ \ {k}])
    BY DEF Operation, Suite
  <2> QED BY <2>1, SuitePoursuivre DEF RappelAjoute
<1>7. Suite(op, InvitationEnvoyee(op))
  <2>1. Suite(op, [op EXCEPT !.mail = PasDeMail])
    BY DEF Operation, Suite
  <2> QED BY <2>1, SuitePoursuivre DEF InvitationEnvoyee
<1>8. Suite(op, PlanificationAbandonnee(op))
  <2>1. Suite(op, [op EXCEPT !.retirer = {}, !.ajouter = {}])
    BY DEF Operation, Suite
  <2> QED BY <2>1, SuitePoursuivre DEF PlanificationAbandonnee
<1> QED BY <1>2, <1>3, <1>4, <1>5, <1>6, <1>7, <1>8

(* What is to be shown of a step that changes one command, or one row.      *)
EcrituresCoherentes ==
  \A o \in Ops : \A e \in ops[o].ecritures : LigneCoherente(e.rdv, e.ligne)

LEMMA CoherenceNouvelle ==
  ASSUME TypeOK, Coherence, NEW o \in Ops, NEW op, Demarrer(o, op),
         \A e \in op.ecritures : LigneCoherente(e.rdv, e.ligne)
  PROVE  Coherence'
<1>1. EcrituresCoherentes'
  BY DEF Demarrer, TypeOK, EcrituresCoherentes, Coherence
<1>2. LignesCoherentes'
  BY DEF Demarrer, Coherence, LignesCoherentes, Existe
<1> QED BY <1>1, <1>2 DEF Coherence, EcrituresCoherentes

LEMMA CoherenceSuite ==
  ASSUME TypeOK, Coherence, NEW o \in Ops, NEW q, Suite(ops[o], q),
         ops' = [ops EXCEPT ![o] = q]
  PROVE  EcrituresCoherentes'
<1>1. \A e \in q.ecritures : LigneCoherente(e.rdv, e.ligne)
  BY DEF Suite, Libre, Coherence
<1> QED BY <1>1 DEF TypeOK, EcrituresCoherentes, Coherence

LEMMA CoherenceLigne ==
  ASSUME TypeOK, Coherence, NEW r \in Rdv, NEW ligne,
         rdvs' = [rdvs EXCEPT ![r] = ligne],
         ligne # Absent => LigneCoherente(r, ligne)
  PROVE  LignesCoherentes'
BY DEF TypeOK, Coherence, LignesCoherentes, Existe

LEMMA CoherenceIcs ==
  ASSUME TypeOK, Coherence, NEW r \in Rdv, rdvs' = IncrementerIcs(r)
  PROVE  LignesCoherentes'
<1>1. CASE ~Existe(r)
  BY <1>1 DEF IncrementerIcs, Coherence, LignesCoherentes, Existe
<1>2. CASE Existe(r)
  <2> DEFINE ligne == [rdvs[r] EXCEPT !.ics = @ + 1]
  <2>1. rdvs[r] \in Ligne /\ LigneCoherente(r, rdvs[r])
    BY <1>2 DEF TypeOK, Existe, Coherence, LignesCoherentes
  <2>2. /\ ligne.limite = rdvs[r].limite /\ ligne.jeunes = rdvs[r].jeunes
        /\ ligne.presents = rdvs[r].presents /\ ligne.clos = rdvs[r].clos
    BY <2>1 DEF Ligne
  <2>3. rdvs' = [rdvs EXCEPT ![r] = ligne]
    BY <1>2 DEF IncrementerIcs
  <2> HIDE DEF ligne
  <2>4. LigneCoherente(r, ligne)
    BY <2>1, <2>2 DEF LigneCoherente
  <2> QED BY <2>3, <2>4, CoherenceLigne
<1> QED BY <1>1, <1>2

(* A command that has just read its appointments.                           *)
Nouvelle(op, cmd, touches, ecritures) ==
  /\ op.etape = IF cmd = "supprimer" THEN "ics" ELSE "ecriture"
  /\ op.cmd = cmd
  /\ op.touches = touches
  /\ op.ecritures = ecritures
  /\ op.retirer = {} /\ op.ajouter = {}

LEMMA DebutCreer ==
  ASSUME NEW o, Creer(o)
  PROVE  \E r \in Rdv \ uuids, d \in Dates, js \in SUBSET Jeunes, l \in Limites : \E op :
           /\ CreationPermise(r, js, l)
           /\ uuids' = uuids \cup {r}
           /\ Demarrer(o, op)
           /\ Nouvelle(op, "creer", {r},
                       {[rdv |-> r, lu |-> Absent, ligne |-> NouvelleLigne(d, js, l)]})
<1>1. PICK r \in Rdv \ uuids, d \in Dates, js \in SUBSET Jeunes, l \in Limites :
        /\ CreationPermise(r, js, l)
        /\ uuids' = uuids \cup {r}
        /\ Demarrer(o, [Libre EXCEPT
             !.etape = "ecriture", !.cmd = "creer", !.touches = {r}, !.date = d,
             !.ecritures = {[rdv |-> r, lu |-> Absent,
                             ligne |-> NouvelleLigne(d, js, l)]}])
  BY DEF Creer
<1> DEFINE ecr == {[rdv |-> r, lu |-> Absent, ligne |-> NouvelleLigne(d, js, l)]}
           op == [Libre EXCEPT !.etape = "ecriture", !.cmd = "creer",
                    !.touches = {r}, !.date = d, !.ecritures = ecr]
<1>2. Nouvelle(op, "creer", {r}, ecr)
  BY DEF Nouvelle, Libre
<1>3. Demarrer(o, op)
  BY <1>1
<1> HIDE DEF op
<1> QED BY <1>1, <1>2, <1>3

LEMMA DebutModifier ==
  ASSUME NEW o, Modifier(o)
  PROVE  \E r \in Rdv, d \in Dates, js \in SUBSET Jeunes, l \in Limites : \E op :
           /\ Existe(r)
           /\ ModificationPermise(r, rdvs[r], js, l)
           /\ uuids' = uuids
           /\ Demarrer(o, op)
           /\ Nouvelle(op, "modifier", {r},
                       {[rdv |-> r, lu |-> rdvs[r],
                         ligne |-> LigneModifiee(rdvs[r], d, js, l)]})
<1>1. PICK r \in Rdv, d \in Dates, js \in SUBSET Jeunes, l \in Limites :
        /\ Existe(r)
        /\ ModificationPermise(r, rdvs[r], js, l)
        /\ Demarrer(o, [Libre EXCEPT
             !.etape = "ecriture", !.cmd = "modifier", !.touches = {r},
             !.date = d, !.change = d # rdvs[r].date,
             !.ecritures = {[rdv |-> r, lu |-> rdvs[r],
                             ligne |-> LigneModifiee(rdvs[r], d, js, l)]}])
  BY DEF Modifier
<1> DEFINE ecr == {[rdv |-> r, lu |-> rdvs[r],
                    ligne |-> LigneModifiee(rdvs[r], d, js, l)]}
           op == [Libre EXCEPT !.etape = "ecriture", !.cmd = "modifier",
                    !.touches = {r}, !.date = d, !.change = d # rdvs[r].date,
                    !.ecritures = ecr]
<1>2. Nouvelle(op, "modifier", {r}, ecr)
  BY DEF Nouvelle, Libre
<1>3. Demarrer(o, op) /\ uuids' = uuids
  BY <1>1 DEF Modifier
<1> HIDE DEF op
<1> QED BY <1>1, <1>2, <1>3

LEMMA DebutClore ==
  ASSUME NEW o, Clore(o)
  PROVE  \E r \in Rdv : \E js \in SUBSET rdvs[r].jeunes : \E op :
           /\ Existe(r)
           /\ CloturePermise(rdvs[r])
           /\ uuids' = uuids
           /\ Demarrer(o, op)
           /\ Nouvelle(op, "clore", {r},
                       {[rdv |-> r, lu |-> rdvs[r], ligne |-> LigneClose(rdvs[r], js)]})
<1>1. PICK r \in Rdv : /\ Existe(r) /\ CloturePermise(rdvs[r])
         /\ \E js \in SUBSET rdvs[r].jeunes :
              Demarrer(o, [Libre EXCEPT
                !.etape = "ecriture", !.cmd = "clore", !.touches = {r},
                !.ecritures = {[rdv |-> r, lu |-> rdvs[r],
                                ligne |-> LigneClose(rdvs[r], js)]}])
  BY DEF Clore
<1>2. PICK js \in SUBSET rdvs[r].jeunes :
              Demarrer(o, [Libre EXCEPT
                !.etape = "ecriture", !.cmd = "clore", !.touches = {r},
                !.ecritures = {[rdv |-> r, lu |-> rdvs[r],
                                ligne |-> LigneClose(rdvs[r], js)]}])
  BY <1>1
<1> DEFINE ecr == {[rdv |-> r, lu |-> rdvs[r], ligne |-> LigneClose(rdvs[r], js)]}
           op == [Libre EXCEPT !.etape = "ecriture", !.cmd = "clore",
                    !.touches = {r}, !.ecritures = ecr]
<1>3. Nouvelle(op, "clore", {r}, ecr)
  BY DEF Nouvelle, Libre
<1>4. Demarrer(o, op) /\ uuids' = uuids
  BY <1>2 DEF Clore
<1> HIDE DEF op
<1> QED BY <1>1, <1>3, <1>4

LEMMA DebutSupprimer ==
  ASSUME NEW o, Supprimer(o)
  PROVE  \E r \in Rdv : \E op :
           /\ Existe(r)
           /\ SuppressionPermise(r, rdvs[r])
           /\ uuids' = uuids
           /\ Demarrer(o, op)
           /\ Nouvelle(op, "supprimer", {r}, {})
<1>1. PICK r \in Rdv :
        /\ Existe(r)
        /\ SuppressionPermise(r, rdvs[r])
        /\ Demarrer(o, [Libre EXCEPT
             !.etape = "ics", !.cmd = "supprimer", !.touches = {r}])
  BY DEF Supprimer
<1> DEFINE op == [Libre EXCEPT
                    !.etape = "ics", !.cmd = "supprimer", !.touches = {r}]
<1>2. Nouvelle(op, "supprimer", {r}, {})
  BY DEF Nouvelle, Libre
<1>3. Demarrer(o, op) /\ uuids' = uuids
  BY <1>1 DEF Supprimer
<1> HIDE DEF op
<1> QED BY <1>1, <1>2, <1>3

LEMMA DebutDesinscrire ==
  ASSUME NEW o, Desinscrire(o)
  PROVE  \E js \in SUBSET Jeunes : \E op :
           /\ uuids' = uuids
           /\ Demarrer(o, op)
           /\ Nouvelle(op, "desinscrire", {r \in AC : Existe(r)},
                       {[rdv |-> r, lu |-> rdvs[r], ligne |-> LigneSans(rdvs[r], js)]
                          : r \in {r \in AC : Existe(r)}})
<1> DEFINE animations == {r \in AC : Existe(r)}
           ecr(js) == {[rdv |-> r, lu |-> rdvs[r], ligne |-> LigneSans(rdvs[r], js)]
                         : r \in animations}
           op(js) == [Libre EXCEPT !.etape = "ecriture", !.cmd = "desinscrire",
                        !.touches = animations, !.ecritures = ecr(js)]
<1>1. PICK js \in SUBSET Jeunes : Demarrer(o, op(js))
  BY DEF Desinscrire
<1>2. Nouvelle(op(js), "desinscrire", animations, ecr(js))
  <2> HIDE DEF animations, ecr
  <2> QED BY DEF Nouvelle, Libre
<1>3. uuids' = uuids
  BY DEF Desinscrire
<1> HIDE DEF op
<1> QED BY <1>1, <1>2, <1>3

LEMMA CoherenceDebuts ==
  ASSUME TypeOK, Coherence, NEW o \in Ops,
         Creer(o) \/ Modifier(o) \/ Clore(o) \/ Supprimer(o) \/ Desinscrire(o)
  PROVE  Coherence'
<1>0. \A r \in Rdv : Existe(r) =>
        rdvs[r] \in Ligne /\ LigneCoherente(r, rdvs[r])
  BY DEF TypeOK, Existe, Coherence, LignesCoherentes
<1>1. CASE Creer(o)
  <2>1a. PICK r \in Rdv \ uuids, d \in Dates, js \in SUBSET Jeunes, l \in Limites : \E op :
           /\ CreationPermise(r, js, l)
           /\ Demarrer(o, op)
           /\ Nouvelle(op, "creer", {r},
                       {[rdv |-> r, lu |-> Absent, ligne |-> NouvelleLigne(d, js, l)]})
    BY <1>1, DebutCreer
  <2>1. PICK op :
           /\ CreationPermise(r, js, l)
           /\ Demarrer(o, op)
           /\ Nouvelle(op, "creer", {r},
                       {[rdv |-> r, lu |-> Absent, ligne |-> NouvelleLigne(d, js, l)]})
    BY <2>1a
  <2>2. LigneCoherente(r, NouvelleLigne(d, js, l))
    BY <2>1, NouvelleLigneType, CoherenceDesLignes
  <2> QED BY <2>1, <2>2, CoherenceNouvelle DEF Nouvelle
<1>2. CASE Modifier(o)
  <2>1a. PICK r \in Rdv, d \in Dates, js \in SUBSET Jeunes, l \in Limites : \E op :
           /\ Existe(r)
           /\ ModificationPermise(r, rdvs[r], js, l)
           /\ Demarrer(o, op)
           /\ Nouvelle(op, "modifier", {r},
                       {[rdv |-> r, lu |-> rdvs[r],
                         ligne |-> LigneModifiee(rdvs[r], d, js, l)]})
    BY <1>2, DebutModifier
  <2>1. PICK op :
           /\ Existe(r)
           /\ ModificationPermise(r, rdvs[r], js, l)
           /\ Demarrer(o, op)
           /\ Nouvelle(op, "modifier", {r},
                       {[rdv |-> r, lu |-> rdvs[r],
                         ligne |-> LigneModifiee(rdvs[r], d, js, l)]})
    BY <2>1a
  <2>2. LigneCoherente(r, LigneModifiee(rdvs[r], d, js, l))
    BY <1>0, <2>1, CoherenceDesLignes
  <2> QED BY <2>1, <2>2, CoherenceNouvelle DEF Nouvelle
<1>3. CASE Clore(o)
  <2>1. PICK r \in Rdv : \E js \in SUBSET rdvs[r].jeunes : \E op :
           /\ Existe(r)
           /\ Demarrer(o, op)
           /\ Nouvelle(op, "clore", {r},
                       {[rdv |-> r, lu |-> rdvs[r], ligne |-> LigneClose(rdvs[r], js)]})
    BY <1>3, DebutClore
  <2>2a. PICK js \in SUBSET rdvs[r].jeunes : \E op :
           /\ Existe(r)
           /\ Demarrer(o, op)
           /\ Nouvelle(op, "clore", {r},
                       {[rdv |-> r, lu |-> rdvs[r], ligne |-> LigneClose(rdvs[r], js)]})
    BY <2>1
  <2>2. PICK op :
           /\ Existe(r)
           /\ Demarrer(o, op)
           /\ Nouvelle(op, "clore", {r},
                       {[rdv |-> r, lu |-> rdvs[r], ligne |-> LigneClose(rdvs[r], js)]})
    BY <2>2a
  <2>3. LigneCoherente(r, LigneClose(rdvs[r], js))
    BY <1>0, <2>2 DEF LigneCoherente, LigneClose, Ligne
  <2> QED BY <2>2, <2>3, CoherenceNouvelle DEF Nouvelle
<1>4. CASE Supprimer(o)
  BY <1>4, DebutSupprimer, CoherenceNouvelle DEF Nouvelle
<1>5. CASE Desinscrire(o)
  <2> DEFINE animations == {r \in AC : Existe(r)}
             lignes(js) == {[rdv |-> r, lu |-> rdvs[r], ligne |-> LigneSans(rdvs[r], js)]
                              : r \in animations}
  <2>1a. PICK js \in SUBSET Jeunes : \E op :
           /\ Demarrer(o, op)
           /\ Nouvelle(op, "desinscrire", animations, lignes(js))
    BY <1>5, DebutDesinscrire
  <2>1. PICK op :
           /\ Demarrer(o, op)
           /\ Nouvelle(op, "desinscrire", animations, lignes(js))
    BY <2>1a
  <2>2. \A r \in animations : LigneCoherente(r, LigneSans(rdvs[r], js))
    BY <1>0, ConstantsAssumption, CoherenceSans
  <2>3. \A e \in op.ecritures : LigneCoherente(e.rdv, e.ligne)
    BY <2>1, <2>2 DEF Nouvelle
  <2> QED BY <2>1, <2>3, CoherenceNouvelle
<1> QED BY <1>1, <1>2, <1>3, <1>4, <1>5

LEMMA SuiteDePas ==
  ASSUME NEW o, ops[o] \in Operation,
         \/ Sauver(o) \/ IcsSuppression(o) \/ Detruire(o)
         \/ DetruireAssociations(o) \/ RetirerRappel(o) \/ AjouterRappel(o)
         \/ EnvoyerInvitation(o) \/ EchecRedis(o) \/ Abandon(o)
  PROVE  \E q : Suite(ops[o], q) /\ ops' = [ops EXCEPT ![o] = q]
<1>1. CASE Sauver(o)
  BY <1>1, Suites DEF Sauver
<1>2. CASE IcsSuppression(o)
  BY <1>2, Suites DEF IcsSuppression
<1>3. CASE Detruire(o)
  BY <1>3, Suites DEF Detruire
<1>4. CASE DetruireAssociations(o)
  BY <1>4, Suites DEF DetruireAssociations
<1>5. CASE RetirerRappel(o)
  BY <1>5, Suites DEF RetirerRappel
<1>6. CASE AjouterRappel(o)
  BY <1>6, Suites DEF AjouterRappel
<1>7. CASE EnvoyerInvitation(o)
  BY <1>7, Suites DEF EnvoyerInvitation
<1>8. CASE EchecRedis(o)
  BY <1>8, Suites DEF EchecRedis
<1>9. CASE Abandon(o)
  BY <1>9 DEF Abandon, Suite
<1> QED BY <1>1, <1>2, <1>3, <1>4, <1>5, <1>6, <1>7, <1>8, <1>9

LEMMA CoherenceStable ==
  ASSUME Coherence, UNCHANGED rdvs, EcrituresCoherentes'
  PROVE  Coherence'
BY DEF Coherence, LignesCoherentes, Existe, EcrituresCoherentes

LEMMA CoherenceSuites ==
  ASSUME TypeOK, Coherence, NEW o \in Ops,
         \/ Sauver(o) \/ IcsSuppression(o) \/ Detruire(o)
         \/ DetruireAssociations(o) \/ RetirerRappel(o) \/ AjouterRappel(o)
         \/ EnvoyerInvitation(o) \/ EchecRedis(o) \/ Abandon(o)
  PROVE  Coherence'
<1>0. ops[o] \in Operation
  BY OperationType
<1>1. EcrituresCoherentes'
  <2>1. \E q : Suite(ops[o], q) /\ ops' = [ops EXCEPT ![o] = q]
    BY <1>0, SuiteDePas
  <2> QED BY <2>1, CoherenceSuite
<1>2. CASE Sauver(o)
  <2>1. PICK e \in ops[o].ecritures : rdvs' = [rdvs EXCEPT ![e.rdv] = e.ligne]
    BY <1>2 DEF Sauver
  <2>2. e.rdv \in Rdv /\ LigneCoherente(e.rdv, e.ligne)
    BY OperationType DEF Ecriture, Coherence
  <2> QED BY <1>1, <2>1, <2>2, CoherenceLigne DEF Coherence, EcrituresCoherentes
<1>3. CASE IcsSuppression(o)
  <2>1. PICK r \in Rdv : rdvs' = IncrementerIcs(r)
    BY <1>3, OperationType DEF IcsSuppression
  <2> QED BY <1>1, <2>1, CoherenceIcs DEF Coherence, EcrituresCoherentes
<1>4. CASE Detruire(o)
  <2>1. PICK r \in Rdv : rdvs' = [rdvs EXCEPT ![r] = Absent]
    BY <1>4, OperationType DEF Detruire
  <2> QED BY <1>1, <2>1, CoherenceLigne DEF Coherence, EcrituresCoherentes
<1>5. CASE DetruireAssociations(o)
  <2>1. PICK r \in Rdv :
          rdvs' = IF Existe(r)
                  THEN [rdvs EXCEPT ![r] = LigneSans(rdvs[r], Jeunes)] ELSE rdvs
    BY <1>5, OperationType DEF DetruireAssociations
  <2>2. CASE Existe(r)
    <3>1. rdvs[r] \in Ligne /\ LigneCoherente(r, rdvs[r])
      BY <2>2 DEF TypeOK, Existe, Coherence, LignesCoherentes
    <3>2. LigneCoherente(r, LigneSans(rdvs[r], Jeunes))
      BY <3>1, CoherenceSans
    <3> QED BY <1>1, <2>1, <2>2, <3>2, CoherenceLigne
            DEF Coherence, EcrituresCoherentes
  <2>3. CASE ~Existe(r)
    BY <1>1, <2>1, <2>3, CoherenceStable
  <2> QED BY <2>2, <2>3
<1>6. CASE EnvoyerInvitation(o)
  <2>1. PICK r \in Rdv :
          rdvs' = IF ops[o].mail = PasDIcs THEN IncrementerIcs(r) ELSE rdvs
    BY <1>6, OperationType DEF EnvoyerInvitation
  <2>2. CASE ops[o].mail = PasDIcs
    BY <1>1, <2>1, <2>2, CoherenceIcs DEF Coherence, EcrituresCoherentes
  <2>3. CASE ops[o].mail # PasDIcs
    BY <1>1, <2>1, <2>3, CoherenceStable
  <2> QED BY <2>2, <2>3
<1>7. CASE RetirerRappel(o) \/ AjouterRappel(o) \/ EchecRedis(o) \/ Abandon(o)
  BY <1>1, <1>7, CoherenceStable DEF RetirerRappel, AjouterRappel, EchecRedis, Abandon
<1> QED BY <1>2, <1>3, <1>4, <1>5, <1>6, <1>7

(* The rows stay coherent, whatever overlaps or fails: a group event never   *)
(* exceeds its limit, presences are those of participants.                  *)
THEOREM CoherenceToujours == Spec => []LignesCoherentes
<1>1. Init => Coherence
  BY DEF Init, Coherence, LignesCoherentes, Existe, Libre
<1>2. TypeOK /\ Coherence /\ [Next]_vars => Coherence'
  <2> SUFFICES ASSUME TypeOK, Coherence, [Next]_vars PROVE Coherence'
    OBVIOUS
  <2>1. CASE UNCHANGED vars
    BY <2>1 DEF vars, Coherence, LignesCoherentes, Existe
  <2>2. ASSUME NEW o \in Ops, Commande(o) PROVE Coherence'
    BY <2>2, CoherenceDebuts, CoherenceSuites DEF Commande
  <2>3. CASE Avancer \/ \E w \in Workers : Executer(w)
    BY <2>3 DEF Avancer, Executer, PrendreJob, LireRendezVous, EnvoyerRappel,
       ArretWorker, Coherence, LignesCoherentes, Existe
  <2> QED BY <2>1, <2>2, <2>3 DEF Next
<1>3. Coherence => LignesCoherentes
  BY DEF Coherence
<1> QED BY <1>1, <1>2, <1>3, Typage, PTL DEF Spec

-----------------------------------------------------------------------------
(* The invariant behind the implementation of Agenda                        *)

LEMMA FormeLibre == Forme(Libre) /\ Libre.touches = {} /\ Libre.ecritures = {}
BY DEF Forme, Libre

LEMMA FormePoursuivre ==
  ASSUME NEW op, Forme(op)
  PROVE  Forme(Poursuivre(op))
BY FormeLibre DEF Poursuivre

(* A command keeps its form, and only ends in the step it is said to.       *)
LEMMA FormeSuites ==
  ASSUME NEW op \in Operation, Forme(op)
  PROVE  /\ \A e \in op.ecritures :
              /\ Forme(ApresEcriture(op, e))
              /\ ApresEcriture(op, e).etape \in {"ecriture", "fond", "libre"}
         /\ \A n : op.etape = "ics" =>
              /\ Forme(ApresIcs(op, n))
              /\ ApresIcs(op, n).etape = "destruction"
         /\ op.etape = "destruction" =>
              /\ Forme(ApresDestruction(op))
              /\ ApresDestruction(op).etape = "associations"
         /\ op.etape = "associations" =>
              /\ Forme(ApresAssociations(op))
              /\ ApresAssociations(op).etape = "fond"
<1>1. ASSUME NEW e \in op.ecritures
      PROVE  /\ Forme(ApresEcriture(op, e))
             /\ ApresEcriture(op, e).etape \in {"ecriture", "fond", "libre"}
  <2> DEFINE q == [op EXCEPT !.etape = "fond", !.ecritures = {},
                     !.ajouter = JoursDeRappel(op.date), !.mail = Mail(e.rdv)]
             m == [op EXCEPT !.etape = "fond", !.ecritures = {},
                     !.retirer = RappelsARetirer(op), !.mail = Mail(e.rdv)]
             s == [op EXCEPT !.ecritures = @ \ {e}]
  <2>1. op.etape = "ecriture"
    BY DEF Forme
  <2>2. Forme(q) /\ Forme(m) /\ q.etape = "fond" /\ m.etape = "fond"
    BY DEF Operation, Forme
  <2>3. s.etape = "ecriture" /\ s.retirer = op.retirer /\ s.ajouter = op.ajouter
        /\ s.touches = op.touches /\ s.ecritures = op.ecritures \ {e}
    BY <2>1 DEF Operation
  <2>4. ApresSauvegarde(op, e.rdv) \in {Libre, Poursuivre(q), Poursuivre(m)}
    BY DEF ApresSauvegarde
  <2>5. ApresEcriture(op, e) \in {s, ApresSauvegarde(op, e.rdv)}
    BY DEF ApresEcriture
  <2> HIDE DEF q, m, s
  <2>6. Poursuivre(q) \in {Libre, q} /\ Poursuivre(m) \in {Libre, m}
    BY DEF Poursuivre
  <2>7. Forme(s)
    BY <2>1, <2>3 DEF Forme
  <2>8. Libre.etape = "libre"
    BY DEF Libre
  <2> QED BY <2>2, <2>3, <2>4, <2>5, <2>6, <2>7, <2>8, FormeLibre
<1>2. ASSUME NEW n, op.etape = "ics"
      PROVE  Forme(ApresIcs(op, n)) /\ ApresIcs(op, n).etape = "destruction"
  BY <1>2 DEF ApresIcs, Operation, Forme
<1>3. ASSUME op.etape = "destruction"
      PROVE  Forme(ApresDestruction(op)) /\ ApresDestruction(op).etape = "associations"
  BY <1>3 DEF ApresDestruction, Operation, Forme
<1>4. ASSUME op.etape = "associations"
      PROVE  Forme(ApresAssociations(op)) /\ ApresAssociations(op).etape = "fond"
  BY <1>4 DEF ApresAssociations, Operation, Forme
<1> QED BY <1>1, <1>2, <1>3, <1>4

(* What a command does after its answer leaves it so, or ends it.           *)
Achevee(q) == Forme(q) /\ q.etape \in {"fond", "libre"}

LEMMA FormeFond ==
  ASSUME NEW op \in Operation, Forme(op), op.etape = "fond"
  PROVE  /\ \A k : Achevee(RappelRetire(op, k))
         /\ \A k : Achevee(RappelAjoute(op, k))
         /\ Achevee(InvitationEnvoyee(op))
         /\ Achevee(PlanificationAbandonnee(op))
<1>0. ASSUME NEW q, Achevee(q) PROVE Achevee(Poursuivre(q))
  BY <1>0, FormeLibre DEF Achevee, Poursuivre, Libre
<1>1. ASSUME NEW k PROVE Achevee(RappelRetire(op, k))
  <2>1. Achevee([op EXCEPT !.retirer = @ \ {k},
          !.ajouter = IF Replanifie(op, k) THEN JoursDeRappel(op.date) ELSE {}])
    BY DEF Operation, Achevee, Forme
  <2> QED BY <1>0, <2>1 DEF RappelRetire
<1>2. ASSUME NEW k PROVE Achevee(RappelAjoute(op, k))
  <2>1. Achevee([op EXCEPT !.ajouter = @ \ {k}])
    BY DEF Operation, Achevee, Forme
  <2> QED BY <1>0, <2>1 DEF RappelAjoute
<1>3. Achevee(InvitationEnvoyee(op))
  <2>1. Achevee([op EXCEPT !.mail = PasDeMail])
    BY DEF Operation, Achevee, Forme
  <2> QED BY <1>0, <2>1 DEF InvitationEnvoyee
<1>4. Achevee(PlanificationAbandonnee(op))
  <2>1. Achevee([op EXCEPT !.retirer = {}, !.ajouter = {}])
    BY DEF Operation, Achevee, Forme
  <2> QED BY <1>0, <2>1 DEF PlanificationAbandonnee
<1> QED BY <1>1, <1>2, <1>3, <1>4

LEMMA StructureOp ==
  ASSUME TypeOK, Structure, NEW o \in Ops, NEW q, Forme(q),
         ops' = [ops EXCEPT ![o] = q]
  PROVE  Structure'
BY DEF TypeOK, Structure

(* A new command is isolated on the appointments nothing else touches, and  *)
(* the commands already there on the others.                                *)
LEMMA IsolationDebut ==
  ASSUME TypeOK, Isolation, NEW o \in Ops, NEW op, Demarrer(o, op),
         uuids \subseteq uuids',
         op.etape # "associations",
         \A r \in op.touches \ perturbes :
           /\ \A e \in op.ecritures :
                e.rdv = r => e.lu = rdvs[r] /\ Justifiee(op.cmd, e)'
           /\ op.etape \in {"ics", "destruction"} =>
                Existe(r) /\ SuppressionPermise(r, rdvs[r])
  PROVE  Isolation'
<1> SUFFICES ASSUME NEW p \in Ops, NEW r \in ops'[p].touches \ perturbes'
             PROVE  IsoleDe(p, r)'
  BY DEF Isolation
<1>1. /\ ops' = [ops EXCEPT ![o] = op]
      /\ perturbes' = perturbes \cup {s \in op.touches : EnCours(s)}
      /\ rdvs' = rdvs /\ horloge' = horloge
      /\ ops[o] = Libre
  BY DEF Demarrer
<1>2. \A s : Existe(s)' = Existe(s)
  BY <1>1 DEF Existe
<1>3. CASE p = o
  <2>1. ops'[p] = op
    BY <1>1, <1>3 DEF TypeOK
  <2>2. ~EnCours(r)
    BY <1>1, <2>1
  <2>3. \A q \in Ops : r \in ops'[q].touches => q = p
    BY <1>1, <1>3, <2>2 DEF EnCours, TypeOK
  <2> QED BY <1>1, <1>2, <2>1, <2>3 DEF IsoleDe
<1>4. CASE p # o
  <2>1. ops'[p] = ops[p] /\ r \in ops[p].touches \ perturbes
    BY <1>1, <1>4 DEF TypeOK
  <2>2. r \notin op.touches
    BY <1>1, <2>1 DEF EnCours
  <2>3. IsoleDe(p, r)
    BY <2>1 DEF Isolation
  <2>4. \A q \in Ops : r \in ops'[q].touches => q = p
    BY <1>1, <2>2, <2>3 DEF TypeOK, IsoleDe
  <2>5. \A c, e : Justifiee(c, e) => Justifiee(c, e)'
    BY <1>1 DEF Justifiee, CloturePermise
  <2> QED BY <1>1, <1>2, <2>1, <2>3, <2>4, <2>5 DEF IsoleDe
<1> QED BY <1>3, <1>4

(* A step of a command that changes rows of its own appointments only.      *)
LEMMA IsolationSuite ==
  ASSUME TypeOK, Isolation, NEW o \in Ops, NEW q, Suite(ops[o], q),
         ops' = [ops EXCEPT ![o] = q],
         perturbes \subseteq perturbes', uuids' = uuids, horloge' = horloge,
         \A s \in Rdv \ ops[o].touches : rdvs'[s] = rdvs[s],
         \A r \in q.touches \ perturbes :
           /\ \A e \in q.ecritures : e.rdv = r => rdvs'[r] = rdvs[r]
           /\ q.etape \in {"ics", "destruction"} =>
                Existe(r)' /\ SuppressionPermise(r, rdvs'[r])
           /\ q.etape = "associations" => ~Existe(r)'
  PROVE  Isolation'
<1> SUFFICES ASSUME NEW p \in Ops, NEW r \in ops'[p].touches \ perturbes'
             PROVE  IsoleDe(p, r)'
  BY DEF Isolation
<1>1. \A c, e : Justifiee(c, e)' <=> Justifiee(c, e)
  BY DEF Justifiee, CloturePermise
<1>2. q.touches \subseteq ops[o].touches
  BY DEF Suite, Libre
<1>3. r \in ops[p].touches \ perturbes
  BY <1>2 DEF TypeOK
<1>4. IsoleDe(p, r)
  BY <1>3 DEF Isolation
<1>5. \A x \in Ops : r \in ops'[x].touches => x = p
  BY <1>2, <1>4 DEF IsoleDe, TypeOK
<1>6. CASE p = o
  <2>1. ops'[p] = q
    BY <1>6 DEF TypeOK
  <2>2. r \in q.touches \ perturbes
    BY <2>1
  <2>3. q.ecritures \subseteq ops[p].ecritures /\ q.cmd = ops[p].cmd
    BY <1>6, <2>2 DEF Suite, Libre
  <2>4. \A e \in q.ecritures :
          e.rdv = r => e.lu = rdvs'[r] /\ Justifiee(q.cmd, e)'
    BY <1>1, <1>4, <2>2, <2>3 DEF IsoleDe
  <2> QED BY <1>5, <2>1, <2>2, <2>4 DEF IsoleDe
<1>7. CASE p # o
  <2>1. ops'[p] = ops[p]
    BY <1>7 DEF TypeOK
  <2>2. r \in Rdv \ ops[o].touches
    BY <1>3, <1>4, <1>7, OperationType DEF IsoleDe
  <2>3. rdvs'[r] = rdvs[r] /\ Existe(r)' = Existe(r)
    BY <2>2 DEF Existe
  <2> QED BY <1>1, <1>4, <1>5, <2>1, <2>3 DEF IsoleDe
<1> QED BY <1>6, <1>7

LEMMA StructureDebut ==
  ASSUME TypeOK, Structure, NEW o \in Ops, NEW op, Demarrer(o, op), Forme(op)
  PROVE  Structure'
BY StructureOp DEF Demarrer

LEMMA IdentitesDebut ==
  ASSUME Identites, NEW o, NEW op, Demarrer(o, op), uuids \subseteq uuids'
  PROVE  Identites'
BY DEF Identites, Demarrer, Existe

LEMMA InvDebuts ==
  ASSUME TypeOK, InvAgenda, NEW o \in Ops,
         Creer(o) \/ Modifier(o) \/ Clore(o) \/ Supprimer(o) \/ Desinscrire(o)
  PROVE  InvAgenda'
<1> USE DEF InvAgenda
<1>1. CASE Creer(o)
  <2>1a. PICK r \in Rdv \ uuids, d \in Dates, js \in SUBSET Jeunes, l \in Limites : \E op :
           /\ CreationPermise(r, js, l)
           /\ uuids' = uuids \cup {r}
           /\ Demarrer(o, op)
           /\ Nouvelle(op, "creer", {r},
                       {[rdv |-> r, lu |-> Absent, ligne |-> NouvelleLigne(d, js, l)]})
    BY <1>1, DebutCreer
  <2>1. PICK op :
           /\ CreationPermise(r, js, l)
           /\ uuids' = uuids \cup {r}
           /\ Demarrer(o, op)
           /\ Nouvelle(op, "creer", {r},
                       {[rdv |-> r, lu |-> Absent, ligne |-> NouvelleLigne(d, js, l)]})
    BY <2>1a
  <2> DEFINE e == [rdv |-> r, lu |-> Absent, ligne |-> NouvelleLigne(d, js, l)]
  <2>2. /\ op.touches = {r} /\ op.ecritures = {e} /\ op.cmd = "creer"
        /\ op.etape = "ecriture" /\ op.retirer = {} /\ op.ajouter = {}
        /\ e.rdv = r /\ e.lu = Absent /\ e.ligne = NouvelleLigne(d, js, l)
    BY <2>1 DEF Nouvelle
  <2> HIDE DEF e
  <2>3. Forme(op)
    BY <2>2 DEF Forme
  <2>4. r \notin perturbes => rdvs[r] = Absent
    BY DEF Identites, Existe
  <2>5. Justifiee("creer", e)'
    BY <2>1, <2>2 DEF Justifiee
  <2>6. Isolation'
    BY <2>1, <2>2, <2>4, <2>5, IsolationDebut
  <2> QED BY <2>1, <2>3, <2>6, StructureDebut, IdentitesDebut
<1>2. CASE Modifier(o)
  <2>1a. PICK r \in Rdv, d \in Dates, js \in SUBSET Jeunes, l \in Limites : \E op :
           /\ Existe(r)
           /\ ModificationPermise(r, rdvs[r], js, l)
           /\ uuids' = uuids
           /\ Demarrer(o, op)
           /\ Nouvelle(op, "modifier", {r},
                       {[rdv |-> r, lu |-> rdvs[r],
                         ligne |-> LigneModifiee(rdvs[r], d, js, l)]})
    BY <1>2, DebutModifier
  <2>1. PICK op :
           /\ Existe(r)
           /\ ModificationPermise(r, rdvs[r], js, l)
           /\ uuids' = uuids
           /\ Demarrer(o, op)
           /\ Nouvelle(op, "modifier", {r},
                       {[rdv |-> r, lu |-> rdvs[r],
                         ligne |-> LigneModifiee(rdvs[r], d, js, l)]})
    BY <2>1a
  <2>2. PICK e : e = [rdv |-> r, lu |-> rdvs[r],
                      ligne |-> LigneModifiee(rdvs[r], d, js, l)]
    OBVIOUS
  <2>3. /\ op.touches = {r} /\ op.ecritures = {e} /\ op.cmd = "modifier"
        /\ op.etape = "ecriture" /\ op.retirer = {} /\ op.ajouter = {}
        /\ e.rdv = r /\ e.lu = rdvs[r]
        /\ e.ligne = LigneModifiee(e.lu, d, js, l)
    BY <2>1, <2>2 DEF Nouvelle
  <2>4. Forme(op)
    BY <2>3 DEF Forme
  <2>5. Justifiee("modifier", e)'
    BY <2>1, <2>3 DEF Justifiee, Existe
  <2>6. Isolation'
    BY <2>1, <2>3, <2>5, IsolationDebut
  <2> QED BY <2>1, <2>4, <2>6, StructureDebut, IdentitesDebut
<1>3. CASE Clore(o)
  <2>1. PICK r \in Rdv : \E js \in SUBSET rdvs[r].jeunes : \E op :
           /\ Existe(r)
           /\ CloturePermise(rdvs[r])
           /\ uuids' = uuids
           /\ Demarrer(o, op)
           /\ Nouvelle(op, "clore", {r},
                       {[rdv |-> r, lu |-> rdvs[r], ligne |-> LigneClose(rdvs[r], js)]})
    BY <1>3, DebutClore
  <2>2a. PICK js \in SUBSET rdvs[r].jeunes : \E op :
           /\ Existe(r)
           /\ CloturePermise(rdvs[r])
           /\ uuids' = uuids
           /\ Demarrer(o, op)
           /\ Nouvelle(op, "clore", {r},
                       {[rdv |-> r, lu |-> rdvs[r], ligne |-> LigneClose(rdvs[r], js)]})
    BY <2>1
  <2>2. PICK op :
           /\ Existe(r)
           /\ CloturePermise(rdvs[r])
           /\ uuids' = uuids
           /\ Demarrer(o, op)
           /\ Nouvelle(op, "clore", {r},
                       {[rdv |-> r, lu |-> rdvs[r], ligne |-> LigneClose(rdvs[r], js)]})
    BY <2>2a
  <2>3. PICK e : e = [rdv |-> r, lu |-> rdvs[r], ligne |-> LigneClose(rdvs[r], js)]
    OBVIOUS
  <2>4. /\ op.touches = {r} /\ op.ecritures = {e} /\ op.cmd = "clore"
        /\ op.etape = "ecriture" /\ op.retirer = {} /\ op.ajouter = {}
        /\ e.rdv = r /\ e.lu = rdvs[r] /\ e.ligne = LigneClose(e.lu, js)
    BY <2>2, <2>3 DEF Nouvelle
  <2>5. Forme(op)
    BY <2>4 DEF Forme
  <2>6. Justifiee("clore", e)'
    BY <2>2, <2>4 DEF Justifiee, Existe, CloturePermise, Demarrer
  <2>7. Isolation'
    BY <2>2, <2>4, <2>6, IsolationDebut
  <2> QED BY <2>2, <2>5, <2>7, StructureDebut, IdentitesDebut
<1>4. CASE Supprimer(o)
  <2>1a. PICK r \in Rdv : \E op :
           /\ Existe(r)
           /\ SuppressionPermise(r, rdvs[r])
           /\ uuids' = uuids
           /\ Demarrer(o, op)
           /\ Nouvelle(op, "supprimer", {r}, {})
    BY <1>4, DebutSupprimer
  <2>1. PICK op :
           /\ Existe(r)
           /\ SuppressionPermise(r, rdvs[r])
           /\ uuids' = uuids
           /\ Demarrer(o, op)
           /\ Nouvelle(op, "supprimer", {r}, {})
    BY <2>1a
  <2>2. /\ op.touches = {r} /\ op.ecritures = {} /\ op.etape = "ics"
        /\ op.retirer = {} /\ op.ajouter = {}
    BY <2>1 DEF Nouvelle
  <2>3. Forme(op)
    BY <2>2 DEF Forme
  <2>4. Isolation'
    BY <2>1, <2>2, IsolationDebut
  <2> QED BY <2>1, <2>3, <2>4, StructureDebut, IdentitesDebut
<1>5. CASE Desinscrire(o)
  <2> DEFINE animations == {r \in AC : Existe(r)}
             e(r, js) == [rdv |-> r, lu |-> rdvs[r], ligne |-> LigneSans(rdvs[r], js)]
  <2>1a. PICK js \in SUBSET Jeunes : \E op :
           /\ uuids' = uuids
           /\ Demarrer(o, op)
           /\ Nouvelle(op, "desinscrire", animations, {e(r, js) : r \in animations})
    BY <1>5, DebutDesinscrire
  <2>1. PICK op :
           /\ uuids' = uuids
           /\ Demarrer(o, op)
           /\ Nouvelle(op, "desinscrire", animations, {e(r, js) : r \in animations})
    BY <2>1a
  <2>2. \A r : e(r, js).rdv = r /\ e(r, js).lu = rdvs[r]
               /\ e(r, js).ligne = LigneSans(e(r, js).lu, js)
    OBVIOUS
  <2>3. \A r \in animations : r \in AC /\ rdvs[r] # Absent
    BY DEF Existe
  <2> HIDE DEF animations, e
  <2>4. /\ op.touches = animations /\ op.cmd = "desinscrire"
        /\ op.ecritures = {e(r, js) : r \in animations}
        /\ op.etape = "ecriture" /\ op.retirer = {} /\ op.ajouter = {}
    BY <2>1 DEF Nouvelle
  <2>5. Forme(op)
    BY <2>2, <2>4 DEF Forme
  <2>6. ASSUME NEW f \in op.ecritures
        PROVE  f.lu = rdvs[f.rdv] /\ Justifiee(op.cmd, f)'
    <3>1. PICK r \in animations : f = e(r, js)
      BY <2>4
    <3>2. /\ f.lu # Absent /\ f.rdv \in AC /\ f.lu = rdvs[f.rdv]
          /\ \E x \in SUBSET Jeunes : f.ligne = LigneSans(f.lu, x)
      BY <2>2, <2>3, <3>1
    <3>3. Justifiee("desinscrire", f)'
      BY <3>2 DEF Justifiee
    <3> QED BY <2>4, <3>2, <3>3
  <2>7. Isolation'
    BY <2>1, <2>4, <2>6, IsolationDebut
  <2> QED BY <2>1, <2>5, <2>7, StructureDebut, IdentitesDebut
<1> QED BY <1>1, <1>2, <1>3, <1>4, <1>5

(* A new sequence number changes nothing that the agenda shows.             *)
LEMMA IcsNeutre ==
  ASSUME TypeOK, NEW r \in Rdv, rdvs' = IncrementerIcs(r)
  PROVE  /\ \A s \in Rdv \ {r} : rdvs'[s] = rdvs[s]
         /\ \A s \in Rdv : Existe(s)' <=> Existe(s)
         /\ Existe(r) => EntreeAgenda(rdvs'[r]) = EntreeAgenda(rdvs[r])
<1>1. CASE ~Existe(r)
  BY <1>1 DEF IncrementerIcs, Existe
<1>2. CASE Existe(r)
  <2> DEFINE ligne == [rdvs[r] EXCEPT !.ics = @ + 1]
  <2>1. rdvs' = [rdvs EXCEPT ![r] = ligne]
    BY <1>2 DEF IncrementerIcs
  <2>2. rdvs[r] \in Ligne
    BY <1>2 DEF TypeOK, Existe
  <2>3. ligne \in Ligne
    BY <2>2 DEF Ligne, PasDIcs
  <2>4. EntreeAgenda(ligne) = EntreeAgenda(rdvs[r])
    BY <2>2 DEF Ligne, EntreeAgenda
  <2> HIDE DEF ligne
  <2>5. rdvs'[r] = ligne /\ \A s \in Rdv \ {r} : rdvs'[s] = rdvs[s]
    BY <2>1 DEF TypeOK
  <2>6. ligne # Absent
    BY <2>3, ConstantsAssumption
  <2> QED BY <1>2, <2>4, <2>5, <2>6 DEF Existe
<1> QED BY <1>1, <1>2

LEMMA SuppressionIcs ==
  ASSUME NEW r, NEW x, NEW y, EntreeAgenda(x) = EntreeAgenda(y),
         SuppressionPermise(r, x)
  PROVE  SuppressionPermise(r, y)
<1>1. EntreeAgenda(x).clos = x.clos /\ EntreeAgenda(y).clos = y.clos
  BY DEF EntreeAgenda
<1> QED BY <1>1 DEF SuppressionPermise

LEMMA IdentitesStable ==
  ASSUME Identites, \A s \in Rdv \ perturbes : Existe(s)' => Existe(s),
         uuids' = uuids, perturbes \subseteq perturbes'
  PROVE  Identites'
BY DEF Identites

LEMMA InvSauver ==
  ASSUME TypeOK, InvAgenda, NEW o \in Ops, Sauver(o)
  PROVE  InvAgenda'
<1> USE DEF InvAgenda
<1>1. PICK e \in ops[o].ecritures :
        /\ rdvs' = [rdvs EXCEPT ![e.rdv] = e.ligne]
        /\ ops' = [ops EXCEPT ![o] = ApresEcriture(ops[o], e)]
  BY DEF Sauver
<1>2. ops[o] \in Operation /\ Forme(ops[o])
  BY OperationType DEF Structure
<1> DEFINE q == ApresEcriture(ops[o], e)
<1>3. Suite(ops[o], q) /\ e \notin q.ecritures
  BY <1>2, Suites
<1>4. Forme(q) /\ q.etape \in {"ecriture", "fond", "libre"}
  BY <1>2, FormeSuites
<1>5. ops' = [ops EXCEPT ![o] = q]
  BY <1>1
<1> HIDE DEF q
<1>6. e.rdv \in ops[o].touches /\ e.rdv \in Rdv
  BY <1>2, OperationType DEF Forme
<1>7. \A s \in Rdv \ {e.rdv} : rdvs'[s] = rdvs[s]
  BY <1>1 DEF TypeOK
<1>8. \A f \in q.ecritures : f.rdv # e.rdv /\ f.rdv \in Rdv
  BY <1>2, <1>3, OperationType DEF Forme, Suite, Libre, Ecriture
<1>9. /\ perturbes' = perturbes /\ uuids' = uuids /\ horloge' = horloge
  BY DEF Sauver
<1>10. Structure'
  BY <1>4, <1>5, StructureOp
<1>11. Isolation'
  BY <1>3, <1>4, <1>5, <1>6, <1>7, <1>8, <1>9, IsolationSuite
<1>12. e.rdv \notin perturbes => e.rdv \in uuids
  <2>1. SUFFICES ASSUME e.rdv \notin perturbes PROVE e.rdv \in uuids
    OBVIOUS
  <2>2. e.lu = rdvs[e.rdv] /\ Justifiee(ops[o].cmd, e)
    BY <1>6, <2>1 DEF Isolation, IsoleDe
  <2>3. e.lu # Absent \/ e.rdv \in uuids
    BY <2>2 DEF Justifiee
  <2> QED BY <1>6, <2>1, <2>2, <2>3 DEF Identites, Existe
<1>13. Identites'
  BY <1>7, <1>9, <1>12 DEF Identites, Existe
<1> QED BY <1>10, <1>11, <1>13

LEMMA InvIcsSuppression ==
  ASSUME TypeOK, InvAgenda, NEW o \in Ops, IcsSuppression(o)
  PROVE  InvAgenda'
<1> USE DEF InvAgenda
<1>1a. PICK r \in ops[o].touches : \E n :
        /\ rdvs' = IncrementerIcs(r)
        /\ ops' = [ops EXCEPT ![o] = ApresIcs(ops[o], n)]
  BY DEF IcsSuppression
<1>1. PICK n :
        /\ rdvs' = IncrementerIcs(r)
        /\ ops' = [ops EXCEPT ![o] = ApresIcs(ops[o], n)]
  BY <1>1a
<1>2. ops[o] \in Operation /\ Forme(ops[o]) /\ ops[o].etape = "ics" /\ r \in Rdv
  BY OperationType DEF Structure, IcsSuppression
<1> DEFINE q == ApresIcs(ops[o], n)
<1>3. Suite(ops[o], q) /\ Forme(q) /\ q.etape = "destruction"
  BY <1>2, Suites, FormeSuites
<1>4. ops' = [ops EXCEPT ![o] = q]
  BY <1>1
<1> HIDE DEF q
<1>5. q.ecritures = {}
  BY <1>3 DEF Forme
<1>6. /\ \A s \in Rdv \ {r} : rdvs'[s] = rdvs[s]
      /\ \A s \in Rdv : Existe(s)' <=> Existe(s)
      /\ Existe(r) => EntreeAgenda(rdvs'[r]) = EntreeAgenda(rdvs[r])
  BY <1>1, <1>2, IcsNeutre
<1>7. \A s \in q.touches \ perturbes :
        Existe(s)' /\ SuppressionPermise(s, rdvs'[s])
  <2> SUFFICES ASSUME NEW s \in q.touches \ perturbes
               PROVE  Existe(s)' /\ SuppressionPermise(s, rdvs'[s])
    OBVIOUS
  <2>1. s \in ops[o].touches \ perturbes /\ s \in Rdv
    BY <1>3, OperationType DEF Suite, Libre
  <2>2. Existe(s) /\ SuppressionPermise(s, rdvs[s])
    BY <1>2, <2>1 DEF Isolation, IsoleDe
  <2> QED BY <1>6, <2>1, <2>2, SuppressionIcs
<1>8. /\ perturbes' = perturbes /\ uuids' = uuids /\ horloge' = horloge
  BY DEF IcsSuppression
<1>9. Structure'
  BY <1>3, <1>4, StructureOp
<1>10. Isolation'
  BY <1>1, <1>3, <1>4, <1>5, <1>6, <1>7, <1>8, IsolationSuite
<1>11. Identites'
  BY <1>6, <1>8, IdentitesStable
<1> QED BY <1>9, <1>10, <1>11

LEMMA InvDetruire ==
  ASSUME TypeOK, InvAgenda, NEW o \in Ops, Detruire(o)
  PROVE  InvAgenda'
<1> USE DEF InvAgenda
<1>1. PICK r \in ops[o].touches : rdvs' = [rdvs EXCEPT ![r] = Absent]
  BY DEF Detruire
<1>2. /\ ops[o] \in Operation /\ Forme(ops[o]) /\ ops[o].etape = "destruction"
      /\ r \in Rdv
  BY OperationType DEF Structure, Detruire
<1> DEFINE q == ApresDestruction(ops[o])
<1>3. Suite(ops[o], q) /\ Forme(q) /\ q.etape = "associations"
  BY <1>2, Suites, FormeSuites
<1>4. ops' = [ops EXCEPT ![o] = q]
  BY DEF Detruire
<1> HIDE DEF q
<1>5. q.ecritures = {}
  BY <1>3 DEF Forme
<1>6. /\ \A s \in Rdv \ {r} : rdvs'[s] = rdvs[s]
      /\ rdvs'[r] = Absent
  BY <1>1, <1>2 DEF TypeOK
<1>7. \A s \in q.touches : ~Existe(s)'
  <2>1. \A s \in q.touches : s = r
    BY <1>2, <1>3 DEF Suite, Libre, Forme
  <2> QED BY <1>6, <2>1 DEF Existe
<1>8. /\ perturbes' = perturbes /\ uuids' = uuids /\ horloge' = horloge
  BY DEF Detruire
<1>9. Structure'
  BY <1>3, <1>4, StructureOp
<1>10. Isolation'
  BY <1>3, <1>4, <1>5, <1>6, <1>7, <1>8, IsolationSuite
<1>11. Identites'
  BY <1>6, <1>8, IdentitesStable DEF Existe
<1> QED BY <1>9, <1>10, <1>11

LEMMA InvDetruireAssociations ==
  ASSUME TypeOK, InvAgenda, NEW o \in Ops, DetruireAssociations(o)
  PROVE  InvAgenda'
<1> USE DEF InvAgenda
<1>1. PICK r \in ops[o].touches :
        rdvs' = IF Existe(r)
                THEN [rdvs EXCEPT ![r] = LigneSans(rdvs[r], Jeunes)] ELSE rdvs
  BY DEF DetruireAssociations
<1>2. /\ ops[o] \in Operation /\ Forme(ops[o]) /\ ops[o].etape = "associations"
      /\ r \in Rdv
  BY OperationType DEF Structure, DetruireAssociations
<1> DEFINE q == ApresAssociations(ops[o])
<1>3. Suite(ops[o], q) /\ Forme(q) /\ q.etape = "fond"
  BY <1>2, Suites, FormeSuites
<1>4. ops' = [ops EXCEPT ![o] = q]
  BY DEF DetruireAssociations
<1> HIDE DEF q
<1>5. q.ecritures = {}
  BY <1>3 DEF Forme
<1>6. /\ \A s \in Rdv \ {r} : rdvs'[s] = rdvs[s]
      /\ r \notin perturbes => rdvs' = rdvs
  <2>1. r \notin perturbes => ~Existe(r)
    BY <1>2 DEF Isolation, IsoleDe
  <2> QED BY <1>1, <1>2, <2>1 DEF TypeOK
<1>7. \A s \in Rdv \ perturbes : Existe(s)' => Existe(s)
  BY <1>6 DEF Existe
<1>8. /\ perturbes' = perturbes /\ uuids' = uuids /\ horloge' = horloge
  BY DEF DetruireAssociations
<1>9. Structure'
  BY <1>3, <1>4, StructureOp
<1>10. Isolation'
  BY <1>3, <1>4, <1>5, <1>6, <1>8, IsolationSuite
<1>11. Identites'
  BY <1>7, <1>8, IdentitesStable
<1> QED BY <1>9, <1>10, <1>11

(* What runs after the answer relies on nothing.                            *)
LEMMA InvAchevee ==
  ASSUME TypeOK, InvAgenda, NEW o \in Ops, NEW q, Suite(ops[o], q), Achevee(q),
         ops' = [ops EXCEPT ![o] = q],
         perturbes \subseteq perturbes', uuids' = uuids, horloge' = horloge,
         \A s \in Rdv \ ops[o].touches : rdvs'[s] = rdvs[s],
         \A s \in Rdv : Existe(s)' => Existe(s)
  PROVE  InvAgenda'
<1> USE DEF InvAgenda
<1>1. Forme(q) /\ q.etape \notin {"ecriture", "ics", "destruction", "associations"}
  BY DEF Achevee
<1>2. q.ecritures = {}
  BY <1>1 DEF Forme
<1>3. Structure'
  BY <1>1, StructureOp
<1>4. Isolation'
  BY <1>1, <1>2, IsolationSuite
<1>5. Identites'
  BY IdentitesStable
<1> QED BY <1>3, <1>4, <1>5

LEMMA InvFond ==
  ASSUME TypeOK, InvAgenda, NEW o \in Ops,
         \/ RetirerRappel(o) \/ AjouterRappel(o) \/ EnvoyerInvitation(o)
         \/ EchecRedis(o) \/ Abandon(o)
  PROVE  InvAgenda'
<1>1. ops[o] \in Operation /\ Forme(ops[o])
  BY OperationType DEF InvAgenda, Structure
<1>2. ops[o].retirer \cup ops[o].ajouter # {} => ops[o].etape = "fond"
  BY <1>1 DEF Forme
<1>3. CASE RetirerRappel(o)
  <2>1. PICK k \in ops[o].retirer : ops' = [ops EXCEPT ![o] = RappelRetire(ops[o], k)]
    BY <1>3 DEF RetirerRappel
  <2>2. Suite(ops[o], RappelRetire(ops[o], k)) /\ Achevee(RappelRetire(ops[o], k))
    BY <1>1, <1>2, Suites, FormeFond
  <2>3. /\ perturbes' = perturbes /\ uuids' = uuids /\ horloge' = horloge
        /\ rdvs' = rdvs
    BY <1>3 DEF RetirerRappel
  <2> QED BY <2>1, <2>2, <2>3, InvAchevee DEF Existe
<1>4. CASE AjouterRappel(o)
  <2>1. PICK k \in ops[o].ajouter : ops' = [ops EXCEPT ![o] = RappelAjoute(ops[o], k)]
    BY <1>4 DEF AjouterRappel
  <2>2. Suite(ops[o], RappelAjoute(ops[o], k)) /\ Achevee(RappelAjoute(ops[o], k))
    BY <1>1, <1>2, Suites, FormeFond
  <2>3. /\ perturbes' = perturbes /\ uuids' = uuids /\ horloge' = horloge
        /\ rdvs' = rdvs
    BY <1>4 DEF AjouterRappel
  <2> QED BY <2>1, <2>2, <2>3, InvAchevee DEF Existe
<1>5. CASE EnvoyerInvitation(o)
  <2>1. /\ ops[o].etape = "fond"
        /\ ops' = [ops EXCEPT ![o] = InvitationEnvoyee(ops[o])]
        /\ perturbes' = perturbes /\ uuids' = uuids /\ horloge' = horloge
    BY <1>5 DEF EnvoyerInvitation
  <2>2. PICK r \in ops[o].touches :
          rdvs' = IncrementerIcs(r) \/ rdvs' = rdvs
    BY <1>5 DEF EnvoyerInvitation
  <2>3. r \in Rdv
    BY <1>1, OperationType
  <2>4. /\ \A s \in Rdv \ ops[o].touches : rdvs'[s] = rdvs[s]
        /\ \A s \in Rdv : Existe(s)' => Existe(s)
    BY <2>2, <2>3, IcsNeutre DEF Existe
  <2>5. /\ Suite(ops[o], InvitationEnvoyee(ops[o]))
        /\ Achevee(InvitationEnvoyee(ops[o]))
    BY <1>1, <2>1, Suites, FormeFond
  <2> QED BY <2>1, <2>4, <2>5, InvAchevee
<1>6. CASE EchecRedis(o)
  <2>1. /\ ops' = [ops EXCEPT ![o] = PlanificationAbandonnee(ops[o])]
        /\ ops[o].etape = "fond"
        /\ perturbes \subseteq perturbes' /\ uuids' = uuids /\ horloge' = horloge
        /\ rdvs' = rdvs
    BY <1>2, <1>6 DEF EchecRedis
  <2>2. /\ Suite(ops[o], PlanificationAbandonnee(ops[o]))
        /\ Achevee(PlanificationAbandonnee(ops[o]))
    BY <1>1, <2>1, Suites, FormeFond
  <2> QED BY <2>1, <2>2, InvAchevee DEF Existe
<1>7. CASE Abandon(o)
  <2>1. /\ ops' = [ops EXCEPT ![o] = Libre]
        /\ perturbes \subseteq perturbes' /\ uuids' = uuids /\ horloge' = horloge
        /\ rdvs' = rdvs
    BY <1>7 DEF Abandon
  <2>2. Suite(ops[o], Libre) /\ Achevee(Libre)
    BY FormeLibre DEF Suite, Achevee, Libre
  <2> QED BY <2>1, <2>2, InvAchevee DEF Existe
<1> QED BY <1>3, <1>4, <1>5, <1>6, <1>7

(* A step that leaves the commands and the rows alone.                      *)
LEMMA InvStable ==
  ASSUME InvAgenda, UNCHANGED <<rdvs, uuids, ops, horloge>>,
         perturbes \subseteq perturbes'
  PROVE  InvAgenda'
<1>1. Structure'
  BY DEF InvAgenda, Structure
<1>2. Identites'
  BY IdentitesStable DEF InvAgenda, Existe
<1>3. \A c, e : Justifiee(c, e)' <=> Justifiee(c, e)
  BY DEF Justifiee, CloturePermise
<1>4. \A p, s : IsoleDe(p, s) => IsoleDe(p, s)'
  BY <1>3 DEF IsoleDe, Existe
<1>5. Isolation'
  BY <1>4 DEF InvAgenda, Isolation
<1> QED BY <1>1, <1>2, <1>5 DEF InvAgenda

(* No command in flight is undisturbed when the day ends.                   *)
LEMMA InvAvancer ==
  ASSUME TypeOK, InvAgenda, Avancer
  PROVE  InvAgenda'
<1>1. /\ UNCHANGED <<rdvs, uuids, ops>>
      /\ perturbes' = perturbes \cup {r \in Rdv : \E o \in Ops : r \in ops[o].touches}
  BY DEF Avancer
<1>2. Structure'
  BY <1>1 DEF InvAgenda, Structure
<1>3. Identites'
  BY <1>1, IdentitesStable DEF InvAgenda, Existe
<1>4. Isolation'
  BY <1>1, OperationType DEF Isolation
<1> QED BY <1>2, <1>3, <1>4 DEF InvAgenda

LEMMA InvInit == Init => InvAgenda
BY FormeLibre DEF Init, InvAgenda, Structure, Isolation, Identites, Existe

LEMMA InvPas ==
  ASSUME TypeOK, InvAgenda, [Next]_vars
  PROVE  InvAgenda'
<1>1. CASE UNCHANGED vars
  BY <1>1, InvStable DEF vars
<1>2. ASSUME NEW o \in Ops, Commande(o) PROVE InvAgenda'
  BY <1>2, InvDebuts, InvSauver, InvIcsSuppression, InvDetruire,
     InvDetruireAssociations, InvFond DEF Commande
<1>3. ASSUME NEW w \in Workers, Executer(w) PROVE InvAgenda'
  <2>1. UNCHANGED <<rdvs, uuids, ops, horloge>>
    BY <1>3 DEF Executer, PrendreJob, LireRendezVous, EnvoyerRappel, ArretWorker
  <2>2. perturbes \subseteq perturbes'
    BY <1>3 DEF Executer, PrendreJob, LireRendezVous, EnvoyerRappel, ArretWorker
  <2> QED BY <2>1, <2>2, InvStable
<1>4. CASE Avancer
  BY <1>4, InvAvancer
<1> QED BY <1>1, <1>2, <1>3, <1>4 DEF Next

(* On an undisturbed appointment one command works at a time, from the row  *)
(* as it is, and the rows are those of appointments that were created.      *)
THEOREM InvAgendaToujours == Spec => []InvAgenda
<1> QED BY InvInit, InvPas, Typage, PTL DEF Spec

-----------------------------------------------------------------------------
(* The commands implement those of Agenda                                   *)

LEMMA AgendaLigne ==
  \A s \in Rdv :
    agendaDesLignes[s] = IF Existe(s) THEN EntreeAgenda(rdvs[s]) ELSE Absent
BY DEF agendaDesLignes

LEMMA EntreeType ==
  ASSUME NEW ligne \in Ligne
  PROVE  /\ EntreeAgenda(ligne) \in A!Entree
         /\ EntreeAgenda(ligne) # Absent
<1>1. EntreeAgenda(ligne) \in A!Entree
  BY DEF EntreeAgenda, Ligne, A!Entree
<1> QED BY <1>1, AbsentAssumption

(* What the agenda shows of an appointment does not change.                 *)
Inchange(s) ==
  /\ Existe(s)' <=> Existe(s)
  /\ Existe(s) => EntreeAgenda(rdvs'[s]) = EntreeAgenda(rdvs[s])
  /\ s \in supprimesDesLignes' <=> s \in supprimesDesLignes

LEMMA AgendaPerturbe ==
  ASSUME TypeOK, TypeOK', perturbes \subseteq perturbes',
         horloge' \in {horloge, horloge + 1},
         \A s \in Rdv \ perturbes' : Inchange(s)
  PROVE  A!Next
<1>1. \A s \in Rdv : agendaDesLignes'[s] =
                       IF Existe(s)' THEN EntreeAgenda(rdvs'[s]) ELSE Absent
  BY AgendaLigne DEF agendaDesLignes
<1>2. \A s \in Rdv \ perturbes' :
        /\ agendaDesLignes'[s] = agendaDesLignes[s]
        /\ s \in supprimesDesLignes' <=> s \in supprimesDesLignes
  BY <1>1, AgendaLigne DEF Inchange
<1>3. perturbes' \subseteq Rdv
  BY DEF TypeOK
<1>4. A!Perturber
  BY <1>2, <1>3 DEF A!Perturber
<1> QED BY <1>4 DEF A!Next

LEMMA AgendaCommande ==
  ASSUME NEW r \in Rdv, perturbes' = perturbes, horloge' = horloge,
         \/ \E entree \in A!Entree : A!Creer(r, entree) \/ A!Modifier(r, entree)
         \/ \E js \in SUBSET Jeunes : A!Clore(r, js) \/ A!Desinscrire(r, js)
         \/ A!Supprimer(r)
  PROVE  A!Next
<1>1. A!Commande(r)
  BY DEF A!Commande
<1> QED BY <1>1 DEF A!Next

LEMMA AttenteSuite ==
  ASSUME TypeOK, Structure, NEW o \in Ops, NEW q, Suite(ops[o], q),
         ops' = [ops EXCEPT ![o] = q], ops[o].etape # "ecriture"
  PROVE  \A s : CreationEnAttente(s)' <=> CreationEnAttente(s)
<1>1. ops[o].ecritures = {}
  BY DEF Structure, Forme
<1>2. q.ecritures = {}
  BY <1>1 DEF Suite, Libre
<1> QED BY <1>1, <1>2 DEF TypeOK, CreationEnAttente

LEMMA AttenteDebut ==
  ASSUME TypeOK, NEW o \in Ops, NEW op, Demarrer(o, op)
  PROVE  \A s : CreationEnAttente(s)' <=>
                  \/ CreationEnAttente(s)
                  \/ op.cmd = "creer" /\ \E e \in op.ecritures : e.rdv = s
<1>1. ops' = [ops EXCEPT ![o] = op] /\ ops[o].ecritures = {}
  BY FormeLibre DEF Demarrer
<1> QED BY <1>1 DEF TypeOK, CreationEnAttente

(* The other rows a command has to save still are to be saved.              *)
LEMMA Restantes ==
  ASSUME NEW op \in Operation, NEW e \in op.ecritures
  PROVE  /\ ApresEcriture(op, e).ecritures = op.ecritures \ {e}
         /\ op.ecritures # {e} => ApresEcriture(op, e).cmd = op.cmd
<1>1. CASE op.ecritures # {e}
  BY <1>1 DEF ApresEcriture, Operation
<1>2. CASE op.ecritures = {e}
  <2>1. /\ Suite(op, ApresEcriture(op, e))
        /\ e \notin ApresEcriture(op, e).ecritures
    BY Suites
  <2> QED BY <1>2, <2>1, FormeLibre DEF Suite
<1> QED BY <1>1, <1>2

LEMMA AttenteSauver ==
  ASSUME TypeOK, Structure, NEW o \in Ops, NEW e \in ops[o].ecritures,
         ops' = [ops EXCEPT ![o] = ApresEcriture(ops[o], e)]
  PROVE  /\ \A s : s # e.rdv => (CreationEnAttente(s)' <=> CreationEnAttente(s))
         /\ (\A p \in Ops : e.rdv \in ops[p].touches => p = o)
              => ~CreationEnAttente(e.rdv)'
<1>0. ops[o] \in Operation /\ Forme(ops[o])
  BY OperationType DEF Structure
<1> DEFINE q == ApresEcriture(ops[o], e)
<1>1. /\ q.ecritures = ops[o].ecritures \ {e}
      /\ ops[o].ecritures # {e} => q.cmd = ops[o].cmd
  BY <1>0, Restantes
<1>2. ops' = [ops EXCEPT ![o] = q]
  OBVIOUS
<1> HIDE DEF q
<1>3. \A s : s # e.rdv =>
        ((q.cmd = "creer" /\ \E f \in q.ecritures : f.rdv = s) <=>
         (ops[o].cmd = "creer" /\ \E f \in ops[o].ecritures : f.rdv = s))
  BY <1>1
<1>4. \A s : s # e.rdv => (CreationEnAttente(s)' <=> CreationEnAttente(s))
  BY <1>2, <1>3 DEF TypeOK, CreationEnAttente
<1>5. ASSUME \A p \in Ops : e.rdv \in ops[p].touches => p = o
      PROVE  ~CreationEnAttente(e.rdv)'
  <2>1. \A f \in q.ecritures : f.rdv # e.rdv
    BY <1>0, <1>1 DEF Forme
  <2>2. \A p \in Ops \ {o} : \A f \in ops[p].ecritures : f.rdv # e.rdv
    BY <1>5 DEF Structure, Forme
  <2> QED BY <1>2, <2>1, <2>2 DEF TypeOK, CreationEnAttente
<1> QED BY <1>4, <1>5

LEMMA SimulationDebuts ==
  ASSUME TypeOK, TypeOK', InvAgenda, NEW o \in Ops,
         Creer(o) \/ Modifier(o) \/ Clore(o) \/ Supprimer(o) \/ Desinscrire(o)
  PROVE  A!Next
<1> DEFINE Neuve(r, op) == /\ op.cmd = "creer"
                           /\ uuids' = uuids \cup {r}
                           /\ \A e \in op.ecritures : e.rdv = r
                           /\ \E e \in op.ecritures : e.rdv = r
                           /\ r \notin uuids
<1>1. ASSUME NEW op, Demarrer(o, op),
             \/ uuids' = uuids /\ op.cmd # "creer"
             \/ \E r \in Rdv : Neuve(r, op)
      PROVE  A!Next
  <2>1. /\ rdvs' = rdvs /\ horloge' = horloge /\ perturbes \subseteq perturbes'
        /\ \A s : Existe(s)' <=> Existe(s)
    BY <1>1 DEF Demarrer, Existe
  <2>2. \A s : CreationEnAttente(s)' <=>
                  \/ CreationEnAttente(s)
                  \/ op.cmd = "creer" /\ \E e \in op.ecritures : e.rdv = s
    BY <1>1, AttenteDebut
  <2>3. supprimesDesLignes' = supprimesDesLignes
    BY <1>1, <2>1, <2>2 DEF supprimesDesLignes
  <2>4. \A s \in Rdv : Inchange(s)
    BY <2>1, <2>3 DEF Inchange
  <2> QED BY <2>1, <2>4, AgendaPerturbe DEF TypeOK
<1>2. CASE Creer(o)
  <2>1a. PICK r \in Rdv \ uuids, d \in Dates, js \in SUBSET Jeunes, l \in Limites : \E op :
           /\ uuids' = uuids \cup {r}
           /\ Demarrer(o, op)
           /\ Nouvelle(op, "creer", {r},
                       {[rdv |-> r, lu |-> Absent, ligne |-> NouvelleLigne(d, js, l)]})
    BY <1>2, DebutCreer
  <2>1. PICK op :
           /\ uuids' = uuids \cup {r}
           /\ Demarrer(o, op)
           /\ Nouvelle(op, "creer", {r},
                       {[rdv |-> r, lu |-> Absent, ligne |-> NouvelleLigne(d, js, l)]})
    BY <2>1a
  <2>2. Neuve(r, op)
    BY <2>1 DEF Nouvelle
  <2> HIDE DEF Neuve
  <2> QED BY <1>1, <2>1, <2>2
<1>3. CASE Modifier(o)
  BY <1>1, <1>3, DebutModifier DEF Nouvelle
<1>4. CASE Clore(o)
  <2>1. \E op : uuids' = uuids /\ Demarrer(o, op) /\ op.cmd # "creer"
    BY <1>4, DebutClore DEF Nouvelle
  <2> QED BY <1>1, <2>1
<1>5. CASE Supprimer(o)
  BY <1>1, <1>5, DebutSupprimer DEF Nouvelle
<1>6. CASE Desinscrire(o)
  <2>1. \E op : uuids' = uuids /\ Demarrer(o, op) /\ op.cmd # "creer"
    BY <1>6, DebutDesinscrire DEF Nouvelle
  <2> QED BY <1>1, <2>1
<1> QED BY <1>2, <1>3, <1>4, <1>5, <1>6

(* The cardinality is the same in both modules.                             *)
LEMMA MemeCardinal == \A S : A!Cardinality(S) = Cardinality(S)
BY DEF Cardinality, A!Cardinality, IsFiniteSet, A!IsFiniteSet

LEMMA EntreeExcept ==
  ASSUME NEW x \in A!Entree, NEW js \in SUBSET Jeunes
  PROVE  /\ [x EXCEPT !.clos = TRUE, !.presents = js] =
              [date |-> x.date, jeunes |-> x.jeunes, limite |-> x.limite,
               clos |-> TRUE, presents |-> js]
         /\ [x EXCEPT !.jeunes = @ \ js, !.presents = @ \ js] =
              [date |-> x.date, jeunes |-> x.jeunes \ js, limite |-> x.limite,
               clos |-> x.clos, presents |-> x.presents \ js]
<1>1. \A y, z \in A!Entree :
        /\ y.date = z.date /\ y.jeunes = z.jeunes /\ y.limite = z.limite
        /\ y.clos = z.clos /\ y.presents = z.presents
        => y = z
  BY DEF A!Entree
<1>2. PICK y, z : y = [x EXCEPT !.clos = TRUE, !.presents = js]
                  /\ z = [x EXCEPT !.jeunes = @ \ js, !.presents = @ \ js]
  OBVIOUS
<1>3. /\ y \in A!Entree /\ y.date = x.date /\ y.jeunes = x.jeunes
      /\ y.limite = x.limite /\ y.clos = TRUE /\ y.presents = js
  BY <1>2 DEF A!Entree
<1>4. /\ z \in A!Entree /\ z.date = x.date /\ z.jeunes = x.jeunes \ js
      /\ z.limite = x.limite /\ z.clos = x.clos /\ z.presents = x.presents \ js
  BY <1>2 DEF A!Entree
<1>5. PICK u, v :
        /\ u = [date |-> x.date, jeunes |-> x.jeunes, limite |-> x.limite,
                clos |-> TRUE, presents |-> js]
        /\ v = [date |-> x.date, jeunes |-> x.jeunes \ js, limite |-> x.limite,
                clos |-> x.clos, presents |-> x.presents \ js]
  OBVIOUS
<1>6. /\ u \in A!Entree /\ u.date = x.date /\ u.jeunes = x.jeunes
      /\ u.limite = x.limite /\ u.clos = TRUE /\ u.presents = js
  BY <1>5 DEF A!Entree
<1>7. /\ v \in A!Entree /\ v.date = x.date /\ v.jeunes = x.jeunes \ js
      /\ v.limite = x.limite /\ v.clos = x.clos /\ v.presents = x.presents \ js
  BY <1>5 DEF A!Entree
<1>8. y.clos = u.clos /\ z.clos = v.clos
  BY <1>3, <1>4, <1>6, <1>7
<1>9. y = u
  BY <1>1, <1>3, <1>6, <1>8
<1>10. z = v
  BY <1>1, <1>4, <1>7, <1>8
<1> QED BY <1>2, <1>5, <1>9, <1>10

LEMMA EntreeClose ==
  ASSUME NEW ligne \in Ligne, NEW js \in SUBSET Jeunes
  PROVE  EntreeAgenda(LigneClose(ligne, js)) =
           [EntreeAgenda(ligne) EXCEPT !.clos = TRUE, !.presents = js]
<1>1. /\ LigneClose(ligne, js).date = ligne.date
      /\ LigneClose(ligne, js).jeunes = ligne.jeunes
      /\ LigneClose(ligne, js).limite = ligne.limite
      /\ LigneClose(ligne, js).clos = TRUE
      /\ LigneClose(ligne, js).presents = js
  BY DEF LigneClose, Ligne
<1>2. EntreeAgenda(LigneClose(ligne, js)) =
        [date |-> ligne.date, jeunes |-> ligne.jeunes, limite |-> ligne.limite,
         clos |-> TRUE, presents |-> js]
  BY <1>1 DEF EntreeAgenda
<1>3. PICK x : x = EntreeAgenda(ligne)
  OBVIOUS
<1>4. x \in A!Entree /\ x.date = ligne.date /\ x.jeunes = ligne.jeunes
      /\ x.limite = ligne.limite
  BY <1>3, EntreeType DEF EntreeAgenda
<1>5. [x EXCEPT !.clos = TRUE, !.presents = js] =
        [date |-> x.date, jeunes |-> x.jeunes, limite |-> x.limite,
         clos |-> TRUE, presents |-> js]
  BY <1>4, EntreeExcept
<1> QED BY <1>2, <1>3, <1>4, <1>5, Zenon

LEMMA EntreeSans ==
  ASSUME NEW ligne \in Ligne, NEW js \in SUBSET Jeunes
  PROVE  EntreeAgenda(LigneSans(ligne, js)) =
           [EntreeAgenda(ligne) EXCEPT !.jeunes = @ \ js, !.presents = @ \ js]
<1>1. /\ LigneSans(ligne, js).date = ligne.date
      /\ LigneSans(ligne, js).jeunes = ligne.jeunes \ js
      /\ LigneSans(ligne, js).limite = ligne.limite
      /\ LigneSans(ligne, js).clos = ligne.clos
      /\ LigneSans(ligne, js).presents = ligne.presents \ js
  BY DEF LigneSans, Ligne
<1>2. EntreeAgenda(LigneSans(ligne, js)) =
        [date |-> ligne.date, jeunes |-> ligne.jeunes \ js,
         limite |-> ligne.limite, clos |-> ligne.clos,
         presents |-> ligne.presents \ js]
  BY <1>1 DEF EntreeAgenda
<1>3. PICK x : x = EntreeAgenda(ligne)
  OBVIOUS
<1>4. x \in A!Entree /\ x.date = ligne.date /\ x.jeunes = ligne.jeunes
      /\ x.limite = ligne.limite /\ x.clos = ligne.clos
      /\ x.presents = ligne.presents
  BY <1>3, EntreeType DEF EntreeAgenda
<1>5. [x EXCEPT !.jeunes = @ \ js, !.presents = @ \ js] =
        [date |-> x.date, jeunes |-> x.jeunes \ js, limite |-> x.limite,
         clos |-> x.clos, presents |-> x.presents \ js]
  BY <1>4, EntreeExcept
<1> QED BY <1>2, <1>3, <1>4, <1>5, Zenon

(* The save of a command, on an appointment it works on alone, is the       *)
(* command of the agenda.                                                   *)
LEMMA SauvegardeJustifiee ==
  ASSUME TypeOK, NEW cmd, NEW e \in Ecriture, Justifiee(cmd, e),
         e.lu = rdvs[e.rdv],
         agendaDesLignes' = [agendaDesLignes EXCEPT ![e.rdv] = EntreeAgenda(e.ligne)],
         supprimesDesLignes' = supprimesDesLignes,
         e.rdv \notin supprimesDesLignes,
         perturbes' = perturbes, horloge' = horloge
  PROVE  A!Next
<1> DEFINE r == e.rdv
<1>0. PICK entree, lue : entree = EntreeAgenda(e.ligne) /\ lue = EntreeAgenda(e.lu)
  OBVIOUS
<1>1. r \in Rdv /\ e.ligne \in Ligne /\ e.lu \in Ligne \cup {Absent}
  BY DEF Ecriture
<1>2. entree \in A!Entree /\ entree # Absent
  BY <1>0, <1>1, EntreeType
<1>3. e.lu = Absent => agendaDesLignes[r] = Absent
  BY <1>1, AgendaLigne DEF Existe
<1>4. e.lu # Absent => /\ agendaDesLignes[r] = lue
                       /\ e.lu \in Ligne
                       /\ lue \in A!Entree
                       /\ lue # Absent
  BY <1>0, <1>1, AgendaLigne, EntreeType DEF Existe
<1>5. /\ entree.jeunes = e.ligne.jeunes /\ entree.limite = e.ligne.limite
      /\ entree.clos = e.ligne.clos /\ entree.presents = e.ligne.presents
      /\ lue.clos = e.lu.clos /\ lue.date = e.lu.date /\ lue.jeunes = e.lu.jeunes
  BY <1>0 DEF EntreeAgenda
<1>6. CASE e.lu = Absent /\ \E d \in Dates, js \in SUBSET Jeunes, l \in Limites :
             CreationPermise(r, js, l) /\ e.ligne = NouvelleLigne(d, js, l)
  <2>1. /\ e.ligne.presents = {} /\ ~e.ligne.clos
        /\ CreationPermise(r, e.ligne.jeunes, e.ligne.limite)
    BY <1>6 DEF NouvelleLigne
  <2>2. A!Valide(r, entree) /\ ~entree.clos
    BY <1>5, <2>1, MemeCardinal DEF CreationPermise, A!Valide
  <2>3. A!Creer(r, entree)
    BY <1>0, <1>3, <1>6, <2>2 DEF A!Creer
  <2> QED BY <1>1, <1>2, <2>3, AgendaCommande
<1>7. CASE e.lu # Absent /\ \E d \in Dates, js \in SUBSET Jeunes, l \in Limites :
             /\ ModificationPermise(r, e.lu, js, l)
             /\ e.ligne = LigneModifiee(e.lu, d, js, l)
  <2>1. /\ e.ligne.presents = {} /\ e.ligne.clos = e.lu.clos
        /\ ModificationPermise(r, e.lu, e.ligne.jeunes, e.ligne.limite)
    BY <1>4, <1>7 DEF LigneModifiee, Ligne
  <2>2. /\ A!Valide(r, entree) /\ entree.clos = lue.clos
        /\ ~(r \in AC /\ lue.clos)
    BY <1>5, <2>1, MemeCardinal DEF ModificationPermise, A!Valide
  <2>3. A!Modifier(r, entree)
    BY <1>0, <1>4, <1>7, <2>2 DEF A!Modifier
  <2> QED BY <1>1, <1>2, <2>3, AgendaCommande
<1>8. CASE e.lu # Absent /\ CloturePermise(e.lu)
           /\ \E js \in SUBSET e.lu.jeunes : e.ligne = LigneClose(e.lu, js)
  <2>1. PICK js \in SUBSET e.lu.jeunes : e.ligne = LigneClose(e.lu, js)
    BY <1>8
  <2>2. js \in SUBSET Jeunes
    BY <1>4, <1>8 DEF Ligne
  <2>3. entree = [lue EXCEPT !.clos = TRUE, !.presents = js]
    BY <1>0, <1>4, <1>8, <2>1, <2>2, EntreeClose
  <2>4. ~lue.clos /\ lue.date <= horloge /\ js \subseteq lue.jeunes
    BY <1>4, <1>5, <1>8, ConstantsAssumption DEF CloturePermise, TypeOK, Ligne
  <2>5. A!Clore(r, js)
    BY <1>0, <1>4, <1>8, <2>3, <2>4 DEF A!Clore, agendaDesLignes
  <2> QED BY <1>1, <2>2, <2>5, AgendaCommande
<1>9. CASE e.lu # Absent /\ r \in AC
           /\ \E js \in SUBSET Jeunes : e.ligne = LigneSans(e.lu, js)
  <2>1. PICK js \in SUBSET Jeunes : e.ligne = LigneSans(e.lu, js)
    BY <1>9
  <2>2. entree = [lue EXCEPT !.jeunes = @ \ js, !.presents = @ \ js]
    BY <1>0, <1>4, <1>9, <2>1, EntreeSans
  <2>3. A!Desinscrire(r, js)
    BY <1>0, <1>4, <1>9, <2>2 DEF A!Desinscrire, agendaDesLignes
  <2> QED BY <1>1, <2>1, <2>3, AgendaCommande
<1> QED BY <1>6, <1>7, <1>8, <1>9 DEF Justifiee

LEMMA SimulationSauver ==
  ASSUME TypeOK, TypeOK', InvAgenda, NEW o \in Ops, Sauver(o)
  PROVE  A!Next
<1>1. PICK e \in ops[o].ecritures :
        /\ rdvs' = [rdvs EXCEPT ![e.rdv] = e.ligne]
        /\ ops' = [ops EXCEPT ![o] = ApresEcriture(ops[o], e)]
  BY DEF Sauver
<1>2. /\ e \in Ecriture /\ e.rdv \in Rdv /\ e.ligne \in Ligne /\ e.ligne # Absent
      /\ e.rdv \in ops[o].touches
  BY OperationType, ConstantsAssumption DEF Ecriture, InvAgenda, Structure, Forme
<1>3. /\ perturbes' = perturbes /\ uuids' = uuids /\ horloge' = horloge
  BY DEF Sauver
<1>4. \A s \in Rdv \ {e.rdv} : /\ rdvs'[s] = rdvs[s]
                               /\ Existe(s)' <=> Existe(s)
  BY <1>1 DEF TypeOK, Existe
<1>5. rdvs'[e.rdv] = e.ligne /\ Existe(e.rdv)'
  BY <1>1, <1>2 DEF TypeOK, Existe
<1>6. \A s : s # e.rdv => (CreationEnAttente(s)' <=> CreationEnAttente(s))
  BY <1>1, AttenteSauver DEF InvAgenda
<1>7. \A s \in Rdv \ {e.rdv} : s \in supprimesDesLignes' <=> s \in supprimesDesLignes
  BY <1>3, <1>4, <1>6 DEF supprimesDesLignes
<1>8. CASE e.rdv \in perturbes
  <2>1. \A s \in Rdv \ perturbes : Inchange(s)
    BY <1>4, <1>7, <1>8 DEF Inchange
  <2> QED BY <1>3, <2>1, AgendaPerturbe DEF TypeOK
<1>9. CASE e.rdv \notin perturbes
  <2>1. e.lu = rdvs[e.rdv] /\ Justifiee(ops[o].cmd, e)
    BY <1>2, <1>9 DEF InvAgenda, Isolation, IsoleDe
  <2>2. agendaDesLignes' = [agendaDesLignes EXCEPT ![e.rdv] = EntreeAgenda(e.ligne)]
    BY <1>2, <1>4, <1>5 DEF agendaDesLignes
  <2>3. e.rdv \notin supprimesDesLignes /\ e.rdv \notin supprimesDesLignes'
    <3>1. ops[o].cmd = "creer" => CreationEnAttente(e.rdv)
      BY DEF CreationEnAttente
    <3>2. ops[o].cmd # "creer" => Existe(e.rdv)
      BY <2>1 DEF Justifiee, Existe
    <3> QED BY <1>5, <3>1, <3>2 DEF supprimesDesLignes
  <2>4. supprimesDesLignes' = supprimesDesLignes
    <3>1. supprimesDesLignes \subseteq Rdv /\ supprimesDesLignes' \subseteq Rdv
      BY <1>3 DEF supprimesDesLignes, TypeOK
    <3> QED BY <1>7, <2>3, <3>1
  <2> QED BY <1>2, <1>3, <2>1, <2>2, <2>3, <2>4, SauvegardeJustifiee
<1> QED BY <1>8, <1>9

LEMMA SimulationDetruire ==
  ASSUME TypeOK, TypeOK', InvAgenda, NEW o \in Ops, Detruire(o)
  PROVE  A!Next
<1>1. PICK r \in ops[o].touches : rdvs' = [rdvs EXCEPT ![r] = Absent]
  BY DEF Detruire
<1>2. /\ ops[o] \in Operation /\ Forme(ops[o]) /\ ops[o].etape = "destruction"
      /\ r \in Rdv
      /\ ops' = [ops EXCEPT ![o] = ApresDestruction(ops[o])]
      /\ Suite(ops[o], ApresDestruction(ops[o]))
  BY OperationType, Suites DEF InvAgenda, Structure, Detruire
<1>3. /\ perturbes' = perturbes /\ uuids' = uuids /\ horloge' = horloge
  BY DEF Detruire
<1>4. /\ \A s \in Rdv \ {r} : rdvs'[s] = rdvs[s] /\ (Existe(s)' <=> Existe(s))
      /\ rdvs'[r] = Absent /\ ~Existe(r)'
  BY <1>1, <1>2 DEF TypeOK, Existe
<1>5. \A s : CreationEnAttente(s)' <=> CreationEnAttente(s)
  BY <1>2, AttenteSuite DEF InvAgenda
<1>6. \A s \in Rdv \ {r} : s \in supprimesDesLignes' <=> s \in supprimesDesLignes
  BY <1>3, <1>4, <1>5 DEF supprimesDesLignes
<1>7. CASE r \in perturbes
  <2>1. \A s \in Rdv \ perturbes : Inchange(s)
    BY <1>4, <1>6, <1>7 DEF Inchange
  <2> QED BY <1>3, <2>1, AgendaPerturbe DEF TypeOK
<1>8. CASE r \notin perturbes
  <2>1. /\ Existe(r) /\ SuppressionPermise(r, rdvs[r])
        /\ \A p \in Ops : r \in ops[p].touches => p = o
    BY <1>2, <1>8 DEF InvAgenda, Isolation, IsoleDe
  <2>2. r \in uuids
    BY <1>2, <1>8, <2>1 DEF InvAgenda, Identites
  <2>3. ~CreationEnAttente(r)
    <3>1. ASSUME NEW p \in Ops, NEW e \in ops[p].ecritures, e.rdv = r PROVE FALSE
      <4>1. p = o
        BY <2>1, <3>1 DEF InvAgenda, Structure, Forme
      <4> QED BY <1>2, <3>1, <4>1 DEF Forme
    <3> QED BY <3>1 DEF CreationEnAttente
  <2>4. r \in supprimesDesLignes'
    BY <1>3, <1>4, <1>5, <2>2, <2>3 DEF supprimesDesLignes
  <2>5. supprimesDesLignes' = supprimesDesLignes \cup {r}
    <3>1. supprimesDesLignes \subseteq Rdv /\ supprimesDesLignes' \subseteq Rdv
      BY <1>3 DEF supprimesDesLignes, TypeOK
    <3> QED BY <1>6, <2>4, <3>1
  <2>6. agendaDesLignes' = [agendaDesLignes EXCEPT ![r] = Absent]
    BY <1>2, <1>4 DEF agendaDesLignes
  <2>7. PICK x : x = EntreeAgenda(rdvs[r])
    OBVIOUS
  <2>8. agendaDesLignes[r] = x /\ x # Absent /\ x.clos = rdvs[r].clos
    <3>1. rdvs[r] \in Ligne
      BY <1>2, <2>1 DEF TypeOK, Existe
    <3> QED BY <1>2, <2>1, <2>7, <3>1, AgendaLigne, EntreeType DEF EntreeAgenda
  <2>9. A!Supprimer(r)
    BY <2>1, <2>5, <2>6, <2>8 DEF A!Supprimer, SuppressionPermise
  <2> QED BY <1>2, <1>3, <2>9, AgendaCommande
<1> QED BY <1>7, <1>8

(* The other steps change nothing that the agenda shows of an undisturbed   *)
(* appointment.                                                             *)
LEMMA SimulationMuette ==
  ASSUME TypeOK, TypeOK', InvAgenda, NEW o \in Ops, NEW q, Suite(ops[o], q),
         ops' = [ops EXCEPT ![o] = q],
         ops[o].etape # "ecriture" \/ ops[o].touches \subseteq perturbes',
         uuids' = uuids, perturbes \subseteq perturbes', horloge' = horloge,
         \A s \in Rdv \ perturbes' :
           /\ Existe(s)' <=> Existe(s)
           /\ Existe(s) => EntreeAgenda(rdvs'[s]) = EntreeAgenda(rdvs[s])
  PROVE  A!Next
<1>1. \A s \in Rdv \ perturbes' : CreationEnAttente(s)' <=> CreationEnAttente(s)
  <2>1. CASE ops[o].etape # "ecriture"
    BY <2>1, AttenteSuite DEF InvAgenda
  <2>2. CASE ops[o].touches \subseteq perturbes'
    <3>1. \A e \in ops[o].ecritures : e.rdv \in perturbes'
      BY <2>2 DEF InvAgenda, Structure, Forme
    <3>2. \A e \in q.ecritures : e.rdv \in perturbes'
      BY <3>1 DEF Suite, Libre
    <3> SUFFICES ASSUME NEW s \in Rdv \ perturbes'
                 PROVE  CreationEnAttente(s)' <=> CreationEnAttente(s)
      OBVIOUS
    <3>3. /\ ops'[o] = q /\ \A p \in Ops \ {o} : ops'[p] = ops[p]
      BY DEF TypeOK
    <3>4. /\ ~\E e \in ops[o].ecritures : e.rdv = s
          /\ ~\E e \in q.ecritures : e.rdv = s
      BY <3>1, <3>2
    <3> QED BY <3>3, <3>4 DEF CreationEnAttente
  <2> QED BY <2>1, <2>2
<1>2. \A s \in Rdv \ perturbes' : s \in supprimesDesLignes' <=> s \in supprimesDesLignes
  BY <1>1 DEF supprimesDesLignes
<1>3. \A s \in Rdv \ perturbes' : Inchange(s)
  BY <1>2 DEF Inchange
<1> QED BY <1>3, AgendaPerturbe DEF TypeOK

LEMMA SimulationSilences ==
  ASSUME TypeOK, TypeOK', InvAgenda, NEW o \in Ops,
         \/ IcsSuppression(o) \/ DetruireAssociations(o) \/ RetirerRappel(o)
         \/ AjouterRappel(o) \/ EnvoyerInvitation(o) \/ EchecRedis(o) \/ Abandon(o)
  PROVE  A!Next
<1>1. ops[o] \in Operation /\ Forme(ops[o])
  BY OperationType DEF InvAgenda, Structure
<1>2. PICK q : Suite(ops[o], q) /\ ops' = [ops EXCEPT ![o] = q]
  BY <1>1, SuiteDePas
<1>3. /\ uuids' = uuids /\ horloge' = horloge /\ perturbes \subseteq perturbes'
  BY DEF IcsSuppression, DetruireAssociations, RetirerRappel, AjouterRappel,
         EnvoyerInvitation, EchecRedis, Abandon
<1>4. ops[o].etape # "ecriture" \/ ops[o].touches \subseteq perturbes'
  <2>1. ops[o].retirer \cup ops[o].ajouter # {} => ops[o].etape = "fond"
    BY <1>1 DEF Forme
  <2> QED BY <2>1 DEF IcsSuppression, DetruireAssociations, RetirerRappel,
                AjouterRappel, EnvoyerInvitation, EchecRedis, Abandon
<1>5. \A s \in Rdv \ perturbes' :
        /\ Existe(s)' <=> Existe(s)
        /\ Existe(s) => EntreeAgenda(rdvs'[s]) = EntreeAgenda(rdvs[s])
  <2>1. CASE rdvs' = rdvs
    BY <2>1 DEF Existe
  <2>2. CASE \E r \in ops[o].touches : rdvs' = IncrementerIcs(r)
    <3>1. PICK r \in Rdv : rdvs' = IncrementerIcs(r)
      BY <1>1, <2>2, OperationType
    <3>2. \A s \in Rdv \ {r} : rdvs'[s] = rdvs[s]
      BY <3>1, IcsNeutre
    <3>3. /\ \A s \in Rdv : Existe(s)' <=> Existe(s)
          /\ Existe(r) => EntreeAgenda(rdvs'[r]) = EntreeAgenda(rdvs[r])
      BY <3>1, IcsNeutre
    <3> QED BY <3>2, <3>3
  <2>3. CASE DetruireAssociations(o)
    <3>1. PICK r \in ops[o].touches :
            rdvs' = IF Existe(r)
                    THEN [rdvs EXCEPT ![r] = LigneSans(rdvs[r], Jeunes)] ELSE rdvs
      BY <2>3 DEF DetruireAssociations
    <3>2. r \in Rdv /\ ops[o].etape = "associations"
      BY <1>1, <2>3, OperationType DEF DetruireAssociations
    <3>3. r \notin perturbes => ~Existe(r)
      BY <3>2 DEF InvAgenda, Isolation, IsoleDe
    <3>4. \A s \in Rdv \ perturbes' : rdvs'[s] = rdvs[s]
      BY <1>3, <3>1, <3>2, <3>3 DEF TypeOK
    <3> QED BY <3>4 DEF Existe
  <2> QED BY <2>1, <2>2, <2>3 DEF IcsSuppression, RetirerRappel, AjouterRappel,
            EnvoyerInvitation, EchecRedis, Abandon
<1> QED BY <1>2, <1>3, <1>4, <1>5, SimulationMuette

LEMMA SimulationAilleurs ==
  ASSUME TypeOK, TypeOK', Avancer \/ \E w \in Workers : Executer(w)
  PROVE  A!Next
<1>1. /\ UNCHANGED <<rdvs, uuids, ops>> /\ perturbes \subseteq perturbes'
      /\ horloge' \in {horloge, horloge + 1}
  BY DEF Avancer, Executer, PrendreJob, LireRendezVous, EnvoyerRappel, ArretWorker
<1>2. \A s \in Rdv : Inchange(s)
  BY <1>1 DEF Inchange, Existe, supprimesDesLignes, CreationEnAttente
<1> QED BY <1>1, <1>2, AgendaPerturbe DEF TypeOK

LEMMA SimulationPas ==
  ASSUME TypeOK, TypeOK', InvAgenda, [Next]_vars
  PROVE  [A!Next]_(A!vars)
<1>1. CASE UNCHANGED vars
  BY <1>1 DEF vars, A!vars, agendaDesLignes, supprimesDesLignes, Existe,
              CreationEnAttente
<1>2. ASSUME NEW o \in Ops, Commande(o) PROVE A!Next
  BY <1>2, SimulationDebuts, SimulationSauver, SimulationDetruire,
     SimulationSilences DEF Commande
<1>3. CASE Avancer \/ \E w \in Workers : Executer(w)
  BY <1>3, SimulationAilleurs
<1> QED BY <1>1, <1>2, <1>3 DEF Next

LEMMA SimulationInit == Init => A!Init
<1> SUFFICES ASSUME Init PROVE A!Init
  OBVIOUS
<1>1. agendaDesLignes = [r \in Rdv |-> Absent] /\ supprimesDesLignes = {}
  BY DEF Init, agendaDesLignes, supprimesDesLignes, Existe
<1> QED BY <1>1 DEF Init, A!Init

(* The commands implement those of Agenda, each of which is one step, on    *)
(* the appointments whose operations neither overlapped nor failed.         *)
THEOREM Implementation == Spec => ImplementeAgenda
<1> QED BY SimulationInit, SimulationPas, Typage, InvAgendaToujours, PTL
        DEF Spec, ImplementeAgenda, A!Spec

-----------------------------------------------------------------------------
(* What the agenda guarantees of a closed group event.                      *)
LEMMA AgendaGardeLaCloture ==
  ASSUME [A!Next]_(A!vars), NEW r \in AC \ perturbes', AC \subseteq Rdv,
         agendaDesLignes[r] # Absent, agendaDesLignes[r].clos,
         agendaDesLignes[r] \in A!Entree, agendaDesLignes \in [Rdv -> A!Entree \cup {Absent}]
  PROVE  /\ agendaDesLignes'[r] # Absent
         /\ agendaDesLignes'[r].clos
         /\ agendaDesLignes'[r].date = agendaDesLignes[r].date
         /\ agendaDesLignes'[r].jeunes \subseteq agendaDesLignes[r].jeunes
<1> DEFINE agenda == agendaDesLignes
           Garde == /\ agenda'[r] # Absent
                    /\ agenda'[r].clos
                    /\ agenda'[r].date = agenda[r].date
                    /\ agenda'[r].jeunes \subseteq agenda[r].jeunes
<1>1. agenda'[r] = agenda[r] => Garde
  OBVIOUS
<1>2. CASE UNCHANGED A!vars
  BY <1>1, <1>2 DEF A!vars
<1>3. CASE A!Perturber
  BY <1>1, <1>3 DEF A!Perturber
<1>4. ASSUME NEW s \in Rdv, A!Commande(s) PROVE Garde
  <2>1. CASE s # r
    <3>1. agenda'[r] = agenda[r]
      BY <1>4, <2>1 DEF A!Commande, A!Creer, A!Modifier, A!Clore, A!Supprimer,
                        A!Desinscrire
    <3> QED BY <1>1, <3>1
  <2>2. CASE s = r
    <3>1. PICK js \in SUBSET Jeunes : A!Desinscrire(r, js)
      BY <1>4, <2>2 DEF A!Commande, A!Creer, A!Modifier, A!Clore, A!Supprimer
    <3>2. PICK x : x = [agenda[r] EXCEPT !.jeunes = @ \ js, !.presents = @ \ js]
      OBVIOUS
    <3>3. /\ x \in A!Entree /\ x.clos = agenda[r].clos /\ x.date = agenda[r].date
          /\ x.jeunes = agenda[r].jeunes \ js
      BY <3>2 DEF A!Entree
    <3>4. agenda'[r] = x
      BY <3>1, <3>2 DEF A!Desinscrire
    <3> QED BY <3>3, <3>4, AbsentAssumption
  <2> QED BY <2>1, <2>2
<1> QED BY <1>2, <1>3, <1>4 DEF A!Next

(* A closed group event is not deleted, reopened, moved or given a new      *)
(* participant, unless operations overlap on it or fail.                    *)
THEOREM ClotureRespectee == Spec => ClotureDefinitive
<1>1. ASSUME TypeOK, TypeOK', InvAgenda, [Next]_vars, NEW r \in AC \ perturbes',
             Existe(r), rdvs[r].clos
      PROVE  /\ Existe(r)'
             /\ rdvs'[r].clos
             /\ rdvs'[r].date = rdvs[r].date
             /\ rdvs'[r].jeunes \subseteq rdvs[r].jeunes
  <2>0. r \in Rdv
    BY ConstantsAssumption
  <2>1. \A s \in Rdv : /\ agendaDesLignes[s] =
                            IF Existe(s) THEN EntreeAgenda(rdvs[s]) ELSE Absent
                       /\ agendaDesLignes'[s] =
                            IF Existe(s)' THEN EntreeAgenda(rdvs'[s]) ELSE Absent
    BY AgendaLigne DEF agendaDesLignes
  <2>2. /\ \A x : /\ EntreeAgenda(x).date = x.date
                  /\ EntreeAgenda(x).jeunes = x.jeunes
                  /\ EntreeAgenda(x).clos = x.clos
    BY DEF EntreeAgenda
  <2>3. \A s \in Rdv : Existe(s) => /\ EntreeAgenda(rdvs[s]) \in A!Entree
                                    /\ EntreeAgenda(rdvs[s]) # Absent
    <3>1. \A s \in Rdv : Existe(s) => rdvs[s] \in Ligne
      BY <1>1 DEF TypeOK, Existe
    <3> QED BY <3>1, EntreeType
  <2>4. agendaDesLignes \in [Rdv -> A!Entree \cup {Absent}]
    BY <2>3 DEF agendaDesLignes
  <2>5. [A!Next]_(A!vars)
    BY <1>1, SimulationPas
  <2>6. /\ agendaDesLignes'[r] # Absent
        /\ agendaDesLignes'[r].clos
        /\ agendaDesLignes'[r].date = agendaDesLignes[r].date
        /\ agendaDesLignes'[r].jeunes \subseteq agendaDesLignes[r].jeunes
    BY <1>1, <2>0, <2>1, <2>2, <2>3, <2>4, <2>5, AgendaGardeLaCloture,
       ConstantsAssumption
  <2> QED BY <1>1, <2>0, <2>1, <2>2, <2>6
<1>2. TypeOK /\ TypeOK' /\ InvAgenda /\ [Next]_vars =>
        [\A r \in AC \ perturbes' :
           Existe(r) /\ rdvs[r].clos =>
             /\ Existe(r)'
             /\ rdvs'[r].clos
             /\ rdvs'[r].date = rdvs[r].date
             /\ rdvs'[r].jeunes \subseteq rdvs[r].jeunes]_vars
  BY <1>1
<1> QED BY <1>2, Typage, InvAgendaToujours, PTL DEF Spec, ClotureDefinitive

-----------------------------------------------------------------------------
(* Reminders and invitations.                                               *)
(*                                                                          *)
(* As long as the operations on an appointment neither overlap nor fail, no *)
(* reminder is lost, stale, wrong or sent twice, and the invitations of an  *)
(* appointment are numbered in order.                                       *)
(*                                                                          *)
(* The properties are proved of each undisturbed appointment r on its own.  *)
(* Such an appointment has at most one actor at a time, a command or a      *)
(* worker.  A step of that actor keeps the invariant Sain(r) of the         *)
(* appointment, one lemma per action; a step of anybody else leaves all     *)
(* that Sain(r) reads as it is (lemma SainAilleurs).                        *)

-----------------------------------------------------------------------------
(* The inductive invariant                                                  *)

(* What a command in flight can be, whatever the state around it.           *)
Reguliere(op) ==
  /\ op.cmd # "desinscrire" => \A s, t \in op.touches : s = t
  /\ op.etape = "ecriture" => op.cmd # "supprimer"
  /\ op.etape \in {"ecriture", "ics"} => op.mail = PasDeMail
  /\ op.etape \in {"ics", "destruction", "associations"} => op.cmd = "supprimer"
  /\ op.etape = "fond" => op.cmd \in {"creer", "modifier", "supprimer"}
  /\ op.cmd # "supprimer" => op.mail \in {PasDIcs, PasDeMail}
  /\ op.retirer # {} => op.ajouter = {} /\ op.cmd # "creer"
  /\ op.ajouter # {} => op.cmd # "supprimer"
  /\ \A e \in op.ecritures :
       /\ op.cmd \in {"creer", "modifier"} => e.ligne.date = op.date
       /\ op.cmd = "modifier" => (op.change <=> op.date # e.lu.date)

Regularite == \A o \in Ops : Reguliere(ops[o])

Touche(o, r) == r \in ops[o].touches

(* The worker is busy with a reminder of r.                                 *)
Sur(w, r) == workers[w].etape # "libre" /\ workers[w].id[1] = r

JobsDe(r) == {j \in jobs : j.id[1] = r}

(* Nothing has been planned nor mailed for r yet.                           *)
Vierge(r) == JobsDe(r) = {} /\ invitations[r] = <<>>

(* A worker on r is alone on r, and holds the job it has taken; what it has *)
(* read of r is still true.                                                 *)
Seul(r) ==
  \A w \in Workers : Sur(w, r) =>
    /\ \A o \in Ops : ~Touche(o, r)
    /\ \A v \in Workers : Sur(v, r) => v = w
    /\ \E j \in JobsDe(r) : /\ j.id = workers[w].id
                            /\ j.etat = "actif"
                            /\ j.echeance <= horloge
    /\ workers[w].etape = "lu" => workers[w].lu = rdvs[r]

Actifs(r) ==
  \A j \in JobsDe(r) : j.etat = "actif" =>
    \E w \in Workers : Sur(w, r) /\ workers[w].id = j.id

(* Where command o is with the reminders and the mail of r.                 *)
EtatDe(o, r) ==
  LET op == ops[o] IN
  /\ r \in uuids
  /\ op.cmd = "creer" /\ op.etape = "ecriture" => Vierge(r)
  /\ op.cmd = "supprimer" /\ op.etape = "fond" => ~Existe(r)
  /\ op.cmd = "modifier" /\ op.retirer # {} =>
       /\ Existe(r) /\ rdvs[r].date = op.date
       /\ \A j \in JobsDe(r) : j.id[2] \in op.retirer
  /\ op.ajouter # {} => Existe(r) /\ rdvs[r].date = op.date
  /\ \A k \in op.ajouter :
       op.date - horloge > k /\ \A j \in JobsDe(r) : j.id[2] # k
  /\ op.mail >= 0 => \A i \in DOMAIN invitations[r] : invitations[r][i] < op.mail

(* A command is about to remove the reminder k of r.                        *)
Condamne(r, k) ==
  \E o \in Ops : /\ Touche(o, r)
                 /\ ops[o].etape = "associations" \/ k \in ops[o].retirer

(* The job is a reminder of r as r now stands, and is not too late.         *)
AJour(j, r) ==
  /\ Existe(r)
  /\ j.echeance = rdvs[r].date - j.id[2]
  /\ horloge <= j.echeance + Retard

Ponctuels(r) ==
  \A j \in JobsDe(r) : j.etat # "fini" => AJour(j, r) \/ Condamne(r, j.id[2])

Numerotees(r) ==
  /\ \A i, j \in DOMAIN invitations[r] :
       i < j => invitations[r][i] < invitations[r][j]
  /\ Existe(r) => \A i \in DOMAIN invitations[r] : invitations[r][i] <= rdvs[r].ics

Jours(texte) == IF texte = "demain" THEN 1 ELSE 7

(* What has been announced of r was due, is not in the queue any more, and  *)
(* was said once.                                                           *)
Annoncees(r) ==
  \A i \in DOMAIN annonces : annonces[i].rdv = r =>
    /\ horloge >= annonces[i].date - Jours(annonces[i].texte)
    /\ \A j \in JobsDe(r) :
         j.id[2] = Jours(annonces[i].texte) /\ j.etat # "fini" =>
           j.echeance # annonces[i].date - Jours(annonces[i].texte)
    /\ \A h \in DOMAIN annonces :
         annonces[h].rdv = r /\ h # i =>
           annonces[h].texte # annonces[i].texte \/ annonces[h].date # annonces[i].date

(* A reminder that was to come when r was planned is being planned, or is   *)
(* in the queue, or has been announced.                                     *)
EnPlan(r, k) ==
  \/ \E o \in Ops : /\ Touche(o, r)
                    /\ k \in ops[o].ajouter \/ ops[o].retirer # {}
  \/ \E j \in JobsDe(r) : /\ j.id[2] = k
                          /\ j.etat # "fini"
                          /\ j.echeance = rdvs[r].date - k
  \/ \E i \in DOMAIN annonces : /\ annonces[i].rdv = r
                                /\ annonces[i].date = rdvs[r].date
                                /\ annonces[i].texte = Texte(k)

Planifie(r) ==
  \A k \in JoursRappel :
    Existe(r) /\ rdvs[r].date - planifieLe[r] > k => EnPlan(r, k)

Sain(r) ==
  /\ Seul(r)
  /\ Actifs(r)
  /\ r \notin uuids => Vierge(r)
  /\ \A o \in Ops : Touche(o, r) => EtatDe(o, r)
  /\ Ponctuels(r)
  /\ Numerotees(r)
  /\ Retard <= 4 => Annoncees(r)
  /\ Retard <= 1 => Planifie(r)

InvRappels == Regularite /\ \A r \in Rdv \ perturbes : Sain(r)

-----------------------------------------------------------------------------
(* A step of somebody else                                                  *)

LEMMA AjoutAnnonce ==
  ASSUME NEW s \in Seq(Annonce), NEW a \in Annonce
  PROVE  /\ Append(s, a) \in Seq(Annonce)
         /\ DOMAIN s = 1 .. Len(s) /\ Len(s) \in Nat
         /\ DOMAIN Append(s, a) = 1 .. Len(s) + 1
         /\ Len(Append(s, a)) = Len(s) + 1
         /\ \A i \in DOMAIN s : Append(s, a)[i] = s[i] /\ s[i] \in Annonce
         /\ Append(s, a)[Len(s) + 1] = a
OBVIOUS

(* What is said of r has not changed.                                       *)
MemesAnnonces(r) ==
  \/ annonces' = annonces
  \/ \E a \in Annonce : a.rdv # r /\ annonces' = Append(annonces, a)

(* Nothing that Sain(r) reads has changed.                                  *)
Ailleurs(r) ==
  /\ horloge' = horloge
  /\ rdvs'[r] = rdvs[r]
  /\ r \in uuids' <=> r \in uuids
  /\ JobsDe(r)' = JobsDe(r)
  /\ \A o \in Ops : Touche(o, r) \/ Touche(o, r)' => ops'[o] = ops[o]
  /\ \A w \in Workers : Sur(w, r) \/ Sur(w, r)' => workers'[w] = workers[w]
  /\ invitations'[r] = invitations[r]
  /\ planifieLe'[r] = planifieLe[r]
  /\ MemesAnnonces(r)

LEMMA AnnoncesDe ==
  ASSUME TypeOK, NEW r, MemesAnnonces(r)
  PROVE  /\ \A i \in DOMAIN annonces : i \in DOMAIN annonces' /\ annonces'[i] = annonces[i]
         /\ \A i \in DOMAIN annonces' : annonces'[i].rdv = r =>
              i \in DOMAIN annonces /\ annonces'[i] = annonces[i]
<1>1. CASE annonces' = annonces
  BY <1>1
<1>2. CASE \E a \in Annonce : a.rdv # r /\ annonces' = Append(annonces, a)
  <2>1. PICK a \in Annonce : a.rdv # r /\ annonces' = Append(annonces, a)
    BY <1>2
  <2>2. annonces \in Seq(Annonce)
    BY DEF TypeOK
  <2> QED BY <2>1, <2>2, AjoutAnnonce
<1> QED BY <1>1, <1>2 DEF MemesAnnonces

LEMMA AnnonceesAilleurs ==
  ASSUME TypeOK, NEW r, Annoncees(r), MemesAnnonces(r), horloge' = horloge,
         \A j \in JobsDe(r)' : j.etat # "fini" => j \in JobsDe(r)
  PROVE  Annoncees(r)'
<1>1. ASSUME NEW i \in DOMAIN annonces', annonces'[i].rdv = r
      PROVE  /\ horloge' >= annonces'[i].date - Jours(annonces'[i].texte)
             /\ \A j \in JobsDe(r)' :
                  j.id[2] = Jours(annonces'[i].texte) /\ j.etat # "fini" =>
                    j.echeance # annonces'[i].date - Jours(annonces'[i].texte)
             /\ \A h \in DOMAIN annonces' :
                  annonces'[h].rdv = r /\ h # i =>
                    \/ annonces'[h].texte # annonces'[i].texte
                    \/ annonces'[h].date # annonces'[i].date
  <2>1. i \in DOMAIN annonces /\ annonces'[i] = annonces[i]
    BY <1>1, AnnoncesDe
  <2>2. \A h \in DOMAIN annonces' : annonces'[h].rdv = r =>
          h \in DOMAIN annonces /\ annonces'[h] = annonces[h]
    BY AnnoncesDe
  <2> QED BY <1>1, <2>1, <2>2 DEF Annoncees
<1> QED BY <1>1 DEF Annoncees

LEMMA SainAilleurs ==
  ASSUME TypeOK, NEW r \in Rdv, Sain(r), Ailleurs(r)
  PROVE  Sain(r)'
<1>1. \A o \in Ops : /\ Touche(o, r)' <=> Touche(o, r)
                     /\ Touche(o, r) => ops'[o] = ops[o]
  BY DEF Ailleurs, Touche
<1>2. \A w \in Workers : /\ Sur(w, r)' <=> Sur(w, r)
                         /\ Sur(w, r) => workers'[w] = workers[w]
  BY DEF Ailleurs, Sur
<1>3. Existe(r)' <=> Existe(r)
  BY DEF Existe, Ailleurs
<1>4. Vierge(r)' <=> Vierge(r)
  BY DEF Vierge, Ailleurs
<1>5. Seul(r)'
  BY <1>1, <1>2 DEF Sain, Seul, Ailleurs
<1>6. Actifs(r)'
  BY <1>2 DEF Sain, Actifs, Ailleurs
<1>7. \A o \in Ops : Touche(o, r)' => EtatDe(o, r)'
  BY <1>1, <1>3, <1>4 DEF Sain, EtatDe, Ailleurs
<1>8. \A k : Condamne(r, k) => Condamne(r, k)'
  BY <1>1 DEF Condamne
<1>9. Ponctuels(r)'
  BY <1>3, <1>8 DEF Sain, Ponctuels, AJour, Ailleurs
<1>10. Numerotees(r)'
  BY <1>3 DEF Sain, Numerotees, Ailleurs
<1>11. Retard <= 4 => Annoncees(r)'
  BY AnnonceesAilleurs DEF Sain, Ailleurs
<1>12. \A k : EnPlan(r, k) => EnPlan(r, k)'
  <2>1. \A i \in DOMAIN annonces : i \in DOMAIN annonces' /\ annonces'[i] = annonces[i]
    BY AnnoncesDe DEF Ailleurs
  <2> QED BY <1>1, <2>1 DEF EnPlan, Ailleurs
<1>13. Retard <= 1 => Planifie(r)'
  BY <1>3, <1>12 DEF Sain, Planifie, Ailleurs
<1> QED BY <1>4, <1>5, <1>6, <1>7, <1>9, <1>10, <1>11, <1>13 DEF Sain, Ailleurs

-----------------------------------------------------------------------------
(* The commands start                                                       *)

(* A command that has just read its appointments: they exist, or it creates *)
(* them.                                                                    *)
Debutante(op) ==
  /\ Reguliere(op)
  /\ op.etape \in {"ecriture", "ics"}
  /\ op.touches \subseteq Rdv
  /\ op.retirer = {} /\ op.ajouter = {} /\ op.mail = PasDeMail
  /\ op.cmd = "creer" => op.touches \cap uuids = {}
  /\ op.cmd # "creer" => \A r \in op.touches : Existe(r)
  /\ uuids' = IF op.cmd = "creer" THEN uuids \cup op.touches ELSE uuids

LEMMA DebutanteCreer ==
  ASSUME NEW o, Creer(o)
  PROVE  \E op : Demarrer(o, op) /\ Debutante(op)
<1>1. PICK r \in Rdv \ uuids, d \in Dates, js \in SUBSET Jeunes, l \in Limites :
        /\ uuids' = uuids \cup {r}
        /\ Demarrer(o, [Libre EXCEPT
             !.etape = "ecriture", !.cmd = "creer", !.touches = {r}, !.date = d,
             !.ecritures = {[rdv |-> r, lu |-> Absent,
                             ligne |-> NouvelleLigne(d, js, l)]}])
  BY DEF Creer
<1> DEFINE ecr == {[rdv |-> r, lu |-> Absent, ligne |-> NouvelleLigne(d, js, l)]}
           op == [Libre EXCEPT !.etape = "ecriture", !.cmd = "creer",
                    !.touches = {r}, !.date = d, !.ecritures = ecr]
<1>2. /\ op.etape = "ecriture" /\ op.cmd = "creer" /\ op.touches = {r}
      /\ op.date = d /\ op.ecritures = ecr
      /\ op.retirer = {} /\ op.ajouter = {} /\ op.mail = PasDeMail
  BY DEF Libre
<1>3. \A e \in ecr : e.ligne.date = d
  BY DEF NouvelleLigne
<1>4. Demarrer(o, op)
  BY <1>1
<1> HIDE DEF op, ecr
<1>5. Reguliere(op)
  BY <1>2, <1>3 DEF Reguliere
<1> QED BY <1>1, <1>2, <1>4, <1>5 DEF Debutante

LEMMA DebutanteModifier ==
  ASSUME TypeOK, NEW o, Modifier(o)
  PROVE  \E op : Demarrer(o, op) /\ Debutante(op)
<1>1. PICK r \in Rdv, d \in Dates, js \in SUBSET Jeunes, l \in Limites :
        /\ Existe(r)
        /\ Demarrer(o, [Libre EXCEPT
             !.etape = "ecriture", !.cmd = "modifier", !.touches = {r},
             !.date = d, !.change = d # rdvs[r].date,
             !.ecritures = {[rdv |-> r, lu |-> rdvs[r],
                             ligne |-> LigneModifiee(rdvs[r], d, js, l)]}])
  BY DEF Modifier
<1> DEFINE ecr == {[rdv |-> r, lu |-> rdvs[r],
                    ligne |-> LigneModifiee(rdvs[r], d, js, l)]}
           op == [Libre EXCEPT !.etape = "ecriture", !.cmd = "modifier",
                    !.touches = {r}, !.date = d, !.change = d # rdvs[r].date,
                    !.ecritures = ecr]
<1>2. /\ op.etape = "ecriture" /\ op.cmd = "modifier" /\ op.touches = {r}
      /\ op.date = d /\ op.ecritures = ecr /\ op.change = (d # rdvs[r].date)
      /\ op.retirer = {} /\ op.ajouter = {} /\ op.mail = PasDeMail
  BY DEF Libre
<1>3. rdvs[r] \in Ligne
  BY <1>1 DEF TypeOK, Existe
<1>4. \A e \in ecr : e.ligne.date = d /\ e.lu = rdvs[r]
  <2>1. LigneModifiee(rdvs[r], d, js, l).date = d
    BY <1>3 DEF LigneModifiee, Ligne
  <2> QED BY <2>1
<1>5. Demarrer(o, op) /\ uuids' = uuids
  BY <1>1 DEF Modifier
<1> HIDE DEF op, ecr
<1>6. Reguliere(op)
  BY <1>2, <1>4 DEF Reguliere
<1> QED BY <1>1, <1>2, <1>5, <1>6 DEF Debutante

LEMMA DebutanteClore ==
  ASSUME NEW o, Clore(o)
  PROVE  \E op : Demarrer(o, op) /\ Debutante(op)
<1>1. PICK r \in Rdv : /\ Existe(r)
         /\ \E presents \in SUBSET rdvs[r].jeunes :
              Demarrer(o, [Libre EXCEPT
                !.etape = "ecriture", !.cmd = "clore", !.touches = {r},
                !.ecritures = {[rdv |-> r, lu |-> rdvs[r],
                                ligne |-> LigneClose(rdvs[r], presents)]}])
  BY DEF Clore
<1>2. PICK presents \in SUBSET rdvs[r].jeunes :
              Demarrer(o, [Libre EXCEPT
                !.etape = "ecriture", !.cmd = "clore", !.touches = {r},
                !.ecritures = {[rdv |-> r, lu |-> rdvs[r],
                                ligne |-> LigneClose(rdvs[r], presents)]}])
  BY <1>1
<1> DEFINE op == [Libre EXCEPT !.etape = "ecriture", !.cmd = "clore",
                    !.touches = {r},
                    !.ecritures = {[rdv |-> r, lu |-> rdvs[r],
                                    ligne |-> LigneClose(rdvs[r], presents)]}]
<1>3. /\ op.etape = "ecriture" /\ op.cmd = "clore" /\ op.touches = {r}
      /\ op.retirer = {} /\ op.ajouter = {} /\ op.mail = PasDeMail
  BY DEF Libre
<1>4. Demarrer(o, op) /\ uuids' = uuids
  BY <1>2 DEF Clore
<1> HIDE DEF op
<1>5. Reguliere(op)
  BY <1>3 DEF Reguliere
<1> QED BY <1>1, <1>3, <1>4, <1>5 DEF Debutante

LEMMA DebutanteSupprimer ==
  ASSUME NEW o, Supprimer(o)
  PROVE  \E op : Demarrer(o, op) /\ Debutante(op)
<1>1. PICK r \in Rdv : /\ Existe(r)
         /\ Demarrer(o, [Libre EXCEPT
              !.etape = "ics", !.cmd = "supprimer", !.touches = {r}])
  BY DEF Supprimer
<1> DEFINE op == [Libre EXCEPT !.etape = "ics", !.cmd = "supprimer",
                    !.touches = {r}]
<1>3. /\ op.etape = "ics" /\ op.cmd = "supprimer" /\ op.touches = {r}
      /\ op.retirer = {} /\ op.ajouter = {} /\ op.mail = PasDeMail
  BY DEF Libre
<1>4. op.ecritures = {}
  BY DEF Libre
<1>5. Demarrer(o, op) /\ uuids' = uuids
  BY <1>1 DEF Supprimer
<1> HIDE DEF op
<1>6. Reguliere(op)
  BY <1>3, <1>4 DEF Reguliere
<1> QED BY <1>1, <1>3, <1>5, <1>6 DEF Debutante

LEMMA DebutanteDesinscrire ==
  ASSUME NEW o, Desinscrire(o)
  PROVE  \E op : Demarrer(o, op) /\ Debutante(op)
<1> DEFINE anim == {r \in AC : Existe(r)}
<1>1. PICK js \in (SUBSET Jeunes) \ {{}} :
        Demarrer(o, [Libre EXCEPT
          !.etape = "ecriture", !.cmd = "desinscrire", !.touches = anim,
          !.ecritures = {[rdv |-> r, lu |-> rdvs[r],
                          ligne |-> LigneSans(rdvs[r], js)] : r \in anim}])
  BY DEF Desinscrire
<1> DEFINE op == [Libre EXCEPT !.etape = "ecriture", !.cmd = "desinscrire",
                    !.touches = anim,
                    !.ecritures = {[rdv |-> r, lu |-> rdvs[r],
                          ligne |-> LigneSans(rdvs[r], js)] : r \in anim}]
<1>2. /\ op.etape = "ecriture" /\ op.cmd = "desinscrire" /\ op.touches = anim
      /\ op.retirer = {} /\ op.ajouter = {} /\ op.mail = PasDeMail
  BY DEF Libre
<1>3. Demarrer(o, op) /\ uuids' = uuids
  BY <1>1 DEF Desinscrire
<1>4. anim \subseteq Rdv /\ \A r \in anim : Existe(r)
  BY ConstantsAssumption
<1> HIDE DEF op, anim
<1>5. Reguliere(op)
  BY <1>2 DEF Reguliere
<1> QED BY <1>2, <1>3, <1>4, <1>5 DEF Debutante

LEMMA ReguliereLibre == Reguliere(Libre)
BY DEF Reguliere, Libre

LEMMA RegulariteOp ==
  ASSUME TypeOK, Regularite, NEW o \in Ops, NEW q, Reguliere(q),
         ops' = [ops EXCEPT ![o] = q]
  PROVE  Regularite'
BY DEF TypeOK, Regularite

(* The other appointments do not see a command that starts.                 *)
LEMMA DebutAilleurs ==
  ASSUME TypeOK, NEW o \in Ops, NEW op, Demarrer(o, op), Debutante(op),
         NEW r \in Rdv, r \notin op.touches
  PROVE  Ailleurs(r)
<1>1. ops[o] = Libre /\ ops' = [ops EXCEPT ![o] = op]
  BY DEF Demarrer
<1>2. \A p \in Ops : Touche(p, r) \/ Touche(p, r)' => ops'[p] = ops[p]
  BY <1>1 DEF Touche, TypeOK, Libre
<1>3. JobsDe(r)' = JobsDe(r)
  BY DEF JobsDe, Demarrer
<1>4. r \in uuids' <=> r \in uuids
  BY DEF Debutante
<1>5. \A w \in Workers : Sur(w, r) \/ Sur(w, r)' => workers'[w] = workers[w]
  BY DEF Demarrer
<1> QED BY <1>2, <1>3, <1>4, <1>5 DEF Ailleurs, Demarrer, MemesAnnonces

(* A command finds its appointment with nobody else on it.                  *)
LEMMA SainDebut ==
  ASSUME TypeOK, Identites, NEW o \in Ops, NEW op, Demarrer(o, op), Debutante(op),
         NEW r \in op.touches \ perturbes', Sain(r)
  PROVE  Sain(r)'
<1>1. /\ ops[o] = Libre /\ ops' = [ops EXCEPT ![o] = op]
      /\ perturbes' = perturbes \cup {s \in op.touches : EnCours(s)}
      /\ horloge' = horloge /\ rdvs' = rdvs /\ jobs' = jobs
      /\ workers' = workers /\ annonces' = annonces
      /\ invitations' = invitations /\ planifieLe' = planifieLe
  BY DEF Demarrer
<1>2. /\ r \in Rdv /\ r \notin perturbes /\ ~EnCours(r)
      /\ \A p \in Ops : ~Touche(p, r)
      /\ \A w \in Workers : ~Sur(w, r)
  BY <1>1 DEF EnCours, Touche, Sur, Debutante
<1>3. ops'[o] = op /\ Touche(o, r)' /\ \A p \in Ops : Touche(p, r)' => p = o
  BY <1>1, <1>2 DEF TypeOK, Touche
<1>4. JobsDe(r)' = JobsDe(r) /\ Existe(r)' = Existe(r) /\ Vierge(r)' = Vierge(r)
  BY <1>1 DEF JobsDe, Existe, Vierge
<1>5. r \in uuids'
  BY <1>2 DEF Debutante, Identites
<1>6. Seul(r)'
  BY <1>1, <1>2 DEF Seul, Sur
<1>7. Actifs(r)'
  BY <1>1, <1>2, <1>4 DEF Sain, Actifs
<1>8. EtatDe(o, r)'
  <2>1. op.cmd = "creer" => Vierge(r)'
    BY <1>4 DEF Sain, Debutante
  <2>2. ~(op.mail >= 0)
    BY DEF Debutante, PasDeMail
  <2> QED BY <1>3, <1>5, <2>1, <2>2 DEF EtatDe, Debutante
<1>9. \A k : ~Condamne(r, k)
  BY <1>2 DEF Condamne
<1>10. Ponctuels(r)'
  BY <1>1, <1>4, <1>9 DEF Sain, Ponctuels, AJour
<1>11. Numerotees(r)'
  BY <1>1, <1>4 DEF Sain, Numerotees
<1>12. Retard <= 4 => Annoncees(r)'
  BY <1>1, <1>4, AnnonceesAilleurs DEF Sain, MemesAnnonces
<1>13. \A k : EnPlan(r, k) => EnPlan(r, k)'
  BY <1>1, <1>2, <1>4 DEF EnPlan
<1>14. Retard <= 1 => Planifie(r)'
  BY <1>1, <1>4, <1>13 DEF Sain, Planifie
<1> QED BY <1>3, <1>5, <1>6, <1>7, <1>8, <1>10, <1>11, <1>12, <1>14 DEF Sain

(* What is to be shown of every action.                                     *)
LEMMA SainPar ==
  ASSUME \A r \in Rdv \ perturbes : Sain(r), perturbes \subseteq perturbes', TypeOK,
         NEW S, \A r \in Rdv \ S : Ailleurs(r),
         \A r \in (Rdv \cap S) \ perturbes' : Sain(r)'
  PROVE  \A r \in Rdv \ perturbes' : Sain(r)'
BY SainAilleurs

LEMMA RappelsDebut ==
  ASSUME TypeOK, InvAgenda, InvRappels, NEW o \in Ops, NEW op, Demarrer(o, op),
         Debutante(op)
  PROVE  InvRappels'
<1>1. perturbes \subseteq perturbes'
  BY DEF Demarrer
<1>2. \A r \in Rdv \ op.touches : Ailleurs(r)
  BY DebutAilleurs
<1>3. \A r \in (Rdv \cap op.touches) \ perturbes' : Sain(r)'
  BY <1>1, SainDebut DEF InvRappels, InvAgenda
<1>4. Regularite'
  BY RegulariteOp DEF Demarrer, Debutante, InvRappels
<1>5. \A r \in Rdv \ perturbes : Sain(r)
  BY DEF InvRappels
<1>6. \A r \in Rdv \ perturbes' : Sain(r)'
  BY <1>1, <1>2, <1>3, <1>5, SainPar
<1> QED BY <1>4, <1>6 DEF InvRappels

-----------------------------------------------------------------------------
(* The commands go on                                                       *)

(* The command is left with this background work, or with none at all.      *)
Reste(op, q, retirer, ajouter, mail) ==
  /\ q.retirer = retirer /\ q.ajouter = ajouter /\ q.mail = mail
  /\ q.etape \in {"fond", "libre"}
  /\ q.ecritures = {}
  /\ \/ q = Libre
     \/ /\ q.etape = "fond"
        /\ q.touches = op.touches /\ q.cmd = op.cmd /\ q.date = op.date

LEMMA ResteLibre ==
  ASSUME NEW op
  PROVE  Reste(op, Libre, {}, {}, PasDeMail)
BY DEF Reste, Libre

LEMMA RestePoursuivre ==
  ASSUME NEW op, NEW q, NEW retirer, NEW ajouter, NEW mail,
         Reste(op, q, retirer, ajouter, mail)
  PROVE  Reste(op, Poursuivre(q), retirer, ajouter, mail)
<1>1. CASE q.retirer = {} /\ q.ajouter = {} /\ q.mail = PasDeMail
  <2>1. retirer = {} /\ ajouter = {} /\ mail = PasDeMail /\ Poursuivre(q) = Libre
    BY <1>1 DEF Reste, Poursuivre
  <2> QED BY <2>1, ResteLibre
<1>2. CASE ~(q.retirer = {} /\ q.ajouter = {} /\ q.mail = PasDeMail)
  BY <1>2 DEF Poursuivre
<1> QED BY <1>1, <1>2

LEMMA ReguliereReste ==
  ASSUME NEW op, NEW q, NEW retirer, NEW ajouter, NEW mail,
         Reguliere(op), Reste(op, q, retirer, ajouter, mail),
         op.cmd \in {"creer", "modifier", "supprimer"},
         op.cmd # "supprimer" => mail \in {PasDIcs, PasDeMail},
         retirer # {} => ajouter = {} /\ op.cmd # "creer",
         ajouter # {} => op.cmd # "supprimer"
  PROVE  Reguliere(q)
BY ReguliereLibre DEF Reste, Reguliere

(* A creation or an update has a single row to save.                        *)
LEMMA UneSeuleEcriture ==
  ASSUME NEW op, NEW e \in op.ecritures, Forme(op), Reguliere(op),
         op.cmd # "desinscrire"
  PROVE  op.ecritures = {e} /\ op.touches = {e.rdv} /\ op.etape = "ecriture"
BY DEF Forme, Reguliere

LEMMA RestesDesSauvegardes ==
  ASSUME NEW op \in Operation, NEW e \in op.ecritures, Forme(op), Reguliere(op)
  PROVE  /\ op.cmd = "creer" =>
              Reste(op, ApresEcriture(op, e), {}, JoursDeRappel(op.date), Mail(e.rdv))
         /\ op.cmd = "modifier" =>
              Reste(op, ApresEcriture(op, e), RappelsARetirer(op), {}, Mail(e.rdv))
<1>1. op.etape = "ecriture" /\ op.retirer = {} /\ op.ajouter = {}
  BY DEF Forme
<1>2. ASSUME op.cmd = "creer"
      PROVE  Reste(op, ApresEcriture(op, e), {}, JoursDeRappel(op.date), Mail(e.rdv))
  <2> DEFINE q == [op EXCEPT !.etape = "fond", !.ecritures = {},
                     !.ajouter = JoursDeRappel(op.date), !.mail = Mail(e.rdv)]
  <2>1. Reste(op, q, {}, JoursDeRappel(op.date), Mail(e.rdv))
    BY <1>1 DEF Operation, Reste
  <2>2. ApresEcriture(op, e) = Poursuivre(q)
    BY <1>2, UneSeuleEcriture DEF ApresEcriture, ApresSauvegarde
  <2> HIDE DEF q
  <2> QED BY <2>1, <2>2, RestePoursuivre
<1>3. ASSUME op.cmd = "modifier"
      PROVE  Reste(op, ApresEcriture(op, e), RappelsARetirer(op), {}, Mail(e.rdv))
  <2> DEFINE q == [op EXCEPT !.etape = "fond", !.ecritures = {},
                     !.retirer = RappelsARetirer(op), !.mail = Mail(e.rdv)]
  <2>1. Reste(op, q, RappelsARetirer(op), {}, Mail(e.rdv))
    BY <1>1 DEF Operation, Reste
  <2>2. ApresEcriture(op, e) = Poursuivre(q)
    BY <1>3, UneSeuleEcriture DEF ApresEcriture, ApresSauvegarde
  <2> HIDE DEF q
  <2> QED BY <2>1, <2>2, RestePoursuivre
<1> QED BY <1>2, <1>3

LEMMA Restes ==
  ASSUME NEW op \in Operation, Forme(op), op.etape = "fond", op.ecritures = {}
  PROVE  /\ \A k : Reste(op, RappelRetire(op, k), op.retirer \ {k},
                         IF Replanifie(op, k) THEN JoursDeRappel(op.date) ELSE {},
                         op.mail)
         /\ \A k : Reste(op, RappelAjoute(op, k), op.retirer, op.ajouter \ {k},
                         op.mail)
         /\ Reste(op, InvitationEnvoyee(op), op.retirer, op.ajouter, PasDeMail)
         /\ Reste(op, PlanificationAbandonnee(op), {}, {}, op.mail)
<1>1. ASSUME NEW k
      PROVE  Reste(op, RappelRetire(op, k), op.retirer \ {k},
                   IF Replanifie(op, k) THEN JoursDeRappel(op.date) ELSE {}, op.mail)
  <2> DEFINE aj == IF Replanifie(op, k) THEN JoursDeRappel(op.date) ELSE {}
  <2> HIDE DEF aj
  <2>1. Reste(op, [op EXCEPT !.retirer = @ \ {k}, !.ajouter = aj],
              op.retirer \ {k}, aj, op.mail)
    BY DEF Operation, Reste
  <2>2. Reste(op, Poursuivre([op EXCEPT !.retirer = @ \ {k}, !.ajouter = aj]),
              op.retirer \ {k}, aj, op.mail)
    BY <2>1, RestePoursuivre
  <2> QED BY <2>2 DEF RappelRetire, aj
<1>2. ASSUME NEW k
      PROVE  Reste(op, RappelAjoute(op, k), op.retirer, op.ajouter \ {k}, op.mail)
  <2>1. Reste(op, [op EXCEPT !.ajouter = @ \ {k}],
              op.retirer, op.ajouter \ {k}, op.mail)
    BY DEF Operation, Reste
  <2> QED BY <2>1, RestePoursuivre DEF RappelAjoute
<1>3. Reste(op, InvitationEnvoyee(op), op.retirer, op.ajouter, PasDeMail)
  <2>1. Reste(op, [op EXCEPT !.mail = PasDeMail], op.retirer, op.ajouter, PasDeMail)
    BY DEF Operation, Reste
  <2> QED BY <2>1, RestePoursuivre DEF InvitationEnvoyee
<1>4. Reste(op, PlanificationAbandonnee(op), {}, {}, op.mail)
  <2>1. Reste(op, [op EXCEPT !.retirer = {}, !.ajouter = {}], {}, {}, op.mail)
    BY DEF Operation, Reste
  <2> QED BY <2>1, RestePoursuivre DEF PlanificationAbandonnee
<1> QED BY <1>1, <1>2, <1>3, <1>4

LEMMA ResteAssociations ==
  ASSUME NEW op \in Operation, Forme(op), op.etape = "associations"
  PROVE  Reste(op, ApresAssociations(op), JoursRappel, {}, op.mail)
BY DEF Forme, ApresAssociations, Operation, Reste

(* Background work only exists in a command that has answered.              *)
LEMMA EnFond ==
  ASSUME NEW op, Forme(op), op.retirer # {} \/ op.ajouter # {} \/ op.etape = "fond"
  PROVE  op.etape = "fond" /\ op.ecritures = {}
BY DEF Forme

LEMMA Autres ==
  ASSUME TypeOK, NEW o \in Ops, NEW q, Suite(ops[o], q),
         ops' = [ops EXCEPT ![o] = q], NEW r, ~Touche(o, r)
  PROVE  \A p \in Ops : Touche(p, r) \/ Touche(p, r)' => ops'[p] = ops[p]
<1>1. r \notin q.touches
  BY DEF Suite, Libre, Touche
<1> QED BY <1>1 DEF TypeOK, Touche

(* What is to be shown of a step of command o for an appointment it has to  *)
(* itself.                                                                  *)
LEMMA SainSuite ==
  ASSUME TypeOK, NEW o \in Ops, NEW q, Suite(ops[o], q),
         ops' = [ops EXCEPT ![o] = q], NEW r, Touche(o, r), Sain(r),
         \A p \in Ops : Touche(p, r) => p = o,
         uuids' = uuids, workers' = workers,
         \A j \in JobsDe(r)' : j.etat = "actif" => j \in JobsDe(r),
         Touche(o, r)' => EtatDe(o, r)',
         Ponctuels(r)', Numerotees(r)',
         Retard <= 4 => Annoncees(r)', Retard <= 1 => Planifie(r)'
  PROVE  Sain(r)'
<1>1. r \in uuids
  BY DEF Sain, EtatDe
<1>2. \A w \in Workers : ~Sur(w, r)
  BY DEF Sain, Seul
<1>3. \A p \in Ops : Touche(p, r)' => p = o
  BY DEF Suite, Libre, Touche, TypeOK
<1>4. Seul(r)'
  BY <1>2 DEF Seul, Sur
<1>5. \A j \in JobsDe(r)' : j.etat # "actif"
  BY <1>2 DEF Sain, Actifs
<1>6. Actifs(r)'
  BY <1>5 DEF Actifs
<1> QED BY <1>1, <1>3, <1>4, <1>6 DEF Sain

-----------------------------------------------------------------------------
(* The jobs of an appointment                                               *)

LEMMA PaireJob ==
  ASSUME NEW p \in Rdv \X JoursRappel
  PROVE  p = <<p[1], p[2]>> /\ p[1] \in Rdv /\ p[2] \in JoursRappel
OBVIOUS

LEMMA JobsDeType ==
  ASSUME TypeOK, NEW r, NEW j \in JobsDe(r)
  PROVE  /\ j \in jobs /\ j \in Job /\ j.id = <<r, j.id[2]>>
         /\ j.id[2] \in JoursRappel /\ j.id[2] \in Int /\ j.echeance \in Int
         /\ \A i \in JobsDe(r) : i.id[2] = j.id[2] => i = j
<1>1. \A i \in JobsDe(r) : i \in jobs /\ i \in Job /\ i.id = <<r, i.id[2]>>
  BY PaireJob DEF JobsDe, TypeOK, Job
<1>2. j.id[2] \in JoursRappel /\ j.echeance \in Int
  BY <1>1, PaireJob DEF Job
<1>3. \A i \in JobsDe(r) : i.id[2] = j.id[2] => i = j
  BY <1>1 DEF TypeOK
<1> QED BY <1>1, <1>2, <1>3 DEF JoursRappel

LEMMA DatesEntieres == Dates \subseteq Int
<1>1. Dates \subseteq Nat
  BY ConstantsAssumption
<1> QED BY <1>1

LEMMA DateType ==
  ASSUME TypeOK, NEW r \in Rdv, Existe(r)
  PROVE  rdvs[r] \in Ligne /\ rdvs[r].date \in Int /\ rdvs[r].ics \in Int
<1>1. rdvs[r] \in Ligne
  BY DEF TypeOK, Existe
<1>2. Dates \subseteq Int
  BY DatesEntieres
<1>3. rdvs[r].date \in Dates
  BY <1>1 DEF Ligne
<1>4. rdvs[r].ics \in Int
  BY <1>1 DEF Ligne, PasDIcs
<1>5. rdvs[r].date \in Int
  BY <1>2, <1>3
<1> QED BY <1>1, <1>4, <1>5

LEMMA AnnonceType ==
  ASSUME TypeOK, NEW i \in DOMAIN annonces
  PROVE  annonces[i] \in Annonce /\ annonces[i].date \in Int
<1>1. annonces[i] \in Annonce
  BY DEF TypeOK
<1>2. annonces[i].date \in Dates
  BY <1>1 DEF Annonce
<1> QED BY <1>1, <1>2, DatesEntieres

LEMMA EntiersDe ==
  ASSUME TypeOK, NEW o \in Ops
  PROVE  ops[o].date \in Int /\ ops[o].ajouter \subseteq JoursRappel /\ horloge \in Int
<1>1. ops[o].date \in Dates \cup {0} /\ ops[o].ajouter \subseteq JoursRappel
  BY OperationType DEF Operation
<1>2. horloge \in Int
  BY ConstantsAssumption DEF TypeOK
<1>3. CASE ops[o].date \in Dates
  BY <1>1, <1>2, <1>3, DatesEntieres
<1>4. CASE ops[o].date = 0
  BY <1>1, <1>2, <1>4
<1> QED BY <1>1, <1>3, <1>4

(* A worker changes the state of one job.                                   *)
LEMMA JobsChangerEtat ==
  ASSUME TypeOK, NEW j \in jobs, NEW etat \in EtatsJob,
         jobs' = ChangerEtat(jobs, j, etat)
  PROVE  /\ \A r : r # j.id[1] => JobsDe(r)' = JobsDe(r)
         /\ \E n : /\ n.id = j.id /\ n.echeance = j.echeance /\ n.etat = etat
                   /\ JobsDe(j.id[1])' = (JobsDe(j.id[1]) \ {j}) \cup {n}
<1> DEFINE n == [j EXCEPT !.etat = etat]
<1>1. n.id = j.id /\ n.echeance = j.echeance /\ n.etat = etat
  BY DEF TypeOK, Job
<1>2. jobs' = (jobs \ {j}) \cup {n}
  BY DEF ChangerEtat
<1> HIDE DEF n
<1>3. ASSUME NEW r, r # j.id[1]
      PROVE  JobsDe(r)' = JobsDe(r)
  BY <1>1, <1>2, <1>3 DEF JobsDe
<1>4. JobsDe(j.id[1])' = (JobsDe(j.id[1]) \ {j}) \cup {n}
  BY <1>1, <1>2 DEF JobsDe
<1> QED BY <1>1, <1>3, <1>4

-----------------------------------------------------------------------------
(* What the background work of a command says of its appointment            *)

(* What is left of command o suits the new state of r.                      *)
Convient(o, r, retirer, ajouter, mail) ==
  /\ r \in uuids'
  /\ ops[o].cmd = "supprimer" => ~Existe(r)'
  /\ ops[o].cmd = "modifier" /\ retirer # {} =>
       /\ Existe(r)' /\ rdvs'[r].date = ops[o].date
       /\ \A j \in JobsDe(r)' : j.id[2] \in retirer
  /\ ajouter # {} => Existe(r)' /\ rdvs'[r].date = ops[o].date
  /\ \A k \in ajouter :
       ops[o].date - horloge' > k /\ \A j \in JobsDe(r)' : j.id[2] # k
  /\ mail >= 0 =>
       \A i \in DOMAIN invitations'[r] : invitations'[r][i] < mail

LEMMA EtatReste ==
  ASSUME TypeOK, NEW o \in Ops, NEW q, NEW retirer, NEW ajouter, NEW mail,
         Reste(ops[o], q, retirer, ajouter, mail),
         ops' = [ops EXCEPT ![o] = q], NEW r,
         Convient(o, r, retirer, ajouter, mail)
  PROVE  Touche(o, r)' => EtatDe(o, r)'
<1>1. ops'[o] = q
  BY DEF TypeOK
<1>2. SUFFICES ASSUME Touche(o, r)'
               PROVE  EtatDe(o, r)'
  OBVIOUS
<1>3. /\ q.etape = "fond" /\ q.cmd = ops[o].cmd /\ q.date = ops[o].date
      /\ q.retirer = retirer /\ q.ajouter = ajouter /\ q.mail = mail
  BY <1>1, <1>2 DEF Reste, Touche, Libre
<1> QED BY <1>1, <1>3 DEF EtatDe, Convient

LEMMA CondamneReste ==
  ASSUME TypeOK, NEW o \in Ops, NEW q, NEW retirer, NEW ajouter, NEW mail,
         Reste(ops[o], q, retirer, ajouter, mail),
         ops' = [ops EXCEPT ![o] = q], NEW r, Touche(o, r)
  PROVE  /\ \A k \in retirer : Condamne(r, k)'
         /\ retirer # {} => \A k : EnPlan(r, k)'
         /\ \A k \in ajouter : EnPlan(r, k)'
<1>1. ops'[o] = q
  BY DEF TypeOK
<1>2. q.retirer = retirer /\ q.ajouter = ajouter
  BY DEF Reste
<1>3. retirer # {} \/ ajouter # {} => Touche(o, r)'
  BY <1>1, <1>2 DEF Reste, Touche, Libre
<1> QED BY <1>1, <1>2, <1>3 DEF Condamne, EnPlan

LEMMA CondamnePar ==
  ASSUME NEW o \in Ops, NEW r, \A p \in Ops : Touche(p, r) => p = o,
         NEW k, Condamne(r, k)
  PROVE  ops[o].etape = "associations" \/ k \in ops[o].retirer
BY DEF Condamne

(* The dates of an appointment, its jobs and its invitations are as before. *)
LEMMA SainNeutre ==
  ASSUME TypeOK, NEW o \in Ops, NEW q, Suite(ops[o], q),
         ops' = [ops EXCEPT ![o] = q], NEW r \in Rdv, Touche(o, r), Sain(r),
         \A p \in Ops : Touche(p, r) => p = o,
         horloge' = horloge, uuids' = uuids, workers' = workers, jobs' = jobs,
         annonces' = annonces, invitations' = invitations,
         planifieLe'[r] = planifieLe[r],
         ops[o].retirer = {}, ops[o].ajouter = {}, ops[o].etape # "associations",
         TypeOK', Existe(r)' <=> Existe(r),
         Existe(r) => rdvs'[r].date = rdvs[r].date /\ rdvs'[r].ics >= rdvs[r].ics,
         Touche(o, r)' => EtatDe(o, r)'
  PROVE  Sain(r)'
<1>1. JobsDe(r)' = JobsDe(r)
  BY DEF JobsDe
<1>2. \A k : ~Condamne(r, k)
  BY CondamnePar
<1>3. Ponctuels(r)'
  BY <1>1, <1>2 DEF Sain, Ponctuels, AJour
<1>4. Existe(r) => rdvs[r].ics \in Int /\ rdvs'[r].ics \in Int
  BY ConstantsAssumption DEF TypeOK, Existe, Ligne, PasDIcs
<1>5. \A i \in DOMAIN invitations[r] : invitations[r][i] \in Int
  BY DEF TypeOK
<1>6. Numerotees(r)'
  BY <1>4, <1>5 DEF Sain, Numerotees
<1>7. Retard <= 4 => Annoncees(r)'
  BY <1>1, AnnonceesAilleurs DEF Sain, MemesAnnonces
<1>8. Existe(r) => \A k : EnPlan(r, k) => EnPlan(r, k)'
  BY <1>1 DEF EnPlan
<1>9. Retard <= 1 => Planifie(r)'
  BY <1>8 DEF Sain, Planifie
<1>10. \A j \in JobsDe(r)' : j.etat = "actif" => j \in JobsDe(r)
  BY <1>1
<1> QED BY <1>3, <1>6, <1>7, <1>9, <1>10, SainSuite

(* Command o, which has the undisturbed appointment r to itself, becomes q. *)
Pas(o, q, r) ==
  /\ Suite(ops[o], q)
  /\ ops' = [ops EXCEPT ![o] = q]
  /\ Touche(o, r)
  /\ \A p \in Ops : Touche(p, r) => p = o
  /\ uuids' = uuids /\ workers' = workers
  /\ horloge' = horloge /\ annonces' = annonces

LEMMA SeulAuteur ==
  ASSUME InvAgenda, NEW o \in Ops, NEW r \in ops[o].touches \ perturbes
  PROVE  /\ Touche(o, r)
         /\ \A p \in Ops : Touche(p, r) => p = o
         /\ IsoleDe(o, r)
BY DEF InvAgenda, Isolation, IsoleDe, Touche

-----------------------------------------------------------------------------
(* Saving                                                                   *)

LEMMA MailNegatif ==
  ASSUME NEW r
  PROVE  ~(Mail(r) >= 0) /\ ~(PasDeMail >= 0) /\ Mail(r) \in {PasDIcs, PasDeMail}
BY DEF Mail, PasDIcs, PasDeMail

LEMMA SainCreation ==
  ASSUME TypeOK, TypeOK', NEW o \in Ops, NEW e \in ops[o].ecritures,
         NEW q, Pas(o, q, e.rdv), Reguliere(ops[o]), Forme(ops[o]),
         q = ApresEcriture(ops[o], e), ops[o].cmd = "creer", e.rdv \in Rdv,
         Sain(e.rdv), IsoleDe(o, e.rdv),
         rdvs'[e.rdv] = e.ligne, planifieLe'[e.rdv] = horloge,
         jobs' = jobs, invitations' = invitations
  PROVE  Sain(e.rdv)'
<1> DEFINE r == e.rdv
<1>1. ops[o] \in Operation /\ e.ligne \in Ligne
  BY OperationType DEF Operation, Ecriture
<1>2. Reste(ops[o], q, {}, JoursDeRappel(ops[o].date), Mail(r))
  BY <1>1, RestesDesSauvegardes
<1>3. ops[o].etape = "ecriture"
  BY DEF Forme
<1>4. Touche(o, r) /\ EtatDe(o, r)
  BY DEF Pas, Sain
<1>5. JobsDe(r) = {} /\ invitations[r] = <<>> /\ r \in uuids
  BY <1>3, <1>4 DEF EtatDe, Vierge
<1>6. JobsDe(r)' = {} /\ invitations'[r] = <<>> /\ r \in uuids'
  BY <1>5 DEF JobsDe, Pas
<1>7. rdvs'[r] = e.ligne /\ e.ligne # Absent /\ Existe(r)'
  BY <1>1, ConstantsAssumption DEF Existe
<1>8. rdvs'[r].date = ops[o].date
  BY <1>7 DEF Reguliere
<1>9. Touche(o, r)' => EtatDe(o, r)'
  <2>1. \A k \in JoursDeRappel(ops[o].date) : ops[o].date - horloge' > k
    BY DEF JoursDeRappel, Pas
  <2>2. ops' = [ops EXCEPT ![o] = q]
    BY DEF Pas
  <2>3. Convient(o, r, {}, JoursDeRappel(ops[o].date), Mail(r))
    BY <1>6, <1>7, <1>8, <2>1, MailNegatif DEF Convient
  <2> QED BY <1>2, <2>2, <2>3, EtatReste
<1>10. Ponctuels(r)' /\ Numerotees(r)'
  BY <1>6 DEF Ponctuels, Numerotees
<1>11. Retard <= 4 => Annoncees(r)'
  BY <1>6, AnnonceesAilleurs DEF Sain, MemesAnnonces, Pas
<1>12. \A k \in JoursDeRappel(ops[o].date) : EnPlan(r, k)'
  BY <1>2, <1>4, CondamneReste DEF Pas
<1>13. Planifie(r)'
  BY <1>8, <1>12 DEF Planifie, JoursDeRappel
<1>14. \A j \in JobsDe(r)' : j.etat = "actif" => j \in JobsDe(r)
  BY <1>6
<1> QED BY <1>9, <1>10, <1>11, <1>13, <1>14, SainSuite DEF Pas

(* What a save other than a creation leaves of a row.                       *)
LEMMA LigneSuivante ==
  ASSUME NEW cmd, NEW e, cmd # "creer", Justifiee(cmd, e), e.lu \in Ligne \cup {Absent}
  PROVE  /\ e.lu \in Ligne
         /\ e.ligne.ics = e.lu.ics
         /\ cmd # "modifier" => e.ligne.date = e.lu.date
<1>1. e.lu \in Ligne
  BY DEF Justifiee
<1>2. \A d, js, l : LigneModifiee(e.lu, d, js, l).ics = e.lu.ics
  BY <1>1 DEF LigneModifiee, Ligne
<1>3. \A js : LigneClose(e.lu, js).ics = e.lu.ics /\ LigneClose(e.lu, js).date = e.lu.date
  BY <1>1 DEF LigneClose, Ligne
<1>4. \A js : LigneSans(e.lu, js).ics = e.lu.ics /\ LigneSans(e.lu, js).date = e.lu.date
  BY <1>1 DEF LigneSans, Ligne
<1> QED BY <1>1, <1>2, <1>3, <1>4 DEF Justifiee

LEMMA SainDeplacement ==
  ASSUME TypeOK, TypeOK', NEW o \in Ops, NEW e \in ops[o].ecritures,
         NEW q, Pas(o, q, e.rdv), Reguliere(ops[o]), Forme(ops[o]),
         q = ApresEcriture(ops[o], e), ops[o].cmd = "modifier", e.rdv \in Rdv,
         Sain(e.rdv), IsoleDe(o, e.rdv),
         rdvs'[e.rdv] = e.ligne, planifieLe' = planifieLe,
         jobs' = jobs, invitations' = invitations
  PROVE  Sain(e.rdv)'
<1> DEFINE r == e.rdv
<1>1. ops[o] \in Operation /\ e.ligne \in Ligne
  BY OperationType DEF Operation, Ecriture
<1>2. Reste(ops[o], q, RappelsARetirer(ops[o]), {}, Mail(r))
  BY <1>1, RestesDesSauvegardes
<1>3. ops[o].etape = "ecriture" /\ ops[o].retirer = {} /\ ops[o].ajouter = {}
  BY DEF Forme
<1>4. Touche(o, r) /\ EtatDe(o, r) /\ r \in uuids
  BY DEF Pas, Sain, EtatDe
<1>5. e.lu = rdvs[r] /\ Justifiee("modifier", e)
  BY DEF IsoleDe
<1>6. rdvs[r] \in Ligne /\ e.ligne.ics = rdvs[r].ics
  <2>1. e.lu \in Ligne \cup {Absent}
    BY <1>5 DEF TypeOK
  <2> QED BY <1>5, <2>1, LigneSuivante
<1>7. Existe(r) /\ rdvs'[r] = e.ligne /\ e.ligne # Absent /\ Existe(r)'
  BY <1>1, <1>6, ConstantsAssumption DEF Existe
<1>8. rdvs'[r].date = ops[o].date /\ (ops[o].change <=> ops[o].date # rdvs[r].date)
  BY <1>5, <1>7 DEF Reguliere
<1>9. JobsDe(r)' = JobsDe(r)
  BY DEF JobsDe
<1>10. \A j \in JobsDe(r)' : j.id[2] \in JoursRappel
  BY <1>9, JobsDeType
<1>11. Touche(o, r)' => EtatDe(o, r)'
  <2>1. RappelsARetirer(ops[o]) # {} =>
          \A j \in JobsDe(r)' : j.id[2] \in RappelsARetirer(ops[o])
    BY <1>10 DEF RappelsARetirer
  <2>2. ops' = [ops EXCEPT ![o] = q] /\ r \in uuids' /\ ops[o].cmd # "supprimer"
    BY <1>4 DEF Pas
  <2>3. Convient(o, r, RappelsARetirer(ops[o]), {}, Mail(r))
    BY <1>7, <1>8, <2>1, <2>2, MailNegatif DEF Convient
  <2> QED BY <1>2, <2>2, <2>3, EtatReste
<1>12. CASE ops[o].change
  <2>1. RappelsARetirer(ops[o]) = JoursRappel
    BY <1>12 DEF RappelsARetirer
  <2>2. /\ \A k \in JoursRappel : Condamne(r, k)'
        /\ \A k : EnPlan(r, k)'
    BY <1>2, <1>4, <2>1, CondamneReste DEF Pas, JoursRappel
  <2>3. Ponctuels(r)'
    BY <1>10, <2>2 DEF Ponctuels
  <2>4. Numerotees(r)'
    BY <1>6, <1>7 DEF Sain, Numerotees
  <2>5. Retard <= 4 => Annoncees(r)'
    BY <1>9, AnnonceesAilleurs DEF Sain, MemesAnnonces, Pas
  <2>6. Planifie(r)'
    BY <2>2 DEF Planifie
  <2>7. \A j \in JobsDe(r)' : j.etat = "actif" => j \in JobsDe(r)
    BY <1>9
  <2> QED BY <1>11, <2>3, <2>4, <2>5, <2>6, <2>7, SainSuite DEF Pas
<1>13. CASE ~ops[o].change
  <2>1. rdvs'[r].date = rdvs[r].date
    BY <1>8, <1>13
  <2>2. rdvs'[r].ics >= rdvs[r].ics
    BY <1>6, <1>7, DateType
  <2> QED BY <1>3, <1>7, <1>11, <2>1, <2>2, SainNeutre DEF Pas
<1> QED BY <1>12, <1>13

(* A closure or an unregistration leaves the date of the appointments it    *)
(* touches: the one it saves, those it has saved and those still to save.   *)
LEMMA SainSauvegarde ==
  ASSUME TypeOK, TypeOK', NEW o \in Ops, NEW e \in ops[o].ecritures,
         NEW r \in Rdv, NEW q, Pas(o, q, r), Reguliere(ops[o]), Forme(ops[o]),
         q = ApresEcriture(ops[o], e), ops[o].cmd \in {"clore", "desinscrire"},
         Sain(r), IsoleDe(o, r),
         rdvs' = [rdvs EXCEPT ![e.rdv] = e.ligne], planifieLe' = planifieLe,
         jobs' = jobs, invitations' = invitations
  PROVE  Sain(r)'
<1>1. ops[o] \in Operation /\ e.ligne \in Ligne
  BY OperationType DEF Operation, Ecriture
<1>2. /\ ops[o].etape = "ecriture" /\ ops[o].retirer = {} /\ ops[o].ajouter = {}
      /\ ops[o].mail = PasDeMail
  BY DEF Forme, Reguliere
<1>3. q = Libre \/ /\ q.etape = "ecriture" /\ q.retirer = {} /\ q.ajouter = {}
                   /\ q.mail = PasDeMail /\ q.cmd = ops[o].cmd
  BY <1>1, <1>2 DEF ApresEcriture, ApresSauvegarde, Operation
<1>4. /\ Existe(r)' <=> Existe(r)
      /\ Existe(r) => rdvs'[r].date = rdvs[r].date /\ rdvs'[r].ics = rdvs[r].ics
  <2>1. CASE r = e.rdv
    <3>1. e.lu = rdvs[r] /\ Justifiee(ops[o].cmd, e)
      BY <2>1 DEF IsoleDe
    <3>2. e.lu \in Ligne \cup {Absent}
      BY <3>1 DEF TypeOK
    <3>3. e.lu \in Ligne /\ e.ligne.ics = e.lu.ics /\ e.ligne.date = e.lu.date
      BY <3>1, <3>2, LigneSuivante
    <3>4. rdvs'[r] = e.ligne
      BY <2>1 DEF TypeOK
    <3> QED BY <1>1, <3>1, <3>3, <3>4, ConstantsAssumption DEF Existe
  <2>2. CASE r # e.rdv
    BY <2>2 DEF TypeOK, Existe
  <2> QED BY <2>1, <2>2
<1>5. Existe(r) => rdvs'[r].ics >= rdvs[r].ics
  BY <1>4, DateType
<1>6. Touche(o, r)' => EtatDe(o, r)'
  <2>1. ops'[o] = q /\ r \in uuids'
    BY DEF Pas, TypeOK, Sain, EtatDe
  <2>2. Touche(o, r)' => q # Libre
    BY <2>1 DEF Touche, Libre
  <2> QED BY <1>3, <2>1, <2>2, MailNegatif DEF EtatDe
<1> QED BY <1>2, <1>4, <1>5, <1>6, SainNeutre DEF Pas

-----------------------------------------------------------------------------
(* Deleting                                                                 *)

LEMMA IncrementerDate ==
  ASSUME TypeOK, NEW r \in Rdv, Existe(r), rdvs' = IncrementerIcs(r)
  PROVE  /\ rdvs'[r].date = rdvs[r].date /\ rdvs'[r].ics = rdvs[r].ics + 1
         /\ rdvs[r].ics + 1 \in Nat /\ Existe(r)'
<1>1. rdvs[r] \in Ligne
  BY DateType
<1>2. rdvs'[r] = [rdvs[r] EXCEPT !.ics = @ + 1] /\ rdvs[r].ics + 1 \in Nat
  BY IncrementerType DEF TypeOK
<1>3. rdvs'[r].date = rdvs[r].date /\ rdvs'[r].ics = rdvs[r].ics + 1
  BY <1>1, <1>2 DEF Ligne
<1>4. Existe(r)'
  BY IcsNeutre
<1> QED BY <1>2, <1>3, <1>4

LEMMA SainIcs ==
  ASSUME TypeOK, TypeOK', NEW o \in Ops, NEW r \in Rdv, NEW sequence,
         Pas(o, ApresIcs(ops[o], sequence), r), Forme(ops[o]),
         ops[o].etape = "ics", Reguliere(ops[o]), Sain(r), Existe(r),
         rdvs' = IncrementerIcs(r),
         sequence = IF r \in Invitations THEN rdvs'[r].ics ELSE Mail(r),
         jobs' = jobs, invitations' = invitations, planifieLe' = planifieLe
  PROVE  Sain(r)'
<1> DEFINE q == ApresIcs(ops[o], sequence)
<1>1. ops[o].retirer = {} /\ ops[o].ajouter = {} /\ ops[o].cmd = "supprimer"
  BY DEF Forme, Reguliere
<1>2. /\ q.etape = "destruction" /\ q.retirer = {} /\ q.ajouter = {}
      /\ q.mail = sequence /\ q.cmd = "supprimer"
  BY <1>1, OperationType DEF ApresIcs, Operation
<1>3. /\ rdvs'[r].date = rdvs[r].date /\ rdvs'[r].ics = rdvs[r].ics + 1
      /\ rdvs[r].ics + 1 \in Nat /\ Existe(r)'
  BY IncrementerDate
<1>4. rdvs[r].ics \in Int
  BY DateType
<1>5. sequence >= 0 => sequence = rdvs[r].ics + 1
  BY <1>3, MailNegatif
<1>6. \A i \in DOMAIN invitations[r] : invitations[r][i] \in Int
  BY DEF TypeOK
<1>7. \A i \in DOMAIN invitations[r] : invitations[r][i] < rdvs[r].ics + 1
  BY <1>4, <1>6 DEF Sain, Numerotees
<1> HIDE DEF q
<1>8. ops'[o] = q /\ r \in uuids'
  BY DEF Pas, Sain, EtatDe, TypeOK, q
<1>9. EtatDe(o, r)'
  BY <1>2, <1>5, <1>7, <1>8 DEF EtatDe
<1>10. rdvs'[r].ics >= rdvs[r].ics
  BY <1>3, <1>4
<1>11. Pas(o, q, r)
  BY DEF q
<1> QED BY <1>1, <1>3, <1>9, <1>10, <1>11, SainNeutre DEF Pas

LEMMA SainDestruction ==
  ASSUME TypeOK, NEW o \in Ops, NEW r \in Rdv,
         Pas(o, ApresDestruction(ops[o]), r), Forme(ops[o]),
         ops[o].etape = "destruction", Reguliere(ops[o]), Sain(r),
         ~Existe(r)', jobs' = jobs, invitations' = invitations
  PROVE  Sain(r)'
<1> DEFINE q == ApresDestruction(ops[o])
<1>1. ops[o].retirer = {} /\ ops[o].ajouter = {} /\ ops[o].cmd = "supprimer"
  BY DEF Forme, Reguliere
<1>2. /\ q.etape = "associations" /\ q.retirer = {} /\ q.ajouter = {}
      /\ q.mail = ops[o].mail /\ q.cmd = "supprimer" /\ q.touches = ops[o].touches
  BY <1>1, OperationType DEF ApresDestruction, Operation
<1> HIDE DEF q
<1>3. Pas(o, q, r)
  BY DEF q
<1>4. ops'[o] = q /\ Touche(o, r) /\ EtatDe(o, r)
  BY <1>3 DEF Pas, Sain, TypeOK
<1>5. Touche(o, r)' /\ \A k : Condamne(r, k)'
  BY <1>2, <1>4 DEF Condamne, Touche
<1>6. EtatDe(o, r)'
  BY <1>2, <1>3, <1>4 DEF EtatDe, Pas
<1>7. JobsDe(r)' = JobsDe(r)
  BY DEF JobsDe
<1>8. Ponctuels(r)'
  BY <1>5 DEF Ponctuels
<1>9. Numerotees(r)'
  BY DEF Sain, Numerotees
<1>10. Retard <= 4 => Annoncees(r)'
  BY <1>7, AnnonceesAilleurs DEF Sain, MemesAnnonces, Pas
<1>11. Planifie(r)'
  BY DEF Planifie
<1>12. \A j \in JobsDe(r)' : j.etat = "actif" => j \in JobsDe(r)
  BY <1>7
<1> QED BY <1>3, <1>6, <1>8, <1>9, <1>10, <1>11, <1>12, SainSuite DEF Pas

LEMMA SainAssociations ==
  ASSUME TypeOK, NEW o \in Ops, NEW r \in Rdv,
         Pas(o, ApresAssociations(ops[o]), r), Forme(ops[o]),
         ops[o].etape = "associations", Reguliere(ops[o]), Sain(r),
         ~Existe(r)', jobs' = jobs, invitations' = invitations
  PROVE  Sain(r)'
<1> DEFINE q == ApresAssociations(ops[o])
<1>1. Reste(ops[o], q, JoursRappel, {}, ops[o].mail)
  BY OperationType, ResteAssociations
<1> HIDE DEF q
<1>2. Pas(o, q, r) /\ ops[o].cmd = "supprimer"
  BY DEF q, Reguliere
<1>3. Touche(o, r) /\ EtatDe(o, r) /\ ops' = [ops EXCEPT ![o] = q]
  BY <1>2 DEF Pas, Sain
<1>4. JobsDe(r)' = JobsDe(r)
  BY DEF JobsDe
<1>5. Convient(o, r, JoursRappel, {}, ops[o].mail)
  BY <1>2, <1>3 DEF Convient, EtatDe, Pas
<1>6. Touche(o, r)' => EtatDe(o, r)'
  BY <1>1, <1>3, <1>5, EtatReste
<1>7. \A k \in JoursRappel : Condamne(r, k)'
  BY <1>1, <1>3, CondamneReste
<1>8. Ponctuels(r)'
  <2>1. \A j \in JobsDe(r)' : j.id[2] \in JoursRappel
    BY <1>4, JobsDeType
  <2> QED BY <1>7, <2>1 DEF Ponctuels
<1>9. Numerotees(r)'
  BY DEF Sain, Numerotees
<1>10. Retard <= 4 => Annoncees(r)'
  BY <1>2, <1>4, AnnonceesAilleurs DEF Sain, MemesAnnonces, Pas
<1>11. Planifie(r)'
  BY DEF Planifie
<1>12. \A j \in JobsDe(r)' : j.etat = "actif" => j \in JobsDe(r)
  BY <1>4
<1> QED BY <1>2, <1>6, <1>8, <1>9, <1>10, <1>11, <1>12, SainSuite DEF Pas

-----------------------------------------------------------------------------
(* The background work                                                      *)

LEMMA SansJobActif ==
  ASSUME NEW o \in Ops, NEW r, Touche(o, r), Sain(r)
  PROVE  \A j \in JobsDe(r) : j.etat # "actif"
BY DEF Sain, Seul, Actifs

LEMMA SainRetrait ==
  ASSUME TypeOK, NEW o \in Ops, NEW r \in Rdv, NEW k \in ops[o].retirer,
         Pas(o, RappelRetire(ops[o], k), r), Forme(ops[o]), Reguliere(ops[o]),
         Sain(r), jobs' = SupprimerJobs(jobs, {<<r, k>>}),
         planifieLe' = IF Replanifie(ops[o], k)
                       THEN [planifieLe EXCEPT ![r] = horloge] ELSE planifieLe,
         rdvs' = rdvs, invitations' = invitations
  PROVE  Sain(r)'
<1> DEFINE q == RappelRetire(ops[o], k)
           aj == IF Replanifie(ops[o], k) THEN JoursDeRappel(ops[o].date) ELSE {}
           ret == ops[o].retirer \ {k}
<1>1. ops[o].etape = "fond" /\ ops[o].ecritures = {} /\ ops[o].ajouter = {}
  BY DEF Forme, Reguliere
<1>2. Reste(ops[o], q, ret, aj, ops[o].mail)
  BY <1>1, OperationType, Restes
<1>3. aj # {} => ops[o].retirer = {k} /\ ops[o].cmd = "modifier"
  BY DEF Replanifie
<1>4. \A i \in aj : ops[o].date - horloge > i
  BY DEF JoursDeRappel
<1>5. Replanifie(ops[o], k) => /\ aj = JoursDeRappel(ops[o].date)
                               /\ planifieLe'[r] = horloge
  BY DEF TypeOK
<1>6. ~Replanifie(ops[o], k) => planifieLe'[r] = planifieLe[r]
  OBVIOUS
<1>7. Pas(o, q, r)
  OBVIOUS
<1> HIDE DEF q, aj, ret
<1>8. Touche(o, r) /\ EtatDe(o, r) /\ ops' = [ops EXCEPT ![o] = q] /\ horloge' = horloge
  BY <1>7 DEF Pas, Sain
<1>9. JobsDe(r)' = {j \in JobsDe(r) : j.id[2] # k}
  <2>1. \A j \in JobsDe(r) : j.etat # "actif"
    BY <1>8, SansJobActif
  <2>2. \A j \in JobsDe(r) : j.id = <<r, k>> <=> j.id[2] = k
    BY JobsDeType
  <2>3. \A j \in jobs' : j \in jobs
    BY DEF SupprimerJobs
  <2>4. \A j \in JobsDe(r) : j \in jobs' <=> j.id[2] # k
    BY <2>1, <2>2 DEF SupprimerJobs, JobsDe
  <2> QED BY <2>3, <2>4 DEF JobsDe
<1>10. Existe(r)' <=> Existe(r)
  BY DEF Existe
<1>11. ops[o].cmd = "modifier" =>
         /\ Existe(r) /\ rdvs[r].date = ops[o].date
         /\ \A j \in JobsDe(r) : j.id[2] \in ops[o].retirer
  BY <1>8 DEF EtatDe
<1>12. ops[o].cmd = "supprimer" => ~Existe(r)
  BY <1>1, <1>8 DEF EtatDe
<1>13. ops[o].cmd \in {"modifier", "supprimer"}
  BY <1>1 DEF Reguliere
<1>14. Touche(o, r)' => EtatDe(o, r)'
  <2>1. \A i \in aj : \A j \in JobsDe(r)' : j.id[2] # i
    BY <1>3, <1>9, <1>11
  <2>2. \A j \in JobsDe(r)' : j.id[2] \in ops[o].retirer => j.id[2] \in ret
    BY <1>9 DEF ret
  <2>3. ops[o].mail >= 0 =>
          \A i \in DOMAIN invitations'[r] : invitations'[r][i] < ops[o].mail
    BY <1>8 DEF EtatDe
  <2>4. r \in uuids'
    BY <1>7, <1>8 DEF Pas, EtatDe
  <2>5. ops[o].cmd = "modifier" => \A j \in JobsDe(r)' : j.id[2] \in ret
    BY <1>9, <1>11, <2>2
  <2>6. \A i \in aj : ops[o].date - horloge' > i
    BY <1>4, <1>8
  <2>7. Convient(o, r, ret, aj, ops[o].mail)
    BY <1>3, <1>10, <1>11, <1>12, <2>1, <2>3, <2>4, <2>5, <2>6 DEF Convient
  <2> QED BY <1>2, <1>8, <2>7, EtatReste
<1>15. /\ \A i \in ret : Condamne(r, i)'
       /\ ret # {} => \A i : EnPlan(r, i)'
       /\ \A i \in aj : EnPlan(r, i)'
  BY <1>2, <1>8, CondamneReste
<1>16. Ponctuels(r)'
  <2>1. \A j : AJour(j, r) => AJour(j, r)'
    BY <1>8, <1>10 DEF AJour
  <2>2. \A i : Condamne(r, i) /\ i # k => i \in ret
    BY <1>1, <1>7, CondamnePar DEF Pas, ret
  <2> QED BY <1>9, <1>15, <2>1, <2>2 DEF Sain, Ponctuels
<1>17. Numerotees(r)'
  BY <1>10 DEF Sain, Numerotees
<1>18. Retard <= 4 => Annoncees(r)'
  BY <1>7, <1>9, AnnonceesAilleurs DEF Sain, MemesAnnonces, Pas
<1>19. Planifie(r)'
  <2>1. CASE Replanifie(ops[o], k)
    <3>1. \A i \in JoursRappel : rdvs'[r].date - planifieLe'[r] > i => i \in aj
      BY <1>5, <1>11, <2>1 DEF JoursDeRappel, Replanifie
    <3> QED BY <1>15, <3>1 DEF Planifie
  <2>2. CASE ~Replanifie(ops[o], k)
    <3>1. ops[o].cmd = "modifier" => ret # {}
      BY <2>2 DEF Replanifie, ret
    <3> QED BY <1>10, <1>12, <1>13, <1>15, <3>1 DEF Planifie
  <2> QED BY <2>1, <2>2
<1>20. \A j \in JobsDe(r)' : j.etat = "actif" => j \in JobsDe(r)
  BY <1>9
<1> QED BY <1>7, <1>14, <1>16, <1>17, <1>18, <1>19, <1>20, SainSuite DEF Pas

LEMMA SainAjout ==
  ASSUME TypeOK, NEW o \in Ops, NEW r \in Rdv, NEW k \in ops[o].ajouter,
         Pas(o, RappelAjoute(ops[o], k), r), Forme(ops[o]), Reguliere(ops[o]),
         Sain(r),
         jobs' = AjouterJob(jobs, [id |-> <<r, k>>, etat |-> "attente",
                                   echeance |-> ops[o].date - k]),
         planifieLe' = planifieLe, rdvs' = rdvs, invitations' = invitations
  PROVE  Sain(r)'
<1> DEFINE q == RappelAjoute(ops[o], k)
           aj == ops[o].ajouter \ {k}
           n == [id |-> <<r, k>>, etat |-> "attente", echeance |-> ops[o].date - k]
<1>1. ops[o].etape = "fond" /\ ops[o].ecritures = {} /\ ops[o].retirer = {}
  BY DEF Forme, Reguliere
<1>2. Reste(ops[o], q, {}, aj, ops[o].mail)
  BY <1>1, OperationType, Restes
<1>3. n.id[1] = r /\ n.id[2] = k /\ n.id = <<r, k>> /\ n.etat = "attente"
      /\ n.echeance = ops[o].date - k
  OBVIOUS
<1>4. Pas(o, q, r) /\ jobs' = AjouterJob(jobs, n)
  OBVIOUS
<1> HIDE DEF q, n
<1>5. Touche(o, r) /\ EtatDe(o, r) /\ ops' = [ops EXCEPT ![o] = q] /\ horloge' = horloge
  BY <1>4 DEF Pas, Sain
<1>6. Existe(r) /\ Existe(r)' /\ rdvs[r].date = ops[o].date
  BY <1>5 DEF EtatDe, Existe
<1>7. \A i \in ops[o].ajouter :
        ops[o].date - horloge > i /\ \A j \in JobsDe(r) : j.id[2] # i
  BY <1>5 DEF EtatDe
<1>8. JobsDe(r)' = JobsDe(r) \cup {n}
  <2>1. \A j \in jobs : j.id # n.id
    BY <1>3, <1>7 DEF JobsDe
  <2>2. jobs' = jobs \cup {n}
    BY <1>4, <2>1 DEF AjouterJob
  <2> QED BY <1>3, <2>2 DEF JobsDe
<1>9. k \in JoursRappel /\ k \in Int /\ ops[o].date \in Int /\ horloge \in Int
  BY EntiersDe DEF JoursRappel
<1>10. Touche(o, r)' => EtatDe(o, r)'
  <2>1. \A i \in aj : \A j \in JobsDe(r)' : j.id[2] # i
    BY <1>3, <1>7, <1>8
  <2>2. \A i \in aj : ops[o].date - horloge' > i
    BY <1>5, <1>7
  <2>3. ops[o].mail >= 0 =>
          \A i \in DOMAIN invitations'[r] : invitations'[r][i] < ops[o].mail
    BY <1>5 DEF EtatDe
  <2>4. r \in uuids' /\ ops[o].cmd # "supprimer"
    BY <1>4, <1>5 DEF Pas, EtatDe, Reguliere
  <2>5. Convient(o, r, {}, aj, ops[o].mail)
    BY <1>6, <2>1, <2>2, <2>3, <2>4 DEF Convient
  <2> HIDE DEF aj
  <2> QED BY <1>2, <1>5, <2>5, EtatReste
<1>11. \A i \in aj : EnPlan(r, i)'
  <2> HIDE DEF aj
  <2> QED BY <1>2, <1>5, CondamneReste
<1>12. Ponctuels(r)'
  <2>1. \A j : AJour(j, r) => AJour(j, r)'
    BY <1>5, <1>6 DEF AJour
  <2>2. \A i : ~Condamne(r, i)
    BY <1>1, <1>4, CondamnePar DEF Pas
  <2>3. AJour(n, r)
    BY <1>3, <1>6, <1>7, <1>9, ConstantsAssumption DEF AJour
  <2> QED BY <1>8, <2>1, <2>2, <2>3 DEF Sain, Ponctuels
<1>13. Numerotees(r)'
  BY <1>6 DEF Sain, Numerotees
<1>14. Retard <= 4 => Annoncees(r)'
  <2> SUFFICES ASSUME Annoncees(r) PROVE Annoncees(r)'
    BY DEF Sain
  <2>1. annonces' = annonces
    BY <1>4 DEF Pas
  <2>2. ASSUME NEW i \in DOMAIN annonces, annonces[i].rdv = r,
               Jours(annonces[i].texte) = k
        PROVE  n.echeance # annonces[i].date - Jours(annonces[i].texte)
    <3>1. horloge >= annonces[i].date - k
      BY <2>2 DEF Annoncees
    <3>2. annonces[i].date \in Int
      BY AnnonceType
    <3> QED BY <1>3, <1>7, <1>9, <2>2, <3>1, <3>2
  <2> QED BY <1>3, <1>5, <1>8, <2>1, <2>2 DEF Annoncees
<1>15. Retard <= 1 => Planifie(r)'
  <2>1. EnPlan(r, k)'
    BY <1>3, <1>6, <1>8 DEF EnPlan
  <2>2. \A i : EnPlan(r, i) => i \in ops[o].ajouter \/ EnPlan(r, i)'
    BY <1>1, <1>4, <1>8 DEF EnPlan, Pas
  <2> QED BY <1>6, <1>11, <2>1, <2>2 DEF Sain, Planifie
<1>16. \A j \in JobsDe(r)' : j.etat = "actif" => j \in JobsDe(r)
  BY <1>3, <1>8
<1> QED BY <1>4, <1>10, <1>12, <1>13, <1>14, <1>15, <1>16, SainSuite DEF Pas

LEMMA SainInvitation ==
  ASSUME TypeOK, TypeOK', NEW o \in Ops, NEW r \in Rdv,
         Pas(o, InvitationEnvoyee(ops[o]), r), Forme(ops[o]), Reguliere(ops[o]),
         Sain(r), ops[o].etape = "fond", ops[o].mail # PasDeMail,
         NEW sequence,
         sequence = IF ops[o].mail # PasDIcs THEN ops[o].mail
                    ELSE IF Existe(r) THEN rdvs[r].ics + 1 ELSE PasDIcs,
         rdvs' = IF ops[o].mail = PasDIcs THEN IncrementerIcs(r) ELSE rdvs,
         invitations' = IF sequence = PasDIcs THEN invitations
                        ELSE [invitations EXCEPT ![r] = Append(@, sequence)],
         jobs' = jobs, planifieLe' = planifieLe
  PROVE  Sain(r)'
<1> DEFINE q == InvitationEnvoyee(ops[o])
<1>1. ops[o].ecritures = {}
  BY EnFond
<1>2. Reste(ops[o], q, ops[o].retirer, ops[o].ajouter, PasDeMail)
  BY <1>1, OperationType, Restes
<1>3. Pas(o, q, r)
  OBVIOUS
<1> HIDE DEF q
<1>4. Touche(o, r) /\ EtatDe(o, r) /\ ops' = [ops EXCEPT ![o] = q] /\ horloge' = horloge
  BY <1>3 DEF Pas, Sain
<1>5. /\ Existe(r)' <=> Existe(r)
      /\ Existe(r) => rdvs'[r].date = rdvs[r].date
  BY IncrementerDate, IcsNeutre DEF Existe
<1>6. JobsDe(r)' = JobsDe(r)
  BY DEF JobsDe
<1>7. Touche(o, r)' => EtatDe(o, r)'
  <2>1. r \in uuids'
    BY <1>3, <1>4 DEF Pas, EtatDe
  <2>2. Convient(o, r, ops[o].retirer, ops[o].ajouter, PasDeMail)
    BY <1>4, <1>5, <1>6, <2>1, MailNegatif DEF Convient, EtatDe
  <2> QED BY <1>2, <1>4, <2>2, EtatReste
<1>8. /\ \A k \in ops[o].retirer : Condamne(r, k)'
      /\ ops[o].retirer # {} => \A k : EnPlan(r, k)'
      /\ \A k \in ops[o].ajouter : EnPlan(r, k)'
  BY <1>2, <1>4, CondamneReste
<1>9. Ponctuels(r)'
  <2>1. \A j : AJour(j, r) => AJour(j, r)'
    BY <1>4, <1>5 DEF AJour
  <2>2. \A k : Condamne(r, k) => k \in ops[o].retirer
    BY <1>3, CondamnePar DEF Pas
  <2> QED BY <1>6, <1>8, <2>1, <2>2 DEF Sain, Ponctuels
<1>10. Numerotees(r)'
  <2>1. CASE sequence = PasDIcs
    <3>1. ops[o].mail = PasDIcs /\ ~Existe(r)
      <4>1. CASE Existe(r) /\ ops[o].mail = PasDIcs
        <5>1. sequence \in Nat
          BY <4>1, IncrementerType DEF TypeOK
        <5> QED BY <2>1, <5>1 DEF PasDIcs
      <4> QED BY <2>1, <4>1
    <3> QED BY <1>5, <2>1, <3>1 DEF Sain, Numerotees
  <2>2. CASE sequence # PasDIcs
    <3> DEFINE s == invitations[r]
    <3>1. s \in Seq(Nat)
      BY DEF TypeOK
    <3>2. sequence \in Nat
      <4>1. ops[o].mail \in Nat \cup {PasDIcs, PasDeMail}
        BY OperationType DEF Operation
      <4>2. Existe(r) => rdvs[r].ics + 1 \in Nat
        BY IncrementerType DEF TypeOK
      <4> QED BY <2>2, <4>1, <4>2
    <3>3. invitations'[r] = Append(s, sequence)
      BY <2>2 DEF TypeOK
    <3>4. /\ \A i \in DOMAIN s : s[i] < sequence
          /\ Existe(r) => rdvs'[r].ics = sequence
      <4>1. CASE ops[o].mail = PasDIcs
        <5>1. Existe(r) /\ sequence = rdvs[r].ics + 1
          BY <2>2, <4>1
        <5>2. rdvs[r].ics \in Int /\ rdvs'[r].ics = sequence
          BY <4>1, <5>1, DateType, IncrementerDate
        <5>3. \A i \in DOMAIN s : s[i] <= rdvs[r].ics
          BY <5>1 DEF Sain, Numerotees
        <5>4. \A i \in DOMAIN s : s[i] \in Int
          BY <3>1
        <5> QED BY <5>1, <5>2, <5>3, <5>4
      <4>2. CASE ops[o].mail # PasDIcs
        <5>1. sequence = ops[o].mail /\ ops[o].mail >= 0
          BY <3>2, <4>2
        <5>2. ~Existe(r)
          BY <1>4, <4>2 DEF EtatDe, Reguliere
        <5> QED BY <1>4, <5>1, <5>2 DEF EtatDe
      <4> QED BY <4>1, <4>2
    <3>5. \A i, j \in DOMAIN s : i < j => s[i] < s[j]
      BY DEF Sain, Numerotees
    <3> HIDE DEF s
    <3>6. /\ DOMAIN s = 1 .. Len(s) /\ Len(s) \in Nat
          /\ DOMAIN Append(s, sequence) = 1 .. Len(s) + 1
          /\ \A i \in DOMAIN s : Append(s, sequence)[i] = s[i] /\ s[i] \in Nat
          /\ Append(s, sequence)[Len(s) + 1] = sequence
      BY <3>1, <3>2
    <3>7. \A i, j \in DOMAIN Append(s, sequence) :
            i < j => Append(s, sequence)[i] < Append(s, sequence)[j]
      BY <3>4, <3>5, <3>6
    <3>8. Existe(r) => \A i \in DOMAIN Append(s, sequence) :
                         Append(s, sequence)[i] <= rdvs'[r].ics
      BY <3>2, <3>4, <3>6
    <3> QED BY <1>5, <3>3, <3>7, <3>8 DEF Numerotees
  <2> QED BY <2>1, <2>2
<1>11. Retard <= 4 => Annoncees(r)'
  BY <1>3, <1>6, AnnonceesAilleurs DEF Sain, MemesAnnonces, Pas
<1>12. Retard <= 1 => Planifie(r)'
  <2>1. \A k : Existe(r) /\ EnPlan(r, k) => EnPlan(r, k)'
    <3> SUFFICES ASSUME NEW k, Existe(r), EnPlan(r, k) PROVE EnPlan(r, k)'
      OBVIOUS
    <3>1. CASE \E p \in Ops : /\ Touche(p, r)
                              /\ k \in ops[p].ajouter \/ ops[p].retirer # {}
      BY <1>3, <1>8, <3>1 DEF Pas
    <3>2. CASE ~\E p \in Ops : /\ Touche(p, r)
                               /\ k \in ops[p].ajouter \/ ops[p].retirer # {}
      BY <1>3, <1>5, <1>6, <3>2 DEF EnPlan, Pas
    <3> QED BY <3>1, <3>2
  <2> QED BY <1>5, <2>1 DEF Sain, Planifie
<1>13. \A j \in JobsDe(r)' : j.etat = "actif" => j \in JobsDe(r)
  BY <1>6
<1> QED BY <1>3, <1>7, <1>9, <1>10, <1>11, <1>12, <1>13, SainSuite DEF Pas

-----------------------------------------------------------------------------
(* The steps of the commands keep the invariant                             *)

LEMMA PasDeCommande ==
  ASSUME TypeOK, InvAgenda, InvRappels, NEW o \in Ops, NEW q, Suite(ops[o], q),
         ops' = [ops EXCEPT ![o] = q], perturbes' = perturbes,
         uuids' = uuids, workers' = workers, horloge' = horloge, annonces' = annonces,
         NEW r \in (Rdv \cap ops[o].touches) \ perturbes'
  PROVE  Pas(o, q, r) /\ Sain(r) /\ IsoleDe(o, r)
BY SeulAuteur DEF Pas, InvRappels

LEMMA CommandeAilleurs ==
  ASSUME TypeOK, NEW o \in Ops, NEW q, Suite(ops[o], q),
         ops' = [ops EXCEPT ![o] = q],
         uuids' = uuids, workers' = workers, horloge' = horloge, annonces' = annonces,
         NEW r \in Rdv, r \notin ops[o].touches,
         rdvs'[r] = rdvs[r], JobsDe(r)' = JobsDe(r),
         invitations'[r] = invitations[r], planifieLe'[r] = planifieLe[r]
  PROVE  Ailleurs(r)
<1>1. \A p \in Ops : Touche(p, r) \/ Touche(p, r)' => ops'[p] = ops[p]
  BY Autres DEF Touche
<1>2. \A w \in Workers : Sur(w, r) \/ Sur(w, r)' => workers'[w] = workers[w]
  OBVIOUS
<1> QED BY <1>1, <1>2 DEF Ailleurs, MemesAnnonces

LEMMA CommandeType ==
  ASSUME TypeOK, InvAgenda, InvRappels, NEW o \in Ops
  PROVE  ops[o] \in Operation /\ Forme(ops[o]) /\ Reguliere(ops[o])
BY OperationType DEF InvAgenda, Structure, InvRappels, Regularite

(* A save gives r, and no other appointment, the row e.                     *)
LEMMA RappelsSauver ==
  ASSUME TypeOK, TypeOK', InvAgenda, InvRappels, NEW o \in Ops, Sauver(o)
  PROVE  InvRappels'
<1>1. PICK e \in ops[o].ecritures :
        /\ rdvs' = [rdvs EXCEPT ![e.rdv] = e.ligne]
        /\ ops' = [ops EXCEPT ![o] = ApresEcriture(ops[o], e)]
        /\ planifieLe' = IF ops[o].cmd = "creer"
                         THEN [planifieLe EXCEPT ![e.rdv] = horloge] ELSE planifieLe
  BY DEF Sauver
<1> DEFINE q == ApresEcriture(ops[o], e)
<1>2. /\ horloge' = horloge /\ uuids' = uuids /\ jobs' = jobs /\ workers' = workers
      /\ annonces' = annonces /\ invitations' = invitations
      /\ perturbes' = perturbes /\ ops[o].etape = "ecriture"
      /\ ops' = [ops EXCEPT ![o] = q]
  BY <1>1 DEF Sauver
<1>3. ops[o] \in Operation /\ Forme(ops[o]) /\ Reguliere(ops[o])
  BY CommandeType
<1>4. e.rdv \in ops[o].touches /\ e.rdv \in Rdv /\ e.ligne \in Ligne
  BY <1>3 DEF Forme, Operation, Ecriture
<1>5. Suite(ops[o], q)
  BY <1>3, Suites
<1>6. Reguliere(q)
  <2>1. CASE ops[o].cmd = "creer"
    <3>1. Reste(ops[o], q, {}, JoursDeRappel(ops[o].date), Mail(e.rdv))
      BY <1>3, <2>1, RestesDesSauvegardes
    <3> HIDE DEF q
    <3> QED BY <1>3, <2>1, <3>1, MailNegatif, ReguliereReste
  <2>2. CASE ops[o].cmd = "modifier"
    <3>1. Reste(ops[o], q, RappelsARetirer(ops[o]), {}, Mail(e.rdv))
      BY <1>3, <2>2, RestesDesSauvegardes
    <3> HIDE DEF q
    <3> QED BY <1>3, <2>2, <3>1, MailNegatif, ReguliereReste
  <2>3. CASE ops[o].cmd \notin {"creer", "modifier"}
    <3> DEFINE s == [ops[o] EXCEPT !.ecritures = @ \ {e}]
    <3>1. q \in {Libre, s}
      BY <2>3 DEF ApresEcriture, ApresSauvegarde
    <3>2. /\ s.ecritures \subseteq ops[o].ecritures /\ s.cmd = ops[o].cmd
          /\ s.etape = ops[o].etape /\ s.touches = ops[o].touches
          /\ s.mail = ops[o].mail /\ s.retirer = ops[o].retirer
          /\ s.ajouter = ops[o].ajouter /\ s.change = ops[o].change
          /\ s.date = ops[o].date
      BY <1>3 DEF Operation
    <3> HIDE DEF s, q
    <3>3. Reguliere(s)
      BY <1>3, <3>2 DEF Reguliere
    <3> QED BY <3>1, <3>3, ReguliereLibre
  <2> QED BY <2>1, <2>2, <2>3
<1> HIDE DEF q
<1>7. \A r \in Rdv \ ops[o].touches : Ailleurs(r)
  <2> SUFFICES ASSUME NEW r \in Rdv \ ops[o].touches PROVE Ailleurs(r)
    OBVIOUS
  <2>1. rdvs'[r] = rdvs[r] /\ planifieLe'[r] = planifieLe[r]
    BY <1>1, <1>4 DEF TypeOK
  <2>2. JobsDe(r)' = JobsDe(r)
    BY <1>2 DEF JobsDe
  <2> QED BY <1>2, <1>5, <2>1, <2>2, CommandeAilleurs
<1>8. ASSUME NEW r \in (Rdv \cap ops[o].touches) \ perturbes'
      PROVE  Sain(r)'
  <2>1. Pas(o, q, r) /\ Sain(r) /\ IsoleDe(o, r)
    BY <1>2, <1>5, <1>8, PasDeCommande
  <2>2. CASE ops[o].cmd = "creer"
    <3>1. r = e.rdv /\ rdvs'[e.rdv] = e.ligne /\ planifieLe'[e.rdv] = horloge
      BY <1>1, <1>3, <1>4, <2>2 DEF Reguliere, TypeOK
    <3> QED BY <1>2, <1>3, <1>4, <2>1, <2>2, <3>1, SainCreation DEF q
  <2>3. CASE ops[o].cmd = "modifier"
    <3>1. r = e.rdv /\ rdvs'[e.rdv] = e.ligne /\ planifieLe' = planifieLe
      BY <1>1, <1>3, <1>4, <2>3 DEF Reguliere, TypeOK
    <3> QED BY <1>2, <1>3, <1>4, <2>1, <2>3, <3>1, SainDeplacement DEF q
  <2>4. CASE ops[o].cmd \notin {"creer", "modifier"}
    <3>1. ops[o].cmd \in {"clore", "desinscrire"} /\ planifieLe' = planifieLe
      BY <1>1, <1>2, <1>3, <2>4 DEF Reguliere, Operation, Commandes
    <3> QED BY <1>1, <1>2, <1>3, <2>1, <3>1, SainSauvegarde DEF q
  <2> QED BY <2>2, <2>3, <2>4
<1>9. Regularite'
  BY <1>2, <1>6, RegulariteOp DEF InvRappels
<1>10. \A r \in Rdv \ perturbes' : Sain(r)'
  BY <1>2, <1>7, <1>8, SainPar DEF InvRappels
<1> QED BY <1>9, <1>10 DEF InvRappels

(* The common part of the other steps of a command: they change the rows,   *)
(* the jobs, the invitations of its own appointments only.                  *)
LEMMA RappelsSuite ==
  ASSUME TypeOK, InvRappels, NEW o \in Ops, NEW q, Suite(ops[o], q), Reguliere(q),
         ops' = [ops EXCEPT ![o] = q], perturbes' = perturbes,
         uuids' = uuids, workers' = workers, horloge' = horloge, annonces' = annonces,
         \A r \in Rdv \ ops[o].touches :
           /\ rdvs'[r] = rdvs[r] /\ JobsDe(r)' = JobsDe(r)
           /\ invitations'[r] = invitations[r] /\ planifieLe'[r] = planifieLe[r],
         \A r \in (Rdv \cap ops[o].touches) \ perturbes' : Sain(r)'
  PROVE  InvRappels'
<1>1. \A r \in Rdv \ ops[o].touches : Ailleurs(r)
  BY CommandeAilleurs
<1>2. Regularite'
  BY RegulariteOp DEF InvRappels
<1>3. \A r \in Rdv \ perturbes' : Sain(r)'
  BY <1>1, SainPar DEF InvRappels
<1> QED BY <1>2, <1>3 DEF InvRappels

LEMMA RappelsIcs ==
  ASSUME TypeOK, TypeOK', InvAgenda, InvRappels, NEW o \in Ops, IcsSuppression(o)
  PROVE  InvRappels'
<1>1. PICK s \in ops[o].touches :
        /\ rdvs' = IncrementerIcs(s)
        /\ ops' = [ops EXCEPT ![o] =
             ApresIcs(ops[o], IF Existe(s) /\ s \in Invitations
                              THEN rdvs'[s].ics ELSE Mail(s))]
  BY DEF IcsSuppression
<1> DEFINE n == IF Existe(s) /\ s \in Invitations THEN rdvs'[s].ics ELSE Mail(s)
           q == ApresIcs(ops[o], n)
<1>2. /\ horloge' = horloge /\ uuids' = uuids /\ jobs' = jobs /\ workers' = workers
      /\ annonces' = annonces /\ invitations' = invitations
      /\ perturbes' = perturbes /\ planifieLe' = planifieLe
      /\ ops[o].etape = "ics" /\ ops' = [ops EXCEPT ![o] = q]
  BY <1>1 DEF IcsSuppression
<1>3. ops[o] \in Operation /\ Forme(ops[o]) /\ Reguliere(ops[o])
  BY CommandeType
<1>4. s \in Rdv
  BY <1>1, <1>3 DEF Operation
<1> HIDE DEF n
<1>5. Suite(ops[o], q) /\ Reguliere(q)
  <2>1. /\ q.etape = "destruction" /\ q.cmd = ops[o].cmd /\ q.touches = ops[o].touches
        /\ q.retirer = ops[o].retirer /\ q.ajouter = ops[o].ajouter
        /\ q.ecritures = ops[o].ecritures
    BY <1>3 DEF ApresIcs, Operation
  <2>2. Suite(ops[o], q)
    BY <1>3, Suites
  <2>3. ops[o].ecritures = {} /\ ops[o].cmd = "supprimer"
    BY <1>2, <1>3 DEF Forme, Reguliere
  <2> HIDE DEF q
  <2> QED BY <1>2, <1>3, <2>1, <2>2, <2>3 DEF Reguliere
<1>6. \A r \in Rdv \ ops[o].touches :
        /\ rdvs'[r] = rdvs[r] /\ JobsDe(r)' = JobsDe(r)
        /\ invitations'[r] = invitations[r] /\ planifieLe'[r] = planifieLe[r]
  BY <1>1, <1>2, <1>4, IcsNeutre DEF JobsDe
<1>7. ASSUME NEW r \in (Rdv \cap ops[o].touches) \ perturbes'
      PROVE  Sain(r)'
  <2>1. r = s
    BY <1>1, <1>2, <1>3, <1>7 DEF Forme
  <2>2. Pas(o, q, r) /\ Sain(r) /\ IsoleDe(o, r)
    <3> HIDE DEF q
    <3> QED BY <1>2, <1>5, <1>7, PasDeCommande
  <2>3. Existe(r)
    BY <1>2, <2>2 DEF IsoleDe
  <2>4. n = IF r \in Invitations THEN rdvs'[r].ics ELSE Mail(r)
    BY <2>1, <2>3 DEF n
  <2> QED BY <1>1, <1>2, <1>3, <2>1, <2>2, <2>3, <2>4, SainIcs
<1> HIDE DEF q
<1> QED BY <1>2, <1>5, <1>6, <1>7, RappelsSuite

LEMMA RappelsDetruire ==
  ASSUME TypeOK, InvAgenda, InvRappels, NEW o \in Ops, Detruire(o)
  PROVE  InvRappels'
<1>1. PICK s \in ops[o].touches : rdvs' = [rdvs EXCEPT ![s] = Absent]
  BY DEF Detruire
<1> DEFINE q == ApresDestruction(ops[o])
<1>2. /\ horloge' = horloge /\ uuids' = uuids /\ jobs' = jobs /\ workers' = workers
      /\ annonces' = annonces /\ invitations' = invitations
      /\ perturbes' = perturbes /\ planifieLe' = planifieLe
      /\ ops[o].etape = "destruction" /\ ops' = [ops EXCEPT ![o] = q]
  BY DEF Detruire
<1>3. ops[o] \in Operation /\ Forme(ops[o]) /\ Reguliere(ops[o])
  BY CommandeType
<1>4. s \in Rdv
  BY <1>1, <1>3 DEF Operation
<1>5. Suite(ops[o], q) /\ Reguliere(q)
  <2>1. /\ q.etape = "associations" /\ q.cmd = ops[o].cmd /\ q.touches = ops[o].touches
        /\ q.retirer = ops[o].retirer /\ q.ajouter = ops[o].ajouter
        /\ q.ecritures = ops[o].ecritures
    BY <1>3 DEF ApresDestruction, Operation
  <2>2. Suite(ops[o], q)
    BY <1>3, Suites
  <2>3. ops[o].ecritures = {} /\ ops[o].cmd = "supprimer"
    BY <1>2, <1>3 DEF Forme, Reguliere
  <2> HIDE DEF q
  <2> QED BY <1>2, <1>3, <2>1, <2>2, <2>3 DEF Reguliere
<1>6. \A r \in Rdv \ ops[o].touches :
        /\ rdvs'[r] = rdvs[r] /\ JobsDe(r)' = JobsDe(r)
        /\ invitations'[r] = invitations[r] /\ planifieLe'[r] = planifieLe[r]
  BY <1>1, <1>2 DEF JobsDe, TypeOK
<1>7. ASSUME NEW r \in (Rdv \cap ops[o].touches) \ perturbes'
      PROVE  Sain(r)'
  <2>1. r = s
    BY <1>1, <1>2, <1>3, <1>7 DEF Forme
  <2>2. Pas(o, q, r) /\ Sain(r)
    <3> HIDE DEF q
    <3> QED BY <1>2, <1>5, <1>7, PasDeCommande
  <2>3. ~Existe(r)'
    BY <1>1, <2>1 DEF Existe, TypeOK
  <2> QED BY <1>2, <1>3, <2>2, <2>3, SainDestruction
<1> HIDE DEF q
<1> QED BY <1>2, <1>5, <1>6, <1>7, RappelsSuite

LEMMA RappelsAssociations ==
  ASSUME TypeOK, InvAgenda, InvRappels, NEW o \in Ops, DetruireAssociations(o)
  PROVE  InvRappels'
<1>1. PICK s \in ops[o].touches :
        rdvs' = IF Existe(s) THEN [rdvs EXCEPT ![s] = LigneSans(rdvs[s], Jeunes)]
                             ELSE rdvs
  BY DEF DetruireAssociations
<1> DEFINE q == ApresAssociations(ops[o])
<1>2. /\ horloge' = horloge /\ uuids' = uuids /\ jobs' = jobs /\ workers' = workers
      /\ annonces' = annonces /\ invitations' = invitations
      /\ perturbes' = perturbes /\ planifieLe' = planifieLe
      /\ ops[o].etape = "associations" /\ ops' = [ops EXCEPT ![o] = q]
  BY DEF DetruireAssociations
<1>3. ops[o] \in Operation /\ Forme(ops[o]) /\ Reguliere(ops[o])
  BY CommandeType
<1>4. s \in Rdv
  BY <1>1, <1>3 DEF Operation
<1>5. Suite(ops[o], q) /\ Reguliere(q)
  <2>1. Reste(ops[o], q, JoursRappel, {}, ops[o].mail)
    BY <1>2, <1>3, ResteAssociations
  <2>2. Suite(ops[o], q)
    BY <1>3, Suites
  <2>3. ops[o].cmd = "supprimer"
    BY <1>2, <1>3 DEF Reguliere
  <2> HIDE DEF q
  <2> QED BY <1>3, <2>1, <2>2, <2>3, ReguliereReste
<1>6. \A r \in Rdv \ ops[o].touches :
        /\ rdvs'[r] = rdvs[r] /\ JobsDe(r)' = JobsDe(r)
        /\ invitations'[r] = invitations[r] /\ planifieLe'[r] = planifieLe[r]
  BY <1>1, <1>2 DEF JobsDe, TypeOK
<1>7. ASSUME NEW r \in (Rdv \cap ops[o].touches) \ perturbes'
      PROVE  Sain(r)'
  <2>1. r = s
    BY <1>1, <1>2, <1>3, <1>7 DEF Forme
  <2>2. Pas(o, q, r) /\ Sain(r) /\ IsoleDe(o, r)
    <3> HIDE DEF q
    <3> QED BY <1>2, <1>5, <1>7, PasDeCommande
  <2>3. ~Existe(r)'
    BY <1>1, <1>2, <2>1, <2>2 DEF IsoleDe, Existe
  <2> QED BY <1>2, <1>3, <2>2, <2>3, SainAssociations
<1> HIDE DEF q
<1> QED BY <1>2, <1>5, <1>6, <1>7, RappelsSuite

LEMMA TouchesUnique ==
  ASSUME NEW op, Reguliere(op), Forme(op), op.etape = "fond", NEW r \in op.touches
  PROVE  op.touches = {r}
BY DEF Reguliere

LEMMA RappelsRetirer ==
  ASSUME TypeOK, InvAgenda, InvRappels, NEW o \in Ops, RetirerRappel(o)
  PROVE  InvRappels'
<1>1. PICK s \in ops[o].touches, k \in ops[o].retirer :
        /\ jobs' = SupprimerJobs(jobs, {<<s, k>>})
        /\ ops' = [ops EXCEPT ![o] = RappelRetire(ops[o], k)]
        /\ planifieLe' = IF Replanifie(ops[o], k)
                         THEN [planifieLe EXCEPT ![s] = horloge] ELSE planifieLe
  BY DEF RetirerRappel
<1> DEFINE q == RappelRetire(ops[o], k)
<1>2. /\ horloge' = horloge /\ uuids' = uuids /\ rdvs' = rdvs /\ workers' = workers
      /\ annonces' = annonces /\ invitations' = invitations
      /\ perturbes' = perturbes /\ ops' = [ops EXCEPT ![o] = q]
  BY <1>1 DEF RetirerRappel
<1>3. ops[o] \in Operation /\ Forme(ops[o]) /\ Reguliere(ops[o])
  BY CommandeType
<1>4. /\ s \in Rdv /\ ops[o].etape = "fond" /\ ops[o].ecritures = {}
      /\ ops[o].touches = {s} /\ ops[o].cmd \in {"modifier", "supprimer"}
  BY <1>1, <1>3, EnFond, TouchesUnique DEF Operation, Reguliere
<1>5. Suite(ops[o], q) /\ Reguliere(q)
  <2> DEFINE ret == ops[o].retirer \ {k}
             aj == IF Replanifie(ops[o], k) THEN JoursDeRappel(ops[o].date) ELSE {}
  <2>1. Reste(ops[o], q, ret, aj, ops[o].mail)
    BY <1>3, <1>4, Restes
  <2>2. Suite(ops[o], q)
    BY <1>3, Suites
  <2>3. ret # {} => aj = {}
    BY DEF Replanifie
  <2>4. aj # {} => ops[o].cmd = "modifier"
    BY DEF Replanifie
  <2>5. ops[o].cmd # "supprimer" => ops[o].mail \in {PasDIcs, PasDeMail}
    BY <1>3 DEF Reguliere
  <2> HIDE DEF q, ret, aj
  <2> QED BY <1>3, <1>4, <2>1, <2>2, <2>3, <2>4, <2>5, ReguliereReste
<1>6. \A r \in Rdv \ ops[o].touches :
        /\ rdvs'[r] = rdvs[r] /\ JobsDe(r)' = JobsDe(r)
        /\ invitations'[r] = invitations[r] /\ planifieLe'[r] = planifieLe[r]
  <2> SUFFICES ASSUME NEW r \in Rdv \ ops[o].touches
               PROVE  /\ rdvs'[r] = rdvs[r] /\ JobsDe(r)' = JobsDe(r)
                      /\ invitations'[r] = invitations[r]
                      /\ planifieLe'[r] = planifieLe[r]
    OBVIOUS
  <2>1. r # s
    BY <1>1
  <2>2. JobsDe(r)' = JobsDe(r)
    <3>1. \A j \in JobsDe(r) : j.id # <<s, k>>
      BY <2>1 DEF JobsDe
    <3> QED BY <1>1, <3>1 DEF JobsDe, SupprimerJobs
  <2>3. planifieLe'[r] = planifieLe[r]
    BY <1>1, <2>1 DEF TypeOK
  <2> QED BY <1>2, <2>2, <2>3
<1>7. ASSUME NEW r \in (Rdv \cap ops[o].touches) \ perturbes'
      PROVE  Sain(r)'
  <2>1. r = s
    BY <1>4, <1>7
  <2>2. Pas(o, q, r) /\ Sain(r)
    <3> HIDE DEF q
    <3> QED BY <1>2, <1>5, <1>7, PasDeCommande
  <2> QED BY <1>1, <1>2, <1>3, <2>1, <2>2, SainRetrait
<1> HIDE DEF q
<1> QED BY <1>2, <1>5, <1>6, <1>7, RappelsSuite

LEMMA RappelsAjouter ==
  ASSUME TypeOK, InvAgenda, InvRappels, NEW o \in Ops, AjouterRappel(o)
  PROVE  InvRappels'
<1>1. PICK s \in ops[o].touches, k \in ops[o].ajouter :
        /\ jobs' = AjouterJob(jobs, [id |-> <<s, k>>, etat |-> "attente",
                                     echeance |-> ops[o].date - k])
        /\ ops' = [ops EXCEPT ![o] = RappelAjoute(ops[o], k)]
  BY DEF AjouterRappel
<1> DEFINE q == RappelAjoute(ops[o], k)
           n == [id |-> <<s, k>>, etat |-> "attente", echeance |-> ops[o].date - k]
<1>2. /\ horloge' = horloge /\ uuids' = uuids /\ rdvs' = rdvs /\ workers' = workers
      /\ annonces' = annonces /\ invitations' = invitations
      /\ perturbes' = perturbes /\ planifieLe' = planifieLe
      /\ ops' = [ops EXCEPT ![o] = q]
  BY <1>1 DEF AjouterRappel
<1>3. ops[o] \in Operation /\ Forme(ops[o]) /\ Reguliere(ops[o])
  BY CommandeType
<1>4. /\ s \in Rdv /\ ops[o].etape = "fond" /\ ops[o].ecritures = {}
      /\ ops[o].touches = {s} /\ ops[o].retirer = {}
      /\ ops[o].cmd \in {"creer", "modifier"}
  BY <1>1, <1>3, EnFond, TouchesUnique DEF Operation, Reguliere
<1>5. Suite(ops[o], q) /\ Reguliere(q)
  <2> DEFINE aj == ops[o].ajouter \ {k}
  <2>1. Reste(ops[o], q, {}, aj, ops[o].mail)
    BY <1>3, <1>4, Restes
  <2>2. Suite(ops[o], q)
    BY <1>3, Suites
  <2>3. ops[o].cmd # "supprimer" => ops[o].mail \in {PasDIcs, PasDeMail}
    BY <1>3 DEF Reguliere
  <2> HIDE DEF q, aj
  <2> QED BY <1>3, <1>4, <2>1, <2>2, <2>3, ReguliereReste
<1>6. \A r \in Rdv \ ops[o].touches :
        /\ rdvs'[r] = rdvs[r] /\ JobsDe(r)' = JobsDe(r)
        /\ invitations'[r] = invitations[r] /\ planifieLe'[r] = planifieLe[r]
  <2>1. jobs' = AjouterJob(jobs, n) /\ n.id[1] = s
    BY <1>1
  <2> HIDE DEF n
  <2>2. \A r : r # s => JobsDe(r)' = JobsDe(r)
    BY <2>1 DEF JobsDe, AjouterJob
  <2> QED BY <1>1, <1>2, <2>2
<1>7. ASSUME NEW r \in (Rdv \cap ops[o].touches) \ perturbes'
      PROVE  Sain(r)'
  <2>1. r = s
    BY <1>4, <1>7
  <2>2. Pas(o, q, r) /\ Sain(r)
    <3> HIDE DEF q
    <3> QED BY <1>2, <1>5, <1>7, PasDeCommande
  <2> QED BY <1>1, <1>2, <1>3, <2>1, <2>2, SainAjout
<1> HIDE DEF q
<1> QED BY <1>2, <1>5, <1>6, <1>7, RappelsSuite

LEMMA RappelsInvitation ==
  ASSUME TypeOK, TypeOK', InvAgenda, InvRappels, NEW o \in Ops, EnvoyerInvitation(o)
  PROVE  InvRappels'
<1>1. PICK s \in ops[o].touches :
        LET sequence == IF ops[o].mail # PasDIcs THEN ops[o].mail
                        ELSE IF Existe(s) THEN rdvs[s].ics + 1 ELSE PasDIcs
        IN
        /\ rdvs' = IF ops[o].mail = PasDIcs THEN IncrementerIcs(s) ELSE rdvs
        /\ invitations' = IF sequence = PasDIcs THEN invitations
                          ELSE [invitations EXCEPT ![s] = Append(@, sequence)]
  BY DEF EnvoyerInvitation
<1> DEFINE q == InvitationEnvoyee(ops[o])
           n == IF ops[o].mail # PasDIcs THEN ops[o].mail
                ELSE IF Existe(s) THEN rdvs[s].ics + 1 ELSE PasDIcs
<1>2. /\ horloge' = horloge /\ uuids' = uuids /\ jobs' = jobs /\ workers' = workers
      /\ annonces' = annonces /\ perturbes' = perturbes /\ planifieLe' = planifieLe
      /\ ops' = [ops EXCEPT ![o] = q] /\ ops[o].etape = "fond"
      /\ ops[o].mail # PasDeMail
  BY DEF EnvoyerInvitation
<1>3. ops[o] \in Operation /\ Forme(ops[o]) /\ Reguliere(ops[o])
  BY CommandeType
<1>4. /\ s \in Rdv /\ ops[o].ecritures = {} /\ ops[o].touches = {s}
      /\ ops[o].cmd \in {"creer", "modifier", "supprimer"}
  BY <1>1, <1>2, <1>3, EnFond, TouchesUnique DEF Operation, Reguliere
<1>5. Suite(ops[o], q) /\ Reguliere(q)
  <2>1. Reste(ops[o], q, ops[o].retirer, ops[o].ajouter, PasDeMail)
    BY <1>2, <1>3, <1>4, Restes
  <2>2. Suite(ops[o], q)
    BY <1>3, Suites
  <2>3. /\ ops[o].retirer # {} => ops[o].ajouter = {} /\ ops[o].cmd # "creer"
        /\ ops[o].ajouter # {} => ops[o].cmd # "supprimer"
    BY <1>3 DEF Reguliere
  <2> HIDE DEF q
  <2> QED BY <1>3, <1>4, <2>1, <2>2, <2>3, ReguliereReste
<1>6. \A r \in Rdv \ ops[o].touches :
        /\ rdvs'[r] = rdvs[r] /\ JobsDe(r)' = JobsDe(r)
        /\ invitations'[r] = invitations[r] /\ planifieLe'[r] = planifieLe[r]
  <2> SUFFICES ASSUME NEW r \in Rdv, r # s
               PROVE  rdvs'[r] = rdvs[r] /\ invitations'[r] = invitations[r]
    BY <1>2, <1>4 DEF JobsDe
  <2>1. rdvs'[r] = rdvs[r]
    BY <1>1, <1>4, IcsNeutre
  <2>2. invitations'[r] = invitations[r]
    BY <1>1 DEF TypeOK
  <2> QED BY <2>1, <2>2
<1>7. ASSUME NEW r \in (Rdv \cap ops[o].touches) \ perturbes'
      PROVE  Sain(r)'
  <2>1. r = s
    BY <1>4, <1>7
  <2>2. Pas(o, q, r) /\ Sain(r)
    <3> HIDE DEF q
    <3> QED BY <1>2, <1>5, <1>7, PasDeCommande
  <2>3. /\ rdvs' = IF ops[o].mail = PasDIcs THEN IncrementerIcs(s) ELSE rdvs
        /\ invitations' = IF n = PasDIcs THEN invitations
                          ELSE [invitations EXCEPT ![s] = Append(@, n)]
    BY <1>1
  <2> QED BY <1>2, <1>3, <2>1, <2>2, <2>3, SainInvitation
<1> HIDE DEF q
<1> QED BY <1>2, <1>5, <1>6, <1>7, RappelsSuite

(* A failure takes the appointments of the command out of what is promised. *)
LEMMA RappelsPanne ==
  ASSUME TypeOK, InvRappels, NEW o \in Ops, NEW q, Suite(ops[o], q), Reguliere(q),
         ops' = [ops EXCEPT ![o] = q], perturbes' = perturbes \cup ops[o].touches,
         uuids' = uuids, workers' = workers, horloge' = horloge, annonces' = annonces,
         rdvs' = rdvs, jobs' = jobs, invitations' = invitations,
         planifieLe' = planifieLe
  PROVE  InvRappels'
<1>1. \A r \in Rdv \ ops[o].touches : Ailleurs(r)
  BY CommandeAilleurs DEF JobsDe
<1>2. Regularite'
  BY RegulariteOp DEF InvRappels
<1>3. \A r \in Rdv \ perturbes' : Sain(r)'
  BY <1>1, SainPar DEF InvRappels
<1> QED BY <1>2, <1>3 DEF InvRappels

LEMMA RappelsEchecs ==
  ASSUME TypeOK, InvAgenda, InvRappels, NEW o \in Ops, EchecRedis(o) \/ Abandon(o)
  PROVE  InvRappels'
<1>1. ops[o] \in Operation /\ Forme(ops[o]) /\ Reguliere(ops[o])
  BY CommandeType
<1>2. CASE Abandon(o)
  <2>1. Suite(ops[o], Libre) /\ Reguliere(Libre)
    BY ReguliereLibre DEF Suite
  <2> QED BY <1>2, <2>1, RappelsPanne DEF Abandon
<1>3. CASE EchecRedis(o)
  <2> DEFINE q == PlanificationAbandonnee(ops[o])
  <2>1. ops[o].etape = "fond" /\ ops[o].ecritures = {}
    BY <1>1, <1>3, EnFond DEF EchecRedis
  <2>2. Reste(ops[o], q, {}, {}, ops[o].mail)
    BY <1>1, <2>1, Restes
  <2>3. Suite(ops[o], q)
    BY <1>1, Suites
  <2>4. ops' = [ops EXCEPT ![o] = q]
    BY <1>3 DEF EchecRedis
  <2> HIDE DEF q
  <2>5. Reguliere(q)
    BY <1>1, <2>1, <2>2, ReguliereReste DEF Reguliere
  <2> QED BY <1>3, <2>3, <2>4, <2>5, RappelsPanne DEF EchecRedis
<1> QED BY <1>2, <1>3

-----------------------------------------------------------------------------
(* The workers                                                              *)

LEMMA TravailType ==
  ASSUME TypeOK, NEW w \in Workers
  PROVE  /\ workers[w].id = <<workers[w].id[1], workers[w].id[2]>>
         /\ workers[w].id[1] \in Rdv /\ workers[w].id[2] \in JoursRappel
         /\ workers[w].lu \in Ligne \cup {Absent}
<1>1. workers[w].id \in Rdv \X JoursRappel /\ workers[w].lu \in Ligne \cup {Absent}
  BY DEF TypeOK, Travail
<1> QED BY <1>1, PaireJob

(* The worker w is the only one to move, on the appointment s.              *)
LEMMA WorkerAilleurs ==
  ASSUME TypeOK, NEW w \in Workers, NEW t, workers' = [workers EXCEPT ![w] = t],
         NEW s, Sur(w, s) \/ workers[w].etape = "libre",
         t.id[1] = s \/ t.etape = "libre",
         horloge' = horloge, rdvs' = rdvs, uuids' = uuids, ops' = ops,
         invitations' = invitations, planifieLe' = planifieLe,
         NEW r \in Rdv, r # s, JobsDe(r)' = JobsDe(r), MemesAnnonces(r)
  PROVE  Ailleurs(r)
<1>1. \A v \in Workers : Sur(v, r) \/ Sur(v, r)' => workers'[v] = workers[v]
  BY DEF Sur, TypeOK
<1>2. \A o \in Ops : Touche(o, r) \/ Touche(o, r)' => ops'[o] = ops[o]
  OBVIOUS
<1> QED BY <1>1, <1>2 DEF Ailleurs

LEMMA RappelsWorker ==
  ASSUME TypeOK, InvRappels, perturbes \subseteq perturbes', ops' = ops, NEW s,
         \A r \in Rdv \ {s} : Ailleurs(r),
         s \in Rdv \ perturbes' => Sain(s)'
  PROVE  InvRappels'
<1>1. Regularite'
  BY DEF InvRappels, Regularite
<1>2. \A r \in (Rdv \cap {s}) \ perturbes' : Sain(r)'
  OBVIOUS
<1>3. \A r \in Rdv \ perturbes' : Sain(r)'
  BY <1>2, SainPar DEF InvRappels
<1> QED BY <1>1, <1>3 DEF InvRappels

LEMMA RappelsPrendre ==
  ASSUME TypeOK, InvRappels, NEW w \in Workers, PrendreJob(w)
  PROVE  InvRappels'
<1>1. PICK j \in JobsEchus(jobs, horloge) :
        /\ jobs' = ChangerEtat(jobs, j, "actif")
        /\ workers' = [workers EXCEPT ![w] =
             [etape |-> "pris", id |-> j.id, lu |-> Absent]]
        /\ perturbes' = IF EnCours(j.id[1]) THEN perturbes \cup {j.id[1]}
                                            ELSE perturbes
  BY DEF PrendreJob
<1> DEFINE t == [etape |-> "pris", id |-> j.id, lu |-> Absent]
           r == j.id[1]
<1>2. j \in jobs /\ j.etat = "attente" /\ j.echeance <= horloge
  BY DEF JobsEchus
<1>3. /\ horloge' = horloge /\ rdvs' = rdvs /\ uuids' = uuids /\ ops' = ops
      /\ annonces' = annonces /\ invitations' = invitations
      /\ planifieLe' = planifieLe /\ workers[w].etape = "libre"
      /\ workers' = [workers EXCEPT ![w] = t] /\ perturbes \subseteq perturbes'
  BY <1>1 DEF PrendreJob
<1>4. t.etape = "pris" /\ t.id = j.id
  OBVIOUS
<1> HIDE DEF t
<1>5. PICK n : /\ n.id = j.id /\ n.echeance = j.echeance /\ n.etat = "actif"
               /\ JobsDe(r)' = (JobsDe(r) \ {j}) \cup {n}
  BY <1>1, <1>2, JobsChangerEtat DEF EtatsJob
<1>6. \A s \in Rdv \ {r} : Ailleurs(s)
  <2> SUFFICES ASSUME NEW s \in Rdv \ {r} PROVE Ailleurs(s)
    OBVIOUS
  <2>1. JobsDe(s)' = JobsDe(s)
    BY <1>1, <1>2, JobsChangerEtat DEF EtatsJob
  <2> QED BY <1>3, <1>4, <2>1, WorkerAilleurs DEF MemesAnnonces
<1>7. ASSUME r \in Rdv \ perturbes'
      PROVE  Sain(r)'
  <2>1. r \notin perturbes /\ ~EnCours(r) /\ Sain(r)
    BY <1>1, <1>7 DEF InvRappels
  <2>2. /\ \A o \in Ops : ~Touche(o, r)
        /\ \A v \in Workers : ~Sur(v, r)
    BY <2>1 DEF EnCours, Touche, Sur
  <2>3. \A o \in Ops : ~Touche(o, r)'
    BY <1>3, <2>2 DEF Touche
  <2>4. Sur(w, r)' /\ workers'[w] = t /\ \A v \in Workers : Sur(v, r)' => v = w
    BY <1>3, <1>4, <2>2 DEF Sur, TypeOK
  <2>5. Seul(r)'
    BY <1>2, <1>3, <1>4, <1>5, <2>3, <2>4 DEF Seul
  <2>6. j \in JobsDe(r)
    BY <1>2 DEF JobsDe
  <2>7. Actifs(r)'
    BY <1>4, <1>5, <2>1, <2>2, <2>4 DEF Sain, Actifs
  <2>8. r \in uuids'
    BY <1>3, <2>1, <2>6 DEF Sain, Vierge
  <2>9. AJour(j, r) /\ \A k : ~Condamne(r, k)
    BY <1>2, <2>1, <2>2, <2>6 DEF Sain, Ponctuels, Condamne
  <2>10. Existe(r)' = Existe(r)
    BY <1>3 DEF Existe
  <2>11. Ponctuels(r)'
    <3>1. \A i : AJour(i, r) => AJour(i, r)'
      BY <1>3, <2>10 DEF AJour
    <3>2. AJour(n, r)'
      BY <1>3, <1>5, <2>9, <2>10 DEF AJour
    <3> QED BY <1>5, <2>1, <2>9, <3>1, <3>2 DEF Sain, Ponctuels
  <2>12. Numerotees(r)'
    BY <1>3, <2>1, <2>10 DEF Sain, Numerotees
  <2>13. Retard <= 4 => Annoncees(r)'
    BY <1>2, <1>3, <1>5, <2>1, <2>6 DEF Sain, Annoncees
  <2>14. \A k : EnPlan(r, k) => EnPlan(r, k)'
    BY <1>2, <1>3, <1>5, <2>2, <2>6 DEF EnPlan
  <2>15. Retard <= 1 => Planifie(r)'
    BY <1>3, <2>1, <2>10, <2>14 DEF Sain, Planifie
  <2> QED BY <2>3, <2>5, <2>7, <2>8, <2>11, <2>12, <2>13, <2>15 DEF Sain
<1> QED BY <1>3, <1>6, <1>7, RappelsWorker

LEMMA RappelsLire ==
  ASSUME TypeOK, InvRappels, NEW w \in Workers, LireRendezVous(w)
  PROVE  InvRappels'
<1> DEFINE r == workers[w].id[1]
           t == [workers[w] EXCEPT !.etape = "lu", !.lu = rdvs[r]]
<1>1. /\ horloge' = horloge /\ rdvs' = rdvs /\ uuids' = uuids /\ ops' = ops
      /\ annonces' = annonces /\ invitations' = invitations /\ jobs' = jobs
      /\ planifieLe' = planifieLe /\ perturbes' = perturbes
      /\ workers[w].etape = "pris" /\ workers' = [workers EXCEPT ![w] = t]
  BY DEF LireRendezVous
<1>2. t.etape = "lu" /\ t.id = workers[w].id /\ t.lu = rdvs[r]
  BY DEF TypeOK, Travail
<1> HIDE DEF t
<1>3. workers'[w] = t /\ \A v \in Workers \ {w} : workers'[v] = workers[v]
  BY <1>1 DEF TypeOK
<1>4. Sur(w, r)
  BY <1>1 DEF Sur
<1>5. \A s \in Rdv \ {r} : Ailleurs(s)
  <2> HIDE DEF r
  <2> QED BY <1>1, <1>2, <1>4, WorkerAilleurs DEF MemesAnnonces, JobsDe, r
<1>6. ASSUME NEW s, s = r, s \in Rdv \ perturbes'
      PROVE  Sain(s)'
  <2>1. Sain(s) /\ Sur(w, s)
    BY <1>1, <1>4, <1>6 DEF InvRappels
  <2>2. \A v \in Workers : (Sur(v, s)' <=> Sur(v, s)) /\ workers'[v].id = workers[v].id
    BY <1>1, <1>2, <1>3 DEF Sur
  <2>3. JobsDe(s)' = JobsDe(s)
    BY <1>1 DEF JobsDe
  <2>4. Seul(s)'
    BY <1>1, <1>2, <1>3, <1>6, <2>1, <2>2, <2>3 DEF Sain, Seul, Touche
  <2>5. Actifs(s)'
    BY <2>1, <2>2, <2>3 DEF Sain, Actifs
  <2>6. \A o \in Ops : ~Touche(o, s)'
    BY <1>1, <2>1 DEF Sain, Seul, Touche
  <2>7. s \notin uuids' => Vierge(s)'
    BY <1>1, <2>1, <2>3 DEF Sain, Vierge
  <2>8. Ponctuels(s)'
    BY <1>1, <2>1, <2>3 DEF Sain, Ponctuels, AJour, Condamne, Existe, Touche
  <2>9. Numerotees(s)'
    BY <1>1, <2>1 DEF Sain, Numerotees, Existe
  <2>10. Retard <= 4 => Annoncees(s)'
    BY <1>1, <2>1, <2>3 DEF Sain, Annoncees
  <2>11. Retard <= 1 => Planifie(s)'
    BY <1>1, <2>1, <2>3 DEF Sain, Planifie, EnPlan, Existe, Touche
  <2> QED BY <2>4, <2>5, <2>6, <2>7, <2>8, <2>9, <2>10, <2>11 DEF Sain
<1> QED BY <1>1, <1>5, <1>6, RappelsWorker

LEMMA RappelsArret ==
  ASSUME TypeOK, InvRappels, NEW w \in Workers, ArretWorker(w)
  PROVE  InvRappels'
<1>1. PICK j \in jobs, etat \in {"attente", "fini"} :
        j.id = workers[w].id /\ jobs' = ChangerEtat(jobs, j, etat)
  BY DEF ArretWorker
<1> DEFINE r == workers[w].id[1]
<1>2. \A s \in Rdv \ {r} : Ailleurs(s)
  <2> SUFFICES ASSUME NEW s \in Rdv \ {r} PROVE Ailleurs(s)
    OBVIOUS
  <2>1. JobsDe(s)' = JobsDe(s)
    BY <1>1, JobsChangerEtat DEF EtatsJob
  <2>2. Sur(w, r) /\ Repos.etape = "libre"
    BY DEF ArretWorker, Sur, Repos
  <2> QED BY <2>1, <2>2, WorkerAilleurs DEF ArretWorker, MemesAnnonces
<1>3. perturbes \subseteq perturbes' /\ r \in perturbes' /\ ops' = ops
  BY DEF ArretWorker
<1> QED BY <1>2, <1>3, RappelsWorker

(* What is announced of an appointment in `ecart' days by its reminder k.   *)
LEMMA TexteJuste ==
  ASSUME NEW k \in JoursRappel, NEW ecart \in Int, ecart <= k, k <= ecart + Retard
  PROVE  /\ Jours(Texte(k)) = k
         /\ Retard <= 4 => \A t \in TextesPossibles(ecart) : t = Texte(k)
         /\ Retard <= 1 => Texte(k) \in TextesPossibles(ecart)
<1>1. Retard \in Nat
  BY ConstantsAssumption
<1>2. CASE k = 1
  BY <1>1, <1>2 DEF Texte, Jours, TextesPossibles, Textes
<1>3. CASE k = 7
  BY <1>1, <1>3 DEF Texte, Jours, TextesPossibles, Textes
<1> QED BY <1>2, <1>3 DEF JoursRappel

(* What a worker that is about to notify the participants of the            *)
(* undisturbed appointment r knows.                                         *)
LEMMA WorkerJuste ==
  ASSUME TypeOK, NEW w \in Workers, NEW r \in Rdv, Sur(w, r), Sain(r),
         workers[w].etape = "lu",
         NEW j \in jobs, j.id = workers[w].id, j.etat = "actif"
  PROVE  /\ workers[w].lu = rdvs[r] /\ Existe(r) /\ rdvs[r] \in Ligne
         /\ j \in JobsDe(r) /\ j.id[2] \in JoursRappel /\ j.id[2] \in Int
         /\ rdvs[r].date \in Int /\ horloge \in Int
         /\ j.echeance = rdvs[r].date - j.id[2]
         /\ j.echeance <= horloge
         /\ rdvs[r].date - horloge \in Int
         /\ rdvs[r].date - horloge <= j.id[2]
         /\ j.id[2] <= (rdvs[r].date - horloge) + Retard
<1>1. j \in JobsDe(r)
  BY DEF Sur, JobsDe
<1>2. j.id[2] \in JoursRappel /\ j.id[2] \in Int /\ j.echeance \in Int
  BY <1>1, JobsDeType
<1>3. workers[w].lu = rdvs[r] /\ \A k : ~Condamne(r, k)
  BY DEF Sain, Seul, Condamne
<1>4. AJour(j, r)
  BY <1>1, <1>3 DEF Sain, Ponctuels
<1>5. j.echeance <= horloge
  <2>1. PICK i \in JobsDe(r) : i.id = workers[w].id /\ i.echeance <= horloge
    BY DEF Sain, Seul
  <2>2. i = j
    BY <2>1 DEF JobsDe, TypeOK
  <2> QED BY <2>1, <2>2
<1>6. Existe(r) /\ rdvs[r] \in Ligne /\ rdvs[r].date \in Int /\ horloge \in Int
  <2>1. Existe(r)
    BY <1>4 DEF AJour
  <2>2. horloge \in Int
    BY ConstantsAssumption DEF TypeOK
  <2> QED BY <2>1, <2>2, DateType
<1>7. Retard \in Nat
  BY ConstantsAssumption
<1> QED BY <1>1, <1>2, <1>3, <1>4, <1>5, <1>6, <1>7 DEF AJour

LEMMA SainEnvoi ==
  ASSUME TypeOK, NEW w \in Workers, NEW r \in Rdv, Sur(w, r), Sain(r),
         workers[w].etape = "lu",
         NEW j \in jobs, j.id = workers[w].id, j.etat = "actif",
         jobs' = ChangerEtat(jobs, j, "fini"),
         workers' = [workers EXCEPT ![w] = Repos],
         \/ /\ TextesPossibles(rdvs[r].date - horloge) = {}
            /\ annonces' = annonces
         \/ \E t \in TextesPossibles(rdvs[r].date - horloge) :
              annonces' = Append(annonces, [rdv |-> r, texte |-> t,
                            date |-> rdvs[r].date, jeunes |-> rdvs[r].jeunes]),
         horloge' = horloge, rdvs' = rdvs, uuids' = uuids, ops' = ops,
         invitations' = invitations, planifieLe' = planifieLe
  PROVE  Sain(r)'
<1> DEFINE k == j.id[2]
           ecart == rdvs[r].date - horloge
<1>1. /\ Existe(r) /\ rdvs[r] \in Ligne /\ j \in JobsDe(r) /\ k \in JoursRappel
      /\ k \in Int /\ j.echeance = rdvs[r].date - k /\ j.echeance <= horloge
      /\ ecart \in Int /\ ecart <= k /\ k <= ecart + Retard
      /\ rdvs[r].date \in Int /\ horloge \in Int /\ j.id[2] = k
  BY WorkerJuste
<1>2. PICK n : /\ n.id = j.id /\ n.etat = "fini"
               /\ JobsDe(r)' = (JobsDe(r) \ {j}) \cup {n}
  <2>1. j.id[1] = r
    BY <1>1 DEF JobsDe
  <2> QED BY <2>1, JobsChangerEtat DEF EtatsJob
<1>3. \A o \in Ops : ~Touche(o, r) /\ ~Touche(o, r)'
  BY DEF Sain, Seul, Touche
<1>4. \A v \in Workers : Sur(v, r) => v = w
  BY DEF Sain, Seul
<1>5. \A v \in Workers : ~Sur(v, r)'
  BY <1>4 DEF Sur, Repos, TypeOK
<1>6. \A i \in JobsDe(r)' : i.etat # "fini" =>
        i \in JobsDe(r) /\ i # j /\ i.id[2] # k
  BY <1>1, <1>2, JobsDeType
<1>7. \A i \in JobsDe(r) : i.etat # "fini" /\ i.id[2] # k => i \in JobsDe(r)'
  BY <1>2
<1>8. Seul(r)'
  BY <1>5 DEF Seul
<1>9. Actifs(r)'
  <2>1. \A i \in JobsDe(r)' : i.etat = "actif" => i \in JobsDe(r) /\ i # j
    BY <1>6
  <2>2. \A i \in JobsDe(r) : i.etat = "actif" => i.id = workers[w].id
    BY <1>4 DEF Sain, Actifs
  <2>3. \A i \in JobsDe(r) : i.id = j.id => i = j
    BY <1>1, JobsDeType
  <2> QED BY <2>1, <2>2, <2>3 DEF Actifs
<1>10. r \in uuids'
  BY <1>1 DEF Sain, Vierge
<1>11. Existe(r)' = Existe(r) /\ \A i : ~Condamne(r, i)
  BY <1>3 DEF Existe, Condamne
<1>12. Ponctuels(r)'
  BY <1>6, <1>11 DEF Sain, Ponctuels, AJour
<1>13. Numerotees(r)'
  BY <1>11 DEF Sain, Numerotees
<1> HIDE DEF k, ecart
<1>14. ASSUME NEW t \in TextesPossibles(ecart),
              annonces' = Append(annonces, [rdv |-> r, texte |-> t,
                            date |-> rdvs[r].date, jeunes |-> rdvs[r].jeunes])
       PROVE  /\ DOMAIN annonces = 1 .. Len(annonces) /\ Len(annonces) \in Nat
              /\ DOMAIN annonces' = 1 .. Len(annonces) + 1
              /\ \A i \in DOMAIN annonces : annonces'[i] = annonces[i]
              /\ annonces'[Len(annonces) + 1].rdv = r
              /\ annonces'[Len(annonces) + 1].texte = t
              /\ annonces'[Len(annonces) + 1].date = rdvs[r].date
  <2> DEFINE a == [rdv |-> r, texte |-> t,
                   date |-> rdvs[r].date, jeunes |-> rdvs[r].jeunes]
  <2>1. a \in Annonce
    BY <1>1 DEF Annonce, Ligne, TextesPossibles
  <2>2. a.rdv = r /\ a.texte = t /\ a.date = rdvs[r].date
    OBVIOUS
  <2>3. annonces' = Append(annonces, a)
    BY <1>14
  <2>4. annonces \in Seq(Annonce)
    BY DEF TypeOK
  <2> HIDE DEF a
  <2> QED BY <2>1, <2>2, <2>3, <2>4, AjoutAnnonce
<1>15. ASSUME Retard <= 4
       PROVE  Annoncees(r)'
  <2>1. Annoncees(r)
    BY <1>15 DEF Sain
  <2>2. CASE annonces' = annonces
    BY <1>6, <2>1, <2>2, AnnonceesAilleurs DEF MemesAnnonces
  <2>3. ASSUME NEW t \in TextesPossibles(ecart),
               annonces' = Append(annonces, [rdv |-> r, texte |-> t,
                            date |-> rdvs[r].date, jeunes |-> rdvs[r].jeunes])
        PROVE  Annoncees(r)'
    <3> DEFINE l == Len(annonces) + 1
    <3>1. /\ DOMAIN annonces' = DOMAIN annonces \cup {l} /\ l \notin DOMAIN annonces
          /\ \A i \in DOMAIN annonces : annonces'[i] = annonces[i]
          /\ annonces'[l].rdv = r /\ annonces'[l].texte = t
          /\ annonces'[l].date = rdvs[r].date
      BY <1>14, <2>3
    <3> HIDE DEF l
    <3>2. t = Texte(k) /\ Jours(t) = k
      BY <1>1, <1>15, <2>3, TexteJuste
    <3>3. \A i \in DOMAIN annonces : annonces[i].rdv = r =>
            annonces[i].texte # t \/ annonces[i].date # rdvs[r].date
      BY <1>1, <2>1, <3>2 DEF Annoncees
    <3>4. horloge >= rdvs[r].date - k
      BY <1>1
    <3>5. \A i \in JobsDe(r)' : i.id[2] = k => i.etat = "fini"
      BY <1>6
    <3>6. ASSUME NEW i \in DOMAIN annonces, annonces[i].rdv = r
          PROVE  /\ horloge' >= annonces[i].date - Jours(annonces[i].texte)
                 /\ \A m \in JobsDe(r)' :
                      m.id[2] = Jours(annonces[i].texte) /\ m.etat # "fini" =>
                        m.echeance # annonces[i].date - Jours(annonces[i].texte)
                 /\ \A h \in DOMAIN annonces' :
                      annonces'[h].rdv = r /\ h # i =>
                        \/ annonces'[h].texte # annonces[i].texte
                        \/ annonces'[h].date # annonces[i].date
      BY <1>6, <2>1, <3>1, <3>3, <3>6 DEF Annoncees
    <3>7. /\ horloge' >= annonces'[l].date - Jours(annonces'[l].texte)
          /\ \A m \in JobsDe(r)' :
               m.id[2] = Jours(annonces'[l].texte) /\ m.etat # "fini" =>
                 m.echeance # annonces'[l].date - Jours(annonces'[l].texte)
          /\ \A h \in DOMAIN annonces' :
               annonces'[h].rdv = r /\ h # l =>
                 \/ annonces'[h].texte # annonces'[l].texte
                 \/ annonces'[h].date # annonces'[l].date
      BY <3>1, <3>2, <3>3, <3>4, <3>5
    <3> QED BY <3>1, <3>6, <3>7 DEF Annoncees
  <2> QED BY <2>2, <2>3 DEF ecart
<1>16. ASSUME Retard <= 1
       PROVE  Planifie(r)'
  <2>1. Texte(k) \in TextesPossibles(ecart) /\ Retard <= 4
    BY <1>1, <1>16, TexteJuste, ConstantsAssumption
  <2>2. PICK t \in TextesPossibles(ecart) :
          annonces' = Append(annonces, [rdv |-> r, texte |-> t,
                            date |-> rdvs[r].date, jeunes |-> rdvs[r].jeunes])
    BY <2>1 DEF ecart
  <2>3. t = Texte(k)
    BY <1>1, <2>1, TexteJuste
  <2> DEFINE l == Len(annonces) + 1
  <2>4. /\ l \in DOMAIN annonces'
        /\ \A i \in DOMAIN annonces : i \in DOMAIN annonces' /\ annonces'[i] = annonces[i]
        /\ annonces'[l].rdv = r /\ annonces'[l].texte = t
        /\ annonces'[l].date = rdvs[r].date
    BY <1>14, <2>2
  <2> HIDE DEF l
  <2>5. EnPlan(r, k)'
    BY <2>3, <2>4 DEF EnPlan
  <2>6. \A i : EnPlan(r, i) /\ i # k => EnPlan(r, i)'
    BY <1>3, <1>7, <2>4 DEF EnPlan
  <2> QED BY <1>11, <1>16, <2>5, <2>6 DEF Sain, Planifie
<1> QED BY <1>3, <1>8, <1>9, <1>10, <1>12, <1>13, <1>15, <1>16 DEF Sain

LEMMA RappelsEnvoyer ==
  ASSUME TypeOK, InvRappels, NEW w \in Workers, EnvoyerRappel(w)
  PROVE  InvRappels'
<1> DEFINE r == workers[w].id[1]
           lu == workers[w].lu
           textes == IF lu = Absent THEN {} ELSE TextesPossibles(lu.date - horloge)
<1>1. PICK j \in jobs : /\ j.id = workers[w].id /\ j.etat = "actif"
                        /\ jobs' = ChangerEtat(jobs, j, "fini")
  BY DEF EnvoyerRappel
<1>2. /\ horloge' = horloge /\ rdvs' = rdvs /\ uuids' = uuids /\ ops' = ops
      /\ invitations' = invitations /\ planifieLe' = planifieLe
      /\ perturbes' = perturbes /\ workers[w].etape = "lu"
      /\ workers' = [workers EXCEPT ![w] = Repos]
      /\ \/ textes = {} /\ annonces' = annonces
         \/ \E t \in textes :
              annonces' = Append(annonces, [rdv |-> r, texte |-> t,
                                            date |-> lu.date, jeunes |-> lu.jeunes])
  BY DEF EnvoyerRappel
<1>3. Sur(w, r) /\ Repos.etape = "libre" /\ r \in Rdv /\ lu \in Ligne \cup {Absent}
  BY <1>2, TravailType DEF Sur, Repos
<1>4. ASSUME NEW s \in Rdv \ {r}
      PROVE  Ailleurs(s)
  <2>1. JobsDe(s)' = JobsDe(s)
    BY <1>1, JobsChangerEtat DEF EtatsJob
  <2>2. MemesAnnonces(s)
    <3>1. CASE annonces' = annonces
      BY <3>1 DEF MemesAnnonces
    <3>2. CASE annonces' # annonces
      <4>1. PICK t \in textes :
              annonces' = Append(annonces, [rdv |-> r, texte |-> t,
                                            date |-> lu.date, jeunes |-> lu.jeunes])
        BY <1>2, <3>2
      <4>2. lu \in Ligne /\ t \in Textes
        BY <1>3, <4>1 DEF TextesPossibles
      <4>3. [rdv |-> r, texte |-> t, date |-> lu.date, jeunes |-> lu.jeunes] \in Annonce
        BY <1>3, <4>2 DEF Ligne, Annonce
      <4> QED BY <4>1, <4>3 DEF MemesAnnonces
    <3> QED BY <3>1, <3>2
  <2> HIDE DEF r
  <2> QED BY <1>2, <1>3, <2>1, <2>2, WorkerAilleurs
<1>5. ASSUME NEW s, s = r, s \in Rdv \ perturbes'
      PROVE  Sain(s)'
  <2>1. Sain(s) /\ Sur(w, s) /\ s \in Rdv
    BY <1>2, <1>3, <1>5 DEF InvRappels
  <2>2. lu = rdvs[s] /\ Existe(s)
    BY <1>1, <1>2, <2>1, WorkerJuste
  <2>3. \/ /\ TextesPossibles(rdvs[s].date - horloge) = {}
           /\ annonces' = annonces
        \/ \E t \in TextesPossibles(rdvs[s].date - horloge) :
             annonces' = Append(annonces, [rdv |-> s, texte |-> t,
                           date |-> rdvs[s].date, jeunes |-> rdvs[s].jeunes])
    BY <1>2, <1>5, <2>2 DEF Existe
  <2> HIDE DEF r
  <2> QED BY <1>1, <1>2, <2>1, <2>3, SainEnvoi
<1> QED BY <1>2, <1>4, <1>5, RappelsWorker

-----------------------------------------------------------------------------
(* The next day                                                             *)

LEMMA RappelsAvancer ==
  ASSUME TypeOK, InvRappels, Avancer
  PROVE  InvRappels'
<1>1. /\ \A j \in jobs : j.etat # "fini" => horloge < j.echeance + Retard
      /\ horloge' = horloge + 1
      /\ perturbes' = perturbes \cup {r \in Rdv : \E o \in Ops : r \in ops[o].touches}
      /\ rdvs' = rdvs /\ uuids' = uuids /\ jobs' = jobs /\ ops' = ops
      /\ workers' = workers /\ annonces' = annonces
      /\ invitations' = invitations /\ planifieLe' = planifieLe
  BY DEF Avancer
<1>2. horloge \in Int /\ Retard \in Int
  BY ConstantsAssumption DEF TypeOK
<1>3. Regularite'
  BY <1>1 DEF InvRappels, Regularite
<1>4. ASSUME NEW r \in Rdv \ perturbes'
      PROVE  Sain(r)'
  <2>1. Sain(r) /\ \A o \in Ops : ~Touche(o, r)
    BY <1>1, <1>4 DEF InvRappels, Touche
  <2>2. \A o \in Ops : ~Touche(o, r)'
    BY <1>1, <2>1 DEF Touche
  <2>3. JobsDe(r)' = JobsDe(r) /\ Existe(r)' = Existe(r)
    BY <1>1 DEF JobsDe, Existe
  <2>4. \A v \in Workers : Sur(v, r)' = Sur(v, r)
    BY <1>1 DEF Sur
  <2>5. \A j \in JobsDe(r) : j.echeance \in Int
    BY JobsDeType
  <2>6. Seul(r)'
    <3>1. \A j \in JobsDe(r) : j.echeance <= horloge => j.echeance <= horloge'
      BY <1>1, <1>2, <2>5
    <3> QED BY <1>1, <2>1, <2>2, <2>3, <2>4, <3>1 DEF Sain, Seul
  <2>7. Actifs(r)'
    BY <1>1, <2>1, <2>3, <2>4 DEF Sain, Actifs
  <2>8. r \notin uuids' => Vierge(r)'
    BY <1>1, <2>1, <2>3 DEF Sain, Vierge
  <2>9. Ponctuels(r)'
    <3>1. \A k : ~Condamne(r, k)
      BY <2>1 DEF Condamne
    <3>2. \A j \in JobsDe(r) : j.etat # "fini" => horloge' <= j.echeance + Retard
      BY <1>1, <1>2, <2>5 DEF JobsDe
    <3> QED BY <1>1, <2>1, <2>3, <3>1, <3>2 DEF Sain, Ponctuels, AJour
  <2>10. Numerotees(r)'
    BY <1>1, <2>1, <2>3 DEF Sain, Numerotees
  <2>11. Retard <= 4 => Annoncees(r)'
    <3> SUFFICES ASSUME Annoncees(r) PROVE Annoncees(r)'
      BY <2>1 DEF Sain
    <3>1. ASSUME NEW i \in DOMAIN annonces, annonces[i].rdv = r
          PROVE  horloge' >= annonces[i].date - Jours(annonces[i].texte)
      <4>1. annonces[i].date \in Int /\ Jours(annonces[i].texte) \in Int
        BY AnnonceType DEF Jours
      <4>2. horloge >= annonces[i].date - Jours(annonces[i].texte)
        BY <3>1 DEF Annoncees
      <4> QED BY <1>1, <1>2, <4>1, <4>2
    <3> QED BY <1>1, <2>3, <3>1 DEF Annoncees
  <2>12. \A k : EnPlan(r, k) => EnPlan(r, k)'
    BY <1>1, <2>1, <2>3 DEF EnPlan
  <2>13. Retard <= 1 => Planifie(r)'
    BY <1>1, <2>1, <2>3, <2>12 DEF Sain, Planifie
  <2> QED BY <2>2, <2>6, <2>7, <2>8, <2>9, <2>10, <2>11, <2>13 DEF Sain
<1> QED BY <1>3, <1>4 DEF InvRappels

-----------------------------------------------------------------------------
(* The invariant                                                            *)

LEMMA RappelsInit == Init => InvRappels
<1> SUFFICES ASSUME Init PROVE InvRappels
  OBVIOUS
<1>1. Regularite
  BY ReguliereLibre DEF Init, Regularite
<1>2. ASSUME NEW r \in Rdv
      PROVE  Sain(r)
  <2>1. \A o \in Ops : ~Touche(o, r)
    BY DEF Init, Touche, Libre
  <2>2. \A w \in Workers : ~Sur(w, r)
    BY DEF Init, Sur, Repos
  <2>3. JobsDe(r) = {} /\ invitations[r] = <<>> /\ ~Existe(r) /\ DOMAIN annonces = {}
    BY DEF Init, JobsDe, Existe
  <2>4. Seul(r) /\ Actifs(r) /\ Vierge(r) /\ Ponctuels(r) /\ Numerotees(r)
    BY <2>2, <2>3 DEF Seul, Actifs, Vierge, Ponctuels, Numerotees
  <2>5. Annoncees(r) /\ Planifie(r)
    BY <2>3 DEF Annoncees, Planifie
  <2> QED BY <2>1, <2>4, <2>5 DEF Sain
<1> QED BY <1>1, <1>2 DEF InvRappels

LEMMA RappelsRepos ==
  ASSUME InvRappels, UNCHANGED vars
  PROVE  InvRappels'
BY DEF InvRappels, Regularite, Sain, Seul, Actifs, Vierge, EtatDe, Ponctuels,
       AJour, Condamne, Numerotees, Annoncees, Planifie, EnPlan, Touche, Sur,
       JobsDe, Existe, vars

LEMMA RappelsDebuts ==
  ASSUME TypeOK, InvAgenda, InvRappels, NEW o \in Ops,
         Creer(o) \/ Modifier(o) \/ Clore(o) \/ Supprimer(o) \/ Desinscrire(o)
  PROVE  InvRappels'
<1>1. \E op : Demarrer(o, op) /\ Debutante(op)
  BY DebutanteCreer, DebutanteModifier, DebutanteClore, DebutanteSupprimer,
     DebutanteDesinscrire
<1> QED BY <1>1, RappelsDebut

LEMMA RappelsPas ==
  ASSUME TypeOK, TypeOK', InvAgenda, InvRappels, [Next]_vars
  PROVE  InvRappels'
<1>1. ASSUME NEW o \in Ops, Commande(o)
      PROVE  InvRappels'
  BY <1>1, RappelsDebuts, RappelsSauver, RappelsIcs, RappelsDetruire,
     RappelsAssociations, RappelsRetirer, RappelsAjouter, RappelsInvitation,
     RappelsEchecs DEF Commande
<1>2. ASSUME NEW w \in Workers, Executer(w)
      PROVE  InvRappels'
  BY <1>2, RappelsPrendre, RappelsLire, RappelsEnvoyer, RappelsArret DEF Executer
<1> QED BY <1>1, <1>2, RappelsAvancer, RappelsRepos DEF Next

(* The inductive invariant of the reminders holds whatever the commands,    *)
(* the workers and the failures do.                                         *)
THEOREM InvRappelsToujours == Spec => []InvRappels
<1>1. TypeOK /\ TypeOK' /\ InvAgenda /\ InvRappels /\ [Next]_vars => InvRappels'
  BY RappelsPas
<1> QED BY <1>1, RappelsInit, Typage, InvAgendaToujours, PTL DEF Spec

-----------------------------------------------------------------------------
(* The properties                                                           *)

(* The queue never keeps a reminder for a date an appointment no longer     *)
(* has, nor for a deleted one: AucunRappelPerime (planificateur: update,    *)
(* deletion and the retries of the workers).                                *)
THEOREM RappelsJamaisPerimes == Spec => []AucunRappelPerime
<1>1. ASSUME TypeOK, InvRappels
      PROVE  AucunRappelPerime
  <2> SUFFICES ASSUME NEW j \in jobs, j.etat = "attente",
                      j.id[1] \notin perturbes, ~EnCours(j.id[1])
               PROVE  Existe(j.id[1]) /\ j.echeance = rdvs[j.id[1]].date - j.id[2]
    BY DEF AucunRappelPerime
  <2>1. j.id \in Rdv \X JoursRappel
    BY <1>1 DEF TypeOK, Job
  <2>2. j.id[1] \in Rdv /\ j \in JobsDe(j.id[1])
    BY <2>1, PaireJob DEF JobsDe
  <2>3. \A k : ~Condamne(j.id[1], k)
    BY DEF Condamne, EnCours, Touche
  <2>4. Ponctuels(j.id[1])
    BY <1>1, <2>2 DEF InvRappels, Sain
  <2>5. AJour(j, j.id[1])
    BY <2>2, <2>3, <2>4 DEF Ponctuels
  <2> QED BY <2>5 DEF AJour
<1> QED BY <1>1, Typage, InvRappelsToujours, PTL

(* The calendar invitations of an appointment are numbered in order:        *)
(* SequenceIcsCroissante (getAndIncrementRendezVousIcsSequence, awaited     *)
(* before the deletion, not awaited after the other commands).              *)
THEOREM InvitationsNumerotees == Spec => []SequenceIcsCroissante
<1>1. ASSUME InvRappels
      PROVE  SequenceIcsCroissante
  BY <1>1 DEF SequenceIcsCroissante, InvRappels, Sain, Numerotees
<1> QED BY <1>1, InvRappelsToujours, PTL

(* No reminder is lost: AucunRappelPerdu, when a due job is handled the day *)
(* it is due or the next one.  A later worker announces nothing: the text   *)
(* of the reminder is chosen from the days that are left.                   *)
THEOREM RappelsJamaisPerdus ==
  ASSUME Retard <= 1
  PROVE  Spec => []AucunRappelPerdu
<1>1. ASSUME TypeOK, InvRappels
      PROVE  AucunRappelPerdu
  <2> SUFFICES ASSUME NEW r \in Rdv \ perturbes, NEW k \in JoursRappel,
                      Existe(r), ~EnCours(r), rdvs[r].date - planifieLe[r] > k
               PROVE  \/ \E j \in jobs : /\ j.id = <<r, k>>
                                         /\ j.etat = "attente"
                                         /\ j.echeance = rdvs[r].date - k
                      \/ \E i \in DOMAIN annonces : /\ annonces[i].rdv = r
                                                    /\ annonces[i].date = rdvs[r].date
                                                    /\ annonces[i].texte = Texte(k)
    BY DEF AucunRappelPerdu
  <2>1. /\ \A o \in Ops : ~Touche(o, r)
        /\ \A w \in Workers : ~Sur(w, r)
    BY DEF EnCours, Touche, Sur
  <2>2. EnPlan(r, k) /\ Sain(r)
    BY <1>1 DEF InvRappels, Sain, Planifie
  <2>3. ASSUME NEW j \in JobsDe(r), j.id[2] = k, j.etat # "fini"
        PROVE  j \in jobs /\ j.id = <<r, k>> /\ j.etat = "attente"
    <3>1. j \in jobs /\ j.id = <<r, k>> /\ j \in Job
      BY <1>1, <2>3, JobsDeType
    <3>2. j.etat # "actif"
      BY <2>1, <2>2 DEF Sain, Actifs
    <3> QED BY <2>3, <3>1, <3>2 DEF Job, EtatsJob
  <2> QED BY <2>1, <2>2, <2>3 DEF EnPlan
<1> QED BY <1>1, Typage, InvRappelsToujours, PTL

(* Nobody is told twice the same thing of the same date: PasDeDoublon, when *)
(* the workers are less than five days late.  Later, the reminder of the    *)
(* week before could only be sent as the one of the day before.             *)
THEOREM RappelsSansDoublon ==
  ASSUME Retard <= 4
  PROVE  Spec => []PasDeDoublon
<1>1. ASSUME TypeOK, InvRappels
      PROVE  PasDeDoublon
  <2> SUFFICES ASSUME NEW i \in DOMAIN annonces, NEW j \in DOMAIN annonces,
                      i # j, annonces[i].rdv \notin perturbes,
                      annonces[i] = annonces[j]
               PROVE  FALSE
    BY DEF PasDeDoublon
  <2>1. annonces[i].rdv \in Rdv
    BY <1>1, AnnonceType DEF Annonce
  <2>2. Annoncees(annonces[i].rdv)
    BY <1>1, <2>1 DEF InvRappels, Sain
  <2> QED BY <2>2 DEF Annoncees
<1> QED BY <1>1, Typage, InvRappelsToujours, PTL

LEMMA AnnonceVraie ==
  ASSUME Retard <= 4, TypeOK, InvRappels, NEW w \in Workers, EnvoyerRappel(w),
         annonces' # annonces
  PROVE  LET a == annonces'[Len(annonces')] IN
         a.rdv \notin perturbes' =>
           /\ Existe(a.rdv)
           /\ rdvs[a.rdv].date = a.date
           /\ rdvs[a.rdv].jeunes = a.jeunes
           /\ a.texte = "demain" => a.date - horloge \in (1 - Retard) .. 1
           /\ a.texte = "semaine" => a.date - horloge \in (7 - Retard) .. 7
<1> DEFINE r == workers[w].id[1]
           lu == workers[w].lu
           textes == IF lu = Absent THEN {} ELSE TextesPossibles(lu.date - horloge)
<1>1. PICK t \in textes :
        annonces' = Append(annonces, [rdv |-> r, texte |-> t,
                                      date |-> lu.date, jeunes |-> lu.jeunes])
  BY DEF EnvoyerRappel
<1>2. PICK j \in jobs : j.id = workers[w].id /\ j.etat = "actif"
  BY DEF EnvoyerRappel
<1>3. perturbes' = perturbes /\ workers[w].etape = "lu"
  BY DEF EnvoyerRappel
<1>4. Sur(w, r) /\ r \in Rdv /\ lu \in Ligne
  BY <1>1, <1>3, TravailType DEF Sur
<1> DEFINE a == [rdv |-> r, texte |-> t, date |-> lu.date, jeunes |-> lu.jeunes]
<1>5. a \in Annonce /\ t \in TextesPossibles(lu.date - horloge) /\ t \in Textes
  BY <1>1, <1>4 DEF Annonce, Ligne, TextesPossibles
<1>6. annonces'[Len(annonces')] = a
  <2>1. annonces \in Seq(Annonce) /\ annonces' = Append(annonces, a)
    BY <1>1 DEF TypeOK
  <2> HIDE DEF a
  <2> QED BY <1>5, <2>1, AjoutAnnonce
<1>7. a.rdv = r /\ a.texte = t /\ a.date = lu.date /\ a.jeunes = lu.jeunes
  OBVIOUS
<1> HIDE DEF a
<1>8. ASSUME r \notin perturbes'
      PROVE  /\ Existe(r) /\ lu = rdvs[r]
             /\ t = "demain" => lu.date - horloge \in (1 - Retard) .. 1
             /\ t = "semaine" => lu.date - horloge \in (7 - Retard) .. 7
  <2> DEFINE k == j.id[2]
             ecart == rdvs[r].date - horloge
  <2>1. Sain(r)
    BY <1>3, <1>4, <1>8 DEF InvRappels
  <2>2. /\ lu = rdvs[r] /\ Existe(r) /\ k \in JoursRappel
        /\ ecart \in Int /\ ecart <= k /\ k <= ecart + Retard
    BY <1>2, <1>3, <1>4, <2>1, WorkerJuste
  <2>3. t \in TextesPossibles(ecart)
    BY <1>5, <2>2
  <2> HIDE DEF k, ecart
  <2>4. t = Texte(k)
    BY <2>2, <2>3, TexteJuste
  <2>5. Retard \in Nat
    BY ConstantsAssumption
  <2>6. /\ t = "demain" => ecart \in (1 - Retard) .. 1
        /\ t = "semaine" => ecart \in (7 - Retard) .. 7
    BY <2>2, <2>4, <2>5 DEF Texte, JoursRappel
  <2> QED BY <2>2, <2>6 DEF ecart
<1> QED BY <1>6, <1>7, <1>8

(* What is announced is true when it is sent: AnnonceExacte, when the       *)
(* workers are less than five days late (NotifierRappelRendezVousJobHandler *)
(* reads the appointment, then notifies its participants).                  *)
THEOREM AnnoncesToujoursExactes ==
  ASSUME Retard <= 4
  PROVE  Spec => AnnonceExacte
<1> DEFINE Vraie == annonces' # annonces =>
       LET a == annonces'[Len(annonces')] IN
       a.rdv \notin perturbes' =>
         /\ Existe(a.rdv)
         /\ rdvs[a.rdv].date = a.date
         /\ rdvs[a.rdv].jeunes = a.jeunes
         /\ a.texte = "demain" => a.date - horloge \in (1 - Retard) .. 1
         /\ a.texte = "semaine" => a.date - horloge \in (7 - Retard) .. 7
<1>1. ASSUME [Next]_vars, annonces' # annonces
      PROVE  \E w \in Workers : EnvoyerRappel(w)
  <2>1. ASSUME NEW o \in Ops, Commande(o)
        PROVE  FALSE
    BY <1>1, <2>1 DEF Commande, Creer, Modifier, Clore, Supprimer, Desinscrire,
       Demarrer, Sauver, IcsSuppression, Detruire, DetruireAssociations,
       RetirerRappel, AjouterRappel, EnvoyerInvitation, EchecRedis, Abandon
  <2>2. ~Avancer
    BY <1>1 DEF Avancer
  <2>3. ~UNCHANGED vars
    BY <1>1 DEF vars
  <2>4. PICK w \in Workers : Executer(w)
    BY <1>1, <2>1, <2>2, <2>3 DEF Next
  <2>5. ~(PrendreJob(w) \/ LireRendezVous(w) \/ ArretWorker(w))
    BY <1>1 DEF PrendreJob, LireRendezVous, ArretWorker
  <2> QED BY <2>4, <2>5 DEF Executer
<1>2. ASSUME TypeOK, InvRappels, [Next]_vars
      PROVE  Vraie
  BY <1>1, <1>2, AnnonceVraie
<1>3. TypeOK /\ InvRappels /\ [Next]_vars => [Vraie]_vars
  BY <1>2
<1> QED BY <1>3, Typage, InvRappelsToujours, PTL DEF Spec, AnnonceExacte

=============================================================================

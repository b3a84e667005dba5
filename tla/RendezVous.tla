----------------------------- MODULE RendezVous -----------------------------
(***************************************************************************)
(* Appointments (rendez-vous, RDV) and group events (animations             *)
(* collectives, AC) of the CEJ, and their reminders.                        *)
(*                                                                          *)
(* Web commands create, update, close and delete a row of rendez_vous, and  *)
(* the transfer of young people unregisters them from group events.  A      *)
(* command reads the row, computes the new one and writes it back, without  *)
(* a lock or a version; then, after it has answered, it removes and adds    *)
(* reminder jobs in Redis and sends the calendar invitation by mail.  The   *)
(* workers take the reminder jobs that are due and notify the participants. *)
(*                                                                          *)
(* Time is counted in days.                                                 *)
(***************************************************************************)
EXTENDS Integers, FiniteSets, Sequences, FileBull

CONSTANTS
  Rdv,          \* ids of appointments (uuids)
  AC,           \* those that are animations collectives
  Invitations,  \* those created with invitation = true
  Jeunes,       \* young people
  Dates,        \* days an appointment may be set to
  Limites,      \* values of nombreMaxParticipants, 0 when it is not given
  Ops,          \* web commands that may be in flight together
  Workers,      \* worker processes
  Horizon,      \* bound: last day
  MaxDemandes,  \* bound: number of commands
  MaxPannes,    \* bound: number of failures
  Retard,       \* bound: days a due job may wait before a worker ends it
  Absent        \* no row

VARIABLES
  horloge,      \* the day
  rdvs,         \* table rendez_vous with its association table
  uuids,        \* ids already given to an appointment
  jobs,         \* reminder jobs in Redis
  ops,          \* web commands in flight
  workers,      \* what each worker is doing
  demandes,     \* number of commands received
  pannes,       \* number of failures
  annonces,     \* reminders pushed to the young people, in order
  invitations,  \* per appointment, SEQUENCE of the invitations mailed
  planifieLe,   \* history: day on which the reminders were last decided
  perturbes     \* history: appointments with overlapping or failed operations

vars == <<horloge, rdvs, uuids, jobs, ops, workers, demandes, pannes,
          annonces, invitations, planifieLe, perturbes>>

-----------------------------------------------------------------------------
(* Rows, jobs, commands in flight                                           *)

PasDIcs == -1
PasDeMail == -2
JoursRappel == {1, 7}

Ligne == [date : Dates, jeunes : SUBSET Jeunes, limite : Limites,
          clos : BOOLEAN, presents : SUBSET Jeunes, ics : Nat \cup {PasDIcs}]

ASSUME ConstantsAssumption ==
  /\ Rdv # {}
  /\ AC \subseteq Rdv
  /\ Invitations \subseteq Rdv
  /\ IsFiniteSet(Jeunes)
  /\ Dates \subseteq Nat
  /\ Limites \subseteq Nat
  /\ Horizon \in Nat
  /\ MaxDemandes \in Nat
  /\ MaxPannes \in Nat
  /\ Retard \in Nat
  /\ Absent \notin Ligne

Existe(r) == rdvs[r] # Absent

Job == [id : Rdv \X JoursRappel, echeance : Int, etat : EtatsJob]

(* A pending save: the row as it was read, and the row to save in its place *)
Ecriture == [rdv : Rdv, lu : Ligne \cup {Absent}, ligne : Ligne]

Commandes == {"creer", "modifier", "clore", "supprimer", "desinscrire"}

(* etape: "ecriture" the aggregate is read and checked, rows are being      *)
(* saved; "ics", "destruction", "associations" the three SQL statements of  *)
(* a deletion; "fond" the command has answered and what it does not await   *)
(* is still running.                                                        *)
Operation ==
  [etape : {"libre", "ecriture", "ics", "destruction", "associations", "fond"},
   cmd : Commandes, touches : SUBSET Rdv, ecritures : SUBSET Ecriture,
   date : Dates \cup {0}, change : BOOLEAN,
   retirer : SUBSET JoursRappel, ajouter : SUBSET JoursRappel,
   mail : Nat \cup {PasDIcs, PasDeMail}]

Libre == [etape |-> "libre", cmd |-> "creer", touches |-> {},
          ecritures |-> {}, date |-> 0, change |-> FALSE,
          retirer |-> {}, ajouter |-> {}, mail |-> PasDeMail]

Textes == {"demain", "semaine"}

Annonce == [rdv : Rdv, date : Dates, texte : Textes, jeunes : SUBSET Jeunes]

Travail == [etape : {"libre", "pris", "lu"}, id : Rdv \X JoursRappel,
            lu : Ligne \cup {Absent}]

Repos == [etape |-> "libre",
          id |-> <<CHOOSE r \in Rdv : TRUE, 1>>, lu |-> Absent]

EnCours(r) ==
  \/ \E o \in Ops : r \in ops[o].touches
  \/ \E w \in Workers : workers[w].etape # "libre" /\ workers[w].id[1] = r

Init ==
  /\ horloge = 0
  /\ rdvs = [r \in Rdv |-> Absent]
  /\ uuids = {}
  /\ jobs = {}
  /\ ops = [o \in Ops |-> Libre]
  /\ workers = [w \in Workers |-> Repos]
  /\ demandes = 0
  /\ pannes = 0
  /\ annonces = <<>>
  /\ invitations = [r \in Rdv |-> <<>>]
  /\ planifieLe = [r \in Rdv |-> 0]
  /\ perturbes = {}

-----------------------------------------------------------------------------
(* Checks and computations of the domain                                    *)

(* Factory.creer: the limit is for group events only, and is respected; an  *)
(* individual appointment has at least one participant.                     *)
CreationPermise(r, js, l) ==
  IF r \in AC THEN l = 0 \/ Cardinality(js) <= l ELSE l = 0 /\ js # {}

(* Variant: the limit is only checked by the creation.                      *)
ModificationSansLimite(r, ligne, js, l) ==
  IF r \in AC THEN ~ligne.clos ELSE l = 0 /\ js # {}

(* Factory.mettreAJour                                                      *)
ModificationPermise(r, ligne, js, l) ==
  IF r \in AC THEN ~ligne.clos /\ (l = 0 \/ Cardinality(js) <= l)
              ELSE l = 0 /\ js # {}

(* Variant: an appointment to come can be closed.                           *)
ClotureSansDate(ligne) == ~ligne.clos

(* Factory.clore and AnimationCollective.Service.cloturer                   *)
CloturePermise(ligne) == horloge >= ligne.date /\ ~ligne.clos

(* Variant: the deletion does not look at the closure.                      *)
SuppressionSansControle(r, ligne) == TRUE

(* DeleteRendezVousCommandHandler: only a group event is protected.         *)
SuppressionPermise(r, ligne) == ~(r \in AC /\ ligne.clos)

(* Variants: `else if' between the two reminders; >= in place of >.         *)
JoursDeRappelExclusifs(date) ==
  IF date - horloge > 7 THEN {7} ELSE IF date - horloge > 1 THEN {1} ELSE {}
JoursDeRappelLarges(date) == {k \in JoursRappel : date - horloge >= k}

(* PlanificateurService.planifierRappelsRendezVous                          *)
JoursDeRappel(date) == {k \in JoursRappel : date - horloge > k}

NouvelleLigne(d, js, l) ==
  [date |-> d, jeunes |-> js, limite |-> l, clos |-> FALSE,
   presents |-> {}, ics |-> PasDIcs]

(* Variant: the updated row does not carry icsSequence.                     *)
LigneModifieeSansIcs(ligne, d, js, l) ==
  [ligne EXCEPT !.date = d, !.jeunes = js, !.limite = l, !.presents = {},
                !.ics = PasDIcs]

(* Factory.mettreAJour: the young people are read again, without presence.  *)
LigneModifiee(ligne, d, js, l) ==
  [ligne EXCEPT !.date = d, !.jeunes = js, !.limite = l, !.presents = {}]

LigneClose(ligne, presents) ==
  [ligne EXCEPT !.clos = TRUE, !.presents = presents]

LigneSans(ligne, js) ==
  [ligne EXCEPT !.jeunes = @ \ js, !.presents = @ \ js]

(* A command whose last piece of background work is done disappears.        *)
Poursuivre(op) ==
  IF op.retirer = {} /\ op.ajouter = {} /\ op.mail = PasDeMail
  THEN Libre ELSE op

Mail(r) == IF r \in Invitations THEN PasDIcs ELSE PasDeMail

-----------------------------------------------------------------------------
(* Commands: read, check                                                    *)

Demarrer(o, op) ==
  /\ ops[o] = Libre
  /\ demandes < MaxDemandes
  /\ demandes' = demandes + 1
  /\ ops' = [ops EXCEPT ![o] = op]
  /\ perturbes' = perturbes \cup {r \in op.touches : EnCours(r)}
  /\ UNCHANGED <<horloge, rdvs, jobs, workers, pannes, annonces,
                 invitations, planifieLe>>

Creer(o) ==
  \E r \in Rdv \ uuids, d \in Dates, js \in SUBSET Jeunes, l \in Limites :
    /\ CreationPermise(r, js, l)
    /\ uuids' = uuids \cup {r}
    /\ Demarrer(o, [Libre EXCEPT
         !.etape = "ecriture", !.cmd = "creer", !.touches = {r}, !.date = d,
         !.ecritures = {[rdv |-> r, lu |-> Absent,
                         ligne |-> NouvelleLigne(d, js, l)]}])

Modifier(o) ==
  \E r \in Rdv, d \in Dates, js \in SUBSET Jeunes, l \in Limites :
    /\ Existe(r)
    /\ ModificationPermise(r, rdvs[r], js, l)
    /\ Demarrer(o, [Libre EXCEPT
         !.etape = "ecriture", !.cmd = "modifier", !.touches = {r},
         !.date = d, !.change = d # rdvs[r].date,
         !.ecritures = {[rdv |-> r, lu |-> rdvs[r],
                         ligne |-> LigneModifiee(rdvs[r], d, js, l)]}])
    /\ UNCHANGED uuids

Clore(o) ==
  \E r \in Rdv :
    /\ Existe(r)
    /\ CloturePermise(rdvs[r])
    /\ \E presents \in SUBSET rdvs[r].jeunes :
         Demarrer(o, [Libre EXCEPT
           !.etape = "ecriture", !.cmd = "clore", !.touches = {r},
           !.ecritures = {[rdv |-> r, lu |-> rdvs[r],
                           ligne |-> LigneClose(rdvs[r], presents)]}])
    /\ UNCHANGED uuids

Supprimer(o) ==
  \E r \in Rdv :
    /\ Existe(r)
    /\ SuppressionPermise(r, rdvs[r])
    /\ Demarrer(o, [Libre EXCEPT
         !.etape = "ics", !.cmd = "supprimer", !.touches = {r}])
    /\ UNCHANGED uuids

(* Transfer of young people to a counsellor of another agency: every group  *)
(* event of the agency, past and closed ones too, is read at once, then     *)
(* saved again one after the other without them.                            *)
Desinscrire(o) ==
  \E js \in (SUBSET Jeunes) \ {{}} :
    LET animations == {r \in AC : Existe(r)} IN
    /\ animations # {}
    /\ Demarrer(o, [Libre EXCEPT
         !.etape = "ecriture", !.cmd = "desinscrire", !.touches = animations,
         !.ecritures = {[rdv |-> r, lu |-> rdvs[r],
                         ligne |-> LigneSans(rdvs[r], js)] : r \in animations}])
    /\ UNCHANGED uuids

-----------------------------------------------------------------------------
(* Commands: write                                                          *)

(* Variant: an update leaves the reminders as they are.                     *)
RappelsConserves(op) == {}

(* replanifierLesRappelsDeRendezVous: when the date has changed.            *)
RappelsARetirer(op) == IF op.change THEN JoursRappel ELSE {}

ApresSauvegarde(op, r) ==
  CASE op.cmd = "creer" ->
         Poursuivre([op EXCEPT !.etape = "fond", !.ecritures = {},
                     !.ajouter = JoursDeRappel(op.date), !.mail = Mail(r)])
    [] op.cmd = "modifier" ->
         Poursuivre([op EXCEPT !.etape = "fond", !.ecritures = {},
                     !.retirer = RappelsARetirer(op),
                     !.mail = Mail(r)])
    [] OTHER -> Libre

(* What remains of a command when it has made a save.                       *)
ApresEcriture(op, e) ==
  IF op.ecritures = {e} THEN ApresSauvegarde(op, e.rdv)
  ELSE [op EXCEPT !.ecritures = @ \ {e}]

(* The row is upserted with what the command computed from the row it read. *)
Sauver(o) ==
  /\ ops[o].etape = "ecriture"
  /\ \E e \in ops[o].ecritures :
       /\ rdvs' = [rdvs EXCEPT ![e.rdv] = e.ligne]
       /\ ops' = [ops EXCEPT ![o] = ApresEcriture(@, e)]
       /\ planifieLe' = IF ops[o].cmd = "creer"
                        THEN [planifieLe EXCEPT ![e.rdv] = horloge]
                        ELSE planifieLe
  /\ UNCHANGED <<horloge, uuids, jobs, workers, demandes, pannes, annonces,
                 invitations, perturbes>>

(* getAndIncrementRendezVousIcsSequence: nothing when there is no row.      *)
IncrementerIcs(r) ==
  IF Existe(r) THEN [rdvs EXCEPT ![r].ics = @ + 1] ELSE rdvs

ApresIcs(op, sequence) ==
  [op EXCEPT !.etape = "destruction", !.mail = sequence]

IcsSuppression(o) ==
  /\ ops[o].etape = "ics"
  /\ \E r \in ops[o].touches :
       /\ rdvs' = IncrementerIcs(r)
       /\ ops' = [ops EXCEPT ![o] =
            ApresIcs(@, IF Existe(r) /\ r \in Invitations
                        THEN rdvs'[r].ics ELSE Mail(r))]
  /\ UNCHANGED <<horloge, uuids, jobs, workers, demandes, pannes, annonces,
                 invitations, planifieLe, perturbes>>

ApresDestruction(op) == [op EXCEPT !.etape = "associations"]

Detruire(o) ==
  /\ ops[o].etape = "destruction"
  /\ \E r \in ops[o].touches : rdvs' = [rdvs EXCEPT ![r] = Absent]
  /\ ops' = [ops EXCEPT ![o] = ApresDestruction(@)]
  /\ UNCHANGED <<horloge, uuids, jobs, workers, demandes, pannes, annonces,
                 invitations, planifieLe, perturbes>>

ApresAssociations(op) ==
  [op EXCEPT !.etape = "fond", !.retirer = JoursRappel]

(* The second statement of the deletion, outside any transaction: it only   *)
(* finds rows when the appointment has been saved again in between.         *)
DetruireAssociations(o) ==
  /\ ops[o].etape = "associations"
  /\ \E r \in ops[o].touches :
       rdvs' = IF Existe(r) THEN [rdvs EXCEPT ![r] = LigneSans(@, Jeunes)]
                            ELSE rdvs
  /\ ops' = [ops EXCEPT ![o] = ApresAssociations(@)]
  /\ UNCHANGED <<horloge, uuids, jobs, workers, demandes, pannes, annonces,
                 invitations, planifieLe, perturbes>>

-----------------------------------------------------------------------------
(* What a command leaves running after it has answered                      *)

(* After the last removal, an update plans the reminders of the new date.   *)
Replanifie(op, k) == op.retirer = {k} /\ op.cmd = "modifier"

RappelRetire(op, k) ==
  Poursuivre([op EXCEPT !.retirer = @ \ {k},
    !.ajouter = IF Replanifie(op, k) THEN JoursDeRappel(op.date) ELSE {}])

(* removeJobs scans the keys of Redis: the jobs of an appointment are       *)
(* removed one by one, in any order.                                        *)
RetirerRappel(o) ==
  \E r \in ops[o].touches, k \in ops[o].retirer :
    /\ jobs' = SupprimerJobs(jobs, {<<r, k>>})
    /\ ops' = [ops EXCEPT ![o] = RappelRetire(@, k)]
    /\ planifieLe' = IF Replanifie(ops[o], k)
                     THEN [planifieLe EXCEPT ![r] = horloge] ELSE planifieLe
    /\ UNCHANGED <<horloge, rdvs, uuids, workers, demandes, pannes, annonces,
                   invitations, perturbes>>

RappelAjoute(op, k) == Poursuivre([op EXCEPT !.ajouter = @ \ {k}])

(* The reminder a week before is added first.                               *)
AjouterRappel(o) ==
  \E r \in ops[o].touches, k \in ops[o].ajouter :
    /\ \A i \in ops[o].ajouter : i <= k
    /\ jobs' = AjouterJob(jobs, [id |-> <<r, k>>, etat |-> "attente",
                                 echeance |-> ops[o].date - k])
    /\ ops' = [ops EXCEPT ![o] = RappelAjoute(@, k)]
    /\ UNCHANGED <<horloge, rdvs, uuids, workers, demandes, pannes, annonces,
                   invitations, planifieLe, perturbes>>

InvitationEnvoyee(op) == Poursuivre([op EXCEPT !.mail = PasDeMail])

(* MailBrevoService.envoyerMailRendezVous: the sequence number is the one   *)
(* the deletion has taken, or is taken now; without a row, no mail.         *)
EnvoyerInvitation(o) ==
  /\ ops[o].etape = "fond"
  /\ ops[o].mail # PasDeMail
  /\ \E r \in ops[o].touches :
       LET sequence == IF ops[o].mail # PasDIcs THEN ops[o].mail
                       ELSE IF Existe(r) THEN rdvs[r].ics + 1 ELSE PasDIcs
       IN
       /\ rdvs' = IF ops[o].mail = PasDIcs THEN IncrementerIcs(r) ELSE rdvs
       /\ invitations' = IF sequence = PasDIcs THEN invitations
                         ELSE [invitations EXCEPT ![r] = Append(@, sequence)]
  /\ ops' = [ops EXCEPT ![o] = InvitationEnvoyee(@)]
  /\ UNCHANGED <<horloge, uuids, jobs, workers, demandes, pannes, annonces,
                 planifieLe, perturbes>>

-----------------------------------------------------------------------------
(* Failures of the web processes                                            *)

PlanificationAbandonnee(op) ==
  Poursuivre([op EXCEPT !.retirer = {}, !.ajouter = {}])

(* An error of Redis is logged and swallowed: the rest of the planning is   *)
(* given up.                                                                *)
EchecRedis(o) ==
  /\ ops[o].retirer \cup ops[o].ajouter # {}
  /\ pannes < MaxPannes
  /\ pannes' = pannes + 1
  /\ ops' = [ops EXCEPT ![o] = PlanificationAbandonnee(@)]
  /\ perturbes' = perturbes \cup ops[o].touches
  /\ UNCHANGED <<horloge, rdvs, uuids, jobs, workers, demandes, annonces,
                 invitations, planifieLe>>

(* An SQL statement throws, or the process stops: the command ends there.   *)
Abandon(o) ==
  /\ ops[o] # Libre
  /\ pannes < MaxPannes
  /\ pannes' = pannes + 1
  /\ ops' = [ops EXCEPT ![o] = Libre]
  /\ perturbes' = perturbes \cup ops[o].touches
  /\ UNCHANGED <<horloge, rdvs, uuids, jobs, workers, demandes, annonces,
                 invitations, planifieLe>>

-----------------------------------------------------------------------------
(* Workers                                                                  *)

PrendreJob(w) ==
  /\ workers[w].etape = "libre"
  /\ \E j \in JobsEchus(jobs, horloge) :
       /\ jobs' = ChangerEtat(jobs, j, "actif")
       /\ workers' = [workers EXCEPT ![w] =
            [etape |-> "pris", id |-> j.id, lu |-> Absent]]
       /\ perturbes' = IF EnCours(j.id[1]) THEN perturbes \cup {j.id[1]}
                                           ELSE perturbes
  /\ UNCHANGED <<horloge, rdvs, uuids, ops, demandes, pannes, annonces,
                 invitations, planifieLe>>

LireRendezVous(w) ==
  /\ workers[w].etape = "pris"
  /\ workers' = [workers EXCEPT ![w].etape = "lu",
                                ![w].lu = rdvs[workers[w].id[1]]]
  /\ UNCHANGED <<horloge, rdvs, uuids, jobs, ops, demandes, pannes, annonces,
                 invitations, planifieLe, perturbes>>

(* Notification.creerNotificationRappelRdv: what is announced of an         *)
(* appointment in `ecart' days.                                             *)
TextesPossibles(ecart) ==
  {t \in Textes : \/ t = "demain" /\ 0 <= ecart /\ ecart <= 2
                  \/ t = "semaine" /\ ecart >= 6}

(* The participants of an appointment that still exists are notified, and   *)
(* the job is completed.                                                    *)
EnvoyerRappel(w) ==
  /\ workers[w].etape = "lu"
  /\ LET lu == workers[w].lu
         textes == IF lu = Absent THEN {} ELSE TextesPossibles(lu.date - horloge)
     IN \/ textes = {} /\ annonces' = annonces
        \/ \E t \in textes :
             annonces' = Append(annonces, [rdv |-> workers[w].id[1], texte |-> t,
                                           date |-> lu.date, jeunes |-> lu.jeunes])
  /\ \E j \in jobs : /\ j.id = workers[w].id
                     /\ j.etat = "actif"
                     /\ jobs' = ChangerEtat(jobs, j, "fini")
  /\ workers' = [workers EXCEPT ![w] = Repos]
  /\ UNCHANGED <<horloge, rdvs, uuids, ops, demandes, pannes, invitations,
                 planifieLe, perturbes>>

(* The worker stops: Bull finds the job stalled and gives it to a worker    *)
(* again, or fails it when it had already stalled.                          *)
ArretWorker(w) ==
  /\ workers[w].etape # "libre"
  /\ pannes < MaxPannes
  /\ pannes' = pannes + 1
  /\ \E j \in jobs, etat \in {"attente", "fini"} :
       /\ j.id = workers[w].id
       /\ j.etat = "actif"
       /\ jobs' = ChangerEtat(jobs, j, etat)
  /\ workers' = [workers EXCEPT ![w] = Repos]
  /\ perturbes' = perturbes \cup {workers[w].id[1]}
  /\ UNCHANGED <<horloge, rdvs, uuids, ops, demandes, annonces, invitations,
                 planifieLe>>

-----------------------------------------------------------------------------
(* The next day.  A due job has waited at most Retard days; an operation    *)
(* that is in flight when the day ends counts as disturbed.                 *)
Avancer ==
  /\ horloge < Horizon
  /\ \A j \in jobs : j.etat # "fini" => horloge < j.echeance + Retard
  /\ horloge' = horloge + 1
  /\ perturbes' = perturbes \cup {r \in Rdv : \E o \in Ops : r \in ops[o].touches}
  /\ UNCHANGED <<rdvs, uuids, jobs, ops, workers, demandes, pannes, annonces,
                 invitations, planifieLe>>

Commande(o) ==
  \/ Creer(o) \/ Modifier(o) \/ Clore(o) \/ Supprimer(o) \/ Desinscrire(o)
  \/ Sauver(o) \/ IcsSuppression(o) \/ Detruire(o) \/ DetruireAssociations(o)
  \/ RetirerRappel(o) \/ AjouterRappel(o) \/ EnvoyerInvitation(o)
  \/ EchecRedis(o) \/ Abandon(o)

Executer(w) ==
  PrendreJob(w) \/ LireRendezVous(w) \/ EnvoyerRappel(w) \/ ArretWorker(w)

Next ==
  \/ \E o \in Ops : Commande(o)
  \/ \E w \in Workers : Executer(w)
  \/ Avancer

Spec == Init /\ [][Next]_vars

-----------------------------------------------------------------------------
(* Properties of the rows, whatever overlaps or fails                       *)

(* Every variable keeps its type; a reminder job id is in the queue once.   *)
TypeOK ==
  /\ horloge \in 0 .. Horizon
  /\ rdvs \in [Rdv -> Ligne \cup {Absent}]
  /\ uuids \subseteq Rdv
  /\ jobs \subseteq Job
  /\ \A i, j \in jobs : i.id = j.id => i = j
  /\ ops \in [Ops -> Operation]
  /\ workers \in [Workers -> Travail]
  /\ demandes \in 0 .. MaxDemandes
  /\ pannes \in 0 .. MaxPannes
  /\ annonces \in Seq(Annonce)
  /\ invitations \in [Rdv -> Seq(Nat)]
  /\ planifieLe \in [Rdv -> 0 .. Horizon]
  /\ perturbes \subseteq Rdv

(* A row as the domain allows it: a group event never has more participants *)
(* than its limit, an individual appointment has no limit, the young people *)
(* marked present are among the participants, and only a closed appointment *)
(* has any.                                                                 *)
LigneCoherente(r, ligne) ==
  /\ ligne.limite # 0 => r \in AC /\ Cardinality(ligne.jeunes) <= ligne.limite
  /\ ligne.presents \subseteq ligne.jeunes
  /\ ligne.presents # {} => ligne.clos

(* The rows stay coherent although updates, closures, unregistrations and   *)
(* deletions overwrite each other's work and stop half-way.                 *)
LignesCoherentes ==
  \A r \in Rdv : Existe(r) => LigneCoherente(r, rdvs[r])

-----------------------------------------------------------------------------
(* Properties of an appointment whose operations did not overlap or fail    *)

(* A closed group event is never deleted, reopened, moved or given a new    *)
(* participant (mettreAJour and DeleteRendezVousCommandHandler refuse).     *)
ClotureDefinitive ==
  [][\A r \in AC \ perturbes' :
       Existe(r) /\ rdvs[r].clos =>
         /\ Existe(r)'
         /\ rdvs'[r].clos
         /\ rdvs'[r].date = rdvs[r].date
         /\ rdvs'[r].jeunes \subseteq rdvs[r].jeunes]_vars

(* The commands on an appointment look atomic: they implement Agenda.  A    *)
(* deleted appointment is one whose id is given, with no row, and that no   *)
(* creation is still to save.                                               *)
EntreeAgenda(ligne) ==
  [date |-> ligne.date, jeunes |-> ligne.jeunes, limite |-> ligne.limite,
   clos |-> ligne.clos, presents |-> ligne.presents]

agendaDesLignes ==
  [r \in Rdv |-> IF Existe(r) THEN EntreeAgenda(rdvs[r]) ELSE Absent]

CreationEnAttente(r) ==
  \E o \in Ops : ops[o].cmd = "creer" /\ \E e \in ops[o].ecritures : e.rdv = r

supprimesDesLignes == {r \in uuids : ~Existe(r) /\ ~CreationEnAttente(r)}

A == INSTANCE Agenda WITH
       jour <- horloge,
       agenda <- agendaDesLignes,
       supprimes <- supprimesDesLignes

ASSUME AbsentAssumption == Absent \notin A!Entree

ImplementeAgenda == A!Spec

(* The invitations of an appointment carry increasing sequence numbers:     *)
(* calendars ignore an update that does not.                                *)
SequenceIcsCroissante ==
  \A r \in Rdv \ perturbes :
    \A i, j \in DOMAIN invitations[r] :
      i < j => invitations[r][i] < invitations[r][j]

Texte(k) == IF k = 1 THEN "demain" ELSE "semaine"

(* When nothing is in flight for an appointment, each reminder that was     *)
(* still to come when its date was last set is in the queue for that date,  *)
(* or has been announced: no update, restart of a worker or late worker     *)
(* loses it.                                                                *)
AucunRappelPerdu ==
  \A r \in Rdv \ perturbes, k \in JoursRappel :
    Existe(r) /\ ~EnCours(r) /\ rdvs[r].date - planifieLe[r] > k =>
      \/ \E j \in jobs : /\ j.id = <<r, k>>
                         /\ j.etat = "attente"
                         /\ j.echeance = rdvs[r].date - k
      \/ \E i \in DOMAIN annonces : /\ annonces[i].rdv = r
                                    /\ annonces[i].date = rdvs[r].date
                                    /\ annonces[i].texte = Texte(k)

(* When nothing is in flight for an appointment, the queue holds no         *)
(* reminder for a date it no longer has, nor for a deleted appointment.     *)
AucunRappelPerime ==
  \A j \in jobs :
    LET r == j.id[1] IN
    j.etat = "attente" /\ r \notin perturbes /\ ~EnCours(r) =>
      Existe(r) /\ j.echeance = rdvs[r].date - j.id[2]

(* What is announced is true when it is sent: the appointment exists, at    *)
(* that date and with these participants, and is really a week or a day     *)
(* ahead, give or take the delay of the worker.                             *)
AnnonceExacte ==
  [][annonces' # annonces =>
       LET a == annonces'[Len(annonces')] IN
       a.rdv \notin perturbes' =>
         /\ Existe(a.rdv)
         /\ rdvs[a.rdv].date = a.date
         /\ rdvs[a.rdv].jeunes = a.jeunes
         /\ a.texte = "demain" => a.date - horloge \in (1 - Retard) .. 1
         /\ a.texte = "semaine" => a.date - horloge \in (7 - Retard) .. 7]_vars

(* Nobody is told twice the same thing of the same date, even when the date *)
(* is changed back and forth.                                               *)
PasDeDoublon ==
  \A i, j \in DOMAIN annonces :
    i # j /\ annonces[i].rdv \notin perturbes => annonces[i] # annonces[j]

-----------------------------------------------------------------------------
(* What the messages of the repository say, and that overlaps break         *)

(* A closed group event stays closed whatever the commands that overlap.    *)
ClotureTenue ==
  [][\A r \in AC :
       Existe(r) /\ rdvs[r].clos => Existe(r)' /\ rdvs'[r].clos]_vars

=============================================================================

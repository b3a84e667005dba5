------------------------------ MODULE Actions ------------------------------
(***************************************************************************)
(* The actions of young people: created, modified, commented, qualified by *)
(* a counsellor or by the nightly job, reminded before their deadline.      *)
(*                                                                          *)
(* A command reads the row, decides, and writes the whole row back: two     *)
(* commands, or a command and the job, that overlap overwrite each other.   *)
(* A qualification as SNP is declared to Milo before the row is saved.      *)
(* The reminder is a delayed job of Redis, planned once, at creation, and   *)
(* checked against the row when it runs; SynchronizeJobs empties Redis and  *)
(* plans the reminders again.                                               *)
(***************************************************************************)
EXTENDS Integers, FiniteSets

CONSTANTS
  Actions,        \* identities of actions, in the order of their creation: 1 .. n
  Ops,            \* commands that may be in flight together
  Creations,      \* what may be asked at creation
  Modifications,  \* what may be asked of an existing action
  Qualifications, \* qualifications that may be asked
  DernierJour,    \* bound: last day
  DelaiRappel,    \* days between the reminder and the deadline (3)
  DelaiQualif,    \* days between the deadline and the automatic qualification
  MaxBatch,       \* size of a page of the job (1000)
  MaxDemandes,    \* bound: number of commands
  MaxPannes,      \* bound: number of failures
  Inchange,       \* a field that the command leaves alone
  Vide            \* an empty column, an absent row

VARIABLES
  jour,         \* today
  lignes,       \* rows of action
  commentees,   \* actions that have comments
  rappels,      \* delayed jobs of Redis: <<action, day>>
  envoyes,      \* reminders sent: <<action, day>>
  milo,         \* number of SNP declared to Milo for each action
  ops,          \* commands in flight
  job,          \* the job QUALIFIER_ACTIONS
  demandes,     \* number of commands received
  pannes,       \* number of failures
  perturbes     \* history: per action, what overlapped or failed

vars == <<jour, lignes, commentees, rappels, envoyes, milo, ops, job,
          demandes, pannes, perturbes>>

-----------------------------------------------------------------------------
(* Rows and commands                                                        *)

Jours == 0 .. DernierJour

(* EN_COURS stands for PAS_COMMENCEE as well: no condition tells them apart.*)
Statuts == {"EN_COURS", "TERMINEE", "ANNULEE"}

(* A code that is only suggested has no hours; NON_SNP has zero hours.      *)
EtatsQualif == {"aucune", "code", "NON_SNP", "SNP"}

Action ==
  [statut : Statuts, echeance : Jours, debut : Jours \cup {Vide},
   fin : Jours \cup {Vide}, rappel : BOOLEAN, qualif : EtatsQualif]

Creation == [statut : Statuts, echeance : Jours, rappel : BOOLEAN]
Infos ==
  [statut : Statuts \cup {Inchange}, echeance : Jours \cup {Inchange},
   fin : Jours \cup {Inchange}, code : BOOLEAN]
Qualification == [code : {"SNP", "NON_SNP"}, debut : Jours \cup {Inchange},
                  fin : Jours \cup {Inchange}]

ASSUME ConstantsAssumption ==
  /\ IsFiniteSet(Actions) /\ Actions = 1 .. Cardinality(Actions)
  /\ {DernierJour, DelaiRappel, DelaiQualif, MaxDemandes, MaxPannes} \subseteq Nat
  /\ MaxBatch \in Nat \ {0}
  /\ Vide \notin Jours /\ Vide \notin Action
  /\ Inchange \notin Jours /\ Inchange \notin Statuts
  /\ Creations \subseteq Creation
  /\ Modifications \subseteq Infos
  /\ Qualifications \subseteq Qualification

Commandes == {"creer", "modifier", "supprimer", "commenter", "qualifier"}
Etapes == {"libre", "lecture", "calcul", "milo", "sauvegarde", "rappel"}

Libre == [etape |-> "libre", cmd |-> "creer", reste |-> {}, infos |-> Vide,
          lus |-> [a \in Actions |-> Vide], vues |-> {}, aSauver |-> Vide]

(* page: the actions of the page read that are left.                        *)
JobArrete == [actif |-> FALSE, offset |-> 0, page |-> {}, taille |-> 0,
              lus |-> [a \in Actions |-> Vide]]

Init ==
  /\ jour = 0
  /\ lignes = [a \in Actions |-> Vide]
  /\ commentees = {}
  /\ rappels = {}
  /\ envoyes = {}
  /\ milo = [a \in Actions |-> 0]
  /\ ops = [o \in Ops |-> Libre]
  /\ job = JobArrete
  /\ demandes = 0
  /\ pannes = 0
  /\ perturbes = [a \in Actions |-> {}]

Existe(a) == lignes[a] # Vide

(* Commands and pages of the job about an action                            *)
Concernes(o) == IF ops[o].etape = "libre" THEN {} ELSE ops[o].reste
Occupee(a) == a \in job.page \/ \E o \in Ops : a \in Concernes(o)

Perturber(as, quoi) ==
  perturbes' = [a \in Actions |-> IF a \in as THEN perturbes[a] \cup quoi
                                              ELSE perturbes[a]]

-----------------------------------------------------------------------------
(* Domain                                                                   *)

EstQualifiee(l) == l.qualif = "SNP"   \* hours that are not zero
EstTerminee(l) == l.statut = "TERMINEE" /\ l.fin # Vide
Ouverte(l) == l.statut = "EN_COURS"

(* buildAction                                                              *)
Nouvelle(c) ==
  [statut |-> c.statut, echeance |-> c.echeance, debut |-> Vide,
   fin |-> IF c.statut = "TERMINEE" THEN c.echeance ELSE Vide,
   rappel |-> c.rappel, qualif |-> "aucune"]

(* Variant: the end date stays when the action is opened again.             *)
FinReelleGardee(l, statut, fin) ==
  IF fin # Inchange THEN fin
  ELSE IF statut = "TERMINEE" /\ l.statut # "TERMINEE" THEN jour ELSE l.fin

(* mettreAJourLaDateDeFinReelle                                             *)
FinReelle(l, statut, fin) ==
  IF statut = "TERMINEE" /\ l.statut # "TERMINEE"
    THEN IF fin = Inchange THEN jour ELSE fin
  ELSE IF statut # "TERMINEE" /\ l.statut = "TERMINEE" THEN Vide
  ELSE IF fin = Inchange THEN l.fin ELSE fin

Demande(infos, champ, l) ==
  IF infos[champ] = Inchange THEN l[champ] ELSE infos[champ]

(* Variant: a qualified action may be modified.                             *)
ModifiableMemeQualifiee(l, infos) ==
  infos.fin # Inchange => Demande(infos, "statut", l) = "TERMINEE"

Modifiable(l, infos) ==
  /\ ~EstQualifiee(l)
  /\ infos.fin # Inchange => Demande(infos, "statut", l) = "TERMINEE"

(* updateAction                                                             *)
Modifiee(l, infos) ==
  LET statut == Demande(infos, "statut", l)
  IN [l EXCEPT !.statut = statut,
               !.echeance = Demande(infos, "echeance", l),
               !.fin = FinReelle(l, statut, infos.fin),
               !.qualif = IF infos.code THEN "code" ELSE l.qualif]

(* qualifier                                                                *)
DatesDe(l, q) ==
  LET fin == IF q.fin = Inchange THEN l.fin ELSE q.fin
  IN [fin |-> fin, debut |-> IF q.debut = Inchange THEN fin ELSE q.debut]

(* Variant: an action that is qualified may be qualified again.             *)
QualifiableEncore(l, q) ==
  EstTerminee(l) /\ DatesDe(l, q).debut <= DatesDe(l, q).fin

Qualifiable(l, q) ==
  /\ EstTerminee(l)
  /\ ~EstQualifiee(l)
  /\ DatesDe(l, q).debut <= DatesDe(l, q).fin

Qualifiee(l, q) ==
  [l EXCEPT !.debut = DatesDe(l, q).debut, !.fin = DatesDe(l, q).fin,
            !.qualif = q.code]

(* doitPlanifierUneNotificationDeRappel                                     *)
DoitPlanifier(l) ==
  l.rappel /\ Ouverte(l) /\ l.echeance > jour + DelaiRappel

(* doitEnvoyerUneNotificationDeRappel                                       *)
DoitEnvoyer(l) == l.rappel /\ Ouverte(l) /\ l.echeance = jour + DelaiRappel

-----------------------------------------------------------------------------
(* Commands                                                                 *)

Suivre(o, op) == ops' = [ops EXCEPT ![o] = op]
Finir(o) == Suivre(o, Libre)

Prendre(o, cmd, as, infos) ==
  /\ ops[o].etape = "libre"
  /\ demandes < MaxDemandes
  /\ demandes' = demandes + 1
  /\ Suivre(o, [Libre EXCEPT !.etape = "lecture", !.cmd = cmd, !.reste = as,
                             !.infos = infos])
  /\ Perturber({a \in as : Occupee(a)}, {"ligne"})
  /\ UNCHANGED <<jour, lignes, commentees, rappels, envoyes, milo, job, pannes>>

(* A new identity, the next one.                                            *)
DemanderCreation(o, a) ==
  /\ lignes[a] = Vide /\ perturbes[a] = {} /\ ~Occupee(a)
  /\ \A b \in Actions : b < a => Existe(b) \/ perturbes[b] # {}
  /\ \E c \in Creations :
       /\ c.echeance >= jour
       /\ ops[o].etape = "libre"
       /\ demandes < MaxDemandes
       /\ demandes' = demandes + 1
       /\ Suivre(o, [Libre EXCEPT !.etape = "sauvegarde", !.cmd = "creer",
                                  !.reste = {a}, !.aSauver = Nouvelle(c)])
  /\ UNCHANGED <<jour, lignes, commentees, rappels, envoyes, milo, job, pannes,
                 perturbes>>

Demander(o) ==
  \/ \E a \in Actions : DemanderCreation(o, a)
  \/ \E a \in {b \in Actions : Existe(b)} :
       \/ \E m \in Modifications : Prendre(o, "modifier", {a}, m)
       \/ Prendre(o, "supprimer", {a}, Vide)
       \/ Prendre(o, "commenter", {a}, Vide)
  \/ \E as \in (SUBSET {b \in Actions : Existe(b)}) \ {{}}, q \in Qualifications :
       Prendre(o, "qualifier", as, q)

(* getAggregate or the first lines of handle                                *)
LireActions(o) ==
  /\ ops[o].etape = "lecture"
  /\ Suivre(o, [ops[o] EXCEPT
                  !.lus = [a \in Actions |->
                             IF a \in ops[o].reste THEN lignes[a] ELSE Vide],
                  !.vues = commentees \cap ops[o].reste,
                  !.etape = "calcul"])
  /\ UNCHANGED <<jour, lignes, commentees, rappels, envoyes, milo, job,
                 demandes, pannes, perturbes>>

(* An action that is not found, or that cannot be: the next one.            *)
Passer(o, a) ==
  LET reste == ops[o].reste \ {a}
  IN Suivre(o, IF reste = {} THEN Libre
               ELSE [ops[o] EXCEPT !.etape = "calcul", !.reste = reste,
                                   !.aSauver = Vide])

DeciderModification(o, a) ==
  LET l == ops[o].lus[a]
  IN /\ ops[o].cmd = "modifier"
     /\ IF l # Vide /\ Modifiable(l, ops[o].infos)
          THEN Suivre(o, [ops[o] EXCEPT !.etape = "sauvegarde",
                                        !.aSauver = Modifiee(l, ops[o].infos)])
          ELSE Passer(o, a)

(* handle of the two commands that qualify: Milo first when it is an SNP.   *)
DeciderQualification(o, a) ==
  LET l == ops[o].lus[a]
      q == ops[o].infos
  IN /\ ops[o].cmd = "qualifier"
     /\ IF l # Vide /\ Qualifiable(l, q)
          THEN Suivre(o, [ops[o] EXCEPT
                            !.etape = IF q.code = "SNP" THEN "milo"
                                                        ELSE "sauvegarde",
                            !.aSauver = Qualifiee(l, q)])
          ELSE Passer(o, a)

(* One action at a time, in the order of the command.                       *)
EnTete(o, a) == a \in ops[o].reste /\ \A b \in ops[o].reste : a <= b

Decider(o, a) ==
  /\ ops[o].etape = "calcul"
  /\ EnTete(o, a)
  /\ DeciderModification(o, a) \/ DeciderQualification(o, a)
  /\ UNCHANGED <<jour, lignes, commentees, rappels, envoyes, milo, job,
                 demandes, pannes, perturbes>>

(* Milo accepts, refuses, or accepts and the answer is lost.                *)
DeclarerMilo(o, a) ==
  /\ ops[o].etape = "milo"
  /\ EnTete(o, a)
  /\ \/ /\ milo' = [milo EXCEPT ![a] = @ + 1]
        /\ Suivre(o, [ops[o] EXCEPT !.etape = "sauvegarde"])
        /\ UNCHANGED <<pannes, perturbes>>
     \/ /\ pannes < MaxPannes
        /\ pannes' = pannes + 1
        /\ Passer(o, a)
        /\ UNCHANGED <<milo, perturbes>>
     \/ /\ pannes < MaxPannes
        /\ pannes' = pannes + 1
        /\ milo' = [milo EXCEPT ![a] = @ + 1]
        /\ Finir(o)
        /\ Perturber({a}, {"ligne"})
  /\ UNCHANGED <<jour, lignes, commentees, rappels, envoyes, job, demandes>>

(* save: modifierOuCreer, the whole row.                                    *)
Sauvegarder(o, a) ==
  /\ ops[o].etape = "sauvegarde"
  /\ EnTete(o, a)
  /\ lignes' = [lignes EXCEPT ![a] = ops[o].aSauver]
  /\ IF ops[o].cmd = "creer" THEN Suivre(o, [ops[o] EXCEPT !.etape = "rappel"])
                             ELSE Passer(o, a)
  /\ Perturber({b \in {a} : /\ ops[o].cmd # "creer"
                             /\ ops[o].aSauver.echeance # ops[o].lus[b].echeance},
               {"rappel"})
  /\ UNCHANGED <<jour, commentees, rappels, envoyes, milo, job, demandes, pannes>>

(* Variant: the reminder is planned for the day of the deadline.            *)
JourDuRappelTardif(l) == l.echeance

JourDuRappel(l) == l.echeance - DelaiRappel

(* An error of the planner is caught: the action exists without a reminder. *)
PlanifierRappel(o, a) ==
  LET l == ops[o].aSauver
  IN /\ ops[o].etape = "rappel"
     /\ a \in ops[o].reste
     /\ Finir(o)
     /\ \/ /\ rappels' = IF DoitPlanifier(l)
                           THEN rappels \cup {<<a, JourDuRappel(l)>>} ELSE rappels
           /\ Perturber({a}, IF DoitPlanifier(l) THEN {} ELSE {"rappel"})
           /\ UNCHANGED pannes
        \/ /\ DoitPlanifier(l)
           /\ pannes < MaxPannes
           /\ pannes' = pannes + 1
           /\ Perturber({a}, {"rappel"})
           /\ UNCHANGED rappels
     /\ UNCHANGED <<jour, lignes, commentees, envoyes, milo, job, demandes>>

Supprimable(o, a) ==
  /\ ops[o].lus[a] # Vide
  /\ ~EstTerminee(ops[o].lus[a])
  /\ a \notin ops[o].vues

(* The row is deleted; its reminder is left in Redis.                       *)
Supprimer(o, a) ==
  /\ ops[o].etape = "calcul"
  /\ ops[o].cmd = "supprimer"
  /\ EnTete(o, a)
  /\ Finir(o)
  /\ IF Supprimable(o, a)
       THEN /\ lignes' = [lignes EXCEPT ![a] = Vide]
            /\ commentees' = commentees \ {a}
            /\ Perturber({a}, {"supprimee"})
       ELSE UNCHANGED <<lignes, commentees, perturbes>>
  /\ UNCHANGED <<jour, rappels, envoyes, milo, job, demandes, pannes>>

(* A comment needs the row: a foreign key refuses it otherwise.             *)
Commenter(o, a) ==
  /\ ops[o].etape = "calcul"
  /\ ops[o].cmd = "commenter"
  /\ EnTete(o, a)
  /\ Finir(o)
  /\ commentees' = IF ops[o].lus[a] # Vide /\ Existe(a)
                     THEN commentees \cup {a} ELSE commentees
  /\ UNCHANGED <<jour, lignes, rappels, envoyes, milo, job, demandes, pannes,
                 perturbes>>

(* The process stops: what Milo accepted and was not saved is not known.    *)
Interrompre(o) ==
  /\ ops[o].etape \notin {"libre"}
  /\ pannes < MaxPannes
  /\ pannes' = pannes + 1
  /\ Finir(o)
  /\ Perturber(ops[o].reste,
               IF ops[o].etape = "sauvegarde" THEN {"ligne"}
               ELSE IF ops[o].etape = "rappel" THEN {"rappel"} ELSE {})
  /\ UNCHANGED <<jour, lignes, commentees, rappels, envoyes, milo, job,
                 demandes>>

-----------------------------------------------------------------------------
(* The job QUALIFIER_ACTIONS                                                *)

(* Variant: actions that are done are left out.                             *)
AQualifierOuvertes(l) ==
  Ouverte(l) /\ l.echeance < jour - DelaiQualif
    /\ l.qualif \in {"aucune", "code"}

(* actionsAQualifierAvecEcheancePlusDe4Mois                                 *)
AQualifier(l) ==
  /\ l.statut # "ANNULEE"
  /\ l.echeance < jour - DelaiQualif
  /\ l.qualif \in {"aucune", "code"}

Vieilles == {a \in Actions : Existe(a) /\ AQualifier(lignes[a])}

(* The MaxBatch oldest, beyond the offset.                                  *)
Page(offset) ==
  {a \in Vieilles :
     LET rang == Cardinality({b \in Vieilles : b < a})
     IN rang >= offset /\ rang < offset + MaxBatch}

LirePage(offset) ==
  /\ job' = [actif |-> TRUE, offset |-> offset + MaxBatch,
             page |-> Page(offset), taille |-> Cardinality(Page(offset)),
             lus |-> [a \in Actions |->
                        IF a \in Page(offset) THEN lignes[a] ELSE Vide]]
  /\ Perturber({a \in Page(offset) : \E o \in Ops : a \in Concernes(o)}, {"ligne"})
  /\ UNCHANGED <<jour, lignes, commentees, rappels, envoyes, milo, ops,
                 demandes, pannes>>

LancerJob == ~job.actif /\ Vieilles # {} /\ LirePage(0)

PageSuivante == job.taille = MaxBatch

ContinuerJob ==
  /\ job.actif
  /\ job.page = {}
  /\ IF PageSuivante
       THEN LirePage(job.offset)
       ELSE /\ job' = JobArrete
            /\ UNCHANGED <<jour, lignes, commentees, rappels, envoyes, milo,
                           ops, demandes, pannes, perturbes>>

QualifAuto == [code |-> "NON_SNP", debut |-> Inchange, fin |-> Inchange]
Terminer == [statut |-> "TERMINEE", echeance |-> Inchange, fin |-> jour,
             code |-> FALSE]

(* What the job saves, from the row as the page read it                     *)
Automatique(l) ==
  Qualifiee(IF l.statut = "TERMINEE" THEN l ELSE Modifiee(l, Terminer), QualifAuto)

QualifierAutomatiquement(a) ==
  /\ job.actif
  /\ a \in job.page /\ \A b \in job.page : a <= b
  /\ lignes' = [lignes EXCEPT ![a] = Automatique(job.lus[a])]
  /\ job' = [job EXCEPT !.page = @ \ {a}]
  /\ UNCHANGED <<jour, commentees, rappels, envoyes, milo, ops, demandes,
                 pannes, perturbes>>

(* The worker stops, or an error of the database is caught.                 *)
ArreterJob ==
  /\ job.actif
  /\ pannes < MaxPannes
  /\ pannes' = pannes + 1
  /\ job' = JobArrete
  /\ UNCHANGED <<jour, lignes, commentees, rappels, envoyes, milo, ops,
                 demandes, perturbes>>

-----------------------------------------------------------------------------
(* Time, reminders, resynchronisation                                       *)

Dus == {r \in rappels : r[2] <= jour}

(* RAPPEL_ACTION: sent if the row still asks for it, today.                 *)
ExecuterRappel(r) ==
  /\ r \in Dus
  /\ rappels' = rappels \ {r}
  /\ envoyes' = IF Existe(r[1]) /\ DoitEnvoyer(lignes[r[1]])
                  THEN envoyes \cup {<<r[1], jour>>} ELSE envoyes
  /\ UNCHANGED <<jour, lignes, commentees, milo, ops, job, demandes, pannes,
                 perturbes>>

(* The workers are late: what is due today may run tomorrow.                *)
PasserJour ==
  /\ jour < DernierJour
  /\ jour' = jour + 1
  /\ IF Dus = {} THEN UNCHANGED pannes
                 ELSE pannes < MaxPannes /\ pannes' = pannes + 1
  /\ UNCHANGED <<lignes, commentees, rappels, envoyes, milo, ops, job, demandes,
                 perturbes>>

ARappeler ==
  {a \in Actions : Existe(a) /\ lignes[a].rappel /\ Ouverte(lignes[a])
                     /\ lignes[a].echeance >= jour + DelaiRappel}

(* SynchronizeJobs: everything is removed; the reminders planned again are  *)
(* those of the actions to remind today.                                    *)
Resynchroniser ==
  /\ demandes < MaxDemandes
  /\ demandes' = demandes + 1
  /\ rappels' = {<<a, JourDuRappel(lignes[a])>> :
                   a \in {b \in ARappeler : DoitEnvoyer(lignes[b])}}
  /\ Perturber({a \in Actions : Existe(a) \/ perturbes[a] # {}}, {"resynchro"})
  /\ UNCHANGED <<jour, lignes, commentees, envoyes, milo, ops, job, pannes>>

-----------------------------------------------------------------------------
Next ==
  \/ \E o \in Ops :
       \/ Demander(o)
       \/ LireActions(o)
       \/ Interrompre(o)
       \/ \E a \in Actions :
            \/ Decider(o, a)
            \/ DeclarerMilo(o, a)
            \/ Sauvegarder(o, a)
            \/ PlanifierRappel(o, a)
            \/ Supprimer(o, a)
            \/ Commenter(o, a)
  \/ LancerJob
  \/ ContinuerJob
  \/ \E a \in Actions : QualifierAutomatiquement(a)
  \/ ArreterJob
  \/ \E r \in rappels : ExecuterRappel(r)
  \/ PasserJour
  \/ Resynchroniser

(* Redis serves the jobs that are due; the job of qualification runs every  *)
(* night and each of its steps is awaited in a loop; commands end.          *)
Equite ==
  /\ WF_vars(LancerJob)
  /\ WF_vars(ContinuerJob)
  /\ WF_vars(\E a \in Actions : QualifierAutomatiquement(a))

Spec == Init /\ [][Next]_vars /\ Equite

-----------------------------------------------------------------------------
(* Properties                                                               *)

Declarees == {a \in Actions : Existe(a) /\ EstQualifiee(lignes[a])}

(* Type correctness, and what every row keeps whatever overlaps: an action  *)
(* is done exactly when it has an end date, and an SNP is an action that is *)
(* done, that began before it ended.                                        *)
TypeOK ==
  /\ jour \in Jours
  /\ \A a \in Actions : lignes[a] \in Action \cup {Vide}
  /\ \A a \in Actions : Existe(a) =>
       (lignes[a].statut = "TERMINEE" <=> lignes[a].fin # Vide)
  /\ \A a \in Declarees :
       lignes[a].statut = "TERMINEE" /\ lignes[a].debut <= lignes[a].fin
  /\ rappels \cup envoyes \subseteq Actions \X Int
  /\ \A o \in Ops : ops[o].etape \in Etapes /\ ops[o].cmd \in Commandes
  /\ job.page \subseteq Actions
  /\ pannes \in 0 .. MaxPannes

(* Milo is told once that an action is an SNP, whatever the counsellor asks *)
(* again: only commands that overlap, or an answer of Milo that is lost,    *)
(* declare it twice.                                                        *)
UneSeuleDeclaration ==
  \A a \in Actions : milo[a] > 1 => "ligne" \in perturbes[a]

(* Once commands are over, what Milo knows is what the row says, even when  *)
(* Milo refused.                                                            *)
DeclareesEnregistrees ==
  \A a \in Actions :
    (~Occupee(a) /\ "ligne" \notin perturbes[a])
      => (milo[a] = 1 <=> a \in Declarees)

(* The row of an SNP never changes again, nor goes away, by a command or by *)
(* the nightly job, except one that read the row before.                    *)
QualifieesIntouchables ==
  [][\A a \in Declarees :
       "ligne" \notin perturbes'[a] => lignes'[a] = lignes[a]]_vars

(* An open action that wants a reminder has one in Redis, at the right day, *)
(* until that day, when it is sent if the action is still open; unless its  *)
(* deadline moved, its planning failed or the jobs were resynchronised.     *)
SansRappel ==
  {a \in Actions :
     /\ Existe(a) /\ ~Occupee(a) /\ lignes[a].rappel /\ Ouverte(lignes[a])
     /\ lignes[a].echeance > jour + DelaiRappel
     /\ <<a, lignes[a].echeance - DelaiRappel>> \notin rappels}

RappelPlanifie ==
  \A a \in SansRappel : {"rappel", "resynchro"} \cap perturbes[a] # {}

RappelEnvoye(r) ==
  (/\ r \notin rappels' /\ r[2] = jour /\ Existe(r[1])
   /\ {"rappel", "resynchro"} \cap perturbes'[r[1]] = {}
   /\ Ouverte(lignes[r[1]]) /\ lignes[r[1]].rappel)
    => r \in envoyes'

RappelTenu ==
  [][RappelPlanifie' /\ \A r \in rappels : RappelEnvoye(r)]_vars

(* The tests say that SynchronizeJobs plans the reminders of the actions.   *)
RappelsResynchronises ==
  \A a \in SansRappel : "rappel" \in perturbes[a]

(* Left for long after its deadline, and not cancelled                      *)
Vieille(a) ==
  Existe(a) /\ lignes[a].statut # "ANNULEE" /\ lignes[a].echeance < jour - DelaiQualif

(* An action that was left for long is qualified by some night, even if the *)
(* pages of the job skip it: what is qualified leaves the selection, and    *)
(* the offset grows all the same.                                           *)
VieillesQualifiees ==
  \A a \in Actions :
    (Vieille(a) /\ lignes[a].qualif \in {"aucune", "code"})
      ~> (Vieille(a) => lignes[a].qualif \in {"SNP", "NON_SNP"})
=============================================================================

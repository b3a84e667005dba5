-------------------------------- MODULE Lots --------------------------------
(***************************************************************************)
(* The jobs that go through a whole population, page by page: the          *)
(* notifications sent to every young person, and the daily jobs over their  *)
(* searches, their appointments and their situations.                       *)
(*                                                                          *)
(* A page is read by offset and limit while people come and go.  Some jobs  *)
(* plan a job for the next page (a chain of jobs of Redis, which nothing    *)
(* ties together), the others loop.  They differ by what ends them, and by  *)
(* whether what is treated leaves the selection: a rule says so.            *)
(*                                                                          *)
(* A lot is one launch: a command or a cron, for the population there is.   *)
(***************************************************************************)
EXTENDS Naturals, FiniteSets, FiniteSetsExt

CONSTANTS
  Types,          \* job types explored
  Ids,            \* people, or searches, in the order of the selection: 1 .. n
  Presents,       \* those that are there at first
  Ops,            \* requests that may be in flight together
  Pagination,     \* size of a page
  BatchsDemandes, \* sizes a command may ask, 0 when it asks none
  MaxLots,        \* bound: launches
  MaxJobs,        \* bound: chains of jobs in Redis at the same time
  MaxMouvements,  \* bound: people that come or go
  MaxPannes       \* bound: number of failures

VARIABLES
  type,       \* the type of this behaviour
  population, \* who the selection matches
  ferme,      \* it is Thursday, or after six in the evening
  commandes,  \* NotifierBeneficiaires in flight
  lots,       \* number of launches
  attendus,   \* who was there when each lot was launched
  traites,    \* times each one was treated by each lot
  jobs,       \* jobs of Redis that are not over
  mouvements, \* number of moves
  pannes,     \* number of failures
  perturbes   \* history: what happened during each lot

vars == <<type, population, ferme, commandes, lots, attendus, traites, jobs,
          mouvements, pannes, perturbes>>

-----------------------------------------------------------------------------
(* The rules of the jobs                                                    *)

(* chaine    the next page is the work of another job                       *)
(* arret     what ends it: the number of people treated is the total counted*)
(*           at first, a page that is not full, or a page that is empty     *)
(* consomme  what is treated leaves the selection                           *)
(* decale    the offset grows                                               *)
(* reporte   put off to the next day when closed                            *)
(* parPage   an error only loses the page                                   *)
Regle(chaine, arret, consomme, decale, reporte, parPage) ==
  [chaine |-> chaine, arret |-> arret, consomme |-> consomme,
   decale |-> decale, reporte |-> reporte, parPage |-> parPage]

NotifierBeneficiaires == Regle(TRUE, "total", FALSE, TRUE, FALSE, FALSE)
NotifierCampagne == Regle(TRUE, "incomplete", FALSE, TRUE, FALSE, FALSE)
NotifierBonneAlternance == Regle(TRUE, "incomplete", FALSE, TRUE, FALSE, FALSE)
Notifier0Heures == Regle(TRUE, "incomplete", FALSE, TRUE, FALSE, FALSE)
NotifierRappelCreation == Regle(TRUE, "incomplete", FALSE, TRUE, FALSE, FALSE)
NotifierActualisation == Regle(TRUE, "incomplete", FALSE, TRUE, TRUE, FALSE)
OffresServiceCivique == Regle(FALSE, "incomplete", TRUE, TRUE, FALSE, FALSE)
OffresEmploi == Regle(FALSE, "vide", TRUE, FALSE, FALSE, FALSE)
SituationsMilo == Regle(FALSE, "vide", FALSE, TRUE, FALSE, FALSE)
RendezVousPoleEmploi == Regle(FALSE, "incomplete", FALSE, TRUE, FALSE, TRUE)

Regles ==
  [NOTIFIER_BENEFICIAIRES |-> NotifierBeneficiaires,
   NOTIFIER_CAMPAGNE |-> NotifierCampagne,
   NOTIFIER_BONNE_ALTERNANCE |-> NotifierBonneAlternance,
   NOTIFIER_0_HEURES_DECLAREES |-> Notifier0Heures,
   NOTIFIER_RAPPEL_CREATION_ACTIONS_DEMARCHES |-> NotifierRappelCreation,
   NOTIFIER_ACTUALISATION |-> NotifierActualisation,
   NOUVELLES_OFFRES_SERVICE_CIVIQUE |-> OffresServiceCivique,
   NOUVELLES_OFFRES_EMPLOI |-> OffresEmploi,
   RECUPERER_SITUATIONS_JEUNES_MILO |-> SituationsMilo,
   NOTIFIER_RENDEZVOUS_PE |-> RendezVousPoleEmploi]

ASSUME ConstantsAssumption ==
  /\ Types \subseteq DOMAIN Regles
  /\ IsFiniteSet(Ids) /\ Ids = 1 .. Cardinality(Ids) /\ Presents \subseteq Ids
  /\ IsFiniteSet(Ops)
  /\ Pagination \in Nat \ {0}
  /\ BatchsDemandes \subseteq Nat
  /\ MaxLots \in Nat \ {0} /\ {MaxMouvements, MaxPannes} \subseteq Nat
  /\ MaxJobs \in Nat /\ MaxJobs >= MaxLots + MaxPannes

regle == Regles[type]
SurCommande == type = "NOTIFIER_BENEFICIAIRES"

-----------------------------------------------------------------------------
(* Jobs                                                                     *)

Etapes == {"attente", "compte", "page", "bilan"}

(* What a job carries, and where its execution is; a job has the id of the  *)
(* one that planned it, which ends then.                                    *)
Contenu == [offset : Nat, nb : Nat, total : Nat, batch : Nat]
Job == [id : 1 .. MaxJobs, lot : 1 .. MaxLots, contenu : Contenu,
        courant : Contenu, etape : Etapes, page : SUBSET Ids, taille : Nat,
        reprises : 0 .. 1]

Debut(batch) == [offset |-> 0, nb |-> 0, total |-> 0, batch |-> batch]

Libres == (1 .. MaxJobs) \ {j.id : j \in jobs}
NouvelId == CHOOSE k \in Libres : TRUE
NouveauJob(id, lot, contenu) ==
  [id |-> id, lot |-> lot, contenu |-> contenu, courant |-> contenu,
   etape |-> "attente", page |-> {}, taille |-> 0, reprises |-> 0]

EnCours == {j.lot : j \in jobs}

(* What may happen during a lot                                             *)
Perturbations == {"concurrence", "saut", "echec", "reprise", "entree", "sortie"}

Init ==
  /\ type \in Types
  /\ population = Presents
  /\ ferme = FALSE
  /\ commandes = {}
  /\ lots = 0
  /\ attendus = [l \in 1 .. MaxLots |-> {}]
  /\ traites = [l \in 1 .. MaxLots |-> [i \in Ids |-> 0]]
  /\ jobs = {}
  /\ mouvements = 0
  /\ pannes = 0
  /\ perturbes = [l \in 1 .. MaxLots |-> {}]

Perturber(ls, quoi) ==
  perturbes' = [l \in 1 .. MaxLots |-> IF l \in ls THEN perturbes[l] \cup quoi
                                                   ELSE perturbes[l]]

Panne == pannes < MaxPannes /\ pannes' = pannes + 1

Avancer(j, etape) == jobs' = (jobs \ {j}) \cup {[j EXCEPT !.etape = etape]}

-----------------------------------------------------------------------------
(* Launches                                                                 *)

(* Variant: only a job that runs is looked for.                             *)
DejaPlanifieActif == \E j \in jobs : j.etape # "attente"

(* recupererPremierJobNonTermine finds one.                                 *)
DejaPlanifie == jobs # {}

(* NotifierBeneficiaires looks for a job ...                                *)
Verifier(o) ==
  /\ SurCommande
  /\ o \notin commandes
  /\ lots + Cardinality(commandes) < MaxLots
  /\ ~DejaPlanifie
  /\ commandes' = commandes \cup {o}
  /\ Perturber({l \in 1 .. MaxLots : commandes # {} /\ l > lots}, {"concurrence"})
  /\ UNCHANGED <<type, population, ferme, lots, attendus, traites, jobs,
                 mouvements, pannes>>

Lancer(contenu) ==
  /\ Libres # {}
  /\ lots' = lots + 1
  /\ jobs' = jobs \cup {NouveauJob(NouvelId, lots + 1, contenu)}
  /\ attendus' = [attendus EXCEPT ![lots + 1] = population]

(* ... and adds one.                                                        *)
Ajouter(o) ==
  /\ o \in commandes
  /\ commandes' = commandes \ {o}
  /\ \E b \in BatchsDemandes : Lancer(Debut(b))
  /\ UNCHANGED <<type, population, ferme, traites, mouvements, pannes, perturbes>>

(* The crons, and the creation of a campaign: one launch, the lots of these *)
(* types do not know of each other.                                         *)
Programmer ==
  /\ ~SurCommande
  /\ lots = 0
  /\ Lancer(Debut(Pagination))
  /\ UNCHANGED <<type, population, ferme, commandes, traites, mouvements, pannes,
                 perturbes>>

-----------------------------------------------------------------------------
(* A page                                                                   *)

(* The size that was asked, or a quarter of the population, or one          *)
TailleDuBatch(batch, total) ==
  IF batch = 0 THEN Max({total \div 4, 1}) ELSE batch

(* NOTIFIER_BENEFICIAIRES counts first, unless the job carries the total.   *)
Compter(j) ==
  LET total == IF j.courant.total = 0 THEN Cardinality(population)
                                      ELSE j.courant.total
  IN jobs' = (jobs \ {j}) \cup
       {[j EXCEPT !.etape = "compte", !.courant.total = total,
                  !.courant.batch = TailleDuBatch(@, total)]}

(* Put off to the next day at eight                                         *)
Fermee(j) == j.etape = "attente" /\ regle.reporte /\ ferme

Demarrer(j) ==
  /\ j.etape = "attente"
  /\ ~Fermee(j)
  /\ IF regle.arret = "total" THEN Compter(j) ELSE Avancer(j, "compte")
  /\ UNCHANGED <<type, population, ferme, commandes, lots, attendus, traites,
                 mouvements, pannes, perturbes>>

Selection(lot) ==
  IF regle.consomme THEN {i \in population : traites[lot][i] = 0} ELSE population

Page(lot, offset, batch) ==
  {i \in Selection(lot) :
     LET rang == Cardinality({k \in Selection(lot) : k < i})
     IN rang >= offset /\ rang < offset + batch}

LirePage(j) ==
  LET page == Page(j.lot, j.courant.offset, j.courant.batch)
  IN /\ j.etape = "compte"
     /\ jobs' = (jobs \ {j}) \cup
          {[j EXCEPT !.etape = "page", !.page = page, !.taille = Cardinality(page),
                     !.courant.nb = IF regle.arret = "total"
                                      THEN @ + Cardinality(page) ELSE 0]}
     /\ Perturber({l \in {j.lot} : /\ regle.consomme /\ j.courant.offset > 0
                                   /\ Selection(l) # {}}, {"saut"})
     /\ UNCHANGED <<type, population, ferme, commandes, lots, attendus, traites,
                    mouvements, pannes>>

TraiterPage(lot, ids) ==
  traites' = [traites EXCEPT ![lot] =
                [i \in Ids |-> IF i \in ids THEN Min({@[i] + 1, 2}) ELSE @[i]]]

(* One after the other, the error of one of them is caught; no other step   *)
(* looks at what the page has done so far, but for the failures below.      *)
Traiter(j) ==
  /\ j.etape = "page"
  /\ TraiterPage(j.lot, j.page)
  /\ jobs' = (jobs \ {j}) \cup {[j EXCEPT !.etape = "bilan", !.page = {}]}
  /\ UNCHANGED <<type, population, ferme, commandes, lots, attendus, mouvements,
                 pannes, perturbes>>

(* What a page that stops on the way has treated                            *)
Entames(j) == {{}} \cup {{k \in j.page : k <= i} : i \in j.page}

-----------------------------------------------------------------------------
(* The next page                                                            *)

(* Variant: one page is enough.                                             *)
TermineToujours(j) == TRUE

Termine(j) ==
  CASE regle.arret = "total" -> j.courant.nb = j.courant.total
    [] regle.arret = "incomplete" -> j.taille # j.courant.batch
    [] OTHER -> j.taille = 0

(* Variant: the next page starts one too early.                             *)
OffsetSuivantChevauche(c) ==
  IF regle.decale THEN Min({c.offset + c.batch - 1, Cardinality(Ids)}) ELSE 0

(* Variant: the same page again.                                            *)
OffsetSuivantFige(c) == c.offset

(* An offset beyond the population reads nothing: it stops at its size.     *)
OffsetSuivant(c) ==
  IF regle.decale THEN Min({c.offset + c.batch, Cardinality(Ids)}) ELSE 0

Suivant(c) == [c EXCEPT !.offset = OffsetSuivant(c)]

(* The job that follows: none at the end; reprogrammerPourLeLendemain, the  *)
(* same one; planifierLeProchainJob, the next page.                         *)
Suites(j, id) ==
  IF Fermee(j) THEN {NouveauJob(id, j.lot, j.contenu)}
  ELSE IF Termine(j) THEN {} ELSE {NouveauJob(id, j.lot, Suivant(j.courant))}

Planifie(j) == Fermee(j) \/ (j.etape = "bilan" /\ (regle.chaine \/ Termine(j)))

(* The job ends, and has planned another one, or not.                       *)
Enchainer(j) ==
  /\ Planifie(j)
  /\ jobs' = (jobs \ {j}) \cup Suites(j, j.id)
  /\ UNCHANGED <<type, population, ferme, commandes, lots, attendus, traites,
                 mouvements, pannes, perturbes>>

(* The next turn of the loop                                                *)
Boucler(j) ==
  /\ j.etape = "bilan"
  /\ ~regle.chaine /\ ~Termine(j)
  /\ jobs' = (jobs \ {j}) \cup
       {[j EXCEPT !.etape = "compte", !.courant = Suivant(@), !.taille = 0]}
  /\ UNCHANGED <<type, population, ferme, commandes, lots, attendus, traites,
                 mouvements, pannes, perturbes>>

-----------------------------------------------------------------------------
(* Failures and moves                                                       *)

(* The database does not answer, or Redis, awaited or not, when the next    *)
(* job is added: the job has only one attempt, and the chain ends.          *)
Echec(j) ==
  /\ j.etape \in {"compte", "page", "bilan"}
  /\ Panne
  /\ IF regle.parPage /\ j.etape = "page"
       THEN jobs' = (jobs \ {j}) \cup {[j EXCEPT !.etape = "bilan", !.page = {}]}
       ELSE jobs' = jobs \ {j}
  /\ \E ids \in Entames(j) : TraiterPage(j.lot, ids)
  /\ Perturber({j.lot}, {"echec"})
  /\ UNCHANGED <<type, population, ferme, commandes, lots, attendus, mouvements>>

(* Bull gives a job back, once, as it was added.                            *)
Rendu(j) ==
  IF j.reprises = 0
    THEN {[j EXCEPT !.etape = "attente", !.courant = j.contenu, !.page = {},
                    !.taille = 0, !.reprises = 1]}
    ELSE {}

(* The worker stops, in the middle of a page, or once the next job is added.*)
ArretWorker(j) ==
  /\ j.etape # "attente" \/ Fermee(j)
  /\ Panne
  /\ \/ jobs' = (jobs \ {j}) \cup Rendu(j)
     \/ /\ Planifie(j) /\ Libres # {}
        /\ jobs' = (jobs \ {j}) \cup Rendu(j) \cup Suites(j, NouvelId)
  /\ \E ids \in Entames(j) : TraiterPage(j.lot, ids)
  /\ Perturber({j.lot}, IF j.reprises = 0 THEN {"reprise"} ELSE {"echec"})
  /\ UNCHANGED <<type, population, ferme, commandes, lots, attendus, mouvements>>

Mouvement == mouvements < MaxMouvements /\ mouvements' = mouvements + 1

(* Someone installs the application, or changes structure.                  *)
Entrer(i) ==
  /\ i \in Ids \ population
  /\ Mouvement
  /\ population' = population \cup {i}
  /\ Perturber(EnCours, {"entree"})
  /\ UNCHANGED <<type, ferme, commandes, lots, attendus, traites, jobs, pannes>>

(* Someone is deleted, or answers the campaign.                             *)
Sortir(i) ==
  /\ i \in population
  /\ Mouvement
  /\ population' = population \ {i}
  /\ Perturber(EnCours, {"sortie"})
  /\ UNCHANGED <<type, ferme, commandes, lots, attendus, traites, jobs, pannes>>

Ouvrir ==
  /\ ferme
  /\ ferme' = FALSE
  /\ UNCHANGED <<type, population, commandes, lots, attendus, traites, jobs,
                 mouvements, pannes, perturbes>>

Fermer ==
  /\ regle.reporte
  /\ ~ferme
  /\ ferme' = TRUE
  /\ UNCHANGED <<type, population, commandes, lots, attendus, traites, jobs,
                 mouvements, pannes, perturbes>>

-----------------------------------------------------------------------------
Executer(j) == LirePage(j) \/ Traiter(j) \/ Enchainer(j) \/ Boucler(j)

Next ==
  \/ \E o \in Ops : Verifier(o) \/ Ajouter(o)
  \/ Programmer
  \/ \E j \in jobs : Demarrer(j) \/ Executer(j) \/ Echec(j) \/ ArretWorker(j)
  \/ \E i \in Ids : Entrer(i) \/ Sortir(i)
  \/ Ouvrir
  \/ Fermer

(* The workers take every job and go on with it; a job put off to eight in  *)
(* the morning is taken, some day, before the evening.                      *)
Equite ==
  /\ \A k \in 1 .. MaxJobs :
       /\ SF_vars(\E j \in jobs : j.id = k /\ Demarrer(j))
       /\ WF_vars(\E j \in jobs : j.id = k /\ Executer(j))
  /\ WF_vars(Ouvrir)

Spec == Init /\ [][Next]_vars /\ Equite

-----------------------------------------------------------------------------
(* Properties                                                               *)

(* A job is of a lot that was launched.                                     *)
TypeJob(j) == j \in Job /\ j.lot <= lots

IdUnique == \A j, k \in jobs : j.id = k.id => j = k

TypePerturbes == perturbes \in [1 .. MaxLots -> SUBSET Perturbations]

(* Type correctness: the jobs of Redis have distinct ids, and the commands  *)
(* in flight have room for the lots they are about to launch.               *)
TypeOK ==
  /\ type \in Types
  /\ population \subseteq Ids
  /\ ferme \in BOOLEAN
  /\ commandes \subseteq Ops /\ (SurCommande \/ commandes = {})
  /\ lots \in Nat /\ lots + Cardinality(commandes) <= MaxLots
  /\ attendus \in [1 .. MaxLots -> SUBSET Ids]
  /\ traites \in [1 .. MaxLots -> [Ids -> 0 .. 2]]
  /\ \A j \in jobs : TypeJob(j)
  /\ IdUnique
  /\ mouvements \in Nat /\ pannes \in Nat
  /\ TypePerturbes

Termines == (1 .. lots) \ EnCours

(* Nobody is treated twice by a lot, except when somebody came during it,   *)
(* which moves the others one page further, or when a worker stopped and    *)
(* the job was given back: what a page had sent is not recorded.            *)
DoublonsExpliques ==
  \A l \in 1 .. lots, i \in Ids :
    traites[l][i] > 1 => perturbes[l] \cap {"entree", "reprise"} # {}

(* Whoever was there from the beginning to the end of a lot was treated,    *)
(* except when somebody went, which moves the others one page nearer, when  *)
(* a page failed, or when what was treated left the selection while the     *)
(* offset grew.  The lot that stops on a total also forgets people when     *)
(* somebody came.                                                           *)
OublisExpliques ==
  \A l \in Termines, i \in Ids :
    (i \in attendus[l] \cap population /\ traites[l][i] = 0)
      => perturbes[l] \cap ({"sortie", "echec", "saut"} \cup
                            IF regle.arret = "total" THEN {"entree"} ELSE {}) # {}

(* The notifications of two commands are not mixed, unless both looked for  *)
(* a job before either added its own.                                       *)
UneSeuleChaine ==
  SurCommande =>
    \/ Cardinality(EnCours) <= 1
    \/ \E l \in EnCours : "concurrence" \in perturbes[l]

(* What makes it so: when two commands have both looked, or one is still to *)
(* add its job while there is one already, they raced, and every lot        *)
(* concerned is known to be disturbed.                                      *)
Disputes(ls) == \A l \in ls : "concurrence" \in perturbes[l]

ChainesDisputees ==
  SurCommande =>
    /\ (\E o, p \in commandes : o # p) => Disputes((lots + 1) .. MaxLots)
    /\ (commandes # {} /\ jobs # {}) => Disputes(EnCours \cup (lots + 1) .. MaxLots)
    /\ (\E j, k \in jobs : j.lot # k.lot) => Disputes(EnCours)

(* A lot ends, whoever comes or goes and whatever fails, except the one     *)
(* that stops on the total counted at first: the number treated passes it,  *)
(* or never reaches it, and every command is refused from then on.          *)
LotTermine ==
  \A l \in 1 .. MaxLots :
    (lots >= l) ~> \/ l \notin EnCours
                   \/ /\ regle.arret = "total"
                      /\ perturbes[l] \cap {"entree", "sortie"} # {}
=============================================================================

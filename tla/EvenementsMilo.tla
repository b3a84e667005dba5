--------------------------- MODULE EvenementsMilo ---------------------------
(***************************************************************************)
(* The event queue of the Milo information system and its copies in the     *)
(* CEJ.                                                                     *)
(*                                                                          *)
(* Milo holds appointments and instances of sessions, and publishes an      *)
(* event at each change, which stays in its queue until it is acknowledged. *)
(* Every quarter of an hour a job (SUIVRE_FILE_EVENEMENTS_MILO) reads the   *)
(* queue, adds a job per event (TRAITER_EVENEMENT_MILO) and acknowledges.   *)
(* These jobs read the object as it is at Milo and bring up to date the row *)
(* of rendez_vous that copies it, and the reminders of the row or of the    *)
(* session.  What a job does not await goes on after it has ended.          *)
(*                                                                          *)
(* Dates of objects are days from now; the time that passes here is short   *)
(* compared to a day, so that no reminder comes due.                        *)
(***************************************************************************)
EXTENDS Integers, FiniteSets, FileBull

CONSTANTS
  Rdvs,              \* ids of appointments at Milo
  Sessions,          \* ids of instances of sessions at Milo
  Refusees,          \* sessions that were there, refused, at the beginning
  Connus,            \* objects whose young person has an account in the CEJ
  Dates,             \* days an object may be set to
  DatesRecuperables, \* those from a year ago to two years from now
  Motif,             \* session -> sessions whose id starts with its id
  Workers,           \* worker processes, one job at a time each
  Tentatives,        \* attempts of the job of an event
  MaxBatch,          \* milo.maxNombreEvenementsBatch
  MaxEvenements,     \* bound: number of events published
  MaxPannes,         \* bound: number of failures
  MaxSimultanes,     \* bound: polls that start while another one looks
  Absent             \* no such object, no row

VARIABLES
  milo,        \* objects at Milo
  supprimes,   \* objects Milo has deleted, whose id is not given again
  publies,     \* number of events published
  fileMilo,    \* events published and not acknowledged
  rdvs,        \* rows of rendez_vous that copy an appointment of Milo
  uuids,       \* number of ids given to rows
  jobs,        \* jobs in Redis: events to treat and reminders
  workers,     \* what each worker is doing
  fond,        \* calls to Redis that were not awaited
  pannes,      \* number of failures
  simultanes,  \* number of polls that started while another one looked
  traites,     \* history: events whose job succeeded
  perturbes    \* history: objects with overlapping or failed operations

vars == <<milo, supprimes, publies, fileMilo, rdvs, uuids, jobs, workers,
          fond, pannes, simultanes, traites, perturbes>>

-----------------------------------------------------------------------------
(* Objects, events, rows, jobs                                              *)

Objets == Rdvs \cup Sessions

ASSUME ConstantsAssumption ==
  /\ Rdvs \cap Sessions = {}
  /\ Refusees \subseteq Sessions
  /\ Connus \subseteq Objets
  /\ Dates # {} /\ Dates \subseteq Int
  /\ DatesRecuperables \subseteq Dates
  /\ Motif \in [Sessions -> SUBSET Sessions]
  /\ \A s \in Sessions : s \in Motif[s]
  /\ Tentatives \in Nat \ {0}
  /\ MaxBatch \in Nat \ {0}
  /\ MaxEvenements \in Nat
  /\ MaxPannes \in Nat
  /\ Sessions \cap Nat = {}
  /\ MaxSimultanes \in Nat

(* "retire": Annulé or Reporté for an appointment, a refusal for a session; *)
(* "prevu": the other statuses.                                             *)
Statuts == {"prevu", "retire"}
ObjetMilo == [statut : Statuts, date : Dates]

Actions == {"CREATE", "UPDATE", "DELETE", "NON_TRAITABLE"}
Evenement == [id : 1 .. MaxEvenements, action : Actions, objet : Objets]

Ligne == [id : Nat, objet : Rdvs, date : Dates]

ASSUME AbsentAssumption == Absent \notin Evenement \cup ObjetMilo \cup Ligne

(* Reminders are kept under the id of the row, or of the session.           *)
Cles == Nat \cup Sessions
JoursRappel == {1, 7}
Rappel == [id : {"rappel"} \X Cles \X JoursRappel, echeance : Int,
           etat : EtatsJob]
JobEvenement == [id : {"event-milo"} \X (1 .. MaxEvenements),
                 echeance : {0}, etat : EtatsJob,
                 evt : Evenement, essais : 0 .. Tentatives, reprises : 0 .. 1]

(* "repos"; the poll: "verif" looks for another one, "suivi" reads and adds *)
(* and acknowledges; an event: "pris", "lu" (Milo has answered), "copie"    *)
(* (the row has been read), "ecrit" (the job is about to be completed).     *)
Travail ==
  [etape : {"repos", "verif", "suivi", "pris", "lu", "copie", "ecrit"},
   reste : 0 .. MaxBatch,
   aPlanifier : SUBSET Evenement, aAcquitter : SUBSET Evenement,
   evt : Evenement \cup {Absent},
   lu : ObjetMilo \cup {Absent}, copie : Ligne \cup {Absent}]

Repos == [etape |-> "repos", reste |-> 0, aPlanifier |-> {},
          aAcquitter |-> {}, evt |-> Absent, lu |-> Absent, copie |-> Absent]

(* A call to the planner: the removal of the reminders, then the additions, *)
(* the earliest one first.                                                  *)
Demande == [retrait : BOOLEAN, jours : SUBSET JoursRappel,
            date : Dates \cup {0}]
Appel == [worker : Workers, cle : Cles, objet : Objets, demande : Demande]

JobDe(e) == CHOOSE j \in jobs : j.id = <<"event-milo", e.id>>

(* The event a worker is treating.                                          *)
EvtDe(w) == workers[w].evt
Occupe(w) == workers[w].evt # Absent

Init ==
  /\ milo = [o \in Objets |->
               IF o \in Refusees
                 THEN [statut |-> "retire", date |-> CHOOSE d \in Dates : TRUE]
                 ELSE Absent]
  /\ supprimes = {}
  /\ publies = 0
  /\ fileMilo = {}
  /\ rdvs = {}
  /\ uuids = 0
  /\ jobs = {}
  /\ workers = [w \in Workers |-> Repos]
  /\ fond = {}
  /\ pannes = 0
  /\ simultanes = 0
  /\ traites = {}
  /\ perturbes = {}

-----------------------------------------------------------------------------
(* Milo                                                                     *)

(* A new registration to a session makes a new instance, and an appointment *)
(* a new row: no id comes back.                                             *)
Changements(o) ==
  IF milo[o] = Absent
    THEN [action : {"CREATE"}, objet : [statut : {"prevu"}, date : Dates]]
    ELSE [action : {"UPDATE"}, objet : ObjetMilo]
           \cup {[action |-> "DELETE", objet |-> Absent],
                 [action |-> "NON_TRAITABLE", objet |-> milo[o]]}

(* Milo changes an object and publishes the event.                          *)
Publier(o) ==
  /\ publies < MaxEvenements
  /\ o \notin supprimes
  /\ \E c \in Changements(o) :
       /\ milo' = [milo EXCEPT ![o] = c.objet]
       /\ supprimes' = IF c.action = "DELETE" THEN supprimes \cup {o}
                                             ELSE supprimes
       /\ fileMilo' = fileMilo \cup {[id |-> publies + 1,
                                     action |-> c.action, objet |-> o]}
  /\ publies' = publies + 1
  /\ UNCHANGED <<rdvs, uuids, jobs, workers, fond, pannes, simultanes,
                 traites, perturbes>>

-----------------------------------------------------------------------------
(* The poll of the queue                                                    *)

EnSuivi(w) == workers[w].etape \in {"verif", "suivi"}

(* The cron: a worker takes an occurrence of the job.                       *)
DemarrerSuivi(w) ==
  LET autre == \E v \in Workers : workers[v].etape = "verif"
  IN /\ workers[w] = Repos
     /\ autre => simultanes < MaxSimultanes
     /\ simultanes' = IF autre THEN simultanes + 1 ELSE simultanes
     /\ workers' = [workers EXCEPT ![w].etape = "verif",
                                   ![w].reste = MaxBatch]
     /\ UNCHANGED <<milo, supprimes, publies, fileMilo, rdvs, uuids, jobs,
                    fond, pannes, traites, perturbes>>

(* existePlusQuUnJobActifDeCeType: no other one is active.                  *)
SuiviSeul(w) == \A v \in Workers \ {w} : ~EnSuivi(v)

VerifierSuivi(w) ==
  /\ workers[w].etape = "verif"
  /\ workers' = IF SuiviSeul(w) THEN [workers EXCEPT ![w].etape = "suivi"]
                                ELSE [workers EXCEPT ![w] = Repos]
  /\ UNCHANGED <<milo, supprimes, publies, fileMilo, rdvs, uuids, jobs, fond,
                 pannes, simultanes, traites, perturbes>>

(* Two events of a session that stand for one another                       *)
MemeCle(e, f) == e.objet \in Sessions /\ e.objet = f.objet
                 /\ e.action = f.action

(* trouverEvenementsAPlanifier: of the events of a session with the same    *)
(* action, the latest one is kept.                                          *)
EvenementsAPlanifier(evts) ==
  {e \in evts : \A f \in evts : MemeCle(e, f) => f.id <= e.id}

(* The events of the queue, the oldest ones, as many as are left to treat   *)
Lus(w) ==
  {e \in fileMilo :
     Cardinality({f \in fileMilo : f.id < e.id}) < workers[w].reste}

Interroger(w) ==
  /\ workers[w].etape = "suivi"
  /\ workers[w].aAcquitter = {}
  /\ workers' =
       IF Lus(w) = {}
         THEN [workers EXCEPT ![w] = Repos]
         ELSE [workers EXCEPT ![w].aPlanifier = EvenementsAPlanifier(Lus(w)),
                              ![w].aAcquitter = Lus(w),
                              ![w].reste = @ - Cardinality(Lus(w))]
  /\ UNCHANGED <<milo, supprimes, publies, fileMilo, rdvs, uuids, jobs, fond,
                 pannes, simultanes, traites, perturbes>>

NouveauJob(e) ==
  [id |-> <<"event-milo", e.id>>, echeance |-> 0, etat |-> "attente",
   evt |-> e, essais |-> 0, reprises |-> 0]

(* The appointments first; the sessions in the order of the first event the *)
(* one that is kept stands for.                                             *)
Debut(w, e) ==
  CHOOSE i \in {f.id : f \in {g \in workers[w].aAcquitter :
                              g = e \/ MemeCle(e, g)}} :
    \A g \in workers[w].aAcquitter : g = e \/ MemeCle(e, g) => i <= g.id

Avant(w, e, f) ==
  \/ e.objet \in Rdvs /\ f.objet \in Sessions
  \/ /\ e.objet \in Rdvs <=> f.objet \in Rdvs
     /\ Debut(w, e) < Debut(w, f)

(* ajouterJobEvenementMiloSiIlNaPasEteCreeAvant                             *)
Planifier(w) ==
  /\ workers[w].etape = "suivi"
  /\ \E e \in workers[w].aPlanifier :
       /\ \A f \in workers[w].aPlanifier \ {e} : Avant(w, e, f)
       /\ jobs' = AjouterJob(jobs, NouveauJob(e))
       /\ workers' = [workers EXCEPT ![w].aPlanifier = @ \ {e}]
  /\ UNCHANGED <<milo, supprimes, publies, fileMilo, rdvs, uuids, fond,
                 pannes, simultanes, traites, perturbes>>

(* Variant: the events are acknowledged as soon as they are read.           *)
PretAAcquitterDesLaLecture(w) == workers[w].aAcquitter # {}

(* The events are acknowledged once all those kept have a job.              *)
PretAAcquitter(w) ==
  workers[w].aPlanifier = {} /\ workers[w].aAcquitter # {}

(* The result of acquitterEvenement is not looked at: the next one follows. *)
Acquitter(w, echec) ==
  /\ workers[w].etape = "suivi"
  /\ PretAAcquitter(w)
  /\ echec => pannes < MaxPannes
  /\ pannes' = IF echec THEN pannes + 1 ELSE pannes
  /\ \E e \in workers[w].aAcquitter :
       /\ \A f \in workers[w].aAcquitter : e.id <= f.id
       /\ fileMilo' = IF echec THEN fileMilo ELSE fileMilo \ {e}
       /\ workers' =
            IF workers[w].aAcquitter = {e} /\ workers[w].reste = 0
              THEN [workers EXCEPT ![w] = Repos]
              ELSE [workers EXCEPT ![w].aAcquitter = @ \ {e}]
  /\ UNCHANGED <<milo, supprimes, publies, rdvs, uuids, jobs, fond,
                 simultanes, traites, perturbes>>

(* findAllEvenements fails: the exception ends the job.                     *)
EchecSuivi(w) ==
  /\ workers[w].etape = "suivi"
  /\ workers[w].aAcquitter = {}
  /\ pannes < MaxPannes
  /\ pannes' = pannes + 1
  /\ workers' = [workers EXCEPT ![w] = Repos]
  /\ UNCHANGED <<milo, supprimes, publies, fileMilo, rdvs, uuids, jobs, fond,
                 simultanes, traites, perturbes>>

-----------------------------------------------------------------------------
(* The treatment of an event                                                *)

Traitable(e) == e.action # "NON_TRAITABLE" /\ e.objet \in Connus

JobsEvenements == {j \in jobs : j.id[1] = "event-milo"}

Traite(o) ==
  \E w \in Workers : Occupe(w) /\ EvtDe(w).objet = o

(* Taken after a later event of the same object, one of them a creation     *)
EnDesordre(e) ==
  \E f \in traites \cup {EvtDe(w) : w \in {v \in Workers : Occupe(v)}} :
    /\ f.objet = e.objet
    /\ f.id > e.id
    /\ "CREATE" \in {e.action, f.action}

(* Any job that waits: several workers, and the delay of the retries, do    *)
(* not keep the order of the events.                                        *)
PrendreEvenement(w, i) ==
  \E j \in JobsEchus(jobs, 0) :
    /\ workers[w] = Repos
    /\ j.id = <<"event-milo", i>>
    /\ jobs' = ChangerEtat(jobs, j, "actif")
    /\ workers' = [workers EXCEPT ![w].etape = "pris", ![w].evt = j.evt]
    /\ perturbes' =
         IF \/ Traite(j.evt.objet)
            \/ EnDesordre(j.evt)
            \/ \E a \in fond : a.objet = j.evt.objet
           THEN perturbes \cup {j.evt.objet} ELSE perturbes
    /\ UNCHANGED <<milo, supprimes, publies, fileMilo, rdvs, uuids, fond,
                   pannes, simultanes, traites>>

(* findRendezVousByEvenement, findInstanceSession: the object as it is now, *)
(* Absent on a 404.  An event that cannot be treated has no effect.         *)
LireMilo(w) ==
  /\ workers[w].etape = "pris"
  /\ workers' =
       IF Traitable(EvtDe(w))
         THEN [workers EXCEPT ![w].etape = "lu",
                              ![w].lu = milo[EvtDe(w).objet]]
         ELSE [workers EXCEPT ![w].etape = "ecrit"]
  /\ UNCHANGED <<milo, supprimes, publies, fileMilo, rdvs, uuids, jobs, fond,
                 pannes, simultanes, traites, perturbes>>

(* Variant: the rows are looked for under the id of the CEJ.                *)
CopiesParIdCej(o) == {r \in rdvs : r.id = o}

CopiesDe(o) == {r \in rdvs : r.objet = o}

(* getByIdPartenaire: one of the rows that copy the appointment.            *)
LireCopie(w) ==
  LET copies == CopiesDe(EvtDe(w).objet)
  IN /\ workers[w].etape = "lu"
     /\ EvtDe(w).objet \in Rdvs
     /\ \E r \in IF copies = {} THEN {Absent} ELSE copies :
          workers' = [workers EXCEPT ![w].etape = "copie", ![w].copie = r]
     /\ UNCHANGED <<milo, supprimes, publies, fileMilo, rdvs, uuids, jobs,
                    fond, pannes, simultanes, traites, perturbes>>

(* isDateRecuperable, isStatutRDVRecuperable                                *)
Recuperable(m) ==
  m # Absent /\ m.statut # "retire" /\ m.date \in DatesRecuperables

(* planifierRappels...: seven days and one day before, when it is not past. *)
Ajouts(date) ==
  [retrait |-> FALSE, jours |-> {k \in JoursRappel : date > k}, date |-> date]

Retrait == [retrait |-> TRUE, jours |-> {}, date |-> 0]

AFaire(demande) == demande.retrait \/ demande.jours # {}

(* What a treatment leaves: the rows, and the calls it does not wait for.   *)
Effet(lignes, cle, demandes) ==
  [lignes |-> lignes, cle |-> cle,
   demandes |-> {d \in demandes : AFaire(d)}]

SansEffet == Effet(rdvs, 0, {})

Remplacer(r, m) ==
  {q \in rdvs : q.id # r.id} \cup {[r EXCEPT !.date = m.date]}

(* Variant: the reminders of a row are only added.                          *)
ModificationSansRetrait(r, m) ==
  Effet(Remplacer(r, m), r.id,
        IF m.date = r.date THEN {} ELSE {Ajouts(m.date)})

(* updateRendezVousCEJ and its save; the reminders are planned again when   *)
(* the date has changed.                                                    *)
Modification(r, m) ==
  Effet(Remplacer(r, m), r.id,
        IF m.date = r.date THEN {}
                           ELSE {[Ajouts(m.date) EXCEPT !.retrait = TRUE]})

Suppression(r) ==
  Effet({q \in rdvs : q.id # r.id}, r.id, {Retrait})

(* It does not look for a copy.                                             *)
HandleCreateRDV(o, m) ==
  IF Recuperable(m)
    THEN Effet(rdvs \cup {[id |-> uuids + 1, objet |-> o, date |-> m.date]},
               uuids + 1, {Ajouts(m.date)})
    ELSE SansEffet

HandleDeleteRDV(r) == IF r = Absent THEN SansEffet ELSE Suppression(r)

(* Variant: an update of a copied appointment never deletes the copy.       *)
HandleUpdateRDVSansSuppression(o, m, r) ==
  IF m = Absent THEN SansEffet
  ELSE IF r = Absent THEN HandleCreateRDV(o, m)
  ELSE IF Recuperable(m) THEN Modification(r, m)
  ELSE SansEffet

(* It creates a row when there is none, and deletes the one whose           *)
(* appointment is cancelled.                                                *)
HandleUpdateRDV(o, m, r) ==
  IF m = Absent THEN SansEffet
  ELSE IF r = Absent THEN HandleCreateRDV(o, m)
  ELSE IF Recuperable(m) THEN Modification(r, m)
  ELSE HandleDeleteRDV(r)

EffetRdv(e, m, r) ==
  IF e.action = "CREATE" THEN HandleCreateRDV(e.objet, m)
  ELSE IF e.action = "UPDATE" THEN HandleUpdateRDV(e.objet, m, r)
  ELSE HandleDeleteRDV(r)

(* handleCreate-, handleUpdate- and handleDeleteInstanceSession: an update  *)
(* starts the removal of the reminders, then starts planning them again.    *)
EffetSession(e, m) ==
  IF e.action = "DELETE" THEN Effet(rdvs, e.objet, {Retrait})
  ELSE IF m = Absent THEN SansEffet
  ELSE Effet(rdvs, e.objet,
             (IF e.action = "UPDATE" THEN {Retrait} ELSE {})
               \cup (IF Recuperable(m) THEN {Ajouts(m.date)} ELSE {}))

Traiter(w) ==
  LET e == EvtDe(w)
      effet == IF e.objet \in Rdvs
                 THEN EffetRdv(e, workers[w].lu, workers[w].copie)
                 ELSE EffetSession(e, workers[w].lu)
  IN /\ \/ workers[w].etape = "copie"
        \/ workers[w].etape = "lu" /\ e.objet \in Sessions
     /\ rdvs' = effet.lignes
     /\ uuids' = IF effet.cle = uuids + 1 THEN uuids + 1 ELSE uuids
     /\ fond' = fond \cup {[worker |-> w, cle |-> effet.cle,
                            objet |-> e.objet, demande |-> d] :
                             d \in effet.demandes}
     /\ workers' = [workers EXCEPT ![w].etape = "ecrit"]
     /\ UNCHANGED <<milo, supprimes, publies, fileMilo, jobs, pannes,
                    simultanes, traites, perturbes>>

Terminer(w) ==
  /\ workers[w].etape = "ecrit"
  /\ jobs' = ChangerEtat(jobs, JobDe(EvtDe(w)), "fini")
  /\ traites' = traites \cup {EvtDe(w)}
  /\ workers' = [workers EXCEPT ![w] = Repos]
  /\ UNCHANGED <<milo, supprimes, publies, fileMilo, rdvs, uuids, fond,
                 pannes, simultanes, perturbes>>

(* Variant: a job that fails is not tried again.                            *)
EncoreUneFoisJamais(j) == FALSE

(* Bull tries a job that fails again, up to its number of attempts.         *)
EncoreUneFois(j) == j.essais + 1 < Tentatives

(* Milo does not answer: the exception fails the job.                       *)
EchecEvenement(w) ==
  LET j == JobDe(EvtDe(w))
  IN /\ workers[w].etape = "pris"
     /\ Traitable(j.evt)
     /\ pannes < MaxPannes
     /\ pannes' = pannes + 1
     /\ jobs' = (jobs \ {j}) \cup
          {[j EXCEPT !.essais = @ + 1,
                     !.etat = IF EncoreUneFois(j) THEN "attente" ELSE "fini"]}
     /\ perturbes' = IF EncoreUneFois(j) THEN perturbes
                                         ELSE perturbes \cup {j.evt.objet}
     /\ workers' = [workers EXCEPT ![w] = Repos]
     /\ UNCHANGED <<milo, supprimes, publies, fileMilo, rdvs, uuids, fond,
                    simultanes, traites>>

-----------------------------------------------------------------------------
(* Calls that are not awaited, stops, cleaning                              *)

Concernes(a) == IF a.cle \in Sessions THEN Motif[a.cle] ELSE {a.cle}

RappelsDe(c) == {j \in jobs : j.id[1] = "rappel" /\ j.id[2] = c}

(* A removal scans the keys while the jobs of another call are added, and   *)
(* the pattern of a session also matches those whose id starts with its id. *)
Suite(a, demande) ==
  (fond \ {a}) \cup
    IF AFaire(demande) THEN {[a EXCEPT !.demande = demande]} ELSE {}

Retirer(a) ==
  /\ a.demande.retrait
  /\ jobs' = SupprimerJobs(jobs, {"rappel"} \X Concernes(a) \X JoursRappel)
  /\ fond' = Suite(a, [a.demande EXCEPT !.retrait = FALSE])
  /\ perturbes' = perturbes \cup
       {c \in Concernes(a) \cap Sessions : c # a.cle /\ RappelsDe(c) # {}}
  /\ UNCHANGED <<milo, supprimes, publies, fileMilo, rdvs, uuids, workers,
                 pannes, simultanes, traites>>

Ajouter(a) ==
  /\ ~a.demande.retrait
  /\ \E k \in a.demande.jours :
       /\ \A n \in a.demande.jours : n <= k
       /\ jobs' = AjouterJob(jobs, [id |-> <<"rappel", a.cle, k>>,
                                   echeance |-> a.demande.date - k,
                                   etat |-> "attente"])
       /\ fond' = Suite(a, [a.demande EXCEPT !.jours = @ \ {k}])
  /\ perturbes' = IF \E b \in fond \ {a} : b.cle = a.cle /\ b.demande.retrait
                    THEN perturbes \cup {a.objet} ELSE perturbes
  /\ UNCHANGED <<milo, supprimes, publies, fileMilo, rdvs, uuids, workers,
                 pannes, simultanes, traites>>

ExecuterDemande(a) == Retirer(a) \/ Ajouter(a)

(* Redis fails: the error is logged and the rest of the call is given up.   *)
EchecDemande(a) ==
  /\ pannes < MaxPannes
  /\ pannes' = pannes + 1
  /\ fond' = fond \ {a}
  /\ perturbes' = perturbes \cup {a.objet}
  /\ UNCHANGED <<milo, supprimes, publies, fileMilo, rdvs, uuids, jobs,
                 workers, simultanes, traites>>

(* The process stops, with the calls it had not finished.  Bull gives the   *)
(* job it had taken to another worker, once; the cron comes back.           *)
ArretWorker(w) ==
  LET perdus == {a \in fond : a.worker = w}
      pris == Occupe(w)
      j == JobDe(EvtDe(w))
  IN /\ workers[w] # Repos \/ perdus # {}
     /\ pannes < MaxPannes
     /\ pannes' = pannes + 1
     /\ fond' = fond \ perdus
     /\ workers' = [workers EXCEPT ![w] = Repos]
     /\ jobs' =
          IF ~pris THEN jobs
          ELSE (jobs \ {j}) \cup
                 {IF j.reprises = 0
                    THEN [j EXCEPT !.etat = "attente", !.reprises = 1]
                    ELSE [j EXCEPT !.etat = "fini"]}
     /\ perturbes' =
          perturbes \cup {a.objet : a \in perdus}
            \cup IF pris /\ (workers[w].etape = "ecrit" \/ j.reprises = 1)
                   THEN {j.evt.objet} ELSE {}
     /\ UNCHANGED <<milo, supprimes, publies, fileMilo, rdvs, uuids,
                    simultanes, traites>>

(* NETTOYER_LES_JOBS: completed jobs of more than seven days are removed.   *)
(* No poll lasts that long; an event may stay unacknowledged that long.     *)
NettoyerJobs ==
  /\ \A w \in Workers : ~EnSuivi(w)
  /\ \E vieux \in SUBSET {j \in JobsEvenements : j.etat = "fini"
                                              /\ j.evt \in traites} :
       /\ vieux # {}
       /\ jobs' = jobs \ vieux
       /\ perturbes' = perturbes \cup
            {j.evt.objet : j \in {k \in vieux : k.evt \in fileMilo}}
  /\ UNCHANGED <<milo, supprimes, publies, fileMilo, rdvs, uuids, workers,
                 fond, pannes, simultanes, traites>>

-----------------------------------------------------------------------------
(* What a worker does on its own, without failure                           *)
Avancer(w) ==
  \/ VerifierSuivi(w)
  \/ Interroger(w)
  \/ Planifier(w)
  \/ Acquitter(w, FALSE)
  \/ LireMilo(w)
  \/ LireCopie(w)
  \/ Traiter(w)
  \/ Terminer(w)

Next ==
  \/ \E o \in Objets : Publier(o)
  \/ \E w \in Workers :
       \/ DemarrerSuivi(w)
       \/ Avancer(w)
       \/ Acquitter(w, TRUE)
       \/ EchecSuivi(w)
       \/ \E i \in 1 .. MaxEvenements : PrendreEvenement(w, i)
       \/ EchecEvenement(w)
       \/ ArretWorker(w)
  \/ \E a \in fond : ExecuterDemande(a) \/ EchecDemande(a)
  \/ NettoyerJobs

(* A worker that holds a job goes on with it, and requests sent to Redis    *)
(* are answered; the cron comes back, and Bull serves the job of an event   *)
(* that waits, even if the workers are busy now and then.                   *)
Equite ==
  /\ \A w \in Workers : WF_vars(Avancer(w))
  /\ WF_vars(\E a \in fond : ExecuterDemande(a))
  /\ SF_vars(\E w \in Workers : DemarrerSuivi(w))
  /\ \A i \in 1 .. MaxEvenements :
       SF_vars(\E w \in Workers : PrendreEvenement(w, i))

Spec == Init /\ [][Next]_vars /\ Equite

-----------------------------------------------------------------------------
(* Properties                                                               *)

(* Type correctness of the rows, the jobs and the work in hand.             *)
TypeOK ==
  /\ milo \in [Objets -> ObjetMilo \cup {Absent}]
  /\ supprimes \subseteq Objets
  /\ publies \in 0 .. MaxEvenements
  /\ fileMilo \subseteq Evenement
  /\ rdvs \subseteq Ligne
  /\ \A r \in rdvs : r.id \in 1 .. uuids
  /\ \A j \in jobs : IF j.id[1] = "rappel" THEN j \in Rappel
                                          ELSE j \in JobEvenement
  /\ \A j, k \in jobs : j.id = k.id => j = k
  /\ workers \in [Workers -> Travail]
  /\ \A w \in Workers : Occupe(w) =>
       \E j \in JobsEvenements : j.evt = EvtDe(w) /\ j.etat = "actif"
  /\ \A a \in fond : a \in Appel /\ AFaire(a.demande)
  /\ pannes \in 0 .. MaxPannes
  /\ traites \subseteq Evenement
  /\ perturbes \subseteq Objets

(* An appointment of Milo has one row, although an event may be delivered   *)
(* again because its acknowledgement failed (acquitterEvenement, whose      *)
(* result is ignored): the id of its job refuses it.  Not so when a         *)
(* creation comes after an update, is treated twice, or at the same time.   *)
UneCopieParRdv ==
  \A o \in Rdvs \ perturbes :
    Cardinality({r \in rdvs : r.objet = o}) <= 1

(* Nothing about this object is left to do.                                 *)
Calme(o) ==
  /\ \A e \in fileMilo : e.objet # o
  /\ \A j \in JobsEvenements : j.evt.objet = o => j.etat = "fini"
  /\ \A a \in fond : a.objet # o

Attendu(o) == o \in Connus /\ Recuperable(milo[o])

(* Once the events of an appointment are treated, its row is there, with    *)
(* its date, if and only if the appointment stands at Milo.                 *)
CopieFidele ==
  \A o \in Rdvs \ perturbes : Calme(o) =>
    {r.date : r \in {q \in rdvs : q.objet = o}}
      = IF Attendu(o) THEN {milo[o].date} ELSE {}

ClesDe(o) == IF o \in Rdvs THEN {r.id : r \in {q \in rdvs : q.objet = o}}
                           ELSE {o}

Planifies(o) ==
  {<<j.id[3], j.echeance>> : j \in UNION {RappelsDe(c) : c \in ClesDe(o)}}

(* And the reminders of the row, or of the session, are those of the date   *)
(* the object has at Milo: none is missing and none is late.  Not so when   *)
(* they are removed by a call that was not awaited before they were planned *)
(* again, or by the removal of a session whose id starts alike.             *)
RappelsFideles ==
  \A o \in Objets \ perturbes : Calme(o) =>
    Planifies(o)
      = IF Attendu(o) THEN {<<k, milo[o].date - k>> :
                            k \in {n \in JoursRappel : milo[o].date > n}}
                      ELSE {}

(* An event leaves the queue of Milo once it has a job, or once another     *)
(* event of the session, with the same action and a later date, has one: a  *)
(* worker that stops in the middle of a poll loses none.                    *)
AcquitteApresPlanification ==
  [][\A e \in fileMilo \ fileMilo' :
       \E j \in JobsEvenements :
         j.evt = e \/ (MemeCle(e, j.evt) /\ j.evt.id > e.id)]_vars

Acquitte(i) == \A e \in fileMilo : e.id # i

(* Every event published is acknowledged, and its job succeeds, unless it   *)
(* fails at each of its attempts or a later event of its session stands     *)
(* for it: two polls that look at the same time and both give up, a worker  *)
(* that stops, Milo that does not answer only delay it.                     *)
EvenementTraite ==
  \A i \in 1 .. MaxEvenements :
    (publies >= i) ~>
      /\ Acquitte(i)
      /\ \/ \E e \in traites : e.id = i
         \/ \E j \in JobsEvenements :
              j.evt.id = i /\ (j.essais = Tentatives \/ j.reprises = 1)
         \/ \E e \in traites : e.id > i /\ e.objet \in Sessions
=============================================================================

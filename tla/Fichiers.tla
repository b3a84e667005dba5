------------------------------ MODULE Fichiers ------------------------------
(***************************************************************************)
(* Files attached to the messages of the chat: uploaded to S3, recorded in *)
(* SQL, analysed by an antivirus when a young person sent them, deleted by  *)
(* their author or after four months.                                       *)
(*                                                                          *)
(* Four stores that no transaction holds together say what a file is: the   *)
(* object in S3, the row, the status shown in the message of the chat and   *)
(* the job of Redis that comes back for the verdict.  The web process       *)
(* submits the file and plans that job in the background: it awaits neither *)
(* the status it shows, nor the job, nor the removal of the file when the   *)
(* submission fails, and all of these are lost when the process stops.      *)
(***************************************************************************)
EXTENDS Naturals, FiniteSets

CONSTANTS
  Fichiers,     \* identities of files
  PiecesJeunes, \* files sent by a young person; the others are of counsellors
  MaxEssais,    \* MAX_TRY, times a file is submitted to the antivirus
  MaxTeleverses, \* bound: files sent
  MaxJobs,      \* bound: jobs of Redis at the same time
  MaxPannes,    \* bound: number of failures
  Absente       \* no row

ASSUME ConstantsAssumption ==
  /\ PiecesJeunes \subseteq Fichiers
  /\ MaxEssais \in Nat \ {0}
  /\ MaxJobs \in Nat /\ MaxJobs > MaxPannes + 1  \* each reprise may leave one job more
  /\ {MaxTeleverses, MaxPannes} \subseteq Nat

VARIABLES
  televerses, \* files that were asked to be stored
  objets,     \* objects of S3
  lignes,     \* rows of fichier
  anciens,    \* files that are four months old
  messages,   \* status of the file in the chat
  analyses,   \* what the antivirus knows of the file
  taches,     \* what the web process has in hand
  jobs,       \* RECUPERER_ANALYSE_ANTIVIRUS in Redis
  menage,     \* NETTOYER_LES_PIECES_JOINTES
  pannes,     \* number of failures
  perturbes   \* history: what failed or overtook, for each file

vars == <<televerses, objets, lignes, anciens, messages, analyses, taches, jobs,
          menage, pannes, perturbes>>

-----------------------------------------------------------------------------
(* Types                                                                    *)

Ligne == [supprime : BOOLEAN, idAnalyse : BOOLEAN]

ASSUME AbsenteAssumption == Absente \notin Ligne

Verdicts == {"FICHIER_SAIN", "FICHIER_MALVEILLANT"}
Definitifs == Verdicts \cup {"ERREUR_ANALYSE", "FICHIER_EXPIRE"}
Statuts == Definitifs \cup {"aucun", "ANALYSE_EN_COURS"}

Genres == {"creation", "destruction", "soumission", "maj", "planification",
           "envoi", "retraitObjet", "retraitLigne"}

(* essais: submissions made.  statut: the one to show.                      *)
Tache == [genre : Genres, f : Fichiers, essais : 0 .. MaxEssais,
          statut : Statuts]

EtapesJob == {"attente", "lu", "replanifier", "verdict", "retraitObjet",
              "retraitLigne", "fait"}

(* reprises: times the job was given back because its worker stopped.       *)
Job == [id : 1 .. MaxJobs, f : Fichiers, etape : EtapesJob, reprises : 0 .. 1]

Menage == [actif : BOOLEAN, reste : SUBSET Fichiers,
           etape : {"objet", "ligne", "message"}, choix : SUBSET Fichiers]
MenageFini == [actif |-> FALSE, reste |-> {}, etape |-> "objet", choix |-> {}]

Init ==
  /\ televerses = {}
  /\ objets = {}
  /\ lignes = [f \in Fichiers |-> Absente]
  /\ anciens = {}
  /\ messages = [f \in Fichiers |-> "aucun"]
  /\ analyses = [f \in Fichiers |-> "aucune"]
  /\ taches = {}
  /\ jobs = {}
  /\ menage = MenageFini
  /\ pannes = 0
  /\ perturbes = [f \in Fichiers |-> {}]

Existe(f) == lignes[f] # Absente

(* TelechargerFichierQueryHandler gives a link.                             *)
Telechargeable(f) == Existe(f) /\ ~lignes[f].supprime

Pour(genre, f) == [genre |-> genre, f |-> f, essais |-> 0, statut |-> "aucun"]
Envoi(f, statut) == [Pour("envoi", f) EXCEPT !.statut = statut]

Remplacer(t, suites) == taches' = (taches \ {t}) \cup suites

Perturber(fs, quoi) ==
  perturbes' = [f \in Fichiers |-> IF f \in fs THEN perturbes[f] \cup quoi
                                               ELSE perturbes[f]]

Panne == pannes < MaxPannes /\ pannes' = pannes + 1

-----------------------------------------------------------------------------
(* Effects                                                                  *)

SupprimerObjet(f) == objets' = objets \ {f}

(* FichierSqlModel.update: no row, no effect.                               *)
MajLigne(f, champ) ==
  lignes' = IF Existe(f)
              THEN [lignes EXCEPT ![f] =
                      IF champ = "supprime" THEN [@ EXCEPT !.supprime = TRUE]
                                            ELSE [@ EXCEPT !.idAnalyse = TRUE]]
              ELSE lignes

(* envoyerStatutAnalysePJ: the chat looked for is that of the author, and a *)
(* counsellor has none.                                                     *)
Afficher(f, statut) ==
  messages' = IF f \in PiecesJeunes THEN [messages EXCEPT ![f] = statut]
                                    ELSE messages

(* Variant: the row is marked before the object is removed.                 *)
PremierRetraitLigne == "ligne"

(* softDelete removes the object first.                                     *)
PremierRetrait == "objet"
SecondRetrait == IF PremierRetrait = "objet" THEN "ligne" ELSE "objet"

Retirer(f, quoi) ==
  IF quoi = "objet" THEN SupprimerObjet(f) /\ UNCHANGED lignes
                    ELSE MajLigne(f, "supprime") /\ UNCHANGED objets

-----------------------------------------------------------------------------
(* Commands                                                                 *)

(* TeleverserFichier: the object, then the row.                             *)
Televerser(f) ==
  /\ f \notin televerses
  /\ Cardinality(televerses) < MaxTeleverses
  /\ televerses' = televerses \cup {f}
  /\ objets' = objets \cup {f}
  /\ taches' = taches \cup {Pour("creation", f)}
  /\ UNCHANGED <<lignes, anciens, messages, analyses, jobs, menage, pannes,
                 perturbes>>

EnregistrerFichier(t) ==
  /\ t.genre = "creation"
  /\ lignes' = [lignes EXCEPT ![t.f] = [supprime |-> FALSE, idAnalyse |-> FALSE]]
  /\ Remplacer(t, IF t.f \in PiecesJeunes THEN {Pour("soumission", t.f)} ELSE {})
  /\ UNCHANGED <<televerses, objets, anciens, messages, analyses, jobs, menage,
                 pannes, perturbes>>

(* SupprimerFichier: the object, then the row.                              *)
DemanderSuppression(f) ==
  /\ Existe(f)
  /\ Pour("destruction", f) \notin taches
  /\ SupprimerObjet(f)
  /\ taches' = taches \cup {Pour("destruction", f)}
  /\ UNCHANGED <<televerses, lignes, anciens, messages, analyses, jobs, menage,
                 pannes, perturbes>>

Detruire(t) ==
  /\ t.genre = "destruction"
  /\ lignes' = [lignes EXCEPT ![t.f] = Absente]
  /\ Remplacer(t, {})
  /\ UNCHANGED <<televerses, objets, anciens, messages, analyses, jobs, menage,
                 pannes, perturbes>>

-----------------------------------------------------------------------------
(* declencherAnalyseAsynchrone, not awaited                                 *)

(* Removal and status are asked for and not awaited.                        *)
Abandon(f) == {Pour("retraitObjet", f), Envoi(f, "ERREUR_ANALYSE")}

(* The antivirus accepts, or refuses; or the call fails and is caught.      *)
Soumettre(t) ==
  /\ t.genre = "soumission"
  /\ \/ /\ analyses' = [analyses EXCEPT ![t.f] = "en_cours"]
        /\ Remplacer(t, {Pour("maj", t.f)})
     \/ /\ Remplacer(t, IF t.essais + 1 < MaxEssais
                          THEN {[t EXCEPT !.essais = @ + 1]} ELSE Abandon(t.f))
        /\ UNCHANGED analyses
     \/ /\ Remplacer(t, Abandon(t.f))
        /\ UNCHANGED analyses
  /\ UNCHANGED <<televerses, objets, lignes, anciens, messages, jobs, menage,
                 pannes, perturbes>>

(* The id of the analysis is saved, or the update fails and is caught.      *)
MajAnalyse(t) ==
  /\ t.genre = "maj"
  /\ \/ /\ MajLigne(t.f, "idAnalyse")
        /\ Remplacer(t, {Envoi(t.f, "ANALYSE_EN_COURS"), Pour("planification", t.f)})
     \/ /\ Remplacer(t, Abandon(t.f))
        /\ UNCHANGED lignes
  /\ UNCHANGED <<televerses, objets, anciens, messages, analyses, jobs, menage,
                 pannes, perturbes>>

Libres == (1 .. MaxJobs) \ {j.id : j \in jobs}
NouveauJob(f) ==
  [id |-> CHOOSE i \in Libres : TRUE, f |-> f,
   etape |-> "attente", reprises |-> 0]

Planifier(t) ==
  /\ t.genre = "planification"
  /\ Libres # {}
  /\ jobs' = jobs \cup {NouveauJob(t.f)}
  /\ Remplacer(t, {})
  /\ UNCHANGED <<televerses, objets, lignes, anciens, messages, analyses, menage,
                 pannes, perturbes>>

(* The status in hand may reach the chat after a later one.                 *)
EnvoyerStatut(t) ==
  /\ t.genre = "envoi"
  /\ Afficher(t.f, t.statut)
  /\ Remplacer(t, {})
  /\ Perturber({f \in {t.f} : messages[f] \in Definitifs}, {"message"})
  /\ UNCHANGED <<televerses, objets, lignes, anciens, analyses, jobs, menage, pannes>>

RetirerFichier(t) ==
  /\ t.genre \in {"retraitObjet", "retraitLigne"}
  /\ IF t.genre = "retraitObjet"
       THEN Retirer(t.f, PremierRetrait) /\ Remplacer(t, {Pour("retraitLigne", t.f)})
       ELSE Retirer(t.f, SecondRetrait) /\ Remplacer(t, {})
  /\ UNCHANGED <<televerses, anciens, messages, analyses, jobs, menage, pannes,
                 perturbes>>

(* What a failure may lose: the storage and the row may differ, the status  *)
(* shown may be wrong, the verdict may never come.                          *)
Pertes == {"stockage", "message", "verdict"}

(* What is lost with a task                                                 *)
Perte(genre) ==
  CASE genre \in {"creation", "destruction"} -> {"stockage"}
    [] genre \in {"soumission", "maj", "planification"} -> {"verdict"}
    [] genre = "envoi" -> {"message"}
    [] OTHER -> {"stockage", "message"}

Rejetables == {"creation", "destruction", "planification", "envoi",
               "retraitObjet", "retraitLigne"}

(* A call fails and nothing catches it.                                     *)
EchecTache(t) ==
  /\ t.genre \in Rejetables
  /\ Panne
  /\ Remplacer(t, {})
  /\ Perturber({t.f}, Perte(t.genre))
  /\ UNCHANGED <<televerses, objets, lignes, anciens, messages, analyses, jobs,
                 menage>>

(* The web process stops.                                                   *)
ArretWeb ==
  /\ taches # {}
  /\ Panne
  /\ taches' = {}
  /\ perturbes' = [f \in Fichiers |->
       perturbes[f] \cup UNION {Perte(t.genre) : t \in {u \in taches : u.f = f}}]
  /\ UNCHANGED <<televerses, objets, lignes, anciens, messages, analyses, jobs,
                 menage>>

-----------------------------------------------------------------------------
(* The job RECUPERER_ANALYSE_ANTIVIRUS                                      *)

Avancer(j, etape) == jobs' = (jobs \ {j}) \cup {[j EXCEPT !.etape = etape]}
Terminer(j) == jobs' = jobs \ {j}

(* The row is read; without it, or without the id of the analysis, the job  *)
(* fails.  A file that was removed meanwhile is not looked at differently.  *)
LireFichier(j) ==
  /\ j.etape = "attente"
  /\ IF Existe(j.f) /\ lignes[j.f].idAnalyse THEN Avancer(j, "lu") ELSE Terminer(j)
  /\ UNCHANGED <<televerses, objets, lignes, anciens, messages, analyses, taches,
                 menage, pannes, perturbes>>

(* Variant: an analysis that is not over ends the job.                      *)
SuiteDuResultatSansReprise(analyse) ==
  IF analyse \in Verdicts THEN "verdict" ELSE "fait"

(* Variant: a file found malicious is asked for again.                      *)
SuiteDuResultatMalveillant(analyse) ==
  IF analyse = "FICHIER_SAIN" THEN "verdict" ELSE "replanifier"

(* What the job does next, from the answer of the antivirus                 *)
SuiteDuResultat(analyse) ==
  IF analyse \in Verdicts THEN "verdict" ELSE "replanifier"

Interroger(j) ==
  /\ j.etape = "lu"
  /\ Avancer(j, SuiteDuResultat(analyses[j.f]))
  /\ UNCHANGED <<televerses, objets, lignes, anciens, messages, analyses, taches,
                 menage, pannes, perturbes>>

(* replanifierAnalyse adds a new job for the same file.                     *)
ReplanifierAnalyse(j) ==
  /\ j.etape = "replanifier"
  /\ Libres # {}
  /\ jobs' = (jobs \ {j}) \cup {NouveauJob(j.f), [j EXCEPT !.etape = "fait"]}
  /\ UNCHANGED <<televerses, objets, lignes, anciens, messages, analyses, taches,
                 menage, pannes, perturbes>>

(* Variant: a malicious file is left where it is.                           *)
SuiteDuVerdictSansRetrait(verdict) == "fait"

(* enregistrerFichierSain, enregistrerFichierMalveillant                    *)
SuiteDuVerdict(verdict) ==
  IF verdict = "FICHIER_MALVEILLANT" THEN "retraitObjet" ELSE "fait"

(* The verdict replaces what the message shows, an expiry included.         *)
AnnoncerVerdict(j) ==
  /\ j.etape = "verdict"
  /\ Afficher(j.f, analyses[j.f])
  /\ Avancer(j, SuiteDuVerdict(analyses[j.f]))
  /\ Perturber({f \in {j.f} : ~Telechargeable(f)}, {"message"})
  /\ UNCHANGED <<televerses, objets, lignes, anciens, analyses, taches, menage, pannes>>

RetirerMalveillant(j) ==
  /\ j.etape \in {"retraitObjet", "retraitLigne"}
  /\ IF j.etape = "retraitObjet"
       THEN Retirer(j.f, PremierRetrait) /\ Avancer(j, "retraitLigne")
       ELSE Retirer(j.f, SecondRetrait) /\ Avancer(j, "fait")
  /\ UNCHANGED <<televerses, anciens, messages, analyses, taches, menage, pannes,
                 perturbes>>

FinirJob(j) ==
  /\ j.etape = "fait"
  /\ Terminer(j)
  /\ UNCHANGED <<televerses, objets, lignes, anciens, messages, analyses, taches,
                 menage, pannes, perturbes>>

(* The antivirus, the chat, S3 or the database answers with an error: the   *)
(* job ends, as a success or not, and has only one attempt.                 *)
EchecJob(j) ==
  /\ j.etape \notin {"attente", "fait"}
  /\ Panne
  /\ Terminer(j)
  /\ Perturber({j.f}, IF \/ j.etape \in {"retraitObjet", "retraitLigne"}
                          \/ j.reprises = 1
                        THEN {"stockage", "message", "verdict"} ELSE {"verdict"})
  /\ UNCHANGED <<televerses, objets, lignes, anciens, messages, analyses, taches,
                 menage>>

(* Bull gives back once a job whose worker stopped.                         *)
ArretWorker(j) ==
  /\ j.etape # "attente"
  /\ Panne
  /\ IF j.reprises = 0
       THEN /\ jobs' = (jobs \ {j}) \cup
                         {[j EXCEPT !.etape = "attente", !.reprises = 1]}
            /\ UNCHANGED perturbes
       ELSE /\ Terminer(j)
            /\ Perturber({j.f}, {"stockage", "message", "verdict"})
  /\ UNCHANGED <<televerses, objets, lignes, anciens, messages, analyses, taches,
                 menage>>

-----------------------------------------------------------------------------
(* The job NETTOYER_LES_PIECES_JOINTES                                      *)

(* getFichiersBefore                                                        *)
FichiersBefore == {f \in anciens : Telechargeable(f)}

LancerMenage ==
  /\ ~menage.actif
  /\ FichiersBefore # {}
  /\ menage' = [MenageFini EXCEPT !.actif = TRUE, !.reste = FichiersBefore]
  /\ UNCHANGED <<televerses, objets, lignes, anciens, messages, analyses, taches,
                 jobs, pannes, perturbes>>

(* The files of the list are treated one after the other.                   *)
EnCours == IF menage.choix # {} THEN menage.choix ELSE menage.reste

Expirer(f) ==
  /\ menage.actif
  /\ f \in EnCours
  /\ \/ /\ menage.etape = "objet"
        /\ Retirer(f, PremierRetrait)
        /\ menage' = [menage EXCEPT !.etape = "ligne", !.choix = {f}]
        /\ UNCHANGED <<messages, perturbes>>
     \/ /\ menage.etape = "ligne"
        /\ Retirer(f, SecondRetrait)
        /\ menage' = [menage EXCEPT !.etape = "message"]
        /\ UNCHANGED <<messages, perturbes>>
     \/ /\ menage.etape = "message"
        /\ Afficher(f, "FICHIER_EXPIRE")
        /\ menage' = [menage EXCEPT !.etape = "objet", !.choix = {}, !.reste = @ \ {f}]
        /\ UNCHANGED <<objets, lignes, perturbes>>
  /\ UNCHANGED <<televerses, anciens, analyses, taches, jobs, pannes>>

(* An error is counted, and the next file is treated.                       *)
EchecExpiration(f) ==
  /\ menage.actif
  /\ f \in EnCours
  /\ Panne
  /\ menage' = [menage EXCEPT !.etape = "objet", !.choix = {}, !.reste = @ \ {f}]
  /\ Perturber({g \in {f} : menage.etape = "message"}, {"message"})
  /\ UNCHANGED <<televerses, objets, lignes, anciens, messages, analyses, taches,
                 jobs>>

FinirMenage ==
  /\ menage.actif
  /\ menage.reste = {}
  /\ menage' = MenageFini
  /\ UNCHANGED <<televerses, objets, lignes, anciens, messages, analyses, taches,
                 jobs, pannes, perturbes>>

(* The worker stops: the job starts again from a new list.                  *)
ArretMenage ==
  /\ menage.actif
  /\ Panne
  /\ menage' = MenageFini
  /\ Perturber({f \in menage.choix : menage.etape = "message"}, {"message"})
  /\ UNCHANGED <<televerses, objets, lignes, anciens, messages, analyses, taches,
                 jobs>>

-----------------------------------------------------------------------------
(* Outside                                                                  *)

Vieillir(f) ==
  /\ Existe(f)
  /\ f \notin anciens
  /\ anciens' = anciens \cup {f}
  /\ UNCHANGED <<televerses, objets, lignes, messages, analyses, taches, jobs,
                 menage, pannes, perturbes>>

(* The antivirus ends an analysis.                                          *)
Analyser(f) ==
  /\ analyses[f] = "en_cours"
  /\ \E v \in Verdicts : analyses' = [analyses EXCEPT ![f] = v]
  /\ UNCHANGED <<televerses, objets, lignes, anciens, messages, taches, jobs,
                 menage, pannes, perturbes>>

-----------------------------------------------------------------------------
ExecuterTache(t) ==
  \/ EnregistrerFichier(t)
  \/ Detruire(t)
  \/ Soumettre(t)
  \/ MajAnalyse(t)
  \/ Planifier(t)
  \/ EnvoyerStatut(t)
  \/ RetirerFichier(t)

ExecuterJob(j) ==
  \/ LireFichier(j)
  \/ Interroger(j)
  \/ ReplanifierAnalyse(j)
  \/ AnnoncerVerdict(j)
  \/ RetirerMalveillant(j)
  \/ FinirJob(j)

Next ==
  \/ \E f \in Fichiers :
       \/ Televerser(f)
       \/ DemanderSuppression(f)
       \/ Expirer(f)
       \/ EchecExpiration(f)
       \/ Vieillir(f)
       \/ Analyser(f)
  \/ \E t \in taches : ExecuterTache(t) \/ EchecTache(t)
  \/ \E j \in jobs : ExecuterJob(j) \/ EchecJob(j) \/ ArretWorker(j)
  \/ ArretWeb
  \/ LancerMenage
  \/ FinirMenage
  \/ ArretMenage

(* The event loop goes on with what is in hand, the workers serve every job *)
(* that is due, and the antivirus ends its analyses.                        *)
Equite ==
  /\ \A f \in Fichiers :
       /\ WF_vars(\E t \in taches : t.f = f /\ ExecuterTache(t))
       /\ WF_vars(Analyser(f))
  /\ \A i \in 1 .. MaxJobs : WF_vars(\E j \in jobs : j.id = i /\ ExecuterJob(j))

Spec == Init /\ [][Next]_vars /\ Equite

-----------------------------------------------------------------------------
(* Properties                                                               *)

(* Type correctness of the stores, and of what the processes have in hand;  *)
(* the status of a file that a counsellor sent is never shown.              *)
TypeOK ==
  /\ objets \subseteq televerses /\ televerses \subseteq Fichiers
  /\ anciens \subseteq televerses
  /\ lignes \in [Fichiers -> Ligne \cup {Absente}]
  /\ messages \in [Fichiers -> Statuts]
  /\ analyses \in [Fichiers -> Verdicts \cup {"aucune", "en_cours"}]
  /\ taches \subseteq Tache /\ jobs \subseteq Job
  /\ \A f \in Fichiers \ PiecesJeunes : messages[f] = "aucun"
  /\ menage \in Menage
  /\ pannes \in Nat
  /\ perturbes \in [Fichiers -> SUBSET Pertes]

(* Nothing is in hand about this file.                                      *)
Calme(f) ==
  /\ \A t \in taches : t.f # f
  /\ \A j \in jobs : j.f # f
  /\ f \notin menage.reste

(* The object is in S3 exactly when the row says that the file may be       *)
(* downloaded, whatever overlapped.  A command or the job of the verdict    *)
(* that fails between the two leaves them apart for good; the nightly job   *)
(* that fails leaves an old file that it takes again.                       *)
StockageFidele ==
  \A f \in Fichiers :
    (Calme(f) /\ "stockage" \notin perturbes[f])
      => \/ f \in objets <=> Telechargeable(f)
         \/ f \in FichiersBefore

(* The message says why the file is gone exactly when it is, and that it is *)
(* safe otherwise: a file said to be malicious cannot be downloaded.  Not   *)
(* so when a status that nobody awaited arrives last, or when the verdict   *)
(* comes after the file expired.                                            *)
MessageFidele ==
  \A f \in PiecesJeunes :
    (Existe(f) /\ Calme(f) /\ {"message", "verdict"} \cap perturbes[f] = {})
      => messages[f] \in IF Telechargeable(f) THEN {"FICHIER_SAIN"}
                         ELSE Definitifs \ {"FICHIER_SAIN"}

(* A file of a young person that can be downloaded and has no verdict yet   *)
(* has something in hand that will give one: a worker that stops does not   *)
(* lose it.  The web process that stops does, and so does a worker that the *)
(* antivirus answers with an error.                                         *)
AnalyseSuivie ==
  \A f \in PiecesJeunes :
    (Telechargeable(f) /\ messages[f] \notin Definitifs)
      => \/ ~Calme(f)
         \/ {"verdict", "message"} \cap perturbes[f] # {}

(* Every such file gets a verdict, is removed, or was lost by a failure,    *)
(* provided that the antivirus ends its analyses: nothing bounds the times  *)
(* the job comes back.                                                      *)
VerdictRendu ==
  \A f \in PiecesJeunes :
    Existe(f) ~> \/ messages[f] \in Definitifs
                 \/ ~Telechargeable(f)
                 \/ {"verdict", "message"} \cap perturbes[f] # {}
=============================================================================

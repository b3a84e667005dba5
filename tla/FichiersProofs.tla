---------------------------- MODULE FichiersProofs ----------------------------
(***************************************************************************)
(* What is proved of Fichiers for every value of its constants.             *)
(***************************************************************************)
EXTENDS Fichiers, TLAPS

-----------------------------------------------------------------------------
(* The invariant behind StockageFidele, file by file                        *)

EnMain(f, genres) == \E t \in taches : t.f = f /\ t.genre \in genres
SansJob(f) == \A j \in jobs : j.f # f

Amont == {"soumission", "maj", "planification"}

(* Nothing is in hand about a file that was not sent, nor anything else     *)
(* about one whose row is still to be written.                              *)
InvNaissance(f) ==
  /\ f \notin televerses => ~Existe(f) /\ SansJob(f) /\ \A t \in taches : t.f # f
  /\ EnMain(f, {"creation"}) =>
       /\ f \in objets /\ f \notin anciens /\ ~Existe(f) /\ SansJob(f)
  /\ \A t, u \in taches :
       (t.f = f /\ u.f = f /\ t.genre = "creation") => u = t

(* Its analysis is asked for once, before there is any job for it.          *)
InvAnalyse(f) ==
  /\ EnMain(f, Amont) => SansJob(f)
  /\ \A t, u \in taches :
       (t.f = f /\ u.f = f /\ t.genre \in Amont /\ u.genre \in Amont) => t = u
  /\ (EnMain(f, {"planification"}) \/ ~SansJob(f)) =>
       (Existe(f) => lignes[f].idAnalyse)
  /\ \A j \in jobs : j.f = f =>
       /\ j.etape = "verdict" => analyses[f] \in Verdicts
       /\ j.etape \in {"retraitObjet", "retraitLigne"} =>
            analyses[f] = "FICHIER_MALVEILLANT"

(* The row of the file is about to be marked, or deleted.                   *)
RetraitEnCours(f) ==
  \/ EnMain(f, {"retraitLigne", "destruction"})
  \/ \E j \in jobs : j.f = f /\ j.etape = "retraitLigne"
  \/ menage.etape = "ligne" /\ f \in menage.choix

(* A job that marks the row, or was given back and will                     *)
Marquera(f) ==
  \E j \in jobs :
    /\ j.f = f
    /\ analyses[f] = "FICHIER_MALVEILLANT"
    /\ \/ j.etape = "retraitLigne"
       \/ j.reprises = 1 /\ j.etape \in {"attente", "lu", "verdict", "retraitObjet"}

(* The object goes first: while the row is about to go there is no object,  *)
(* an object without a row has its row still to be written, and a row       *)
(* without an object is about to go, unless a failure was recorded, or the  *)
(* nightly job will see it.                                                 *)
InvRetrait(f) ==
  /\ RetraitEnCours(f) => f \notin objets
  /\ (f \in objets /\ ~Telechargeable(f)) =>
       EnMain(f, {"creation"}) \/ "stockage" \in perturbes[f]
  /\ (f \notin objets /\ Telechargeable(f)) =>
       \/ f \in anciens
       \/ EnMain(f, {"retraitLigne", "destruction"})
       \/ Marquera(f)
       \/ "stockage" \in perturbes[f]

InvMenage ==
  /\ menage.reste \subseteq anciens /\ menage.choix \subseteq menage.reste
  /\ menage.etape = "objet" <=> menage.choix = {}

Inv ==
  /\ TypeOK
  /\ InvMenage
  /\ \A f \in Fichiers : InvNaissance(f) /\ InvAnalyse(f) /\ InvRetrait(f)

-----------------------------------------------------------------------------
(* Types                                                                    *)

LEMMA TacheType ==
  ASSUME NEW f \in Fichiers
  PROVE  /\ \A genre \in Genres : /\ Pour(genre, f) \in Tache
                                  /\ Pour(genre, f).f = f
                                  /\ Pour(genre, f).genre = genre
         /\ \A statut \in Statuts : /\ Envoi(f, statut) \in Tache
                                    /\ Envoi(f, statut).f = f
                                    /\ Envoi(f, statut).genre = "envoi"
<1>1. ASSUME NEW genre \in Genres
      PROVE  /\ Pour(genre, f) \in Tache
             /\ Pour(genre, f).f = f
             /\ Pour(genre, f).genre = genre
  <2>1. 0 \in 0 .. MaxEssais /\ "aucun" \in Statuts
    BY ConstantsAssumption DEF Statuts
  <2> QED BY <2>1 DEF Pour, Tache
<1>2. ASSUME NEW statut \in Statuts
      PROVE  /\ Envoi(f, statut) \in Tache
             /\ Envoi(f, statut).f = f
             /\ Envoi(f, statut).genre = "envoi"
  <2>1. Pour("envoi", f) \in Tache /\ Pour("envoi", f).f = f
        /\ Pour("envoi", f).genre = "envoi"
    BY <1>1 DEF Genres
  <2> QED BY <2>1 DEF Envoi, Tache
<1> QED BY <1>1, <1>2

LEMMA AbandonType ==
  ASSUME NEW f \in Fichiers
  PROVE  /\ Abandon(f) \subseteq Tache
         /\ \A t \in Abandon(f) : t.f = f /\ t.genre \in {"retraitObjet", "envoi"}
BY TacheType DEF Abandon, Genres, Statuts, Definitifs

LEMMA NouveauJobType ==
  ASSUME NEW f \in Fichiers, Libres # {}
  PROVE  /\ NouveauJob(f) \in Job
         /\ NouveauJob(f).f = f /\ NouveauJob(f).etape = "attente"
         /\ NouveauJob(f).reprises = 0
<1>1. (CHOOSE i \in Libres : TRUE) \in 1 .. MaxJobs
  BY DEF Libres
<1> QED BY <1>1 DEF NouveauJob, Job, EtapesJob

LEMMA MenageFiniType == MenageFini \in Menage /\ MenageFini.choix = {}
BY DEF MenageFini, Menage

LEMMA MajLigneType ==
  ASSUME lignes \in [Fichiers -> Ligne \cup {Absente}], NEW f \in Fichiers,
         NEW champ, MajLigne(f, champ)
  PROVE  /\ lignes' \in [Fichiers -> Ligne \cup {Absente}]
         /\ \A g \in Fichiers : g # f => lignes'[g] = lignes[g]
         /\ Existe(f)' <=> Existe(f)
         /\ Existe(f) => /\ lignes[f] \in Ligne /\ lignes'[f] \in Ligne
                         /\ champ = "supprime" =>
                              /\ lignes'[f].supprime
                              /\ lignes'[f].idAnalyse = lignes[f].idAnalyse
                         /\ champ # "supprime" =>
                              /\ lignes'[f].supprime = lignes[f].supprime
                              /\ lignes'[f].idAnalyse
<1>1. CASE Existe(f)
  <2>1. lignes[f] \in Ligne
    BY <1>1 DEF Existe
  <2>2. /\ [lignes[f] EXCEPT !.supprime = TRUE] \in Ligne
        /\ [lignes[f] EXCEPT !.supprime = TRUE].supprime
        /\ [lignes[f] EXCEPT !.supprime = TRUE].idAnalyse = lignes[f].idAnalyse
        /\ [lignes[f] EXCEPT !.idAnalyse = TRUE] \in Ligne
        /\ [lignes[f] EXCEPT !.idAnalyse = TRUE].idAnalyse
        /\ [lignes[f] EXCEPT !.idAnalyse = TRUE].supprime = lignes[f].supprime
    BY <2>1 DEF Ligne
  <2>3. lignes' = [lignes EXCEPT ![f] =
                     IF champ = "supprime" THEN [lignes[f] EXCEPT !.supprime = TRUE]
                                           ELSE [lignes[f] EXCEPT !.idAnalyse = TRUE]]
    BY <1>1 DEF MajLigne
  <2> QED BY <1>1, <2>1, <2>2, <2>3, AbsenteAssumption DEF Existe
<1>2. CASE ~Existe(f)
  BY <1>2 DEF MajLigne, Existe
<1> QED BY <1>1, <1>2

LEMMA AfficherType ==
  ASSUME TypeOK, NEW f \in Fichiers, NEW statut \in Statuts, Afficher(f, statut)
  PROVE  /\ messages' \in [Fichiers -> Statuts]
         /\ \A g \in Fichiers \ PiecesJeunes : messages'[g] = "aucun"
BY ConstantsAssumption DEF TypeOK, Afficher

LEMMA PerturberType ==
  ASSUME TypeOK, NEW fs, NEW quoi \in SUBSET Pertes, Perturber(fs, quoi)
  PROVE  /\ perturbes' \in [Fichiers -> SUBSET Pertes]
         /\ \A g \in Fichiers : perturbes[g] \subseteq perturbes'[g]
         /\ \A g \in Fichiers \cap fs : quoi \subseteq perturbes'[g]
BY DEF TypeOK, Perturber

LEMMA PerteType ==
  ASSUME NEW genre
  PROVE  Perte(genre) \in SUBSET Pertes
BY DEF Perte, Pertes

LEMMA PanneType == TypeOK /\ Panne => pannes' \in Nat
BY DEF TypeOK, Panne

-----------------------------------------------------------------------------
(* Every step keeps the types                                               *)

LEMMA TypeInit == Init => TypeOK
BY ConstantsAssumption, MenageFiniType DEF Init, TypeOK, Statuts, Definitifs, Pertes

LEMMA TypeTeleverser ==
  ASSUME TypeOK, NEW f \in Fichiers, Televerser(f)
  PROVE  TypeOK'
<1>1. Pour("creation", f) \in Tache
  BY TacheType DEF Genres
<1> QED BY <1>1 DEF TypeOK, Televerser

LEMMA TypeDemanderSuppression ==
  ASSUME TypeOK, NEW f \in Fichiers, DemanderSuppression(f)
  PROVE  TypeOK'
<1>1. Pour("destruction", f) \in Tache
  BY TacheType DEF Genres
<1> QED BY <1>1 DEF TypeOK, DemanderSuppression, SupprimerObjet

LEMMA RetirerType ==
  ASSUME TypeOK, NEW f \in Fichiers, NEW quoi, Retirer(f, quoi)
  PROVE  /\ objets' \subseteq objets
         /\ lignes' \in [Fichiers -> Ligne \cup {Absente}]
BY MajLigneType DEF TypeOK, Retirer, SupprimerObjet

LEMMA TypeExecuterTache ==
  ASSUME TypeOK, NEW t \in taches, ExecuterTache(t)
  PROVE  TypeOK'
<1>1. t \in Tache /\ t.f \in Fichiers /\ t.statut \in Statuts /\ t.essais \in 0 .. MaxEssais
  BY DEF TypeOK, Tache
<1>2. /\ \A genre \in Genres : Pour(genre, t.f) \in Tache
      /\ \A statut \in Statuts : Envoi(t.f, statut) \in Tache
      /\ Abandon(t.f) \subseteq Tache
  BY <1>1, TacheType, AbandonType
<1>3. CASE EnregistrerFichier(t)
  <2>1. [supprime |-> FALSE, idAnalyse |-> FALSE] \in Ligne
    BY DEF Ligne
  <2>2. taches' \subseteq Tache
    BY <1>2, <1>3 DEF EnregistrerFichier, Remplacer, TypeOK, Genres
  <2> QED BY <1>3, <2>1, <2>2 DEF TypeOK, EnregistrerFichier
<1>4. CASE Detruire(t)
  BY <1>4 DEF TypeOK, Detruire, Remplacer
<1>5. CASE Soumettre(t)
  <2>1. ASSUME t.essais + 1 < MaxEssais
        PROVE  [t EXCEPT !.essais = @ + 1] \in Tache
    BY <1>1, <2>1, ConstantsAssumption DEF Tache
  <2>2. taches' \subseteq Tache
    BY <1>2, <1>5, <2>1 DEF Soumettre, Remplacer, TypeOK, Genres
  <2>3. analyses' \in [Fichiers -> Verdicts \cup {"aucune", "en_cours"}]
    BY <1>5 DEF Soumettre, TypeOK
  <2> QED BY <1>5, <2>2, <2>3 DEF TypeOK, Soumettre
<1>6. CASE MajAnalyse(t)
  <2>1. lignes' \in [Fichiers -> Ligne \cup {Absente}]
    BY <1>1, <1>6, MajLigneType DEF MajAnalyse, TypeOK
  <2>2. taches' \subseteq Tache
    BY <1>2, <1>6 DEF MajAnalyse, Remplacer, TypeOK, Genres, Statuts
  <2> QED BY <1>6, <2>1, <2>2 DEF TypeOK, MajAnalyse
<1>7. CASE Planifier(t)
  <2>1. NouveauJob(t.f) \in Job
    BY <1>1, <1>7, NouveauJobType DEF Planifier
  <2> QED BY <1>7, <2>1 DEF TypeOK, Planifier, Remplacer
<1>8. CASE EnvoyerStatut(t)
  <2>1. /\ messages' \in [Fichiers -> Statuts]
        /\ \A g \in Fichiers \ PiecesJeunes : messages'[g] = "aucun"
    BY <1>1, <1>8, AfficherType DEF EnvoyerStatut
  <2>2. perturbes' \in [Fichiers -> SUBSET Pertes]
    BY <1>8, PerturberType DEF EnvoyerStatut, Pertes
  <2> QED BY <1>8, <2>1, <2>2 DEF TypeOK, EnvoyerStatut, Remplacer
<1>9. CASE RetirerFichier(t)
  <2>1. /\ objets' \subseteq objets
        /\ lignes' \in [Fichiers -> Ligne \cup {Absente}]
    BY <1>1, <1>9, RetirerType DEF RetirerFichier
  <2>2. taches' \subseteq Tache
    BY <1>2, <1>9 DEF RetirerFichier, Remplacer, TypeOK, Genres
  <2> QED BY <1>9, <2>1, <2>2 DEF TypeOK, RetirerFichier
<1> QED BY <1>3, <1>4, <1>5, <1>6, <1>7, <1>8, <1>9 DEF ExecuterTache

LEMMA AvancerType ==
  ASSUME TypeOK, NEW j \in jobs, NEW etape \in EtapesJob, Avancer(j, etape)
  PROVE  jobs' \subseteq Job
BY DEF TypeOK, Avancer, Job

LEMMA TypeExecuterJob ==
  ASSUME TypeOK, NEW j \in jobs, ExecuterJob(j),
         j.etape = "verdict" => analyses[j.f] \in Verdicts
  PROVE  TypeOK'
<1>1. j \in Job /\ j.f \in Fichiers
  BY DEF TypeOK, Job
<1>2. Terminer(j) => jobs' \subseteq Job
  BY DEF Terminer, TypeOK
<1>3. CASE LireFichier(j)
  <2>1. jobs' \subseteq Job
    BY <1>2, <1>3, AvancerType DEF LireFichier, EtapesJob
  <2> QED BY <1>3, <2>1 DEF TypeOK, LireFichier
<1>4. CASE Interroger(j)
  <2>1. jobs' \subseteq Job
    BY <1>4, AvancerType DEF Interroger, EtapesJob, SuiteDuResultat
  <2> QED BY <1>4, <2>1 DEF TypeOK, Interroger
<1>5. CASE ReplanifierAnalyse(j)
  <2>1. NouveauJob(j.f) \in Job
    BY <1>1, <1>5, NouveauJobType DEF ReplanifierAnalyse
  <2>2. [j EXCEPT !.etape = "fait"] \in Job
    BY <1>1 DEF Job, EtapesJob
  <2> QED BY <1>5, <2>1, <2>2 DEF TypeOK, ReplanifierAnalyse
<1>6. CASE AnnoncerVerdict(j)
  <2>1. /\ messages' \in [Fichiers -> Statuts]
        /\ \A g \in Fichiers \ PiecesJeunes : messages'[g] = "aucun"
    BY <1>1, <1>6, AfficherType DEF AnnoncerVerdict, Statuts, Definitifs
  <2>2. jobs' \subseteq Job
    BY <1>6, AvancerType DEF AnnoncerVerdict, EtapesJob, SuiteDuVerdict
  <2>3. perturbes' \in [Fichiers -> SUBSET Pertes]
    BY <1>6, PerturberType DEF AnnoncerVerdict, Pertes
  <2> QED BY <1>6, <2>1, <2>2, <2>3 DEF TypeOK, AnnoncerVerdict
<1>7. CASE RetirerMalveillant(j)
  <2>1. /\ objets' \subseteq objets
        /\ lignes' \in [Fichiers -> Ligne \cup {Absente}]
    BY <1>1, <1>7, RetirerType DEF RetirerMalveillant
  <2>2. jobs' \subseteq Job
    BY <1>7, AvancerType DEF RetirerMalveillant, EtapesJob
  <2> QED BY <1>7, <2>1, <2>2 DEF TypeOK, RetirerMalveillant
<1>8. CASE FinirJob(j)
  BY <1>2, <1>8 DEF TypeOK, FinirJob
<1> QED BY <1>3, <1>4, <1>5, <1>6, <1>7, <1>8 DEF ExecuterJob

LEMMA TypeEchecs ==
  ASSUME TypeOK,
         \/ \E t \in taches : EchecTache(t)
         \/ ArretWeb
         \/ \E j \in jobs : EchecJob(j) \/ ArretWorker(j)
  PROVE  TypeOK'
<1>1. CASE \E t \in taches : EchecTache(t)
  <2>1. PICK t \in taches : EchecTache(t)
    BY <1>1
  <2>2. perturbes' \in [Fichiers -> SUBSET Pertes]
    BY <2>1, PerturberType, PerteType DEF EchecTache
  <2>3. pannes' \in Nat
    BY <2>1, PanneType DEF EchecTache
  <2> QED BY <2>1, <2>2, <2>3 DEF TypeOK, EchecTache, Remplacer
<1>2. CASE ArretWeb
  <2>1. ASSUME NEW f \in Fichiers
        PROVE  UNION {Perte(t.genre) : t \in {u \in taches : u.f = f}} \in SUBSET Pertes
    BY PerteType
  <2>2. perturbes' \in [Fichiers -> SUBSET Pertes]
    BY <1>2, <2>1 DEF ArretWeb, TypeOK
  <2>3. pannes' \in Nat
    BY <1>2, PanneType DEF ArretWeb
  <2> QED BY <1>2, <2>2, <2>3 DEF TypeOK, ArretWeb
<1>3. CASE \E j \in jobs : EchecJob(j) \/ ArretWorker(j)
  <2>1. PICK j \in jobs : EchecJob(j) \/ ArretWorker(j)
    BY <1>3
  <2>2. [j EXCEPT !.etape = "attente", !.reprises = 1] \in Job
    <3>1. j \in Job /\ "attente" \in EtapesJob /\ 1 \in 0 .. 1
      BY DEF TypeOK, EtapesJob
    <3> QED BY <3>1 DEF Job
  <2>3. jobs' \subseteq Job
    BY <2>1, <2>2 DEF EchecJob, ArretWorker, Terminer, TypeOK
  <2>4. perturbes' \in [Fichiers -> SUBSET Pertes]
    <3>1. CASE UNCHANGED perturbes
      BY <3>1 DEF TypeOK
    <3>2. CASE Perturber({j.f}, {"stockage", "message", "verdict"})
               \/ Perturber({j.f}, {"verdict"})
      BY <3>2, PerturberType DEF Pertes
    <3> QED BY <2>1, <3>1, <3>2 DEF EchecJob, ArretWorker
  <2>5. pannes' \in Nat
    BY <2>1, PanneType DEF EchecJob, ArretWorker
  <2> QED BY <2>1, <2>3, <2>4, <2>5 DEF TypeOK, EchecJob, ArretWorker
<1> QED BY <1>1, <1>2, <1>3

ActionMenage ==
  \/ \E f \in Fichiers : Expirer(f) \/ EchecExpiration(f)
  \/ LancerMenage \/ FinirMenage \/ ArretMenage

LEMMA TypeMenage ==
  ASSUME TypeOK, InvMenage, ActionMenage
  PROVE  TypeOK' /\ InvMenage'
<1>1. /\ menage \in Menage /\ menage.reste \subseteq Fichiers
      /\ menage.choix \subseteq Fichiers
  BY DEF TypeOK, Menage
<1>2. CASE LancerMenage
  <2> DEFINE m == [MenageFini EXCEPT !.actif = TRUE, !.reste = FichiersBefore]
  <2>1. FichiersBefore \subseteq anciens /\ anciens \subseteq Fichiers
    BY DEF FichiersBefore, TypeOK
  <2>2. /\ m \in Menage /\ m.reste = FichiersBefore /\ m.choix = {}
        /\ m.etape = "objet"
    BY <2>1 DEF MenageFini, Menage
  <2>3. menage' = m
    BY <1>2 DEF LancerMenage
  <2> HIDE DEF m
  <2> QED BY <1>2, <2>1, <2>2, <2>3 DEF LancerMenage, TypeOK, InvMenage
<1>3. CASE FinirMenage
  BY <1>3 DEF FinirMenage, MenageFini, Menage, TypeOK, InvMenage
<1>4. CASE ArretMenage
  <2>1. perturbes' \in [Fichiers -> SUBSET Pertes]
    BY <1>4, PerturberType DEF ArretMenage, Pertes
  <2>2. pannes' \in Nat
    BY <1>4, PanneType DEF ArretMenage
  <2> QED BY <1>4, <2>1, <2>2 DEF ArretMenage, MenageFini, Menage, TypeOK, InvMenage
<1>5. ASSUME NEW f \in Fichiers, f \in EnCours
      PROVE  /\ f \in menage.reste
             /\ LET m == [menage EXCEPT !.etape = "objet", !.choix = {},
                                        !.reste = @ \ {f}]
                IN m \in Menage /\ m.reste = menage.reste \ {f} /\ m.choix = {}
                   /\ m.etape = "objet"
             /\ LET m == [menage EXCEPT !.etape = "ligne", !.choix = {f}]
                IN m \in Menage /\ m.reste = menage.reste /\ m.choix = {f}
                   /\ m.etape = "ligne"
             /\ LET m == [menage EXCEPT !.etape = "message"]
                IN m \in Menage /\ m.reste = menage.reste /\ m.choix = menage.choix
                   /\ m.etape = "message"
  BY <1>1, <1>5 DEF EnCours, InvMenage, Menage
<1>6. ASSUME NEW f \in Fichiers, Expirer(f)
      PROVE  TypeOK' /\ InvMenage'
  <2>1. f \in EnCours
    BY <1>6 DEF Expirer
  <2>2. menage' \in Menage /\ InvMenage'
    <3>1. anciens' = anciens /\ menage \in Menage
      BY <1>1, <1>6 DEF Expirer
    <3>2. CASE menage' = [menage EXCEPT !.etape = "ligne", !.choix = {f}]
      <4>1. /\ menage' \in Menage /\ menage'.reste = menage.reste
            /\ menage'.choix = {f} /\ menage'.etape = "ligne"
        BY <1>5, <2>1, <3>2
      <4> QED BY <1>5, <2>1, <3>1, <4>1 DEF InvMenage
    <3>3. CASE /\ menage.etape = "ligne"
               /\ menage' = [menage EXCEPT !.etape = "message"]
      <4>1. /\ menage' \in Menage /\ menage'.reste = menage.reste
            /\ menage'.choix = menage.choix /\ menage'.etape = "message"
        BY <1>5, <2>1, <3>3
      <4> QED BY <3>1, <3>3, <4>1 DEF InvMenage
    <3>4. CASE menage' = [menage EXCEPT !.etape = "objet", !.choix = {},
                                        !.reste = @ \ {f}]
      <4>1. /\ menage' \in Menage /\ menage'.reste = menage.reste \ {f}
            /\ menage'.choix = {} /\ menage'.etape = "objet"
        BY <1>5, <2>1, <3>4
      <4> QED BY <3>1, <4>1 DEF InvMenage
    <3> QED BY <1>6, <3>2, <3>3, <3>4 DEF Expirer
  <2>3. /\ objets' \subseteq objets
        /\ lignes' \in [Fichiers -> Ligne \cup {Absente}]
    BY <1>6, RetirerType DEF Expirer, TypeOK
  <2>4. /\ messages' \in [Fichiers -> Statuts]
        /\ \A g \in Fichiers \ PiecesJeunes : messages'[g] = "aucun"
    <3>1. CASE UNCHANGED messages
      BY <3>1 DEF TypeOK
    <3>2. CASE Afficher(f, "FICHIER_EXPIRE")
      BY <3>2, AfficherType DEF Statuts, Definitifs
    <3> QED BY <1>6, <3>1, <3>2 DEF Expirer
  <2> QED BY <1>6, <2>2, <2>3, <2>4 DEF Expirer, TypeOK
<1>7. ASSUME NEW f \in Fichiers, EchecExpiration(f)
      PROVE  TypeOK' /\ InvMenage'
  <2>1. f \in EnCours
    BY <1>7 DEF EchecExpiration
  <2>2. menage' \in Menage /\ InvMenage'
    BY <1>5, <1>7, <2>1 DEF EchecExpiration, InvMenage
  <2>3. perturbes' \in [Fichiers -> SUBSET Pertes]
    BY <1>7, PerturberType DEF EchecExpiration, Pertes
  <2>4. pannes' \in Nat
    BY <1>7, PanneType DEF EchecExpiration
  <2> QED BY <1>7, <2>2, <2>3, <2>4 DEF EchecExpiration, TypeOK
<1> QED BY <1>2, <1>3, <1>4, <1>6, <1>7 DEF ActionMenage

LEMMA TypeDehors ==
  ASSUME TypeOK, NEW f \in Fichiers, Vieillir(f) \/ Analyser(f), InvNaissance(f)
  PROVE  TypeOK'
<1>1. CASE Vieillir(f)
  BY <1>1 DEF Vieillir, TypeOK, InvNaissance
<1>2. CASE Analyser(f)
  BY <1>2 DEF Analyser, TypeOK
<1> QED BY <1>1, <1>2

LEMMA TypeNext ==
  ASSUME Inv, [Next]_vars
  PROVE  TypeOK' /\ InvMenage'
<1>1. TypeOK /\ InvMenage /\ \A f \in Fichiers : InvNaissance(f) /\ InvAnalyse(f)
  BY DEF Inv
<1>2. \A j \in jobs : j.f \in Fichiers
  BY <1>1 DEF TypeOK, Job
<1>3. CASE ActionMenage
  BY <1>1, <1>3, TypeMenage
<1>4. ASSUME UNCHANGED menage, anciens \subseteq anciens'
      PROVE  InvMenage'
  BY <1>1, <1>4 DEF InvMenage
<1>5. CASE \E f \in Fichiers :
             Televerser(f) \/ DemanderSuppression(f) \/ Vieillir(f) \/ Analyser(f)
  <2>1. TypeOK'
    BY <1>1, <1>5, TypeTeleverser, TypeDemanderSuppression, TypeDehors
  <2> QED BY <1>4, <1>5, <2>1
          DEF Televerser, DemanderSuppression, Vieillir, Analyser
<1>6. CASE \E t \in taches : ExecuterTache(t)
  <2>1. TypeOK'
    BY <1>1, <1>6, TypeExecuterTache
  <2> QED BY <1>4, <1>6, <2>1
          DEF ExecuterTache, EnregistrerFichier, Detruire, Soumettre, MajAnalyse,
              Planifier, EnvoyerStatut, RetirerFichier
<1>7. CASE \E j \in jobs : ExecuterJob(j)
  <2>1. TypeOK'
    BY <1>1, <1>2, <1>7, TypeExecuterJob DEF InvAnalyse
  <2> QED BY <1>4, <1>7, <2>1
          DEF ExecuterJob, LireFichier, Interroger, ReplanifierAnalyse,
              AnnoncerVerdict, RetirerMalveillant, FinirJob
<1>8. CASE \/ \E t \in taches : EchecTache(t)
           \/ ArretWeb
           \/ \E j \in jobs : EchecJob(j) \/ ArretWorker(j)
  <2>1. TypeOK'
    BY <1>1, <1>8, TypeEchecs
  <2> QED BY <1>4, <1>8, <2>1 DEF EchecTache, ArretWeb, EchecJob, ArretWorker
<1>9. CASE UNCHANGED vars
  BY <1>1, <1>9 DEF vars, TypeOK, InvMenage
<1> QED BY <1>3, <1>5, <1>6, <1>7, <1>8, <1>9 DEF Next, ActionMenage

-----------------------------------------------------------------------------
(* The other files                                                          *)

InvFichier(f) == InvNaissance(f) /\ InvAnalyse(f) /\ InvRetrait(f)

(* A step leaves a file as it is, except that its history may grow.         *)
Epargne(g) ==
  /\ g \in televerses' <=> g \in televerses
  /\ g \in objets' <=> g \in objets
  /\ g \in anciens' <=> g \in anciens
  /\ lignes'[g] = lignes[g]
  /\ analyses'[g] = analyses[g]
  /\ \A t \in taches \cup taches' : t.f = g => (t \in taches <=> t \in taches')
  /\ \A j \in jobs \cup jobs' : j.f = g => (j \in jobs <=> j \in jobs')
  /\ (menage'.etape = "ligne" /\ g \in menage'.choix) =>
       (menage.etape = "ligne" /\ g \in menage.choix)
  /\ perturbes[g] \subseteq perturbes'[g]

LEMMA EnMainEpargne ==
  ASSUME NEW g, Epargne(g)
  PROVE  /\ \A genres : EnMain(g, genres)' <=> EnMain(g, genres)
         /\ SansJob(g)' <=> SansJob(g)
         /\ Existe(g)' <=> Existe(g)
         /\ Telechargeable(g)' <=> Telechargeable(g)
         /\ Marquera(g)' <=> Marquera(g)
         /\ RetraitEnCours(g)' => RetraitEnCours(g)
<1>1. ASSUME NEW genres PROVE EnMain(g, genres)' <=> EnMain(g, genres)
  BY DEF Epargne, EnMain
<1>2. SansJob(g)' <=> SansJob(g)
  BY DEF Epargne, SansJob
<1>3. (Existe(g)' <=> Existe(g)) /\ (Telechargeable(g)' <=> Telechargeable(g))
  BY DEF Epargne, Existe, Telechargeable
<1>4. Marquera(g)' <=> Marquera(g)
  BY DEF Epargne, Marquera
<1>5. RetraitEnCours(g)' => RetraitEnCours(g)
  BY <1>1 DEF Epargne, RetraitEnCours
<1> QED BY <1>1, <1>2, <1>3, <1>4, <1>5

LEMMA InvEpargne ==
  ASSUME NEW g, Epargne(g), InvFichier(g)
  PROVE  InvFichier(g)'
<1>1. InvNaissance(g)'
  BY EnMainEpargne DEF Epargne, InvFichier, InvNaissance
<1>2. InvAnalyse(g)'
  BY EnMainEpargne DEF Epargne, InvFichier, InvAnalyse
<1>3. InvRetrait(g)'
  BY EnMainEpargne DEF Epargne, InvFichier, InvRetrait
<1> QED BY <1>1, <1>2, <1>3 DEF InvFichier

-----------------------------------------------------------------------------
(* Commands                                                                 *)

LEMMA InvTeleverser ==
  ASSUME TypeOK, InvMenage, NEW f \in Fichiers, InvFichier(f), Televerser(f)
  PROVE  InvFichier(f)' /\ \A g \in Fichiers \ {f} : Epargne(g)
<1>1. /\ Pour("creation", f).f = f /\ Pour("creation", f).genre = "creation"
      /\ taches' = taches \cup {Pour("creation", f)}
      /\ \A t \in taches : t.f # f
      /\ f \notin televerses /\ f \notin anciens /\ ~Existe(f) /\ SansJob(f)
      /\ f \notin menage.choix
  BY TacheType DEF Televerser, Genres, InvFichier, InvNaissance, InvMenage, TypeOK
<1>2. InvNaissance(f)'
  BY <1>1 DEF Televerser, InvNaissance, EnMain, SansJob, Existe
<1>3. InvAnalyse(f)'
  BY <1>1 DEF Televerser, InvAnalyse, EnMain, SansJob, Amont
<1>4. InvRetrait(f)'
  BY <1>1 DEF Televerser, InvRetrait, RetraitEnCours, EnMain, SansJob
<1>5. \A g \in Fichiers \ {f} : Epargne(g)
  BY <1>1 DEF Televerser, Epargne
<1> QED BY <1>2, <1>3, <1>4, <1>5 DEF InvFichier

LEMMA InvDemanderSuppression ==
  ASSUME TypeOK, NEW f \in Fichiers, InvFichier(f), DemanderSuppression(f)
  PROVE  InvFichier(f)' /\ \A g \in Fichiers \ {f} : Epargne(g)
<1> DEFINE d == Pour("destruction", f)
<1>1. /\ d.f = f /\ d.genre = "destruction" /\ taches' = taches \cup {d}
      /\ Existe(f) /\ objets' = objets \ {f} /\ lignes' = lignes
      /\ f \in televerses /\ ~EnMain(f, {"creation"})
  BY TacheType DEF DemanderSuppression, SupprimerObjet, Genres, InvFichier, InvNaissance
<1> HIDE DEF d
<1>2. InvNaissance(f)'
  BY <1>1 DEF DemanderSuppression, InvNaissance, EnMain
<1>3. InvAnalyse(f)'
  BY <1>1 DEF DemanderSuppression, InvFichier, InvAnalyse, EnMain, SansJob, Amont, Existe
<1>4. InvRetrait(f)'
  BY <1>1 DEF DemanderSuppression, InvRetrait, EnMain
<1>5. \A g \in Fichiers \ {f} : Epargne(g)
  BY <1>1 DEF DemanderSuppression, Epargne
<1> QED BY <1>2, <1>3, <1>4, <1>5 DEF InvFichier

LEMMA InvDehors ==
  ASSUME TypeOK, NEW f \in Fichiers, InvFichier(f), Vieillir(f) \/ Analyser(f)
  PROVE  InvFichier(f)' /\ \A g \in Fichiers \ {f} : Epargne(g)
<1>1. CASE Vieillir(f)
  <2>1. Existe(f) /\ f \in televerses /\ ~EnMain(f, {"creation"})
    BY <1>1 DEF Vieillir, InvFichier, InvNaissance
  <2>2. InvNaissance(f)'
    BY <1>1, <2>1 DEF Vieillir, InvNaissance, EnMain
  <2>3. InvAnalyse(f)'
    BY <1>1 DEF Vieillir, InvFichier, InvAnalyse, EnMain, SansJob, Existe
  <2>4. InvRetrait(f)'
    BY <1>1, <2>1
    DEF Vieillir, InvFichier, InvRetrait, RetraitEnCours, EnMain, Telechargeable, Existe
  <2>5. \A g \in Fichiers \ {f} : Epargne(g)
    BY <1>1 DEF Vieillir, Epargne
  <2> QED BY <2>2, <2>3, <2>4, <2>5 DEF InvFichier
<1>2. CASE Analyser(f)
  <2>1. analyses[f] = "en_cours" /\ ~Marquera(f)
    BY <1>2 DEF Analyser, Marquera
  <2>2. InvNaissance(f)'
    BY <1>2 DEF Analyser, InvFichier, InvNaissance, EnMain, SansJob, Existe
  <2>3. InvAnalyse(f)'
    BY <1>2, <2>1
    DEF Analyser, InvFichier, InvAnalyse, EnMain, SansJob, Existe, Verdicts
  <2>4. InvRetrait(f)'
    BY <1>2, <2>1
    DEF Analyser, InvFichier, InvRetrait, RetraitEnCours, EnMain, Telechargeable, Existe
  <2>5. \A g \in Fichiers \ {f} : Epargne(g)
    BY <1>2 DEF Analyser, Epargne, TypeOK
  <2> QED BY <2>2, <2>3, <2>4, <2>5 DEF InvFichier
<1> QED BY <1>1, <1>2

-----------------------------------------------------------------------------
(* What the web process has in hand                                         *)

(* A task replaced by others of its file                                    *)
Poursuit(t, suites) ==
  /\ t \in taches /\ Remplacer(t, suites)
  /\ \A u \in suites : u.f = t.f /\ u.genre # "creation"
  /\ televerses' = televerses /\ anciens' = anciens /\ menage' = menage

LEMMA NaissancePoursuit ==
  ASSUME NEW t, NEW suites, Poursuit(t, suites), InvNaissance(t.f)
  PROVE  /\ InvNaissance(t.f)' /\ ~EnMain(t.f, {"creation"})'
         /\ t.f \in televerses
         /\ t.genre # "creation" => ~EnMain(t.f, {"creation"})
BY DEF Poursuit, Remplacer, InvNaissance, EnMain

LEMMA EpargnePoursuit ==
  ASSUME NEW t, NEW suites, Poursuit(t, suites), NEW g, g # t.f,
         g \in objets' <=> g \in objets, lignes'[g] = lignes[g],
         analyses'[g] = analyses[g],
         \A j \in jobs \cup jobs' : j.f = g => (j \in jobs <=> j \in jobs'),
         perturbes[g] \subseteq perturbes'[g]
  PROVE  Epargne(g)
BY DEF Epargne, Poursuit, Remplacer

LEMMA InvEnregistrerFichier ==
  ASSUME TypeOK, InvMenage, NEW t \in taches, t.f \in Fichiers, InvFichier(t.f),
         EnregistrerFichier(t)
  PROVE  InvFichier(t.f)' /\ \A g \in Fichiers \ {t.f} : Epargne(g)
<1> DEFINE f == t.f
           s == Pour("soumission", f)
           suites == IF f \in PiecesJeunes THEN {s} ELSE {}
<1>1. s.f = f /\ s.genre = "soumission"
  BY TacheType DEF Genres
<1>2. Poursuit(t, suites)
  BY <1>1 DEF EnregistrerFichier, Poursuit
<1> HIDE DEF s
<1>3. /\ f \in objets /\ f \notin anciens /\ f \notin menage.choix /\ SansJob(f)
      /\ \A u \in taches : u.f = f => u = t
  BY DEF EnregistrerFichier, InvFichier, InvNaissance, EnMain, InvMenage
<1>4. \A u \in taches' : u.f = f => u = s
  BY <1>2, <1>3 DEF Poursuit, Remplacer
<1>5. InvNaissance(f)'
  BY <1>2, NaissancePoursuit DEF InvFichier
<1>6. InvAnalyse(f)'
  BY <1>1, <1>3, <1>4 DEF EnregistrerFichier, InvAnalyse, EnMain, SansJob
<1>7. Telechargeable(f)'
  <2>1. lignes'[f] = [supprime |-> FALSE, idAnalyse |-> FALSE]
    BY DEF EnregistrerFichier, TypeOK
  <2>2. lignes'[f] \in Ligne /\ ~lignes'[f].supprime
    BY <2>1 DEF Ligne
  <2> QED BY <2>2, AbsenteAssumption DEF Telechargeable, Existe
<1>8. InvRetrait(f)'
  BY <1>1, <1>3, <1>4, <1>7
  DEF EnregistrerFichier, InvRetrait, RetraitEnCours, EnMain, SansJob
<1>9. \A g \in Fichiers \ {f} : Epargne(g)
  BY <1>2, EpargnePoursuit DEF EnregistrerFichier, TypeOK
<1> QED BY <1>5, <1>6, <1>8, <1>9 DEF InvFichier

LEMMA InvDetruire ==
  ASSUME TypeOK, NEW t \in taches, t.f \in Fichiers, InvFichier(t.f), Detruire(t)
  PROVE  InvFichier(t.f)' /\ \A g \in Fichiers \ {t.f} : Epargne(g)
<1> DEFINE f == t.f
<1>1. Poursuit(t, {})
  BY DEF Detruire, Poursuit
<1>2. f \notin objets /\ ~Existe(f)' /\ ~Telechargeable(f)'
  BY DEF Detruire, InvFichier, InvRetrait, RetraitEnCours, EnMain, Existe,
         Telechargeable, TypeOK
<1>3. InvNaissance(f)'
  BY <1>1, NaissancePoursuit DEF InvFichier
<1>4. InvAnalyse(f)'
  BY <1>2 DEF Detruire, Remplacer, InvFichier, InvAnalyse, EnMain, SansJob
<1>5. InvRetrait(f)'
  BY <1>2 DEF Detruire, InvRetrait
<1>6. \A g \in Fichiers \ {f} : Epargne(g)
  BY <1>1, EpargnePoursuit DEF Detruire, TypeOK
<1> QED BY <1>3, <1>4, <1>5, <1>6 DEF InvFichier

(* A task of the analysis, from the submission to the planning of the job   *)
LEMMA InvSoumettre ==
  ASSUME TypeOK, NEW t \in taches, t.f \in Fichiers, InvFichier(t.f), Soumettre(t)
  PROVE  InvFichier(t.f)' /\ \A g \in Fichiers \ {t.f} : Epargne(g)
<1> DEFINE f == t.f
<1>1. PICK suites :
        /\ Poursuit(t, suites)
        /\ \A u \in suites : u.genre \in {"maj", "soumission", "retraitObjet", "envoi"}
        /\ \A u, v \in suites : u.genre \in Amont /\ v.genre \in Amont => u = v
  <2>1. /\ Pour("maj", f).f = f /\ Pour("maj", f).genre = "maj"
        /\ \A u \in Abandon(f) : u.f = f /\ u.genre \in {"retraitObjet", "envoi"}
        /\ LET u == [t EXCEPT !.essais = @ + 1]
           IN u.f = f /\ u.genre = t.genre
    BY TacheType, AbandonType DEF Genres, TypeOK, Tache
  <2>2. CASE Remplacer(t, {Pour("maj", f)})
    <3>1. Poursuit(t, {Pour("maj", f)})
      BY <2>1, <2>2 DEF Poursuit, Soumettre
    <3> QED BY <2>1, <3>1
  <2>3. CASE Remplacer(t, Abandon(f))
    <3>1. Poursuit(t, Abandon(f))
      BY <2>1, <2>3 DEF Poursuit, Soumettre
    <3> QED BY <2>1, <3>1 DEF Amont
  <2>4. CASE Remplacer(t, {[t EXCEPT !.essais = @ + 1]})
    <3> DEFINE u == [t EXCEPT !.essais = @ + 1]
    <3>1. u.f = f /\ u.genre = "soumission"
      BY <2>1 DEF Soumettre
    <3>2. Poursuit(t, {u})
      BY <2>4, <3>1 DEF Poursuit, Soumettre
    <3> HIDE DEF u
    <3>3. \A v, w \in {u} : v.genre = "soumission" /\ v = w
      BY <3>1
    <3> DEFINE suites == {u}
    <3>4. /\ Poursuit(t, suites)
          /\ \A v \in suites : v.genre = "soumission"
          /\ \A v, w \in suites : v = w
      BY <3>2, <3>3
    <3> HIDE DEF suites
    <3> QED BY <3>4
  <2> QED BY <2>2, <2>3, <2>4 DEF Soumettre
<1>2. t.genre = "soumission" /\ SansJob(f) /\ ~Marquera(f)
  BY DEF Soumettre, InvFichier, InvAnalyse, EnMain, Amont, SansJob, Marquera
<1>3. \A u \in taches : (u.f = f /\ u.genre \in Amont) => u = t
  BY <1>2 DEF InvFichier, InvAnalyse, Amont
<1>4. InvNaissance(f)'
  BY <1>1, NaissancePoursuit DEF InvFichier
<1>5. InvAnalyse(f)'
  BY <1>1, <1>2, <1>3
  DEF Soumettre, Poursuit, Remplacer, InvAnalyse, EnMain, SansJob, Amont
<1>6. EnMain(f, {"retraitLigne", "destruction"})' <=> EnMain(f, {"retraitLigne", "destruction"})
  BY <1>1, <1>2 DEF Poursuit, Remplacer, EnMain
<1>7. ~EnMain(f, {"creation"})
  BY <1>1, <1>2, NaissancePoursuit DEF InvFichier
<1>8. InvRetrait(f)'
  BY <1>2, <1>6, <1>7
  DEF Soumettre, InvFichier, InvRetrait, RetraitEnCours, Telechargeable, Existe
<1>9. \A g \in Fichiers \ {f} : Epargne(g)
  BY <1>1, EpargnePoursuit DEF Soumettre, TypeOK
<1> QED BY <1>4, <1>5, <1>8, <1>9 DEF InvFichier

LEMMA InvMajAnalyse ==
  ASSUME TypeOK, NEW t \in taches, t.f \in Fichiers, InvFichier(t.f), MajAnalyse(t)
  PROVE  InvFichier(t.f)' /\ \A g \in Fichiers \ {t.f} : Epargne(g)
<1> DEFINE f == t.f
           p == Pour("planification", f)
<1>1. /\ p.f = f /\ p.genre = "planification"
      /\ \A st \in Statuts : Envoi(f, st).f = f /\ Envoi(f, st).genre = "envoi"
      /\ \A u \in Abandon(f) : u.f = f /\ u.genre \in {"retraitObjet", "envoi"}
  BY TacheType, AbandonType DEF Genres
<1>2. /\ t.genre = "maj" /\ SansJob(f) /\ ~Marquera(f)
      /\ \A u \in taches : (u.f = f /\ u.genre \in Amont) => u = t
  BY DEF MajAnalyse, InvFichier, InvAnalyse, EnMain, Amont, SansJob, Marquera
<1>3. PICK suites :
        /\ Poursuit(t, suites)
        /\ \A u \in suites : u.genre \in {"planification", "retraitObjet", "envoi"}
        /\ \A u, v \in suites : u.genre \in Amont /\ v.genre \in Amont => u = v
        /\ (\E u \in suites : u.genre = "planification") => MajLigne(f, "idAnalyse")
  <2> DEFINE deux == {Envoi(f, "ANALYSE_EN_COURS"), p}
  <2>1. CASE MajLigne(f, "idAnalyse") /\ Remplacer(t, deux)
    <3>1. \A u \in deux : u.f = f /\ u.genre \in {"planification", "envoi"}
      BY <1>1 DEF Statuts
    <3>2. \A u, v \in deux : u.genre \in Amont /\ v.genre \in Amont => u = v
      BY <1>1 DEF Statuts, Amont
    <3>3. Poursuit(t, deux)
      BY <2>1, <3>1 DEF Poursuit, MajAnalyse
    <3> HIDE DEF deux
    <3> QED BY <2>1, <3>1, <3>2, <3>3
  <2>2. CASE Remplacer(t, Abandon(f))
    <3>1. Poursuit(t, Abandon(f))
      BY <1>1, <2>2 DEF Poursuit, MajAnalyse
    <3> QED BY <1>1, <3>1 DEF Amont
  <2> QED BY <2>1, <2>2 DEF MajAnalyse
<1> HIDE DEF p
<1>4. lignes' = lignes \/ MajLigne(f, "idAnalyse")
  BY DEF MajAnalyse
<1>5. /\ Telechargeable(f)' <=> Telechargeable(f)
      /\ \A g \in Fichiers \ {f} : lignes'[g] = lignes[g]
      /\ MajLigne(f, "idAnalyse") => (Existe(f) => lignes[f].idAnalyse)'
  <2>1. CASE lignes' = lignes
    <3>1. MajLigne(f, "idAnalyse") => (Existe(f) => lignes[f].idAnalyse)'
      BY MajLigneType DEF TypeOK
    <3> QED BY <2>1, <3>1 DEF Telechargeable, Existe
  <2>2. CASE MajLigne(f, "idAnalyse")
    BY <2>2, MajLigneType DEF TypeOK, Telechargeable
  <2> QED BY <1>4, <2>1, <2>2
<1>6. InvNaissance(f)'
  BY <1>3, NaissancePoursuit DEF InvFichier
<1>7. InvAnalyse(f)'
  BY <1>2, <1>3, <1>5
  DEF MajAnalyse, Poursuit, Remplacer, InvAnalyse, EnMain, SansJob, Amont
<1>8. EnMain(f, {"retraitLigne", "destruction"})' <=> EnMain(f, {"retraitLigne", "destruction"})
  BY <1>2, <1>3 DEF Poursuit, Remplacer, EnMain
<1>9. ~EnMain(f, {"creation"})
  BY <1>2, <1>3, NaissancePoursuit DEF InvFichier
<1>10. InvRetrait(f)'
  BY <1>2, <1>5, <1>8, <1>9 DEF MajAnalyse, InvFichier, InvRetrait, RetraitEnCours
<1>11. \A g \in Fichiers \ {f} : Epargne(g)
  BY <1>3, <1>5, EpargnePoursuit DEF MajAnalyse, TypeOK
<1> QED BY <1>6, <1>7, <1>10, <1>11 DEF InvFichier

LEMMA InvPlanifier ==
  ASSUME TypeOK, NEW t \in taches, t.f \in Fichiers, InvFichier(t.f), Planifier(t)
  PROVE  InvFichier(t.f)' /\ \A g \in Fichiers \ {t.f} : Epargne(g)
<1> DEFINE f == t.f
           n == NouveauJob(f)
<1>1. n.f = f /\ n.etape = "attente" /\ n.reprises = 0 /\ jobs' = jobs \cup {n}
  BY NouveauJobType DEF Planifier
<1> HIDE DEF n
<1>2. Poursuit(t, {})
  BY DEF Planifier, Poursuit
<1>3. /\ t.genre = "planification" /\ SansJob(f) /\ ~Marquera(f)
      /\ \A u \in taches : (u.f = f /\ u.genre \in Amont) => u = t
      /\ Existe(f) => lignes[f].idAnalyse
  BY DEF Planifier, InvFichier, InvAnalyse, EnMain, Amont, SansJob, Marquera
<1>4. InvNaissance(f)' /\ ~EnMain(f, {"creation"})
  BY <1>2, <1>3, NaissancePoursuit DEF InvFichier
<1>5. \A u \in taches' : ~(u.f = f /\ u.genre \in Amont)
  BY <1>2, <1>3 DEF Poursuit, Remplacer
<1>6. InvAnalyse(f)'
  BY <1>1, <1>3, <1>5 DEF Planifier, InvAnalyse, EnMain, SansJob, Amont, Existe
<1>7. EnMain(f, {"retraitLigne", "destruction"})' <=> EnMain(f, {"retraitLigne", "destruction"})
  BY <1>2, <1>3 DEF Poursuit, Remplacer, EnMain
<1>8. InvRetrait(f)'
  BY <1>1, <1>3, <1>4, <1>7
  DEF Planifier, InvFichier, InvRetrait, RetraitEnCours, Telechargeable, Existe
<1>9. \A g \in Fichiers \ {f} : Epargne(g)
  BY <1>1, <1>2, EpargnePoursuit DEF Planifier, TypeOK
<1> QED BY <1>4, <1>6, <1>8, <1>9 DEF InvFichier

LEMMA InvEnvoyerStatut ==
  ASSUME TypeOK, NEW t \in taches, t.f \in Fichiers, InvFichier(t.f), EnvoyerStatut(t)
  PROVE  InvFichier(t.f)' /\ \A g \in Fichiers \ {t.f} : Epargne(g)
<1> DEFINE f == t.f
<1>1. Poursuit(t, {}) /\ t.genre = "envoi"
  BY DEF EnvoyerStatut, Poursuit
<1>2. \A g \in Fichiers : perturbes[g] \subseteq perturbes'[g]
  BY PerturberType DEF EnvoyerStatut, Pertes
<1>3. InvNaissance(f)' /\ ~EnMain(f, {"creation"})
  BY <1>1, NaissancePoursuit DEF InvFichier
<1>4. InvAnalyse(f)'
  BY <1>1 DEF EnvoyerStatut, Poursuit, Remplacer, InvFichier, InvAnalyse, EnMain,
              SansJob, Existe
<1>5. EnMain(f, {"retraitLigne", "destruction"})' <=> EnMain(f, {"retraitLigne", "destruction"})
  BY <1>1 DEF Poursuit, Remplacer, EnMain
<1>6. InvRetrait(f)'
  BY <1>2, <1>3, <1>5
  DEF EnvoyerStatut, InvFichier, InvRetrait, RetraitEnCours, Marquera,
      Telechargeable, Existe
<1>7. \A g \in Fichiers \ {f} : Epargne(g)
  BY <1>1, <1>2, EpargnePoursuit DEF EnvoyerStatut, TypeOK
<1> QED BY <1>3, <1>4, <1>6, <1>7 DEF InvFichier

(* The object, or the row, is removed.                                      *)
LEMMA RetirerEffet ==
  ASSUME TypeOK, NEW f \in Fichiers, NEW quoi \in {"objet", "ligne"}, Retirer(f, quoi)
  PROVE  /\ quoi = "objet" => objets' = objets \ {f} /\ lignes' = lignes
         /\ quoi = "ligne" => objets' = objets /\ ~Telechargeable(f)'
         /\ Existe(f)' <=> Existe(f)
         /\ Telechargeable(f)' => Telechargeable(f)
         /\ Existe(f) => lignes'[f].idAnalyse = lignes[f].idAnalyse
         /\ \A g \in Fichiers \ {f} : g \in objets' <=> g \in objets
         /\ \A g \in Fichiers \ {f} : lignes'[g] = lignes[g]
<1>1. CASE quoi = "objet"
  BY <1>1 DEF Retirer, SupprimerObjet, Existe, Telechargeable
<1>2. CASE quoi = "ligne"
  BY <1>2, MajLigneType DEF Retirer, TypeOK, Existe, Telechargeable
<1> QED BY <1>1, <1>2

LEMMA InvRetirerFichier ==
  ASSUME TypeOK, NEW t \in taches, t.f \in Fichiers, InvFichier(t.f), RetirerFichier(t)
  PROVE  InvFichier(t.f)' /\ \A g \in Fichiers \ {t.f} : Epargne(g)
<1> DEFINE f == t.f
           s == Pour("retraitLigne", f)
<1>1. s.f = f /\ s.genre = "retraitLigne"
  BY TacheType DEF Genres
<1>2. CASE t.genre = "retraitObjet"
  <2>1. Poursuit(t, {s}) /\ Retirer(f, "objet")
    BY <1>1, <1>2 DEF RetirerFichier, Poursuit, PremierRetrait
  <2> HIDE DEF s
  <2>2. /\ objets' = objets \ {f} /\ lignes' = lignes
        /\ \A g \in Fichiers \ {f} : g \in objets' <=> g \in objets
    BY <2>1, RetirerEffet
  <2>3. InvNaissance(f)'
    BY <2>1, NaissancePoursuit DEF InvFichier
  <2>4. InvAnalyse(f)'
    BY <1>1, <1>2, <2>1, <2>2
    DEF RetirerFichier, Poursuit, Remplacer, InvFichier, InvAnalyse, EnMain,
        SansJob, Existe, Amont
  <2>5. EnMain(f, {"retraitLigne", "destruction"})'
    BY <1>1, <2>1 DEF Poursuit, Remplacer, EnMain
  <2>6. InvRetrait(f)'
    BY <2>2, <2>5 DEF InvRetrait
  <2>7. \A g \in Fichiers \ {f} : Epargne(g)
    BY <2>1, <2>2, EpargnePoursuit DEF RetirerFichier, TypeOK
  <2> QED BY <2>3, <2>4, <2>6, <2>7 DEF InvFichier
<1>3. CASE t.genre = "retraitLigne"
  <2>1. Poursuit(t, {}) /\ Retirer(f, "ligne") /\ f \notin objets
    BY <1>3 DEF RetirerFichier, Poursuit, SecondRetrait, PremierRetrait, InvFichier,
                InvRetrait, RetraitEnCours, EnMain
  <2>2. /\ objets' = objets /\ ~Telechargeable(f)' /\ (Existe(f)' <=> Existe(f))
        /\ Existe(f) => lignes'[f].idAnalyse = lignes[f].idAnalyse
        /\ \A g \in Fichiers \ {f} : lignes'[g] = lignes[g]
    BY <2>1, RetirerEffet
  <2>3. InvNaissance(f)'
    BY <2>1, NaissancePoursuit DEF InvFichier
  <2>4. InvAnalyse(f)'
    BY <1>3, <2>1, <2>2
    DEF RetirerFichier, Poursuit, Remplacer, InvFichier, InvAnalyse, EnMain, SansJob
  <2>5. InvRetrait(f)'
    BY <2>1, <2>2 DEF InvRetrait
  <2>6. \A g \in Fichiers \ {f} : Epargne(g)
    BY <2>1, <2>2, EpargnePoursuit DEF RetirerFichier, TypeOK
  <2> QED BY <2>3, <2>4, <2>5, <2>6 DEF InvFichier
<1> QED BY <1>2, <1>3 DEF RetirerFichier

(* A task that fails is lost, and so is everything when the process stops;  *)
(* the history says what that costs.                                        *)
LEMMA InvEchecTache ==
  ASSUME TypeOK, NEW t \in taches, t.f \in Fichiers, InvFichier(t.f), EchecTache(t)
  PROVE  InvFichier(t.f)' /\ \A g \in Fichiers \ {t.f} : Epargne(g)
<1> DEFINE f == t.f
<1>1. Poursuit(t, {})
  BY DEF EchecTache, Poursuit
<1>2. /\ \A g \in Fichiers : perturbes[g] \subseteq perturbes'[g]
      /\ Perte(t.genre) \subseteq perturbes'[f]
  BY PerturberType, PerteType DEF EchecTache
<1>3. t.genre \in {"creation", "retraitLigne", "destruction"} =>
        "stockage" \in perturbes'[f]
  BY <1>2 DEF Perte
<1>4. InvNaissance(f)'
  BY <1>1, NaissancePoursuit DEF InvFichier
<1>5. InvAnalyse(f)'
  BY <1>1 DEF EchecTache, Poursuit, Remplacer, InvFichier, InvAnalyse, EnMain,
              SansJob, Existe
<1>6. \A genres : EnMain(f, genres) /\ ~EnMain(f, genres)' => t.genre \in genres
  BY <1>1 DEF Poursuit, Remplacer, EnMain
<1>7. \A genres : EnMain(f, genres)' => EnMain(f, genres)
  BY <1>1 DEF Poursuit, Remplacer, EnMain
<1>8. InvRetrait(f)'
  BY <1>2, <1>3, <1>6, <1>7
  DEF EchecTache, InvFichier, InvRetrait, RetraitEnCours, Marquera, Telechargeable,
      Existe
<1>9. \A g \in Fichiers \ {f} : Epargne(g)
  BY <1>1, <1>2, EpargnePoursuit DEF EchecTache, TypeOK
<1> QED BY <1>4, <1>5, <1>8, <1>9 DEF InvFichier

LEMMA InvArretWeb ==
  ASSUME TypeOK, NEW f \in Fichiers, InvFichier(f), ArretWeb
  PROVE  InvFichier(f)'
<1>1. /\ perturbes[f] \subseteq perturbes'[f]
      /\ \A t \in taches : t.f = f => Perte(t.genre) \subseteq perturbes'[f]
  BY DEF ArretWeb, TypeOK
<1>2. EnMain(f, {"creation", "retraitLigne", "destruction"}) =>
        "stockage" \in perturbes'[f]
  BY <1>1 DEF EnMain, Perte
<1>3. \A genres : ~EnMain(f, genres)'
  BY DEF ArretWeb, EnMain
<1>4. InvNaissance(f)' /\ InvAnalyse(f)'
  BY <1>3 DEF ArretWeb, InvFichier, InvNaissance, InvAnalyse, SansJob, Existe
<1>5. InvRetrait(f)'
  BY <1>1, <1>2, <1>3
  DEF ArretWeb, InvFichier, InvRetrait, RetraitEnCours, EnMain, Marquera,
      Telechargeable, Existe
<1> QED BY <1>4, <1>5 DEF InvFichier

-----------------------------------------------------------------------------
(* Jobs                                                                     *)

(* A job replaced by others of its file                                     *)
PoursuitJob(j, js) ==
  /\ j \in jobs /\ jobs' = (jobs \ {j}) \cup js
  /\ \A k \in js :
       /\ k.f = j.f
       /\ k.etape = "verdict" => analyses[j.f] \in Verdicts
       /\ k.etape \in {"retraitObjet", "retraitLigne"} =>
            analyses[j.f] = "FICHIER_MALVEILLANT"
  /\ UNCHANGED <<televerses, anciens, taches, analyses, menage>>

LEMMA JobPoursuit ==
  ASSUME NEW j, NEW js, PoursuitJob(j, js), InvFichier(j.f),
         Existe(j.f)' <=> Existe(j.f),
         Existe(j.f) => lignes'[j.f].idAnalyse = lignes[j.f].idAnalyse
  PROVE  /\ InvNaissance(j.f)' /\ InvAnalyse(j.f)' /\ ~EnMain(j.f, {"creation"})
         /\ \A genres : EnMain(j.f, genres)' <=> EnMain(j.f, genres)
<1> DEFINE f == j.f
<1>1. /\ ~SansJob(f) /\ f \in televerses
      /\ ~EnMain(f, {"creation"}) /\ ~EnMain(f, Amont)
      /\ Existe(f) => lignes[f].idAnalyse
  BY DEF PoursuitJob, SansJob, InvFichier, InvNaissance, InvAnalyse
<1>2. \A genres : EnMain(f, genres)' <=> EnMain(f, genres)
  BY DEF PoursuitJob, EnMain
<1>3. InvNaissance(f)'
  BY <1>1, <1>2 DEF PoursuitJob, InvFichier, InvNaissance
<1>4. InvAnalyse(f)'
  BY <1>1, <1>2 DEF PoursuitJob, InvFichier, InvAnalyse
<1> QED BY <1>1, <1>2, <1>3, <1>4

LEMMA EpargneJob ==
  ASSUME NEW j, NEW js, PoursuitJob(j, js), NEW g, g # j.f,
         g \in objets' <=> g \in objets, lignes'[g] = lignes[g],
         perturbes[g] \subseteq perturbes'[g]
  PROVE  Epargne(g)
BY DEF Epargne, PoursuitJob

LEMMA AvancerPoursuit ==
  ASSUME TypeOK, NEW j \in jobs, NEW etape \in EtapesJob, Avancer(j, etape),
         UNCHANGED <<televerses, anciens, taches, analyses, menage>>,
         etape = "verdict" => analyses[j.f] \in Verdicts,
         etape \in {"retraitObjet", "retraitLigne"} =>
           analyses[j.f] = "FICHIER_MALVEILLANT"
  PROVE  \E k : /\ PoursuitJob(j, {k})
                /\ k.etape = etape /\ k.reprises = j.reprises /\ k.f = j.f
<1> DEFINE k == [j EXCEPT !.etape = etape]
<1>1. k.etape = etape /\ k.reprises = j.reprises /\ k.f = j.f
  BY DEF TypeOK, Job
<1>2. PoursuitJob(j, {k})
  BY <1>1 DEF PoursuitJob, Avancer
<1> QED BY <1>1, <1>2

LEMMA TerminerPoursuit ==
  ASSUME NEW j \in jobs, Terminer(j),
         UNCHANGED <<televerses, anciens, taches, analyses, menage>>
  PROVE  PoursuitJob(j, {})
BY DEF PoursuitJob, Terminer

(* The steps of a job that touch neither the object nor the row             *)
LEMMA InvJobNeutre ==
  ASSUME TypeOK, NEW j \in jobs, j.f \in Fichiers, InvFichier(j.f),
         NEW js, PoursuitJob(j, js), objets' = objets, lignes' = lignes,
         \A g \in Fichiers : perturbes[g] \subseteq perturbes'[g],
         \A k \in js : k.etape # "retraitLigne",
         (Telechargeable(j.f) /\ Marquera(j.f)) =>
           Marquera(j.f)' \/ "stockage" \in perturbes'[j.f]
  PROVE  InvFichier(j.f)' /\ \A g \in Fichiers \ {j.f} : Epargne(g)
<1> DEFINE f == j.f
<1>1. /\ Existe(f)' <=> Existe(f)
      /\ Telechargeable(f)' <=> Telechargeable(f)
  BY DEF Existe, Telechargeable
<1>2. /\ InvNaissance(f)' /\ InvAnalyse(f)' /\ ~EnMain(f, {"creation"})
      /\ \A genres : EnMain(f, genres)' <=> EnMain(f, genres)
  BY <1>1, JobPoursuit
<1>3. RetraitEnCours(f)' => RetraitEnCours(f)
  BY <1>2 DEF RetraitEnCours, PoursuitJob
<1>4. InvRetrait(f)'
  BY <1>1, <1>2, <1>3 DEF InvFichier, InvRetrait, PoursuitJob
<1>5. \A g \in Fichiers \ {f} : Epargne(g)
  BY EpargneJob
<1> QED BY <1>2, <1>4, <1>5 DEF InvFichier

LEMMA PerturbesGardees ==
  ASSUME TypeOK, UNCHANGED perturbes
  PROVE  \A g \in Fichiers : perturbes[g] \subseteq perturbes'[g]
OBVIOUS

(* A job that goes on towards the mark of a malicious file goes on.         *)
LEMMA MarqueraSuite ==
  ASSUME NEW j \in jobs, NEW k, PoursuitJob(j, {k}), k.f = j.f,
         (j.reprises = 1 /\ analyses[j.f] = "FICHIER_MALVEILLANT"
           /\ j.etape \in {"attente", "lu", "verdict", "retraitObjet"}) =>
             /\ k.reprises = 1
             /\ k.etape \in {"attente", "lu", "verdict", "retraitObjet"},
         j.etape # "retraitLigne"
  PROVE  Marquera(j.f) => Marquera(j.f)'
BY DEF PoursuitJob, Marquera

LEMMA InvLireFichier ==
  ASSUME TypeOK, NEW j \in jobs, j.f \in Fichiers, InvFichier(j.f), LireFichier(j)
  PROVE  InvFichier(j.f)' /\ \A g \in Fichiers \ {j.f} : Epargne(g)
<1> DEFINE f == j.f
<1>1. CASE Existe(f) /\ lignes[f].idAnalyse
  <2>1. PICK k : /\ PoursuitJob(j, {k})
                 /\ k.etape = "lu" /\ k.reprises = j.reprises /\ k.f = f
    BY <1>1, AvancerPoursuit DEF LireFichier, EtapesJob
  <2>2. Marquera(f) => Marquera(f)'
    BY <2>1, MarqueraSuite DEF LireFichier
  <2>3. \A m \in {k} : m.etape # "retraitLigne"
    BY <2>1
  <2> QED BY <2>1, <2>2, <2>3, InvJobNeutre, PerturbesGardees DEF LireFichier
<1>2. CASE ~(Existe(f) /\ lignes[f].idAnalyse)
  <2>1. PoursuitJob(j, {})
    BY <1>2, TerminerPoursuit DEF LireFichier
  <2>2. ~Telechargeable(f)
    BY <1>2 DEF InvFichier, InvAnalyse, SansJob, Telechargeable
  <2> QED BY <2>1, <2>2, InvJobNeutre, PerturbesGardees DEF LireFichier
<1> QED BY <1>1, <1>2

LEMMA InvInterroger ==
  ASSUME TypeOK, NEW j \in jobs, j.f \in Fichiers, InvFichier(j.f), Interroger(j)
  PROVE  InvFichier(j.f)' /\ \A g \in Fichiers \ {j.f} : Epargne(g)
<1> DEFINE f == j.f
<1>1. PICK k : /\ PoursuitJob(j, {k})
               /\ k.etape = SuiteDuResultat(analyses[f])
               /\ k.reprises = j.reprises /\ k.f = f
  <2> DEFINE etape == SuiteDuResultat(analyses[f])
  <2>1. /\ etape \in EtapesJob /\ etape \notin {"retraitObjet", "retraitLigne"}
        /\ etape = "verdict" => analyses[f] \in Verdicts
    BY DEF EtapesJob, SuiteDuResultat
  <2>2. /\ Avancer(j, etape)
        /\ UNCHANGED <<televerses, anciens, taches, analyses, menage>>
    BY DEF Interroger
  <2> HIDE DEF etape
  <2>3. \E k : /\ PoursuitJob(j, {k})
               /\ k.etape = etape /\ k.reprises = j.reprises /\ k.f = f
    BY <2>1, <2>2, AvancerPoursuit
  <2> QED BY <2>3 DEF etape
<1>2. Marquera(f) => Marquera(f)'
  BY <1>1, MarqueraSuite DEF Interroger, SuiteDuResultat, Verdicts
<1>3. \A m \in {k} : m.etape # "retraitLigne"
  BY <1>1 DEF SuiteDuResultat
<1> QED BY <1>1, <1>2, <1>3, InvJobNeutre, PerturbesGardees DEF Interroger

LEMMA InvReplanifierAnalyse ==
  ASSUME TypeOK, NEW j \in jobs, j.f \in Fichiers, InvFichier(j.f),
         ReplanifierAnalyse(j)
  PROVE  InvFichier(j.f)' /\ \A g \in Fichiers \ {j.f} : Epargne(g)
<1> DEFINE f == j.f
           n == NouveauJob(f)
           k == [j EXCEPT !.etape = "fait"]
<1>1. /\ n.f = f /\ n.etape = "attente" /\ k.f = f /\ k.etape = "fait"
      /\ jobs' = (jobs \ {j}) \cup {n, k}
  BY NouveauJobType DEF ReplanifierAnalyse, TypeOK, Job
<1> HIDE DEF n, k
<1>2. PoursuitJob(j, {n, k})
  BY <1>1 DEF PoursuitJob, ReplanifierAnalyse
<1>3. Marquera(f) => Marquera(f)'
  BY <1>1 DEF Marquera, ReplanifierAnalyse
<1>4. \A m \in {n, k} : m.etape # "retraitLigne"
  BY <1>1
<1> QED BY <1>2, <1>3, <1>4, InvJobNeutre, PerturbesGardees DEF ReplanifierAnalyse

LEMMA InvAnnoncerVerdict ==
  ASSUME TypeOK, NEW j \in jobs, j.f \in Fichiers, InvFichier(j.f),
         AnnoncerVerdict(j)
  PROVE  InvFichier(j.f)' /\ \A g \in Fichiers \ {j.f} : Epargne(g)
<1> DEFINE f == j.f
<1>1. PICK k : /\ PoursuitJob(j, {k})
               /\ k.etape = SuiteDuVerdict(analyses[f])
               /\ k.reprises = j.reprises /\ k.f = f
  <2> DEFINE etape == SuiteDuVerdict(analyses[f])
  <2>1. /\ etape \in EtapesJob /\ etape # "verdict"
        /\ etape \in {"retraitObjet", "retraitLigne"} =>
             analyses[f] = "FICHIER_MALVEILLANT"
    BY DEF EtapesJob, SuiteDuVerdict
  <2>2. /\ Avancer(j, etape)
        /\ UNCHANGED <<televerses, anciens, taches, analyses, menage>>
    BY DEF AnnoncerVerdict
  <2> HIDE DEF etape
  <2>3. \E k : /\ PoursuitJob(j, {k})
               /\ k.etape = etape /\ k.reprises = j.reprises /\ k.f = f
    BY <2>1, <2>2, AvancerPoursuit
  <2> QED BY <2>3 DEF etape
<1>2. Marquera(f) => Marquera(f)'
  BY <1>1, MarqueraSuite DEF AnnoncerVerdict, SuiteDuVerdict
<1>3. \A m \in {k} : m.etape # "retraitLigne"
  BY <1>1 DEF SuiteDuVerdict
<1>4. \A g \in Fichiers : perturbes[g] \subseteq perturbes'[g]
  BY PerturberType DEF AnnoncerVerdict, Pertes
<1> QED BY <1>1, <1>2, <1>3, <1>4, InvJobNeutre DEF AnnoncerVerdict

LEMMA InvRetirerMalveillant ==
  ASSUME TypeOK, NEW j \in jobs, j.f \in Fichiers, InvFichier(j.f),
         RetirerMalveillant(j)
  PROVE  InvFichier(j.f)' /\ \A g \in Fichiers \ {j.f} : Epargne(g)
<1> DEFINE f == j.f
<1>1. analyses[f] = "FICHIER_MALVEILLANT"
  BY DEF RetirerMalveillant, InvFichier, InvAnalyse
<1>2. CASE j.etape = "retraitObjet"
  <2>1. PICK k : /\ PoursuitJob(j, {k})
                 /\ k.etape = "retraitLigne" /\ k.f = f
    <3> DEFINE etape == "retraitLigne"
    <3>1. /\ Avancer(j, etape) /\ etape \in EtapesJob /\ etape # "verdict"
          /\ UNCHANGED <<televerses, anciens, taches, analyses, menage>>
      BY <1>2 DEF RetirerMalveillant, EtapesJob
    <3> HIDE DEF etape
    <3>2. /\ etape = "verdict" => analyses[j.f] \in Verdicts
          /\ etape \in {"retraitObjet", "retraitLigne"} =>
               analyses[j.f] = "FICHIER_MALVEILLANT"
      BY <1>1, <3>1
    <3>3. \E k : /\ PoursuitJob(j, {k})
                 /\ k.etape = etape /\ k.reprises = j.reprises /\ k.f = j.f
      BY <3>1, <3>2, AvancerPoursuit
    <3> QED BY <3>3 DEF etape
  <2>2. /\ objets' = objets \ {f} /\ lignes' = lignes
        /\ \A g \in Fichiers \ {f} : g \in objets' <=> g \in objets
    BY <1>2, RetirerEffet DEF RetirerMalveillant, PremierRetrait
  <2>3. InvNaissance(f)' /\ InvAnalyse(f)'
    BY <2>1, <2>2, JobPoursuit DEF Existe
  <2>4. Marquera(f)'
    BY <1>1, <2>1 DEF PoursuitJob, Marquera
  <2>5. InvRetrait(f)'
    BY <2>2, <2>4 DEF InvRetrait
  <2>6. \A g \in Fichiers \ {f} : Epargne(g)
    BY <2>1, <2>2, EpargneJob DEF RetirerMalveillant
  <2> QED BY <2>3, <2>5, <2>6 DEF InvFichier
<1>3. CASE j.etape = "retraitLigne"
  <2>1. PICK k : /\ PoursuitJob(j, {k})
                 /\ k.etape = "fait" /\ k.f = f
    <3>1. /\ Avancer(j, "fait") /\ "fait" \in EtapesJob
          /\ UNCHANGED <<televerses, anciens, taches, analyses, menage>>
      BY <1>3 DEF RetirerMalveillant, EtapesJob
    <3> QED BY <1>1, <3>1, AvancerPoursuit
  <2>2. /\ objets' = objets /\ ~Telechargeable(f)' /\ (Existe(f)' <=> Existe(f))
        /\ Existe(f) => lignes'[f].idAnalyse = lignes[f].idAnalyse
        /\ \A g \in Fichiers \ {f} : lignes'[g] = lignes[g]
    BY <1>3, RetirerEffet DEF RetirerMalveillant, SecondRetrait, PremierRetrait
  <2>3. InvNaissance(f)' /\ InvAnalyse(f)'
    BY <2>1, <2>2, JobPoursuit
  <2>4. f \notin objets
    BY <1>3 DEF InvFichier, InvRetrait, RetraitEnCours
  <2>5. InvRetrait(f)'
    BY <2>2, <2>4 DEF InvRetrait
  <2>6. \A g \in Fichiers \ {f} : Epargne(g)
    BY <2>1, <2>2, EpargneJob DEF RetirerMalveillant
  <2> QED BY <2>3, <2>5, <2>6 DEF InvFichier
<1> QED BY <1>2, <1>3 DEF RetirerMalveillant

LEMMA InvFinirJob ==
  ASSUME TypeOK, NEW j \in jobs, j.f \in Fichiers, InvFichier(j.f), FinirJob(j)
  PROVE  InvFichier(j.f)' /\ \A g \in Fichiers \ {j.f} : Epargne(g)
<1>1. PoursuitJob(j, {})
  BY TerminerPoursuit DEF FinirJob
<1>2. Marquera(j.f) => Marquera(j.f)'
  BY DEF FinirJob, Terminer, Marquera
<1> QED BY <1>1, <1>2, InvJobNeutre, PerturbesGardees DEF FinirJob

(* A job that is lost on the way is recorded, one that is given back starts *)
(* again and finds the same answer.                                         *)
LEMMA InvEchecJob ==
  ASSUME TypeOK, NEW j \in jobs, j.f \in Fichiers, InvFichier(j.f), EchecJob(j)
  PROVE  InvFichier(j.f)' /\ \A g \in Fichiers \ {j.f} : Epargne(g)
<1> DEFINE f == j.f
           quoi == IF j.etape \in {"retraitObjet", "retraitLigne"} \/ j.reprises = 1
                     THEN {"stockage", "message", "verdict"} ELSE {"verdict"}
<1>1. PoursuitJob(j, {})
  BY TerminerPoursuit DEF EchecJob
<1>2. /\ \A g \in Fichiers : perturbes[g] \subseteq perturbes'[g]
      /\ quoi \subseteq perturbes'[f]
  BY PerturberType DEF EchecJob, Pertes
<1>3. Marquera(f) => Marquera(f)' \/ "stockage" \in perturbes'[f]
  BY <1>2 DEF EchecJob, Terminer, Marquera
<1> QED BY <1>1, <1>2, <1>3, InvJobNeutre DEF EchecJob

LEMMA InvArretWorker ==
  ASSUME TypeOK, NEW j \in jobs, j.f \in Fichiers, InvFichier(j.f), ArretWorker(j)
  PROVE  InvFichier(j.f)' /\ \A g \in Fichiers \ {j.f} : Epargne(g)
<1> DEFINE f == j.f
<1>1. CASE j.reprises = 0
  <2> DEFINE k == [j EXCEPT !.etape = "attente", !.reprises = 1]
  <2>1. k.f = f /\ k.etape = "attente" /\ k.reprises = 1
    BY DEF TypeOK, Job
  <2>2. jobs' = (jobs \ {j}) \cup {k} /\ UNCHANGED perturbes
    BY <1>1 DEF ArretWorker
  <2> HIDE DEF k
  <2>3. PoursuitJob(j, {k})
    BY <2>1, <2>2 DEF PoursuitJob, ArretWorker
  <2>4. Marquera(f) => Marquera(f)'
    BY <2>1, <2>2 DEF Marquera, ArretWorker
  <2>5. \A m \in {k} : m.etape # "retraitLigne"
    BY <2>1
  <2> QED BY <2>2, <2>3, <2>4, <2>5, InvJobNeutre, PerturbesGardees DEF ArretWorker
<1>2. CASE j.reprises # 0
  <2>1. PoursuitJob(j, {})
    BY <1>2, TerminerPoursuit DEF ArretWorker
  <2>2. /\ \A g \in Fichiers : perturbes[g] \subseteq perturbes'[g]
        /\ "stockage" \in perturbes'[f]
    BY <1>2, PerturberType DEF ArretWorker, Pertes
  <2> QED BY <2>1, <2>2, InvJobNeutre DEF ArretWorker
<1> QED BY <1>1, <1>2

-----------------------------------------------------------------------------
(* The nightly job                                                          *)

LEMMA InvExpirer ==
  ASSUME TypeOK, InvMenage, NEW f \in Fichiers, InvFichier(f), Expirer(f)
  PROVE  InvFichier(f)' /\ \A g \in Fichiers \ {f} : Epargne(g)
<1>1. f \in EnCours /\ f \in menage.reste /\ f \in anciens
  BY DEF Expirer, EnCours, InvMenage
<1>2. f \in televerses /\ ~EnMain(f, {"creation"})
  BY <1>1 DEF TypeOK, InvFichier, InvNaissance
<1>3. UNCHANGED <<televerses, anciens, analyses, taches, jobs, perturbes>>
  BY DEF Expirer
<1>4. /\ Existe(f)' <=> Existe(f)
      /\ Existe(f) => lignes'[f].idAnalyse = lignes[f].idAnalyse
      /\ \A g \in Fichiers \ {f} : (g \in objets' <=> g \in objets)
                                   /\ lignes'[g] = lignes[g]
  <2>1. CASE Retirer(f, "objet") \/ Retirer(f, "ligne")
    BY <2>1, RetirerEffet
  <2>2. CASE UNCHANGED <<objets, lignes>>
    BY <2>2 DEF Existe
  <2> QED BY <2>1, <2>2 DEF Expirer, PremierRetrait, SecondRetrait
<1>5. InvNaissance(f)'
  BY <1>2, <1>3 DEF InvNaissance, EnMain
<1>6. InvAnalyse(f)'
  BY <1>3, <1>4 DEF InvFichier, InvAnalyse, EnMain, SansJob
<1>7. InvRetrait(f)'
  <2>1. CASE menage.etape = "objet"
    <3>1. Retirer(f, "objet")
      BY <2>1 DEF Expirer, PremierRetrait
    <3>2. objets' = objets \ {f}
      BY <3>1, RetirerEffet
    <3> QED BY <1>1, <1>3, <3>2 DEF InvRetrait
  <2>2. CASE menage.etape = "ligne"
    <3>1. Retirer(f, "ligne") /\ f \in menage.choix
      BY <1>1, <2>2 DEF Expirer, SecondRetrait, PremierRetrait, EnCours, InvMenage
    <3>2. objets' = objets /\ ~Telechargeable(f)' /\ f \notin objets
      BY <2>2, <3>1, RetirerEffet DEF InvFichier, InvRetrait, RetraitEnCours
    <3> QED BY <3>2 DEF InvRetrait
  <2>3. CASE menage.etape = "message"
    <3>1. menage' = [menage EXCEPT !.etape = "objet", !.choix = {}, !.reste = @ \ {f}]
          /\ UNCHANGED <<objets, lignes>>
      BY <2>3 DEF Expirer
    <3>2. menage'.etape = "objet"
      BY <3>1 DEF TypeOK, Menage
    <3> QED BY <1>3, <3>1, <3>2
      DEF InvFichier, InvRetrait, RetraitEnCours, EnMain, Marquera, Telechargeable, Existe
  <2> QED BY <2>1, <2>2, <2>3 DEF Expirer
<1>8. ASSUME NEW g \in Fichiers \ {f}, menage'.etape = "ligne", g \in menage'.choix
      PROVE  FALSE
  <2>1. menage \in Menage
    BY DEF TypeOK
  <2>2. CASE menage' = [menage EXCEPT !.etape = "ligne", !.choix = {f}]
    BY <1>8, <2>1, <2>2 DEF Menage
  <2>3. CASE menage' = [menage EXCEPT !.etape = "message"]
    BY <1>8, <2>1, <2>3 DEF Menage
  <2>4. CASE menage' = [menage EXCEPT !.etape = "objet", !.choix = {}, !.reste = @ \ {f}]
    BY <1>8, <2>1, <2>4 DEF Menage
  <2> QED BY <2>2, <2>3, <2>4 DEF Expirer
<1>9. \A g \in Fichiers \ {f} : Epargne(g)
  BY <1>3, <1>4, <1>8 DEF Epargne
<1> QED BY <1>5, <1>6, <1>7, <1>9 DEF InvFichier

LEMMA InvAutresMenage ==
  ASSUME TypeOK, NEW g \in Fichiers,
         \/ \E f \in Fichiers : EchecExpiration(f)
         \/ LancerMenage \/ FinirMenage \/ ArretMenage
  PROVE  Epargne(g)
<1>1. menage'.etape = "objet"
  <2>1. MenageFini \in Menage /\ MenageFini.etape = "objet"
    BY DEF MenageFini, Menage
  <2>2. CASE menage' = MenageFini
    BY <2>1, <2>2
  <2>3. CASE LancerMenage
    BY <2>1, <2>3 DEF LancerMenage, Menage
  <2>4. CASE \E f \in Fichiers : EchecExpiration(f)
    BY <2>4 DEF EchecExpiration, TypeOK, Menage
  <2> QED BY <2>2, <2>3, <2>4 DEF FinirMenage, ArretMenage
<1>2. perturbes[g] \subseteq perturbes'[g]
  BY PerturberType DEF EchecExpiration, LancerMenage, FinirMenage, ArretMenage, Pertes
<1>3. UNCHANGED <<televerses, objets, lignes, anciens, analyses, taches, jobs>>
  BY DEF EchecExpiration, LancerMenage, FinirMenage, ArretMenage
<1> QED BY <1>1, <1>2, <1>3 DEF Epargne

-----------------------------------------------------------------------------
(* The invariant                                                            *)

LEMMA InvInit == Init => Inv
<1> SUFFICES ASSUME Init PROVE Inv
  OBVIOUS
<1>1. InvMenage
  BY DEF Init, InvMenage, MenageFini
<1>2. ASSUME NEW f \in Fichiers
      PROVE  InvNaissance(f) /\ InvAnalyse(f) /\ InvRetrait(f)
  BY AbsenteAssumption
  DEF Init, InvNaissance, InvAnalyse, InvRetrait, EnMain, SansJob, Existe,
      Telechargeable, RetraitEnCours, MenageFini
<1> QED BY <1>1, <1>2, TypeInit DEF Inv

LEMMA InvNext == Inv /\ [Next]_vars => Inv'
<1> SUFFICES ASSUME Inv, [Next]_vars PROVE Inv'
  OBVIOUS
<1>1. TypeOK /\ InvMenage /\ \A f \in Fichiers : InvFichier(f)
  BY DEF Inv, InvFichier
<1>2. /\ \A j \in jobs : j.f \in Fichiers
      /\ \A t \in taches : t.f \in Fichiers
  BY <1>1 DEF TypeOK, Job, Tache
<1>3. ASSUME NEW f \in Fichiers, InvFichier(f)', \A g \in Fichiers \ {f} : Epargne(g)
      PROVE  \A g \in Fichiers : InvFichier(g)'
  BY <1>1, <1>3, InvEpargne
<1>4. \A f \in Fichiers : InvFichier(f)'
  <2>1. ASSUME NEW f \in Fichiers,
               Televerser(f) \/ DemanderSuppression(f) \/ Expirer(f)
                 \/ Vieillir(f) \/ Analyser(f)
        PROVE  \A g \in Fichiers : InvFichier(g)'
    BY <1>1, <1>3, <2>1, InvTeleverser, InvDemanderSuppression, InvExpirer, InvDehors
  <2>2. ASSUME NEW t \in taches, ExecuterTache(t) \/ EchecTache(t)
        PROVE  \A g \in Fichiers : InvFichier(g)'
    BY <1>1, <1>2, <1>3, <2>2, InvEnregistrerFichier, InvDetruire, InvSoumettre,
       InvMajAnalyse, InvPlanifier, InvEnvoyerStatut, InvRetirerFichier, InvEchecTache
    DEF ExecuterTache
  <2>3. ASSUME NEW j \in jobs, ExecuterJob(j) \/ EchecJob(j) \/ ArretWorker(j)
        PROVE  \A g \in Fichiers : InvFichier(g)'
    BY <1>1, <1>2, <1>3, <2>3, InvLireFichier, InvInterroger, InvReplanifierAnalyse,
       InvAnnoncerVerdict, InvRetirerMalveillant, InvFinirJob, InvEchecJob,
       InvArretWorker
    DEF ExecuterJob
  <2>4. CASE ArretWeb
    BY <1>1, <2>4, InvArretWeb
  <2>5. CASE \/ \E f \in Fichiers : EchecExpiration(f)
             \/ LancerMenage \/ FinirMenage \/ ArretMenage
    BY <1>1, <2>5, InvAutresMenage, InvEpargne
  <2>6. CASE UNCHANGED vars
    <3>1. \A g \in Fichiers : Epargne(g)
      BY <2>6 DEF vars, Epargne
    <3> QED BY <1>1, <3>1, InvEpargne
  <2> QED BY <2>1, <2>2, <2>3, <2>4, <2>5, <2>6 DEF Next
<1> QED BY <1>4, TypeNext DEF Inv, InvFichier

(* The stores, the messages and what the processes have in hand keep their  *)
(* types, and the status of a counsellor's file is never shown.             *)
THEOREM Typage == Spec => []TypeOK
<1>1. Inv => TypeOK
  BY DEF Inv
<1> QED BY <1>1, InvInit, InvNext, PTL DEF Spec

(* Once nothing is in hand about a file, the object is in S3 exactly when   *)
(* the row says that it may be downloaded, however uploads, deletions,      *)
(* analyses, expiries, failures and stops of the processes overlapped;      *)
(* unless a failure was recorded between the two stores, or the nightly job *)
(* will take the file again.                                                *)
THEOREM StockageToujours == Spec => []StockageFidele
<1>1. Inv => StockageFidele
  <2> SUFFICES ASSUME Inv, NEW f \in Fichiers, Calme(f),
                      "stockage" \notin perturbes[f]
               PROVE  (f \in objets <=> Telechargeable(f)) \/ f \in FichiersBefore
    BY DEF StockageFidele
  <2>1. InvRetrait(f)
    BY DEF Inv
  <2>2. (\A genres : ~EnMain(f, genres)) /\ ~Marquera(f)
    BY DEF Calme, EnMain, Marquera
  <2> QED BY <2>1, <2>2 DEF InvRetrait, FichiersBefore
<1> QED BY <1>1, InvInit, InvNext, PTL DEF Spec

-----------------------------------------------------------------------------
(* The verdict is always on its way                                         *)

(* A task that submits the file, a job that will ask for the verdict, or    *)
(* the error that is about to be shown                                      *)
Suivie(f) ==
  \/ EnMain(f, Amont)
  \/ \E t \in taches : t.f = f /\ t.genre = "envoi" /\ t.statut = "ERREUR_ANALYSE"
  \/ \E j \in jobs : j.f = f /\ j.etape \in {"attente", "lu", "replanifier", "verdict"}

Lese(f) == {"verdict", "message"} \cap perturbes[f] # {}

InvSuivi(f) ==
  (Telechargeable(f) /\ messages[f] \notin Definitifs /\ ~Lese(f)) => Suivie(f)

(* What a step must keep                                                    *)
LEMMA SuiviGarde ==
  ASSUME NEW f, InvSuivi(f),
         Telechargeable(f)' => Telechargeable(f),
         perturbes[f] \subseteq perturbes'[f],
         messages[f] \in Definitifs => messages'[f] \in Definitifs \/ Lese(f)',
         Suivie(f) => Suivie(f)' \/ messages'[f] \in Definitifs \/ Lese(f)'
  PROVE  InvSuivi(f)'
BY DEF InvSuivi, Lese

LEMMA SuiviEpargne ==
  ASSUME NEW f, InvSuivi(f), Epargne(f), messages'[f] = messages[f]
  PROVE  InvSuivi(f)'
<1>1. Suivie(f)' <=> Suivie(f)
  BY EnMainEpargne DEF Epargne, Suivie
<1> QED BY <1>1, EnMainEpargne, SuiviGarde DEF Epargne

LEMMA AfficherEffet ==
  ASSUME TypeOK, NEW f \in Fichiers, NEW statut, Afficher(f, statut)
  PROVE  /\ f \in PiecesJeunes => messages'[f] = statut
         /\ \A g \in Fichiers \ {f} : messages'[g] = messages[g]
BY DEF TypeOK, Afficher

(* The steps that only add to what is in hand, or change the row            *)
LEMMA SuiviCommandes ==
  ASSUME Inv, NEW f \in PiecesJeunes, f \in Fichiers, InvSuivi(f),
         Televerser(f) \/ DemanderSuppression(f) \/ Vieillir(f) \/ Analyser(f)
  PROVE  InvSuivi(f)'
<1>1. /\ taches \subseteq taches' /\ jobs' = jobs /\ perturbes' = perturbes
      /\ messages' = messages /\ lignes' = lignes
  BY DEF Televerser, DemanderSuppression, Vieillir, Analyser
<1>2. Suivie(f) => Suivie(f)'
  BY <1>1 DEF Suivie, EnMain
<1> QED BY <1>1, <1>2, SuiviGarde DEF Telechargeable, Existe

LEMMA SuiviTaches ==
  ASSUME Inv, NEW t \in taches, t.f \in PiecesJeunes, InvSuivi(t.f), ExecuterTache(t)
  PROVE  InvSuivi(t.f)'
<1> DEFINE f == t.f
<1>1. TypeOK /\ f \in Fichiers /\ InvFichier(f) /\ t \in Tache
  BY ConstantsAssumption DEF Inv, InvFichier, TypeOK
<1>2. /\ \A genre \in Genres : Pour(genre, f).f = f /\ Pour(genre, f).genre = genre
      /\ \A statut \in Statuts : /\ Envoi(f, statut).f = f
                                 /\ Envoi(f, statut).genre = "envoi"
                                 /\ Envoi(f, statut).statut = statut
  <2>1. ASSUME NEW statut \in Statuts PROVE Envoi(f, statut).statut = statut
    <3>1. Pour("envoi", f) \in Tache
      BY <1>1, TacheType DEF Genres
    <3> QED BY <3>1 DEF Envoi, Tache
  <2> QED BY <1>1, <2>1, TacheType
<1>3. CASE EnregistrerFichier(t)
  <2>1. Pour("soumission", f) \in taches'
    BY <1>3 DEF EnregistrerFichier, Remplacer
  <2>2. Suivie(f)'
    BY <1>2, <2>1 DEF Suivie, EnMain, Amont, Genres
  <2> QED BY <2>2 DEF InvSuivi
<1>4. CASE Detruire(t)
  <2>1. ~Telechargeable(f)'
    BY <1>1, <1>4 DEF Detruire, TypeOK, Telechargeable, Existe
  <2> QED BY <2>1 DEF InvSuivi
<1>5. ASSUME Remplacer(t, Abandon(f))
      PROVE  Suivie(f)'
  <2>1. Envoi(f, "ERREUR_ANALYSE") \in taches'
    BY <1>5 DEF Remplacer, Abandon
  <2> QED BY <1>2, <2>1 DEF Suivie, Statuts, Definitifs
<1>6. CASE Soumettre(t)
  <2>1. CASE Remplacer(t, {Pour("maj", f)})
    <3>1. Pour("maj", f) \in taches'
      BY <2>1 DEF Remplacer
    <3>2. Suivie(f)'
      BY <1>2, <3>1 DEF Suivie, EnMain, Amont, Genres
    <3> QED BY <3>2 DEF InvSuivi
  <2>2. CASE Remplacer(t, {[t EXCEPT !.essais = @ + 1]})
    <3> DEFINE u == [t EXCEPT !.essais = @ + 1]
    <3>1. u \in taches' /\ u.f = f /\ u.genre = "soumission"
      BY <1>1, <1>6, <2>2 DEF Remplacer, Tache, Soumettre
    <3>2. Suivie(f)'
      BY <3>1 DEF Suivie, EnMain, Amont
    <3> QED BY <3>2 DEF InvSuivi
  <2>3. CASE Remplacer(t, Abandon(f))
    BY <1>5, <2>3 DEF InvSuivi
  <2> QED BY <1>6, <2>1, <2>2, <2>3 DEF Soumettre
<1>7. CASE MajAnalyse(t)
  <2>1. CASE Remplacer(t, {Envoi(f, "ANALYSE_EN_COURS"), Pour("planification", f)})
    <3>1. Pour("planification", f) \in taches'
      BY <2>1 DEF Remplacer
    <3>2. Suivie(f)'
      BY <1>2, <3>1 DEF Suivie, EnMain, Amont, Genres
    <3> QED BY <3>2 DEF InvSuivi
  <2>2. CASE Remplacer(t, Abandon(f))
    BY <1>5, <2>2 DEF InvSuivi
  <2> QED BY <1>7, <2>1, <2>2 DEF MajAnalyse
<1>8. CASE Planifier(t)
  <2>1. /\ NouveauJob(f) \in jobs' /\ NouveauJob(f).f = f
        /\ NouveauJob(f).etape = "attente"
    BY <1>1, <1>8, NouveauJobType DEF Planifier
  <2>2. Suivie(f)'
    BY <2>1 DEF Suivie
  <2> QED BY <2>2 DEF InvSuivi
<1>9. CASE EnvoyerStatut(t)
  <2>1. /\ perturbes[f] \subseteq perturbes'[f]
        /\ messages[f] \in Definitifs => Lese(f)'
    <3>1. Perturber({g \in {f} : messages[g] \in Definitifs}, {"message"})
      BY <1>9 DEF EnvoyerStatut
    <3> QED BY <1>1, <3>1, PerturberType DEF Pertes, Lese
  <2>2. messages'[f] = t.statut
    BY <1>1, <1>9, AfficherEffet DEF EnvoyerStatut
  <2>3. t.statut = "ERREUR_ANALYSE" => messages'[f] \in Definitifs
    BY <2>2 DEF Definitifs
  <2>4. Suivie(f) => Suivie(f)' \/ messages'[f] \in Definitifs
    BY <1>9, <2>3 DEF EnvoyerStatut, Remplacer, Suivie, EnMain, Amont
  <2>5. Telechargeable(f)' <=> Telechargeable(f)
    BY <1>9 DEF EnvoyerStatut, Telechargeable, Existe
  <2> QED BY <2>1, <2>4, <2>5, SuiviGarde
<1>10. CASE RetirerFichier(t)
  <2>1. Telechargeable(f)' => Telechargeable(f)
    BY <1>1, <1>10, RetirerEffet DEF RetirerFichier, PremierRetrait, SecondRetrait
  <2>2. Suivie(f) => Suivie(f)'
    BY <1>10 DEF RetirerFichier, Remplacer, Suivie, EnMain, Amont
  <2> QED BY <1>10, <2>1, <2>2, SuiviGarde DEF RetirerFichier
<1> QED BY <1>3, <1>4, <1>6, <1>7, <1>8, <1>9, <1>10 DEF ExecuterTache

LEMMA SuiviEchecTache ==
  ASSUME Inv, NEW t \in taches, t.f \in Fichiers, InvSuivi(t.f), EchecTache(t)
  PROVE  InvSuivi(t.f)'
<1> DEFINE f == t.f
<1>1. /\ perturbes[f] \subseteq perturbes'[f]
      /\ Perte(t.genre) \subseteq perturbes'[f]
  BY PerturberType, PerteType DEF EchecTache, Inv
<1>2. t.genre \in Amont \cup {"envoi"} => Lese(f)'
  BY <1>1 DEF Perte, Amont, Lese
<1>3. Suivie(f) => Suivie(f)' \/ Lese(f)'
  BY <1>2 DEF EchecTache, Remplacer, Suivie, EnMain
<1> QED BY <1>1, <1>3, SuiviGarde DEF EchecTache, Telechargeable, Existe

LEMMA SuiviArretWeb ==
  ASSUME Inv, NEW f \in Fichiers, InvSuivi(f), ArretWeb
  PROVE  InvSuivi(f)'
<1>1. /\ perturbes[f] \subseteq perturbes'[f]
      /\ \A t \in taches : t.f = f => Perte(t.genre) \subseteq perturbes'[f]
  BY DEF ArretWeb, Inv, TypeOK
<1>2. \A t \in taches : (t.f = f /\ t.genre \in Amont \cup {"envoi"}) => Lese(f)'
  BY <1>1 DEF Perte, Amont, Lese
<1>3. Suivie(f) => Suivie(f)' \/ Lese(f)'
  BY <1>2 DEF ArretWeb, Suivie, EnMain
<1> QED BY <1>1, <1>3, SuiviGarde DEF ArretWeb, Telechargeable, Existe

(* A job goes on until it has shown the verdict.                            *)
LEMMA SuiviJobs ==
  ASSUME Inv, NEW j \in jobs, j.f \in PiecesJeunes, InvSuivi(j.f), ExecuterJob(j)
  PROVE  InvSuivi(j.f)'
<1> DEFINE f == j.f
           Actifs == {"attente", "lu", "replanifier", "verdict"}
<1>1. TypeOK /\ f \in Fichiers /\ InvFichier(f) /\ j \in Job
  BY ConstantsAssumption DEF Inv, InvFichier, TypeOK
<1>2. ASSUME NEW etape \in Actifs, Avancer(j, etape)
      PROVE  Suivie(f)'
  <2> DEFINE k == [j EXCEPT !.etape = etape]
  <2>1. k \in jobs' /\ k.f = f /\ k.etape \in Actifs
    BY <1>1, <1>2 DEF Avancer, Job
  <2> HIDE DEF k
  <2> QED BY <2>1 DEF Suivie
<1>3. CASE LireFichier(j)
  <2>1. CASE Existe(f) /\ lignes[f].idAnalyse
    <3>1. Suivie(f)'
      BY <1>2, <1>3, <2>1 DEF LireFichier
    <3> QED BY <3>1 DEF InvSuivi
  <2>2. CASE ~(Existe(f) /\ lignes[f].idAnalyse)
    <3>1. ~Telechargeable(f) /\ lignes' = lignes
      BY <1>1, <1>3, <2>2
      DEF LireFichier, InvFichier, InvAnalyse, SansJob, Telechargeable
    <3>2. ~Telechargeable(f)'
      BY <3>1 DEF Telechargeable, Existe
    <3> QED BY <3>2 DEF InvSuivi
  <2> QED BY <2>1, <2>2
<1>4. CASE Interroger(j)
  <2>1. SuiteDuResultat(analyses[f]) \in Actifs
    BY DEF SuiteDuResultat
  <2>2. Suivie(f)'
    BY <1>2, <1>4, <2>1 DEF Interroger
  <2> QED BY <2>2 DEF InvSuivi
<1>5. CASE ReplanifierAnalyse(j)
  <2>1. /\ NouveauJob(f) \in jobs' /\ NouveauJob(f).f = f
        /\ NouveauJob(f).etape = "attente"
    BY <1>1, <1>5, NouveauJobType DEF ReplanifierAnalyse
  <2>2. Suivie(f)'
    BY <2>1 DEF Suivie
  <2> QED BY <2>2 DEF InvSuivi
<1>6. CASE AnnoncerVerdict(j)
  <2>1. analyses[f] \in Verdicts
    BY <1>1, <1>6 DEF AnnoncerVerdict, InvFichier, InvAnalyse
  <2>2. messages'[f] \in Definitifs
    BY <1>1, <1>6, <2>1, AfficherEffet DEF AnnoncerVerdict, Definitifs
  <2> QED BY <2>2 DEF InvSuivi
<1>7. ASSUME j.etape \notin Actifs, jobs \ {j} \subseteq jobs', taches' = taches
      PROVE  Suivie(f) => Suivie(f)'
  BY <1>7 DEF Suivie, EnMain
<1>8. CASE RetirerMalveillant(j)
  <2>1. Telechargeable(f)' => Telechargeable(f)
    BY <1>1, <1>8, RetirerEffet DEF RetirerMalveillant, PremierRetrait, SecondRetrait
  <2>2. Suivie(f) => Suivie(f)'
    BY <1>7, <1>8 DEF RetirerMalveillant, Avancer
  <2> QED BY <1>8, <2>1, <2>2, SuiviGarde DEF RetirerMalveillant
<1>9. CASE FinirJob(j)
  <2>1. Suivie(f) => Suivie(f)'
    BY <1>7, <1>9 DEF FinirJob, Terminer
  <2> QED BY <1>9, <2>1, SuiviGarde DEF FinirJob, Telechargeable, Existe
<1> QED BY <1>3, <1>4, <1>5, <1>6, <1>8, <1>9 DEF ExecuterJob

LEMMA SuiviPannesJob ==
  ASSUME Inv, NEW j \in jobs, j.f \in Fichiers, InvSuivi(j.f),
         EchecJob(j) \/ ArretWorker(j)
  PROVE  InvSuivi(j.f)'
<1> DEFINE f == j.f
<1>1. UNCHANGED <<messages, lignes, taches>>
  BY DEF EchecJob, ArretWorker
<1>2. ASSUME NEW quoi \in {{"verdict"}, {"stockage", "message", "verdict"}},
             Perturber({f}, quoi)
      PROVE  perturbes[f] \subseteq perturbes'[f] /\ Lese(f)'
  BY <1>2, PerturberType DEF Pertes, Lese, Inv
<1>3. CASE Perturber({f}, {"verdict"})
           \/ Perturber({f}, {"stockage", "message", "verdict"})
  BY <1>2, <1>3 DEF InvSuivi
<1>4. CASE ArretWorker(j) /\ j.reprises = 0
  <2> DEFINE k == [j EXCEPT !.etape = "attente", !.reprises = 1]
  <2>1. k \in jobs' /\ k.f = f /\ k.etape = "attente"
    BY <1>4 DEF ArretWorker, Inv, TypeOK, Job
  <2> HIDE DEF k
  <2>2. Suivie(f)'
    BY <2>1 DEF Suivie
  <2> QED BY <2>2 DEF InvSuivi
<1> QED BY <1>3, <1>4 DEF EchecJob, ArretWorker

(* What is expired stays expired, and its message says so.                  *)
LEMMA SuiviMenage ==
  ASSUME Inv, NEW f \in PiecesJeunes, f \in Fichiers, InvSuivi(f), Expirer(f)
  PROVE  InvSuivi(f)'
<1>1. UNCHANGED <<taches, jobs, perturbes>> /\ TypeOK
  BY DEF Expirer, Inv
<1>2. CASE Afficher(f, "FICHIER_EXPIRE")
  <2>1. messages'[f] \in Definitifs
    BY <1>1, <1>2, AfficherEffet DEF Definitifs
  <2> QED BY <2>1 DEF InvSuivi
<1>3. CASE (Retirer(f, "objet") \/ Retirer(f, "ligne")) /\ UNCHANGED messages
  <2>1. Telechargeable(f)' => Telechargeable(f)
    BY <1>1, <1>3, RetirerEffet
  <2>2. Suivie(f) => Suivie(f)'
    BY <1>1 DEF Suivie, EnMain
  <2> QED BY <1>1, <1>3, <2>1, <2>2, SuiviGarde
<1> QED BY <1>2, <1>3 DEF Expirer, PremierRetrait, SecondRetrait

(* The steps about another file                                             *)
LEMMA AutreFichierEpargne ==
  ASSUME Inv, NEW f \in Fichiers, NEW g \in Fichiers \ {f},
         \/ Televerser(g) \/ DemanderSuppression(g) \/ Expirer(g)
         \/ Vieillir(g) \/ Analyser(g)
         \/ \E t \in taches : t.f = g /\ (ExecuterTache(t) \/ EchecTache(t))
         \/ \E j \in jobs : j.f = g /\ (ExecuterJob(j) \/ EchecJob(j) \/ ArretWorker(j))
  PROVE  Epargne(f) /\ messages'[f] = messages[f]
<1>1. TypeOK /\ InvMenage /\ InvFichier(g)
  BY DEF Inv, InvFichier
<1>2. Epargne(f)
  <2>1. CASE Televerser(g) \/ DemanderSuppression(g) \/ Expirer(g)
               \/ Vieillir(g) \/ Analyser(g)
    BY <1>1, <2>1, InvTeleverser, InvDemanderSuppression, InvExpirer, InvDehors
  <2>2. CASE \E t \in taches : t.f = g /\ (ExecuterTache(t) \/ EchecTache(t))
    BY <1>1, <2>2, InvEnregistrerFichier, InvDetruire, InvSoumettre,
       InvMajAnalyse, InvPlanifier, InvEnvoyerStatut, InvRetirerFichier, InvEchecTache
    DEF ExecuterTache
  <2>3. CASE \E j \in jobs :
               j.f = g /\ (ExecuterJob(j) \/ EchecJob(j) \/ ArretWorker(j))
    BY <1>1, <2>3, InvLireFichier, InvInterroger, InvReplanifierAnalyse,
       InvAnnoncerVerdict, InvRetirerMalveillant, InvFinirJob, InvEchecJob,
       InvArretWorker
    DEF ExecuterJob
  <2> QED BY <2>1, <2>2, <2>3
<1>3. messages'[f] = messages[f]
  <2>1. CASE Televerser(g) \/ DemanderSuppression(g) \/ Expirer(g)
               \/ Vieillir(g) \/ Analyser(g)
    BY <1>1, <2>1, AfficherEffet
    DEF Televerser, DemanderSuppression, Expirer, Vieillir, Analyser
  <2>2. CASE \E t \in taches : t.f = g /\ (ExecuterTache(t) \/ EchecTache(t))
    BY <1>1, <2>2, AfficherEffet
    DEF ExecuterTache, EnregistrerFichier, Detruire, Soumettre, MajAnalyse,
        Planifier, EnvoyerStatut, RetirerFichier, EchecTache
  <2>3. CASE \E j \in jobs :
               j.f = g /\ (ExecuterJob(j) \/ EchecJob(j) \/ ArretWorker(j))
    BY <1>1, <2>3, AfficherEffet
    DEF ExecuterJob, LireFichier, Interroger, ReplanifierAnalyse, AnnoncerVerdict,
        RetirerMalveillant, FinirJob, EchecJob, ArretWorker
  <2> QED BY <2>1, <2>2, <2>3
<1> QED BY <1>2, <1>3

LEMMA SuiviAutreFichier ==
  ASSUME Inv, NEW f \in Fichiers, InvSuivi(f), NEW g \in Fichiers \ {f},
         \/ Televerser(g) \/ DemanderSuppression(g) \/ Expirer(g)
         \/ Vieillir(g) \/ Analyser(g)
         \/ \E t \in taches : t.f = g /\ (ExecuterTache(t) \/ EchecTache(t))
         \/ \E j \in jobs : j.f = g /\ (ExecuterJob(j) \/ EchecJob(j) \/ ArretWorker(j))
  PROVE  InvSuivi(f)'
BY AutreFichierEpargne, SuiviEpargne

InvSuivis == \A f \in PiecesJeunes : InvSuivi(f)

LEMMA SuiviNext == Inv /\ InvSuivis /\ [Next]_vars => InvSuivis'
<1> SUFFICES ASSUME Inv, InvSuivis, [Next]_vars, NEW f \in PiecesJeunes
             PROVE  InvSuivi(f)'
  BY DEF InvSuivis
<1>1. /\ InvSuivi(f) /\ f \in Fichiers
      /\ \A t \in taches : t.f \in Fichiers
      /\ \A j \in jobs : j.f \in Fichiers
  BY ConstantsAssumption DEF InvSuivis, Inv, TypeOK, Job, Tache
<1>2. ASSUME NEW g \in Fichiers,
             Televerser(g) \/ DemanderSuppression(g) \/ Expirer(g)
               \/ Vieillir(g) \/ Analyser(g)
      PROVE  InvSuivi(f)'
  BY <1>1, <1>2, SuiviCommandes, SuiviMenage, SuiviAutreFichier
<1>3. ASSUME NEW t \in taches, ExecuterTache(t) \/ EchecTache(t)
      PROVE  InvSuivi(f)'
  BY <1>1, <1>3, SuiviTaches, SuiviEchecTache, SuiviAutreFichier
<1>4. ASSUME NEW j \in jobs, ExecuterJob(j) \/ EchecJob(j) \/ ArretWorker(j)
      PROVE  InvSuivi(f)'
  BY <1>1, <1>4, SuiviJobs, SuiviPannesJob, SuiviAutreFichier
<1>5. CASE ArretWeb
  BY <1>1, <1>5, SuiviArretWeb
<1>6. CASE \/ \E g \in Fichiers : EchecExpiration(g)
           \/ LancerMenage \/ FinirMenage \/ ArretMenage
  <2>1. Epargne(f)
    BY <1>1, <1>6, InvAutresMenage DEF Inv
  <2>2. messages' = messages
    BY <1>6 DEF EchecExpiration, LancerMenage, FinirMenage, ArretMenage
  <2> QED BY <1>1, <2>1, <2>2, SuiviEpargne
<1>7. CASE UNCHANGED vars
  <2>1. Epargne(f) /\ messages' = messages
    BY <1>7 DEF vars, Epargne
  <2> QED BY <1>1, <2>1, SuiviEpargne
<1> QED BY <1>2, <1>3, <1>4, <1>5, <1>6, <1>7 DEF Next

(* A file of a young person that can be downloaded and has no verdict yet   *)
(* has something in hand that will give one, unless the web process stopped *)
(* or a call of the worker failed: a worker that stops does not lose it.    *)
THEOREM AnalyseToujoursSuivie == Spec => []AnalyseSuivie
<1>1. Init => InvSuivis
  BY ConstantsAssumption DEF Init, InvSuivis, InvSuivi, Telechargeable, Existe
<1>2. InvSuivis => AnalyseSuivie
  BY DEF InvSuivis, InvSuivi, AnalyseSuivie, Suivie, Lese, Calme, EnMain
<1> QED BY <1>1, <1>2, SuiviNext, InvInit, InvNext, PTL DEF Spec

-----------------------------------------------------------------------------
(* What the message says                                                    *)

Motifs == Definitifs \ {"FICHIER_SAIN"}
Retraits == {"retraitObjet", "retraitLigne"}

ErreurEnRoute(f) ==
  \E t \in taches : t.f = f /\ t.genre = "envoi" /\ t.statut = "ERREUR_ANALYSE"
ExpirationEnRoute(f) == menage.etape = "message" /\ f \in menage.choix
JobEnRetrait(f) == \E j \in jobs : j.f = f /\ j.etape \in Retraits
JobEnVie(f) == \E j \in jobs : j.f = f /\ j.etape # "fait"

(* The message says why the file is gone, or is about to.                   *)
Explique(f) == messages[f] \in Motifs \/ ErreurEnRoute(f)

(* A file whose analysis was given up is not analysed, and an old file is   *)
(* marked before its message says so.                                       *)
InvRoute(f) ==
  /\ EnMain(f, Retraits) => SansJob(f) /\ ~EnMain(f, Amont)
  /\ (ExpirationEnRoute(f) /\ Existe(f)) => ~Telechargeable(f)

(* A file is removed after its message said why, or will have; one that is  *)
(* there is said to be safe, or something is in hand that will tell.        *)
InvMots(f) ==
  /\ (EnMain(f, Retraits) \/ JobEnRetrait(f)) => Explique(f)
  /\ (Existe(f) /\ ~Telechargeable(f)) => Explique(f) \/ ExpirationEnRoute(f)
  /\ Telechargeable(f) => \/ EnMain(f, Amont \cup Retraits)
                          \/ JobEnVie(f)
                          \/ messages[f] = "FICHIER_SAIN"

InvDit(f) == InvRoute(f) /\ (~Lese(f) => InvMots(f))

(* One file is treated at a time, and none once the job is over.            *)
InvChoix ==
  /\ \A f, g \in menage.choix : f = g
  /\ ~menage.actif => menage.choix = {}

InvMessages == InvChoix /\ \A f \in PiecesJeunes : InvDit(f)

(* A step that leaves the file and its message alone                        *)
LEMMA DitEpargne ==
  ASSUME NEW f, InvDit(f), Epargne(f), messages'[f] = messages[f],
         ExpirationEnRoute(f)' => ExpirationEnRoute(f),
         ExpirationEnRoute(f) => ExpirationEnRoute(f)' \/ Lese(f)'
  PROVE  InvDit(f)'
<1>1. /\ \A genres : EnMain(f, genres)' <=> EnMain(f, genres)
      /\ SansJob(f)' <=> SansJob(f)
      /\ Existe(f)' <=> Existe(f)
      /\ Telechargeable(f)' <=> Telechargeable(f)
  BY EnMainEpargne
<1>2. /\ ErreurEnRoute(f)' <=> ErreurEnRoute(f)
      /\ JobEnRetrait(f)' <=> JobEnRetrait(f)
      /\ JobEnVie(f)' <=> JobEnVie(f)
  BY DEF Epargne, ErreurEnRoute, JobEnRetrait, JobEnVie
<1>3. Explique(f)' <=> Explique(f)
  BY <1>2 DEF Explique
<1>4. ~Lese(f)' => ~Lese(f)
  BY DEF Epargne, Lese
<1>5. EnMain(f, Retraits)' <=> EnMain(f, Retraits)
  BY <1>1
<1>6. /\ EnMain(f, Amont)' <=> EnMain(f, Amont)
      /\ EnMain(f, Amont \cup Retraits)' <=> EnMain(f, Amont \cup Retraits)
  BY <1>1
<1>7. InvRoute(f)'
  BY <1>1, <1>5, <1>6 DEF InvDit, InvRoute
<1>8. ~Lese(f)' => InvMots(f)'
  BY <1>1, <1>2, <1>3, <1>4, <1>5, <1>6 DEF InvDit, InvMots
<1> QED BY <1>7, <1>8 DEF InvDit

(* The commands, and what happens outside                                   *)
LEMMA DitCommandes ==
  ASSUME Inv, NEW f \in PiecesJeunes, f \in Fichiers, InvDit(f),
         Televerser(f) \/ DemanderSuppression(f) \/ Vieillir(f) \/ Analyser(f)
  PROVE  InvDit(f)'
<1>1. /\ jobs' = jobs /\ perturbes' = perturbes /\ messages' = messages
      /\ lignes' = lignes /\ menage' = menage
  BY DEF Televerser, DemanderSuppression, Vieillir, Analyser
<1>2. /\ taches \subseteq taches'
      /\ \A t \in taches' \ taches : t.genre \in {"creation", "destruction"}
  BY TacheType DEF Televerser, DemanderSuppression, Vieillir, Analyser, Genres
<1>3. /\ EnMain(f, Retraits)' <=> EnMain(f, Retraits)
      /\ EnMain(f, Amont)' <=> EnMain(f, Amont)
      /\ EnMain(f, Amont \cup Retraits)' <=> EnMain(f, Amont \cup Retraits)
      /\ ErreurEnRoute(f)' <=> ErreurEnRoute(f)
  BY <1>2 DEF EnMain, ErreurEnRoute, Amont, Retraits
<1>4. InvRoute(f)'
  BY <1>1, <1>3 DEF InvDit, InvRoute, SansJob, ExpirationEnRoute, Existe, Telechargeable
<1>5. ~Lese(f)' => InvMots(f)'
  BY <1>1, <1>3 DEF InvDit, InvMots, Lese, Explique, JobEnRetrait, JobEnVie,
                    ExpirationEnRoute, Existe, Telechargeable
<1> QED BY <1>4, <1>5 DEF InvDit

-----------------------------------------------------------------------------
(* Tasks                                                                    *)

LEMMA Choisis ==
  ASSUME Inv, NEW t \in taches
  PROVE  t.f \in Fichiers /\ t \in Tache /\ TypeOK /\ InvMenage /\ InvFichier(t.f)
BY DEF Inv, InvFichier, TypeOK, Tache

LEMMA DitEnregistrer ==
  ASSUME Inv, NEW t \in taches, t.f \in PiecesJeunes, InvDit(t.f), EnregistrerFichier(t)
  PROVE  InvDit(t.f)'
<1> DEFINE f == t.f
           s == Pour("soumission", f)
<1>1. f \in Fichiers /\ s.f = f /\ s.genre = "soumission"
  BY Choisis, TacheType DEF Genres
<1>2. taches' = (taches \ {t}) \cup {s}
  BY DEF EnregistrerFichier, Remplacer
<1>3. /\ \A u \in taches : u.f = f => u = t
      /\ SansJob(f) /\ f \notin menage.choix
  BY Choisis DEF EnregistrerFichier, InvFichier, InvNaissance, EnMain, InvMenage
<1> HIDE DEF s
<1>4. /\ \A u \in taches' : u.f = f => u = s
      /\ s \in taches' /\ jobs' = jobs /\ menage' = menage
  BY <1>2, <1>3 DEF EnregistrerFichier
<1>5. /\ ~EnMain(f, Retraits)' /\ EnMain(f, Amont \cup Retraits)'
      /\ ~JobEnRetrait(f)' /\ ~ExpirationEnRoute(f)'
  BY <1>1, <1>3, <1>4
  DEF EnMain, Retraits, Amont, JobEnRetrait, SansJob, ExpirationEnRoute
<1>6. Telechargeable(f)'
  <2>1. lignes'[f] = [supprime |-> FALSE, idAnalyse |-> FALSE]
    BY <1>1 DEF EnregistrerFichier, Inv, TypeOK
  <2>2. lignes'[f] \in Ligne /\ ~lignes'[f].supprime
    BY <2>1 DEF Ligne
  <2> QED BY <2>2, AbsenteAssumption DEF Telechargeable, Existe
<1>7. InvRoute(f)' /\ InvMots(f)'
  BY <1>5, <1>6 DEF InvRoute, InvMots
<1> QED BY <1>7 DEF InvDit

LEMMA DitDetruire ==
  ASSUME Inv, NEW t \in taches, t.f \in PiecesJeunes, InvDit(t.f), Detruire(t)
  PROVE  InvDit(t.f)'
<1> DEFINE f == t.f
<1>1. f \in Fichiers /\ TypeOK
  BY Choisis
<1>2. ~Existe(f)' /\ ~Telechargeable(f)'
  BY <1>1 DEF Detruire, TypeOK, Existe, Telechargeable
<1>3. /\ EnMain(f, Retraits)' <=> EnMain(f, Retraits)
      /\ EnMain(f, Amont)' <=> EnMain(f, Amont)
      /\ ErreurEnRoute(f)' <=> ErreurEnRoute(f)
  BY DEF Detruire, Remplacer, EnMain, ErreurEnRoute, Amont, Retraits
<1>4. InvRoute(f)'
  BY <1>2, <1>3 DEF Detruire, InvDit, InvRoute, SansJob
<1>5. ~Lese(f)' => InvMots(f)'
  BY <1>2, <1>3 DEF Detruire, InvDit, InvMots, Lese, Explique, JobEnRetrait
<1> QED BY <1>4, <1>5 DEF InvDit

(* The analysis is asked for, or given up.                                  *)
LEMMA DitAmont ==
  ASSUME Inv, NEW t \in taches, t.f \in PiecesJeunes, InvDit(t.f),
         t.genre \in Amont, NEW suites, Remplacer(t, suites),
         \A u \in suites : u.f = t.f,
         \/ /\ \A u \in suites : u.genre \in Amont \cup {"envoi"}
            /\ \E u \in suites : u.genre \in Amont
         \/ suites = Abandon(t.f),
         UNCHANGED <<messages, jobs, menage, perturbes>>,
         Existe(t.f)' <=> Existe(t.f), Telechargeable(t.f)' <=> Telechargeable(t.f)
  PROVE  InvDit(t.f)'
<1> DEFINE f == t.f
<1>1. f \in Fichiers /\ InvFichier(f)
  BY Choisis
<1>2. EnMain(f, Amont) /\ ~EnMain(f, Retraits) /\ SansJob(f)
  <2>1. EnMain(f, Amont)
    BY DEF EnMain
  <2> QED BY <1>1, <2>1 DEF InvFichier, InvAnalyse, InvDit, InvRoute
<1>3. \A u \in taches : (u.f = f /\ u.genre \in Amont) => u = t
  BY <1>1 DEF InvFichier, InvAnalyse
<1>4. /\ ExpirationEnRoute(f)' <=> ExpirationEnRoute(f)
      /\ SansJob(f)' /\ ~JobEnRetrait(f)' /\ ~JobEnRetrait(f)
      /\ Lese(f)' <=> Lese(f)
      /\ messages'[f] = messages[f]
  BY <1>2 DEF ExpirationEnRoute, SansJob, JobEnRetrait, Lese
<1>5. ErreurEnRoute(f) => ErreurEnRoute(f)'
  BY DEF Remplacer, ErreurEnRoute, Amont
<1>6. CASE /\ \A u \in suites : u.genre \in Amont \cup {"envoi"}
           /\ \E u \in suites : u.genre \in Amont
  <2>1. ~EnMain(f, Retraits)'
    BY <1>2, <1>6 DEF EnMain, Remplacer, Amont, Retraits
  <2>2. EnMain(f, Amont \cup Retraits)'
    BY <1>6 DEF EnMain, Remplacer
  <2>3. InvRoute(f)'
    BY <1>4, <2>1 DEF InvDit, InvRoute
  <2>4. ~Lese(f)' => InvMots(f)'
    BY <1>4, <1>5, <2>1, <2>2 DEF InvDit, InvMots, Explique
  <2> QED BY <2>3, <2>4 DEF InvDit
<1>7. CASE suites = Abandon(f)
  <2> DEFINE r == Pour("retraitObjet", f)
             e == Envoi(f, "ERREUR_ANALYSE")
  <2>1. /\ r.f = f /\ r.genre = "retraitObjet"
        /\ e.f = f /\ e.genre = "envoi" /\ e.statut = "ERREUR_ANALYSE"
    <3>1. Pour("envoi", f) \in Tache
      BY <1>1, TacheType DEF Genres
    <3>2. e.statut = "ERREUR_ANALYSE"
      BY <3>1 DEF Envoi, Tache
    <3> QED BY <1>1, <3>2, TacheType DEF Genres, Statuts, Definitifs
  <2>2. taches' = (taches \ {t}) \cup {r, e}
    BY <1>7 DEF Abandon, Remplacer
  <2> HIDE DEF r, e
  <2>3. ~EnMain(f, Amont)'
    BY <1>3, <2>1, <2>2 DEF EnMain, Amont
  <2>4. EnMain(f, Amont \cup Retraits)' /\ ErreurEnRoute(f)'
    BY <2>1, <2>2 DEF EnMain, Retraits, ErreurEnRoute
  <2>5. InvRoute(f)'
    BY <1>4, <2>3 DEF InvDit, InvRoute
  <2>6. InvMots(f)'
    BY <2>4 DEF InvMots, Explique
  <2> QED BY <2>5, <2>6 DEF InvDit
<1> QED BY <1>6, <1>7

LEMMA DitSoumettre ==
  ASSUME Inv, NEW t \in taches, t.f \in PiecesJeunes, InvDit(t.f), Soumettre(t)
  PROVE  InvDit(t.f)'
<1> DEFINE f == t.f
<1>1. f \in Fichiers /\ t \in Tache /\ t.genre = "soumission" /\ t.genre \in Amont
  BY Choisis DEF Soumettre, Amont
<1>2. /\ UNCHANGED <<messages, jobs, menage, perturbes>>
      /\ Existe(f)' <=> Existe(f)
      /\ Telechargeable(f)' <=> Telechargeable(f)
  BY DEF Soumettre, Existe, Telechargeable
<1>3. \A u \in Abandon(f) : u.f = f
  BY <1>1, AbandonType
<1>4. CASE Remplacer(t, {Pour("maj", f)})
  <2> DEFINE u == Pour("maj", f)
  <2>1. u.f = f /\ u.genre = "maj" /\ u.genre \in Amont
    BY <1>1, TacheType DEF Genres, Amont
  <2>2. Remplacer(t, {u})
    BY <1>4
  <2> HIDE DEF u
  <2>3. /\ \A v \in {u} : v.f = f /\ v.genre \in Amont \cup {"envoi"}
        /\ \E v \in {u} : v.genre \in Amont
    BY <2>1
  <2> QED BY <1>1, <1>2, <2>2, <2>3, DitAmont
<1>5. CASE Remplacer(t, {[t EXCEPT !.essais = @ + 1]})
  <2> DEFINE u == [t EXCEPT !.essais = @ + 1]
  <2>1. u.f = f /\ u.genre \in Amont
    BY <1>1 DEF Tache
  <2>2. Remplacer(t, {u})
    BY <1>5
  <2> HIDE DEF u
  <2>3. /\ \A v \in {u} : v.f = f /\ v.genre \in Amont \cup {"envoi"}
        /\ \E v \in {u} : v.genre \in Amont
    BY <2>1
  <2> QED BY <1>1, <1>2, <2>2, <2>3, DitAmont
<1>6. CASE Remplacer(t, Abandon(f))
  BY <1>1, <1>2, <1>3, <1>6, DitAmont
<1> QED BY <1>4, <1>5, <1>6 DEF Soumettre

LEMMA DitMaj ==
  ASSUME Inv, NEW t \in taches, t.f \in PiecesJeunes, InvDit(t.f), MajAnalyse(t)
  PROVE  InvDit(t.f)'
<1> DEFINE f == t.f
<1>1. f \in Fichiers /\ t.genre = "maj" /\ t.genre \in Amont /\ TypeOK
  BY Choisis DEF MajAnalyse, Amont
<1>2. UNCHANGED <<messages, jobs, menage, perturbes>>
  BY DEF MajAnalyse
<1>3. \A u \in Abandon(f) : u.f = f
  BY <1>1, AbandonType
<1>4. (Existe(f)' <=> Existe(f)) /\ (Telechargeable(f)' <=> Telechargeable(f))
  <2>1. CASE MajLigne(f, "idAnalyse")
    BY <1>1, <2>1, MajLigneType DEF TypeOK, Telechargeable
  <2>2. CASE lignes' = lignes
    BY <2>2 DEF Existe, Telechargeable
  <2> QED BY <2>1, <2>2 DEF MajAnalyse
<1>5. CASE Remplacer(t, {Envoi(f, "ANALYSE_EN_COURS"), Pour("planification", f)})
  <2> DEFINE u == Pour("planification", f)
             e == Envoi(f, "ANALYSE_EN_COURS")
  <2>1. /\ u.f = f /\ u.genre = "planification" /\ u.genre \in Amont
        /\ e.f = f /\ e.genre = "envoi"
    BY <1>1, TacheType DEF Genres, Amont, Statuts
  <2>2. Remplacer(t, {e, u})
    BY <1>5
  <2> HIDE DEF u, e
  <2>3. /\ \A v \in {e, u} : v.f = f /\ v.genre \in Amont \cup {"envoi"}
        /\ \E v \in {e, u} : v.genre \in Amont
    BY <2>1
  <2> QED BY <1>1, <1>2, <1>4, <2>2, <2>3, DitAmont
<1>6. CASE Remplacer(t, Abandon(f))
  BY <1>1, <1>2, <1>3, <1>4, <1>6, DitAmont
<1> QED BY <1>5, <1>6 DEF MajAnalyse

LEMMA DitPlanifier ==
  ASSUME Inv, NEW t \in taches, t.f \in PiecesJeunes, InvDit(t.f), Planifier(t)
  PROVE  InvDit(t.f)'
<1> DEFINE f == t.f
           n == NouveauJob(f)
<1>1. f \in Fichiers /\ InvFichier(f)
  BY Choisis
<1>2. EnMain(f, Amont) /\ ~EnMain(f, Retraits) /\ SansJob(f)
  <2>1. EnMain(f, Amont)
    BY DEF Planifier, EnMain, Amont
  <2> QED BY <1>1, <2>1 DEF InvFichier, InvAnalyse, InvDit, InvRoute
<1>3. n.f = f /\ n.etape = "attente"
  BY <1>1, NouveauJobType DEF Planifier
<1>4. jobs' = jobs \cup {n}
  BY DEF Planifier
<1> HIDE DEF n
<1>5. /\ ~EnMain(f, Retraits)' /\ JobEnVie(f)' /\ ~JobEnRetrait(f)'
  BY <1>2, <1>3, <1>4
  DEF Planifier, Remplacer, EnMain, JobEnVie, JobEnRetrait, SansJob, Retraits
<1>6. ErreurEnRoute(f)' <=> ErreurEnRoute(f)
  BY DEF Planifier, Remplacer, ErreurEnRoute
<1>7. InvRoute(f)'
  BY <1>5 DEF Planifier, InvDit, InvRoute, ExpirationEnRoute, Existe, Telechargeable
<1>8. ~Lese(f)' => InvMots(f)'
  BY <1>5, <1>6
  DEF Planifier, InvDit, InvMots, Lese, Explique, ExpirationEnRoute, Existe,
      Telechargeable
<1> QED BY <1>7, <1>8 DEF InvDit

(* The status that arrives after a final one is recorded.                   *)
LEMMA DitEnvoyer ==
  ASSUME Inv, NEW t \in taches, t.f \in PiecesJeunes, InvDit(t.f), EnvoyerStatut(t)
  PROVE  InvDit(t.f)'
<1> DEFINE f == t.f
<1>1. f \in Fichiers /\ TypeOK
  BY Choisis
<1>2. messages'[f] = t.statut
  BY <1>1, AfficherEffet DEF EnvoyerStatut
<1>3. /\ perturbes[f] \subseteq perturbes'[f]
      /\ messages[f] \in Definitifs => Lese(f)'
  <2>1. Perturber({g \in {f} : messages[g] \in Definitifs}, {"message"})
    BY DEF EnvoyerStatut
  <2> QED BY <1>1, <2>1, PerturberType DEF Pertes, Lese
<1>4. /\ EnMain(f, Retraits)' <=> EnMain(f, Retraits)
      /\ EnMain(f, Amont)' <=> EnMain(f, Amont)
      /\ EnMain(f, Amont \cup Retraits)' <=> EnMain(f, Amont \cup Retraits)
  BY DEF EnvoyerStatut, Remplacer, EnMain, Amont, Retraits
<1>5. ErreurEnRoute(f) => ErreurEnRoute(f)' \/ messages'[f] \in Motifs
  BY <1>2 DEF EnvoyerStatut, Remplacer, ErreurEnRoute, Motifs, Definitifs
<1>6. InvRoute(f)'
  BY <1>4 DEF EnvoyerStatut, InvDit, InvRoute, SansJob, ExpirationEnRoute, Existe,
              Telechargeable
<1>7. ~Lese(f)' => InvMots(f)'
  <2> SUFFICES ASSUME ~Lese(f)' PROVE InvMots(f)'
    OBVIOUS
  <2>1. messages[f] \notin Definitifs /\ InvMots(f)
    BY <1>3 DEF InvDit, Lese
  <2>2. Explique(f) => Explique(f)'
    BY <1>5, <2>1 DEF Explique, Motifs
  <2>3. messages[f] # "FICHIER_SAIN"
    BY <2>1 DEF Definitifs, Verdicts
  <2> QED BY <1>4, <2>1, <2>2, <2>3
      DEF EnvoyerStatut, InvMots, JobEnRetrait, JobEnVie, ExpirationEnRoute, Existe,
          Telechargeable
<1> QED BY <1>6, <1>7 DEF InvDit

LEMMA DitRetirer ==
  ASSUME Inv, NEW t \in taches, t.f \in PiecesJeunes, InvDit(t.f), RetirerFichier(t)
  PROVE  InvDit(t.f)'
<1> DEFINE f == t.f
<1>1. f \in Fichiers /\ TypeOK /\ t.genre \in Retraits /\ EnMain(f, Retraits)
  BY Choisis DEF RetirerFichier, Retraits, EnMain
<1>2. SansJob(f) /\ ~EnMain(f, Amont)
  BY <1>1 DEF InvDit, InvRoute
<1>3. SansJob(f)' /\ ~JobEnRetrait(f)'
  BY <1>2 DEF RetirerFichier, SansJob, JobEnRetrait
<1>4. /\ ~EnMain(f, Amont)'
      /\ EnMain(f, Amont \cup Retraits)' => EnMain(f, Retraits)'
      /\ ErreurEnRoute(f)' <=> ErreurEnRoute(f)
  <2>1. Pour("retraitLigne", f).genre = "retraitLigne"
    BY <1>1, TacheType DEF Genres
  <2> QED BY <1>2, <2>1
      DEF RetirerFichier, Remplacer, EnMain, Amont, Retraits, ErreurEnRoute
<1>5. /\ Telechargeable(f)' => Telechargeable(f)
      /\ Existe(f)' <=> Existe(f)
      /\ t.genre = "retraitLigne" => ~Telechargeable(f)'
  BY <1>1, RetirerEffet DEF RetirerFichier, PremierRetrait, SecondRetrait
<1>6. t.genre = "retraitObjet" => EnMain(f, Amont \cup Retraits)'
  <2>1. /\ Pour("retraitLigne", f).genre = "retraitLigne"
        /\ Pour("retraitLigne", f).f = f
    BY <1>1, TacheType DEF Genres
  <2> QED BY <2>1 DEF RetirerFichier, Remplacer, EnMain, Retraits
<1>7. InvRoute(f)'
  BY <1>3, <1>4, <1>5 DEF RetirerFichier, InvDit, InvRoute, ExpirationEnRoute
<1>8. ~Lese(f)' => InvMots(f)'
  <2>1. ~Lese(f)' => Explique(f)'
    BY <1>1, <1>4 DEF RetirerFichier, InvDit, InvMots, Lese, Explique
  <2> QED BY <1>1, <1>5, <1>6, <2>1 DEF Retraits, InvMots
<1> QED BY <1>7, <1>8 DEF InvDit

(* What is lost in hand is recorded.                                        *)
LEMMA DitEchecTache ==
  ASSUME Inv, NEW t \in taches, t.f \in PiecesJeunes, InvDit(t.f), EchecTache(t)
  PROVE  InvDit(t.f)'
<1> DEFINE f == t.f
<1>1. f \in Fichiers /\ TypeOK
  BY Choisis
<1>2. /\ perturbes[f] \subseteq perturbes'[f]
      /\ Perte(t.genre) \subseteq perturbes'[f]
  BY <1>1, PerturberType, PerteType DEF EchecTache
<1>3. t.genre \in Rejetables
  BY DEF EchecTache
<1>4. t.genre \notin {"creation", "destruction"} => Lese(f)'
  BY <1>2, <1>3 DEF Perte, Rejetables, Lese
<1>5. \A genres : EnMain(f, genres)' => EnMain(f, genres)
  BY DEF EchecTache, Remplacer, EnMain
<1>6. InvRoute(f)'
  BY <1>5 DEF EchecTache, InvDit, InvRoute, SansJob, ExpirationEnRoute, Existe,
              Telechargeable
<1>7. CASE t.genre \in {"creation", "destruction"}
  <2>1. /\ EnMain(f, Retraits)' <=> EnMain(f, Retraits)
        /\ EnMain(f, Amont \cup Retraits)' <=> EnMain(f, Amont \cup Retraits)
        /\ ErreurEnRoute(f)' <=> ErreurEnRoute(f)
    BY <1>7 DEF EchecTache, Remplacer, EnMain, Amont, Retraits, ErreurEnRoute
  <2>2. ~Lese(f)' => InvMots(f)'
    BY <1>2, <2>1
    DEF EchecTache, InvDit, InvMots, Lese, Explique, JobEnRetrait, JobEnVie,
        ExpirationEnRoute, Existe, Telechargeable
  <2> QED BY <1>6, <2>2 DEF InvDit
<1> QED BY <1>4, <1>6, <1>7 DEF InvDit

LEMMA DitArretWeb ==
  ASSUME Inv, NEW f \in PiecesJeunes, f \in Fichiers, InvDit(f), ArretWeb
  PROVE  InvDit(f)'
<1>1. /\ perturbes[f] \subseteq perturbes'[f]
      /\ \A t \in taches : t.f = f => Perte(t.genre) \subseteq perturbes'[f]
  BY DEF ArretWeb, Inv, TypeOK
<1>2. \A t \in taches :
        (t.f = f /\ t.genre \in Amont \cup Retraits \cup {"envoi"}) => Lese(f)'
  BY <1>1 DEF Perte, Amont, Retraits, Lese
<1>3. \A genres : ~EnMain(f, genres)'
  BY DEF ArretWeb, EnMain
<1>4. InvRoute(f)'
  BY <1>3 DEF ArretWeb, InvDit, InvRoute, ExpirationEnRoute, Existe, Telechargeable
<1>5. ~Lese(f)' => /\ ~EnMain(f, Amont \cup Retraits) /\ ~ErreurEnRoute(f)
                   /\ ~Lese(f)
  BY <1>1, <1>2 DEF EnMain, ErreurEnRoute, Lese
<1>6. ~Lese(f)' => InvMots(f)'
  BY <1>3, <1>5
  DEF ArretWeb, InvDit, InvMots, Explique, JobEnRetrait, JobEnVie,
      ExpirationEnRoute, Existe, Telechargeable
<1> QED BY <1>4, <1>6 DEF InvDit

-----------------------------------------------------------------------------
(* Jobs                                                                     *)

LEMMA Pris ==
  ASSUME Inv, NEW j \in jobs
  PROVE  /\ j.f \in Fichiers /\ j \in Job /\ TypeOK /\ InvFichier(j.f)
         /\ ~SansJob(j.f)
BY DEF Inv, InvFichier, TypeOK, Job, SansJob

(* A job that goes on, or ends because its file is gone or was dealt with   *)
Suivants(j, js) ==
  /\ jobs' = (jobs \ {j}) \cup js
  /\ \A k \in js : k.f = j.f /\ k.etape \notin Retraits
  /\ \/ j.etape = "fait"
     \/ \E k \in js : k.etape # "fait"
     \/ ~Telechargeable(j.f)

LEMMA DitJob ==
  ASSUME NEW j \in jobs, InvDit(j.f), NEW js, Suivants(j, js),
         UNCHANGED <<taches, menage, lignes, messages, perturbes>>
  PROVE  InvDit(j.f)'
<1> DEFINE f == j.f
<1>1. /\ EnMain(f, Retraits)' <=> EnMain(f, Retraits)
      /\ EnMain(f, Amont \cup Retraits)' <=> EnMain(f, Amont \cup Retraits)
      /\ ErreurEnRoute(f)' <=> ErreurEnRoute(f)
  BY DEF EnMain, ErreurEnRoute
<1>2. JobEnRetrait(f)' => JobEnRetrait(f)
  BY DEF Suivants, JobEnRetrait
<1>3. JobEnVie(f) => JobEnVie(f)' \/ ~Telechargeable(f)
  BY DEF Suivants, JobEnVie
<1>4. ~EnMain(f, Retraits)
  BY DEF InvDit, InvRoute, SansJob
<1>5. InvRoute(f)'
  BY <1>1, <1>4 DEF InvDit, InvRoute, ExpirationEnRoute, Existe, Telechargeable
<1>6. ~Lese(f)' => InvMots(f)'
  BY <1>1, <1>2, <1>3
  DEF InvDit, InvMots, Lese, Explique, ExpirationEnRoute, Existe, Telechargeable
<1> QED BY <1>5, <1>6 DEF InvDit

LEMMA DitAvancer ==
  ASSUME Inv, NEW j \in jobs, InvDit(j.f), NEW etape, etape \notin Retraits \cup {"fait"},
         Avancer(j, etape), UNCHANGED <<taches, menage, lignes, messages, perturbes>>
  PROVE  InvDit(j.f)'
<1> DEFINE k == [j EXCEPT !.etape = etape]
<1>1. k.f = j.f /\ k.etape = etape
  BY Pris DEF Job
<1>2. jobs' = (jobs \ {j}) \cup {k}
  BY DEF Avancer
<1> HIDE DEF k
<1>3. Suivants(j, {k})
  BY <1>1, <1>2 DEF Suivants
<1> QED BY <1>3, DitJob

LEMMA DitJobs ==
  ASSUME Inv, NEW j \in jobs, j.f \in PiecesJeunes, InvDit(j.f),
         LireFichier(j) \/ Interroger(j) \/ ReplanifierAnalyse(j) \/ FinirJob(j)
  PROVE  InvDit(j.f)'
<1> DEFINE f == j.f
<1>1. f \in Fichiers /\ j \in Job /\ InvFichier(f) /\ ~SansJob(f)
  BY Pris
<1>2. UNCHANGED <<taches, menage, lignes, messages, perturbes>>
  BY DEF LireFichier, Interroger, ReplanifierAnalyse, FinirJob
<1>3. CASE LireFichier(j)
  <2>1. CASE Existe(f) /\ lignes[f].idAnalyse
    <3>1. Avancer(j, "lu")
      BY <1>3, <2>1 DEF LireFichier
    <3>2. "lu" \notin Retraits \cup {"fait"}
      BY DEF Retraits
    <3> QED BY <1>2, <3>1, <3>2, DitAvancer
  <2>2. CASE ~(Existe(f) /\ lignes[f].idAnalyse)
    <3>1. ~Telechargeable(f)
      BY <1>1, <2>2 DEF InvFichier, InvAnalyse, Telechargeable
    <3>2. Suivants(j, {})
      BY <1>3, <2>2, <3>1 DEF LireFichier, Terminer, Suivants
    <3> QED BY <1>2, <3>2, DitJob
  <2> QED BY <2>1, <2>2
<1>4. CASE Interroger(j)
  <2> DEFINE etape == SuiteDuResultat(analyses[f])
  <2>1. etape \notin Retraits \cup {"fait"}
    BY DEF SuiteDuResultat, Retraits
  <2>2. Avancer(j, etape)
    BY <1>4 DEF Interroger
  <2> HIDE DEF etape
  <2> QED BY <1>2, <2>1, <2>2, DitAvancer
<1>5. CASE ReplanifierAnalyse(j)
  <2> DEFINE n == NouveauJob(f)
             k == [j EXCEPT !.etape = "fait"]
  <2>1. /\ n.f = f /\ n.etape = "attente" /\ k.f = f /\ k.etape = "fait"
        /\ jobs' = (jobs \ {j}) \cup {n, k}
    BY <1>1, <1>5, NouveauJobType DEF ReplanifierAnalyse, Job
  <2> HIDE DEF n, k
  <2>2. Suivants(j, {n, k})
    BY <2>1 DEF Retraits, Suivants
  <2> QED BY <1>2, <2>2, DitJob
<1>6. CASE FinirJob(j)
  <2>1. Suivants(j, {})
    BY <1>6 DEF FinirJob, Terminer, Suivants
  <2> QED BY <1>2, <2>1, DitJob
<1> QED BY <1>3, <1>4, <1>5, <1>6

(* A malicious file is said to be so before it is removed; a verdict that   *)
(* comes after the file is gone is recorded.                                *)
LEMMA DitAnnoncer ==
  ASSUME Inv, NEW j \in jobs, j.f \in PiecesJeunes, InvDit(j.f), AnnoncerVerdict(j)
  PROVE  InvDit(j.f)'
<1> DEFINE f == j.f
           k == [j EXCEPT !.etape = SuiteDuVerdict(analyses[f])]
<1>1. /\ f \in Fichiers /\ j \in Job /\ TypeOK /\ InvFichier(f) /\ ~SansJob(f)
      /\ analyses[f] \in Verdicts
  <2>1. j.etape = "verdict" /\ InvFichier(f)
    BY Pris DEF AnnoncerVerdict
  <2> QED BY <2>1, Pris DEF InvFichier, InvAnalyse
<1>2. /\ k.f = f /\ k.etape = SuiteDuVerdict(analyses[f])
      /\ jobs' = (jobs \ {j}) \cup {k}
  BY <1>1 DEF AnnoncerVerdict, Avancer, Job
<1> HIDE DEF k
<1>3. messages'[f] = analyses[f]
  BY <1>1, AfficherEffet DEF AnnoncerVerdict
<1>4. /\ perturbes[f] \subseteq perturbes'[f]
      /\ ~Telechargeable(f) => Lese(f)'
  <2>1. Perturber({g \in {f} : ~Telechargeable(g)}, {"message"})
    BY DEF AnnoncerVerdict
  <2> QED BY <1>1, <2>1, PerturberType DEF Pertes, Lese
<1>5. ~EnMain(f, Retraits)'
  BY <1>1 DEF AnnoncerVerdict, InvDit, InvRoute, EnMain
<1>6. /\ Telechargeable(f)' <=> Telechargeable(f)
      /\ Existe(f)' <=> Existe(f)
  BY DEF AnnoncerVerdict, Telechargeable, Existe
<1>7. InvRoute(f)'
  BY <1>5, <1>6 DEF AnnoncerVerdict, InvDit, InvRoute, ExpirationEnRoute
<1>8. CASE analyses[f] = "FICHIER_MALVEILLANT"
  <2>1. Explique(f)' /\ JobEnVie(f)'
    BY <1>2, <1>3, <1>8
    DEF Explique, JobEnVie, SuiteDuVerdict, Motifs, Definitifs, Verdicts
  <2> QED BY <1>7, <2>1 DEF InvDit, InvMots
<1>9. CASE analyses[f] = "FICHIER_SAIN"
  <2>1. ~JobEnRetrait(f)'
    BY <1>1, <1>2, <1>9
    DEF JobEnRetrait, SuiteDuVerdict, Retraits, InvFichier, InvAnalyse
  <2>2. ~Lese(f)' => InvMots(f)'
    BY <1>3, <1>4, <1>5, <1>6, <1>9, <2>1 DEF InvMots
  <2> QED BY <1>7, <2>2 DEF InvDit
<1> QED BY <1>1, <1>8, <1>9 DEF Verdicts

LEMMA DitMalveillant ==
  ASSUME Inv, NEW j \in jobs, j.f \in PiecesJeunes, InvDit(j.f), RetirerMalveillant(j)
  PROVE  InvDit(j.f)'
<1> DEFINE f == j.f
           k == [j EXCEPT !.etape = IF j.etape = "retraitObjet" THEN "retraitLigne"
                                                                ELSE "fait"]
<1>1. /\ f \in Fichiers /\ j \in Job /\ TypeOK /\ ~SansJob(f)
      /\ JobEnRetrait(f)
  BY Pris DEF RetirerMalveillant, JobEnRetrait, Retraits
<1>2. /\ k.f = f /\ jobs' = (jobs \ {j}) \cup {k}
      /\ j.etape = "retraitObjet" => k.etape = "retraitLigne"
      /\ j.etape # "retraitObjet" => k.etape = "fait"
  BY <1>1 DEF RetirerMalveillant, Avancer, Job
<1> HIDE DEF k
<1>3. /\ Telechargeable(f)' => Telechargeable(f)
      /\ Existe(f)' <=> Existe(f)
      /\ j.etape = "retraitLigne" => ~Telechargeable(f)'
  BY <1>1, RetirerEffet DEF RetirerMalveillant, PremierRetrait, SecondRetrait
<1>4. ~EnMain(f, Retraits)' /\ (ErreurEnRoute(f)' <=> ErreurEnRoute(f))
  BY <1>1 DEF RetirerMalveillant, InvDit, InvRoute, EnMain, ErreurEnRoute
<1>5. InvRoute(f)'
  BY <1>3, <1>4 DEF RetirerMalveillant, InvDit, InvRoute, ExpirationEnRoute
<1>6. Telechargeable(f)' => JobEnVie(f)'
  BY <1>2, <1>3 DEF RetirerMalveillant, JobEnVie
<1>7. ~Lese(f)' => Explique(f)'
  BY <1>1, <1>4 DEF RetirerMalveillant, InvDit, InvMots, Lese, Explique
<1> QED BY <1>5, <1>6, <1>7 DEF InvDit, InvMots

LEMMA DitPannesJob ==
  ASSUME Inv, NEW j \in jobs, j.f \in PiecesJeunes, InvDit(j.f),
         EchecJob(j) \/ ArretWorker(j)
  PROVE  InvDit(j.f)'
<1> DEFINE f == j.f
<1>1. f \in Fichiers /\ j \in Job /\ TypeOK /\ ~SansJob(f)
  BY Pris
<1>2. UNCHANGED <<messages, lignes, taches, menage>>
  BY DEF EchecJob, ArretWorker
<1>3. CASE ArretWorker(j) /\ j.reprises = 0
  <2> DEFINE k == [j EXCEPT !.etape = "attente", !.reprises = 1]
  <2>1. k.f = f /\ k.etape = "attente"
    BY <1>1 DEF Job
  <2>2. jobs' = (jobs \ {j}) \cup {k} /\ UNCHANGED perturbes
    BY <1>3 DEF ArretWorker
  <2> HIDE DEF k
  <2>3. Suivants(j, {k})
    BY <2>1, <2>2 DEF Retraits, Suivants
  <2> QED BY <1>2, <2>2, <2>3, DitJob
<1>4. ASSUME Lese(f)' PROVE InvDit(f)'
  <2>1. ~EnMain(f, Retraits)'
    BY <1>1, <1>2 DEF InvDit, InvRoute, EnMain
  <2>2. InvRoute(f)'
    BY <1>2, <2>1 DEF InvDit, InvRoute, ExpirationEnRoute, Existe, Telechargeable
  <2> QED BY <1>4, <2>2 DEF InvDit
<1>5. ASSUME NEW quoi \in {{"verdict"}, {"stockage", "message", "verdict"}},
             Perturber({f}, quoi)
      PROVE  Lese(f)'
  BY <1>1, <1>5, PerturberType DEF Pertes, Lese
<1>6. CASE Perturber({f}, {"verdict"})
           \/ Perturber({f}, {"stockage", "message", "verdict"})
  BY <1>4, <1>5, <1>6
<1> QED BY <1>3, <1>6 DEF EchecJob, ArretWorker

-----------------------------------------------------------------------------
(* The nightly job                                                          *)

LEMMA ChoixNext ==
  ASSUME Inv, InvChoix, [Next]_vars
  PROVE  InvChoix'
<1>1. CASE menage' = menage
  BY <1>1 DEF InvChoix
<1>2. ASSUME NEW f \in Fichiers, Expirer(f)
      PROVE  InvChoix'
  <2>1. menage.actif /\ menage \in Menage
    BY <1>2 DEF Expirer, Inv, TypeOK
  <2>2. CASE menage' = [menage EXCEPT !.etape = "ligne", !.choix = {f}]
    <3>1. menage'.choix = {f} /\ menage'.actif
      BY <2>1, <2>2 DEF Menage
    <3> QED BY <3>1 DEF InvChoix
  <2>3. CASE menage' = [menage EXCEPT !.etape = "message"]
    <3>1. menage'.choix = menage.choix /\ menage'.actif
      BY <2>1, <2>3 DEF Menage
    <3> QED BY <3>1 DEF InvChoix
  <2>4. CASE menage' = [menage EXCEPT !.etape = "objet", !.choix = {}, !.reste = @ \ {f}]
    <3>1. menage'.choix = {}
      BY <2>1, <2>4 DEF Menage
    <3> QED BY <3>1 DEF InvChoix
  <2> QED BY <1>2, <2>2, <2>3, <2>4 DEF Expirer
<1>3. CASE \/ \E f \in Fichiers : EchecExpiration(f)
           \/ LancerMenage \/ FinirMenage \/ ArretMenage
  <2>1. menage \in Menage
    BY DEF Inv, TypeOK
  <2>2. CASE \E f \in Fichiers : EchecExpiration(f)
    <3>1. menage'.choix = {}
      BY <2>1, <2>2 DEF EchecExpiration, Menage
    <3> QED BY <3>1 DEF InvChoix
  <2>3. CASE LancerMenage
    <3>1. menage'.choix = {}
      BY <2>1, <2>3, MenageFiniType DEF LancerMenage, Menage
    <3> QED BY <3>1 DEF InvChoix
  <2>4. CASE FinirMenage \/ ArretMenage
    <3>1. menage'.choix = {}
      BY <2>4, MenageFiniType DEF FinirMenage, ArretMenage
    <3> QED BY <3>1 DEF InvChoix
  <2> QED BY <1>3, <2>2, <2>3, <2>4
<1>4. CASE \E f \in Fichiers :
             Televerser(f) \/ DemanderSuppression(f) \/ Vieillir(f) \/ Analyser(f)
  BY <1>1, <1>4 DEF Televerser, DemanderSuppression, Vieillir, Analyser
<1>5. CASE \E t \in taches : ExecuterTache(t) \/ EchecTache(t)
  BY <1>1, <1>5
  DEF ExecuterTache, EnregistrerFichier, Detruire, Soumettre, MajAnalyse, Planifier,
      EnvoyerStatut, RetirerFichier, EchecTache
<1>6. CASE \E j \in jobs : ExecuterJob(j) \/ EchecJob(j) \/ ArretWorker(j)
  BY <1>1, <1>6
  DEF ExecuterJob, LireFichier, Interroger, ReplanifierAnalyse, AnnoncerVerdict,
      RetirerMalveillant, FinirJob, EchecJob, ArretWorker
<1>7. CASE ArretWeb \/ UNCHANGED vars
  BY <1>1, <1>7 DEF ArretWeb, vars
<1> QED BY <1>2, <1>3, <1>4, <1>5, <1>6, <1>7 DEF Next

(* The object, the row, then the message                                    *)
LEMMA DitExpirer ==
  ASSUME Inv, NEW f \in PiecesJeunes, f \in Fichiers, InvChoix, InvDit(f), Expirer(f)
  PROVE  InvDit(f)'
<1>1. /\ TypeOK /\ menage \in Menage /\ InvMenage
      /\ UNCHANGED <<taches, jobs, perturbes>>
  BY DEF Expirer, Inv, TypeOK
<1>2. /\ EnMain(f, Retraits)' <=> EnMain(f, Retraits)
      /\ EnMain(f, Amont)' <=> EnMain(f, Amont)
      /\ EnMain(f, Amont \cup Retraits)' <=> EnMain(f, Amont \cup Retraits)
      /\ ErreurEnRoute(f)' <=> ErreurEnRoute(f)
      /\ JobEnRetrait(f)' <=> JobEnRetrait(f)
      /\ JobEnVie(f)' <=> JobEnVie(f)
      /\ SansJob(f)' <=> SansJob(f)
      /\ Lese(f)' <=> Lese(f)
  BY <1>1 DEF EnMain, ErreurEnRoute, JobEnRetrait, JobEnVie, SansJob, Lese
<1>3. CASE menage.etape = "objet"
  <2>1. /\ Retirer(f, "objet") /\ messages' = messages
        /\ menage' = [menage EXCEPT !.etape = "ligne", !.choix = {f}]
    BY <1>3 DEF Expirer, PremierRetrait
  <2>2. lignes' = lignes
    BY <1>1, <2>1, RetirerEffet
  <2>3. ~ExpirationEnRoute(f)' /\ ~ExpirationEnRoute(f)
    BY <1>1, <1>3, <2>1 DEF ExpirationEnRoute, Menage
  <2>4. Explique(f)' <=> Explique(f)
    BY <1>2, <2>1 DEF Explique
  <2>5. /\ Existe(f)' <=> Existe(f)
        /\ Telechargeable(f)' <=> Telechargeable(f)
    BY <2>2 DEF Existe, Telechargeable
  <2>6. InvRoute(f)'
    BY <1>2, <2>3 DEF InvDit, InvRoute
  <2>7. ~Lese(f)' => InvMots(f)'
    BY <1>2, <2>1, <2>3, <2>4, <2>5 DEF InvDit, InvMots
  <2> QED BY <2>6, <2>7 DEF InvDit
<1>4. CASE menage.etape = "ligne"
  <2>1. /\ Retirer(f, "ligne") /\ messages' = messages
        /\ menage' = [menage EXCEPT !.etape = "message"]
    BY <1>4 DEF Expirer, SecondRetrait, PremierRetrait
  <2>2. ~Telechargeable(f)'
    BY <1>1, <2>1, RetirerEffet
  <2>3. ExpirationEnRoute(f)'
    <3>1. f \in menage.choix
      BY <1>1, <1>4 DEF Expirer, EnCours, InvMenage
    <3> QED BY <1>1, <2>1, <3>1 DEF ExpirationEnRoute, Menage
  <2>4. Explique(f)' <=> Explique(f)
    BY <1>2, <2>1 DEF Explique
  <2>5. InvRoute(f)'
    BY <1>2, <2>2 DEF InvDit, InvRoute
  <2>6. ~Lese(f)' => InvMots(f)'
    BY <1>2, <2>2, <2>3, <2>4 DEF InvDit, InvMots
  <2> QED BY <2>5, <2>6 DEF InvDit
<1>5. CASE menage.etape = "message"
  <2>1. /\ Afficher(f, "FICHIER_EXPIRE") /\ lignes' = lignes
        /\ menage' = [menage EXCEPT !.etape = "objet", !.choix = {}, !.reste = @ \ {f}]
    BY <1>5 DEF Expirer
  <2>2. Explique(f)'
    <3>1. messages'[f] = "FICHIER_EXPIRE"
      BY <1>1, <2>1, AfficherEffet
    <3> QED BY <3>1 DEF Explique, Motifs, Definitifs
  <2>3. Existe(f) => ~Telechargeable(f)
    <3>1. ExpirationEnRoute(f)
      BY <1>1, <1>5 DEF Expirer, EnCours, InvMenage, ExpirationEnRoute
    <3> QED BY <3>1 DEF InvDit, InvRoute
  <2>4. /\ Existe(f)' <=> Existe(f)
        /\ Telechargeable(f)' <=> Telechargeable(f)
        /\ Telechargeable(f) => Existe(f)
    BY <2>1 DEF Existe, Telechargeable
  <2>5. InvRoute(f)'
    BY <1>2, <2>3, <2>4 DEF InvDit, InvRoute
  <2>6. InvMots(f)'
    BY <2>2, <2>3, <2>4 DEF InvMots
  <2> QED BY <2>5, <2>6 DEF InvDit
<1> QED BY <1>3, <1>4, <1>5 DEF Expirer

(* What fails, or stops, while the message is still to be shown is recorded.*)
LEMMA DitAutresMenage ==
  ASSUME Inv, InvChoix, NEW f \in PiecesJeunes, f \in Fichiers, InvDit(f),
         \/ \E g \in Fichiers : EchecExpiration(g)
         \/ LancerMenage \/ FinirMenage \/ ArretMenage
  PROVE  InvDit(f)'
<1>1. TypeOK /\ menage \in Menage /\ InvMenage
  BY DEF Inv, TypeOK
<1>2. Epargne(f) /\ messages'[f] = messages[f]
  BY <1>1, InvAutresMenage DEF EchecExpiration, LancerMenage, FinirMenage, ArretMenage
<1>3. ~ExpirationEnRoute(f)'
  <2>1. CASE \E g \in Fichiers : EchecExpiration(g)
    BY <1>1, <2>1 DEF EchecExpiration, Menage, ExpirationEnRoute
  <2>2. CASE LancerMenage
    BY <1>1, <2>2, MenageFiniType DEF LancerMenage, Menage, ExpirationEnRoute
  <2>3. CASE FinirMenage \/ ArretMenage
    BY <2>3, MenageFiniType DEF FinirMenage, ArretMenage, ExpirationEnRoute
  <2> QED BY <2>1, <2>2, <2>3
<1>4. ExpirationEnRoute(f) => Lese(f)'
  <2> SUFFICES ASSUME ExpirationEnRoute(f) PROVE Lese(f)'
    OBVIOUS
  <2>1. menage.etape = "message" /\ f \in menage.choix /\ f \in menage.reste
    BY <1>1 DEF ExpirationEnRoute, InvMenage
  <2>2. CASE \E g \in Fichiers : EchecExpiration(g)
    <3>1. PICK g \in Fichiers : EchecExpiration(g)
      BY <2>2
    <3>2. g = f
      BY <2>1, <3>1 DEF EchecExpiration, EnCours, InvChoix
    <3>3. Perturber({h \in {f} : menage.etape = "message"}, {"message"})
      BY <3>1, <3>2 DEF EchecExpiration
    <3> QED BY <1>1, <2>1, <3>3, PerturberType DEF Pertes, Lese
  <2>3. CASE ArretMenage
    <3>1. Perturber({h \in menage.choix : menage.etape = "message"}, {"message"})
      BY <2>3 DEF ArretMenage
    <3> QED BY <1>1, <2>1, <3>1, PerturberType DEF Pertes, Lese
  <2>4. ~LancerMenage /\ ~FinirMenage
    BY <2>1 DEF LancerMenage, FinirMenage, InvChoix
  <2> QED BY <2>2, <2>3, <2>4
<1> QED BY <1>2, <1>3, <1>4, DitEpargne

-----------------------------------------------------------------------------
(* Every step                                                               *)

LEMMA DitAutreFichier ==
  ASSUME Inv, InvChoix, NEW f \in Fichiers, InvDit(f), NEW g \in Fichiers \ {f},
         \/ Televerser(g) \/ DemanderSuppression(g) \/ Expirer(g)
         \/ Vieillir(g) \/ Analyser(g)
         \/ \E t \in taches : t.f = g /\ (ExecuterTache(t) \/ EchecTache(t))
         \/ \E j \in jobs : j.f = g /\ (ExecuterJob(j) \/ EchecJob(j) \/ ArretWorker(j))
  PROVE  InvDit(f)'
<1>1. Epargne(f) /\ messages'[f] = messages[f]
  BY AutreFichierEpargne
<1>2. ExpirationEnRoute(f)' <=> ExpirationEnRoute(f)
  <2>1. CASE menage' = menage
    BY <2>1 DEF ExpirationEnRoute
  <2>2. CASE Expirer(g)
    <3>1. menage \in Menage
      BY DEF Inv, TypeOK
    <3>2. f \notin menage.choix
      BY <2>2 DEF Expirer, EnCours, InvChoix
    <3>3. menage'.choix \subseteq {g} \/ menage'.choix = menage.choix
      <4>1. CASE menage' = [menage EXCEPT !.etape = "ligne", !.choix = {g}]
        BY <3>1, <4>1 DEF Menage
      <4>2. CASE menage' = [menage EXCEPT !.etape = "message"]
        BY <3>1, <4>2 DEF Menage
      <4>3. CASE menage' = [menage EXCEPT !.etape = "objet", !.choix = {},
                                          !.reste = @ \ {g}]
        BY <3>1, <4>3 DEF Menage
      <4> QED BY <2>2, <4>1, <4>2, <4>3 DEF Expirer
    <3> QED BY <3>2, <3>3 DEF ExpirationEnRoute
  <2>3. menage' = menage \/ Expirer(g)
    <3>1. CASE Televerser(g) \/ DemanderSuppression(g) \/ Vieillir(g) \/ Analyser(g)
      BY <3>1 DEF Televerser, DemanderSuppression, Vieillir, Analyser
    <3>2. CASE \E t \in taches : t.f = g /\ (ExecuterTache(t) \/ EchecTache(t))
      BY <3>2
      DEF ExecuterTache, EnregistrerFichier, Detruire, Soumettre, MajAnalyse,
          Planifier, EnvoyerStatut, RetirerFichier, EchecTache
    <3>3. CASE \E j \in jobs :
                 j.f = g /\ (ExecuterJob(j) \/ EchecJob(j) \/ ArretWorker(j))
      BY <3>3
      DEF ExecuterJob, LireFichier, Interroger, ReplanifierAnalyse, AnnoncerVerdict,
          RetirerMalveillant, FinirJob, EchecJob, ArretWorker
    <3> QED BY <3>1, <3>2, <3>3
  <2> QED BY <2>1, <2>2, <2>3
<1> QED BY <1>1, <1>2, DitEpargne

LEMMA DitNext == Inv /\ InvMessages /\ [Next]_vars => InvMessages'
<1> SUFFICES ASSUME Inv, InvMessages, [Next]_vars
             PROVE  InvMessages'
  OBVIOUS
<1>0. InvChoix /\ InvChoix'
  BY ChoixNext DEF InvMessages
<1> SUFFICES ASSUME NEW f \in PiecesJeunes
             PROVE  InvDit(f)'
  BY <1>0 DEF InvMessages
<1>1. /\ InvDit(f) /\ f \in Fichiers
      /\ \A t \in taches : t.f \in Fichiers
      /\ \A j \in jobs : j.f \in Fichiers
  BY ConstantsAssumption DEF InvMessages, Inv, TypeOK, Job, Tache
<1>2. ASSUME NEW g \in Fichiers,
             Televerser(g) \/ DemanderSuppression(g) \/ Expirer(g)
               \/ Vieillir(g) \/ Analyser(g)
      PROVE  InvDit(f)'
  BY <1>0, <1>1, <1>2, DitCommandes, DitExpirer, DitAutreFichier
<1>3. ASSUME NEW t \in taches, ExecuterTache(t) \/ EchecTache(t)
      PROVE  InvDit(f)'
  <2>1. CASE t.f = f
    BY <1>1, <1>3, <2>1, DitEnregistrer, DitDetruire, DitSoumettre, DitMaj,
       DitPlanifier, DitEnvoyer, DitRetirer, DitEchecTache
    DEF ExecuterTache
  <2>2. CASE t.f # f
    BY <1>0, <1>1, <1>3, <2>2, DitAutreFichier
  <2> QED BY <2>1, <2>2
<1>4. ASSUME NEW j \in jobs, ExecuterJob(j) \/ EchecJob(j) \/ ArretWorker(j)
      PROVE  InvDit(f)'
  <2>1. CASE j.f = f
    BY <1>1, <1>4, <2>1, DitJobs, DitAnnoncer, DitMalveillant, DitPannesJob
    DEF ExecuterJob
  <2>2. CASE j.f # f
    BY <1>0, <1>1, <1>4, <2>2, DitAutreFichier
  <2> QED BY <2>1, <2>2
<1>5. CASE ArretWeb
  BY <1>1, <1>5, DitArretWeb
<1>6. CASE \/ \E g \in Fichiers : EchecExpiration(g)
           \/ LancerMenage \/ FinirMenage \/ ArretMenage
  BY <1>0, <1>1, <1>6, DitAutresMenage
<1>7. CASE UNCHANGED vars
  <2>1. Epargne(f) /\ messages'[f] = messages[f]
        /\ (ExpirationEnRoute(f)' <=> ExpirationEnRoute(f))
    BY <1>7 DEF vars, Epargne, ExpirationEnRoute
  <2> QED BY <1>1, <2>1, DitEpargne
<1> QED BY <1>2, <1>3, <1>4, <1>5, <1>6, <1>7 DEF Next

(* Once nothing is in hand about the file of a young person, its message    *)
(* says that it is safe exactly when it can be downloaded, and why it is    *)
(* gone otherwise: a malicious file is never both said to be so and there,  *)
(* however the verdict, the deletion, the expiry and the stops of the       *)
(* processes overlapped; unless a status or a verdict was lost, or shown    *)
(* after a later one, which the history records.                            *)
THEOREM MessageToujoursFidele == Spec => []MessageFidele
<1>1. Init => InvMessages
  BY ConstantsAssumption, MenageFiniType
  DEF Init, InvMessages, InvChoix, InvDit, InvRoute, InvMots, EnMain, JobEnRetrait,
      ExpirationEnRoute, Telechargeable, Existe
<1>2. Inv /\ InvMessages => MessageFidele
  <2> SUFFICES ASSUME Inv, InvMessages, NEW f \in PiecesJeunes, Existe(f), Calme(f),
                      {"message", "verdict"} \cap perturbes[f] = {}
               PROVE  messages[f] \in IF Telechargeable(f) THEN {"FICHIER_SAIN"}
                                      ELSE Definitifs \ {"FICHIER_SAIN"}
    BY DEF MessageFidele
  <2>1. InvMots(f)
    BY DEF InvMessages, InvDit, Lese
  <2>2. /\ ~EnMain(f, Amont \cup Retraits) /\ ~JobEnVie(f) /\ ~ErreurEnRoute(f)
        /\ ~ExpirationEnRoute(f)
    BY DEF Calme, EnMain, JobEnVie, ErreurEnRoute, ExpirationEnRoute, Inv, InvMenage
  <2> QED BY <2>1, <2>2 DEF InvMots, Explique, Motifs
<1> QED BY <1>1, <1>2, DitNext, InvInit, InvNext, PTL DEF Spec
=============================================================================

------------------------ MODULE EvenementsMiloProofs ------------------------
(***************************************************************************)
(* What is proved of EvenementsMilo for every value of its constants.       *)
(*                                                                          *)
(* An event leaves the queue of Milo only with a job (InvLu).  The rows     *)
(* that copy an appointment nothing has disturbed are at most one           *)
(* (InvOrdre), and agree with Milo or are going to: an event that is        *)
(* decisive, whose treatment brings the CEJ up to date, waits or is in      *)
(* hand (InvVenir).  The reminders there will be once the calls that are    *)
(* not awaited are executed are those of the row (InvRappels), or of the    *)
(* session at Milo (InvSession).                                            *)
(***************************************************************************)
EXTENDS EvenementsMilo, FiniteSetTheorems, WellFoundedInduction, TLAPS

-----------------------------------------------------------------------------
(* The latest of several events                                             *)

LEMMA OrdreDesEntiers == OpToRel(<, Nat) = {p \in Nat \X Nat : p[1] < p[2]}
BY DEF OpToRel

LEMMA PlusPetit ==
  ASSUME NEW T \in SUBSET Nat, T # {}
  PROVE  \E x \in T : \A y \in T : x =< y
<1> DEFINE R == {p \in Nat \X Nat : p[1] < p[2]}
<1>1. IsWellFoundedOn(R, Nat)
  BY NatLessThanWellFounded, OrdreDesEntiers
<1> HIDE DEF R
<1>2. PICK x \in T : \A y \in T : ~(<<y, x>> \in R)
  BY <1>1, WFMin
<1>3. ASSUME NEW y \in T PROVE x =< y
  <2>1. ~(y < x)
    BY <1>2 DEF R
  <2> QED BY <2>1
<1> QED BY <1>3

(* The latest event of a set is there: their ids are bounded.               *)
LEMMA PlusRecent ==
  ASSUME NEW S \in SUBSET Evenement, S # {}
  PROVE  \E e \in S : \A f \in S : f.id =< e.id
<1> DEFINE T == {MaxEvenements - e.id : e \in S}
<1>1. \A e \in S : e.id \in 1 .. MaxEvenements /\ MaxEvenements - e.id \in Nat
  BY ConstantsAssumption DEF Evenement
<1>2. T \in SUBSET Nat /\ T # {}
  BY <1>1
<1>3. PICK x \in T : \A y \in T : x =< y
  BY <1>2, PlusPetit
<1>4. PICK e \in S : x = MaxEvenements - e.id
  BY <1>3
<1>5. ASSUME NEW f \in S PROVE f.id =< e.id
  <2>1. MaxEvenements - e.id =< MaxEvenements - f.id
    BY <1>3, <1>4
  <2> QED BY <1>1, <2>1, ConstantsAssumption
<1> QED BY <1>5

LEMMA UnSeulGarde ==
  ASSUME NEW lus \in SUBSET Evenement, NEW e \in lus
  PROVE  \E f \in EvenementsAPlanifier(lus) :
            f = e \/ (MemeCle(e, f) /\ f.id > e.id)
<1> DEFINE S == {f \in lus : f = e \/ (MemeCle(e, f) /\ f.id > e.id)}
<1>1. S \in SUBSET Evenement /\ S # {}
  OBVIOUS
<1>2. PICK m \in S : \A f \in S : f.id =< m.id
  BY <1>1, PlusRecent
<1>3. \A f \in lus : f.id \in Int
  BY DEF Evenement
<1>4. ASSUME NEW f \in lus, MemeCle(m, f) PROVE f.id =< m.id
  <2>1. CASE f.id > m.id
    <3>1. MemeCle(e, f) /\ f.id > e.id
      BY <1>2, <1>3, <1>4, <2>1 DEF MemeCle
    <3> QED BY <1>2, <3>1
  <2> QED BY <1>3, <2>1
<1>5. m \in EvenementsAPlanifier(lus)
  BY <1>2, <1>4 DEF EvenementsAPlanifier
<1> QED BY <1>2, <1>5

-----------------------------------------------------------------------------
(* Types                                                                    *)

(* A job of an event, whose attempts are not counted here                   *)
JobEvt == [id : {"event-milo"} \X (1 .. MaxEvenements), echeance : {0},
           etat : EtatsJob, evt : Evenement, essais : Nat, reprises : 0 .. 1]

EstRappel(j) == j \in Rappel /\ j.etat = "attente"
EstEvenement(j) == j \in JobEvt /\ j.id = <<"event-milo", j.evt.id>>

TypeJobs == \A j \in jobs : EstRappel(j) \/ EstEvenement(j)
IdsJobs == \A j, k \in jobs : j.id = k.id => j = k

EtapesEvenement == {"pris", "lu", "copie", "ecrit"}

TravailEvt ==
  [etape : {"repos", "verif", "suivi"} \cup EtapesEvenement, reste : Int,
   aPlanifier : SUBSET Evenement, aAcquitter : SUBSET Evenement,
   evt : Evenement \cup {Absent},
   lu : ObjetMilo \cup {Absent}, copie : Ligne \cup {Absent}]

TypeMilo ==
  /\ milo \in [Objets -> ObjetMilo \cup {Absent}]
  /\ supprimes \subseteq Objets
  /\ \A o \in supprimes : milo[o] = Absent

TypeFile ==
  /\ publies \in Nat
  /\ fileMilo \subseteq Evenement
  /\ traites \subseteq Evenement
  /\ IsFiniteSet(fileMilo)

TypeLignes ==
  /\ uuids \in Nat
  /\ rdvs \subseteq Ligne
  /\ \A r \in rdvs : r.id =< uuids

TypeFond == \A a \in fond : a \in Appel /\ AFaire(a.demande)

TypeWorkers == workers \in [Workers -> TravailEvt]

Types == /\ TypeMilo /\ TypeFile /\ TypeLignes /\ TypeFond
         /\ TypeWorkers /\ TypeJobs /\ IdsJobs

(* What a worker is doing, and the job it holds                             *)
Forme(w) ==
  /\ Occupe(w) <=> workers[w].etape \in EtapesEvenement
  /\ workers[w].etape # "suivi" => workers[w].aAcquitter = {}
  /\ workers[w].aPlanifier \subseteq workers[w].aAcquitter
  /\ workers[w].etape = "copie" => EvtDe(w).objet \in Rdvs
  /\ workers[w].etape \in {"lu", "copie"} => Traitable(EvtDe(w))
  /\ Occupe(w) => \E j \in jobs : /\ EstEvenement(j)
                                  /\ j.evt = EvtDe(w) /\ j.etat = "actif"
  /\ workers[w].copie # Absent =>
       /\ Occupe(w)
       /\ workers[w].copie.id =< uuids
       /\ workers[w].copie.objet = EvtDe(w).objet

Formes == \A w \in Workers : Forme(w)

Detenteurs == \A v, w \in Workers :
  Occupe(v) /\ Occupe(w) /\ EvtDe(v) = EvtDe(w) => v = w

Structure == Types /\ Formes /\ Detenteurs

LEMMA EvenementDistinct ==
  ASSUME NEW j, EstEvenement(j)
  PROVE  /\ j.id[1] = "event-milo" /\ j.evt \in Evenement
         /\ j.id = <<"event-milo", j.evt.id>> /\ ~EstRappel(j)
         /\ \A c, k : j.id # <<"rappel", c, k>>
         /\ j.echeance = 0 /\ j.etat \in EtatsJob
         /\ \A C : j.id \notin {"rappel"} \X C \X JoursRappel
<1>1. j.id[1] = "event-milo"
  BY DEF EstEvenement, JobEvt
<1>2. \A c, k : <<"rappel", c, k>>[1] = "rappel"
  OBVIOUS
<1>3. ASSUME NEW C, j.id \in {"rappel"} \X C \X JoursRappel PROVE FALSE
  <2>1. j.id[1] = "rappel"
    BY <1>3
  <2> QED BY <1>1, <2>1
<1> QED BY <1>1, <1>2, <1>3 DEF EstEvenement, EstRappel, JobEvt, Rappel

LEMMA RappelDistinct ==
  ASSUME NEW j, EstRappel(j)
  PROVE  /\ j.id[1] = "rappel" /\ j.id[2] \in Cles /\ j.id[3] \in JoursRappel
         /\ j.id = <<"rappel", j.id[2], j.id[3]>>
         /\ j.id \in {"rappel"} \X Cles \X JoursRappel
         /\ j.echeance \in Int /\ j.etat = "attente" /\ ~EstEvenement(j)
         /\ \A i : j.id # <<"event-milo", i>>
<1>1. j.id \in {"rappel"} \X Cles \X JoursRappel
  BY DEF EstRappel, Rappel
<1>2. j.id[1] = "rappel" /\ j.id = <<"rappel", j.id[2], j.id[3]>>
  BY <1>1
<1>3. \A i : <<"event-milo", i>>[1] = "event-milo"
  OBVIOUS
<1> QED BY <1>1, <1>2, <1>3, EvenementDistinct DEF EstRappel, Rappel

LEMMA DeuxSortes ==
  ASSUME TypeJobs
  PROVE  /\ \A j : j \in JobsEvenements <=> j \in jobs /\ EstEvenement(j)
         /\ \A j \in jobs : j.id[1] = "rappel" <=> EstRappel(j)
BY EvenementDistinct, RappelDistinct DEF TypeJobs, JobsEvenements

LEMMA NouveauJobType ==
  ASSUME NEW e \in Evenement
  PROVE  /\ EstEvenement(NouveauJob(e))
         /\ NouveauJob(e).id = <<"event-milo", e.id>>
         /\ NouveauJob(e).evt = e /\ NouveauJob(e).etat = "attente"
BY DEF NouveauJob, EstEvenement, JobEvt, Evenement, EtatsJob

(* The job of the event in hand                                             *)
LEMMA JobEnMain ==
  ASSUME IdsJobs, NEW j \in jobs, EstEvenement(j)
  PROVE  JobDe(j.evt) = j
<1>1. j.id = <<"event-milo", j.evt.id>>
  BY DEF EstEvenement
<1> QED BY <1>1 DEF JobDe, IdsJobs

(* One job is replaced by the same one, in another state                    *)
Remplace(j, k) ==
  /\ j \in jobs /\ EstEvenement(j)
  /\ jobs' = (jobs \ {j}) \cup {k}
  /\ EstEvenement(k) /\ k.evt = j.evt

LEMMA RemplaceType ==
  ASSUME TypeJobs, IdsJobs, NEW j, NEW k, Remplace(j, k)
  PROVE  TypeJobs' /\ IdsJobs' /\ k.id = j.id
<1>1. k.id = j.id
  BY DEF Remplace, EstEvenement
<1>2. TypeJobs'
  BY DEF Remplace, TypeJobs
<1>3. ASSUME NEW a \in jobs', NEW b \in jobs', a.id = b.id PROVE a = b
  BY <1>1, <1>3 DEF Remplace, IdsJobs
<1> QED BY <1>1, <1>2, <1>3 DEF IdsJobs

LEMMA AjouterJobType ==
  ASSUME TypeJobs, IdsJobs, NEW n, EstRappel(n) \/ EstEvenement(n),
         jobs' = AjouterJob(jobs, n)
  PROVE  /\ TypeJobs' /\ IdsJobs' /\ jobs \subseteq jobs'
         /\ \E j \in jobs' : j.id = n.id
         /\ \A j \in jobs' : j \in jobs \/ j = n
BY DEF AjouterJob, TypeJobs, IdsJobs

LEMMA SousEnsembleType ==
  ASSUME TypeJobs, IdsJobs, jobs' \subseteq jobs
  PROVE  TypeJobs' /\ IdsJobs'
BY DEF TypeJobs, IdsJobs

(* A worker goes on; the others keep what they are doing and their jobs.    *)
Autres(w) == \A v \in Workers \ {w} : workers'[v] = workers[v]

JobsDesAutres(w) ==
  \A v \in Workers \ {w} : \A j \in jobs :
    Occupe(v) /\ EstEvenement(j) /\ j.evt = EvtDe(v) => j \in jobs'

LEMMA MiseAJour ==
  ASSUME TypeWorkers, NEW w \in Workers, NEW x \in TravailEvt,
         workers' = [workers EXCEPT ![w] = x]
  PROVE  TypeWorkers' /\ workers'[w] = x /\ Autres(w)
BY DEF TypeWorkers, Autres

LEMMA FormesSuite ==
  ASSUME Formes, Detenteurs, NEW w \in Workers, Autres(w), JobsDesAutres(w),
         Forme(w)', TypeWorkers, TypeLignes, uuids' \in Nat, uuids =< uuids',
         Occupe(w)' => \A v \in Workers \ {w} :
                          Occupe(v) => EvtDe(v) # EvtDe(w)'
  PROVE  Formes' /\ Detenteurs'
<1>1. ASSUME NEW v \in Workers \ {w}
      PROVE  /\ Forme(v)'
             /\ Occupe(v)' <=> Occupe(v)
             /\ EvtDe(v)' = EvtDe(v)
  <2>1. workers'[v] = workers[v]
    BY DEF Autres
  <2>2. Forme(v)
    BY DEF Formes
  <2>3. ASSUME Occupe(v)
        PROVE  \E j \in jobs' : /\ EstEvenement(j)
                                /\ j.evt = EvtDe(v) /\ j.etat = "actif"
    BY <2>2, <2>3 DEF Forme, JobsDesAutres
  <2>4. workers[v].copie # Absent => workers[v].copie.id =< uuids'
    <3>1. workers[v].copie # Absent => workers[v].copie \in Ligne
      BY DEF TypeWorkers, TravailEvt
    <3> QED BY <2>2, <3>1 DEF Forme, TypeLignes, Ligne
  <2> QED BY <2>1, <2>2, <2>3, <2>4 DEF Forme, Occupe, EvtDe
<1>2. Formes'
  BY <1>1 DEF Formes
<1>3. Detenteurs'
  BY <1>1 DEF Detenteurs
<1> QED BY <1>2, <1>3

LEMMA ReposType ==
  /\ Repos \in TravailEvt /\ Repos.etape = "repos" /\ Repos.evt = Absent
  /\ Repos.aAcquitter = {} /\ Repos.aPlanifier = {}
  /\ Repos.lu = Absent /\ Repos.copie = Absent
BY DEF Repos, TravailEvt

LEMMA AuRepos ==
  ASSUME NEW w \in Workers, workers[w] = Repos
  PROVE  Forme(w) /\ ~Occupe(w)
BY ReposType DEF Forme, Occupe, EvtDe, EtapesEvenement

(* A job keeps its place, and its worker, as long as it is not replaced.    *)
LEMMA RemplaceAutres ==
  ASSUME Formes, Detenteurs, IdsJobs, NEW w \in Workers, Occupe(w),
         NEW j, NEW k, Remplace(j, k), j.evt = EvtDe(w)
  PROVE  JobsDesAutres(w)
<1>1. ASSUME NEW v \in Workers \ {w}, NEW i \in jobs,
             Occupe(v), EstEvenement(i), i.evt = EvtDe(v)
      PROVE  i # j
  BY <1>1 DEF Detenteurs
<1> QED BY <1>1 DEF Remplace, JobsDesAutres

LEMMA GardeAutres ==
  ASSUME NEW w \in Workers,
         \A j \in jobs : EstEvenement(j) => j \in jobs'
  PROVE  JobsDesAutres(w)
BY DEF JobsDesAutres

LEMMA JobTenu ==
  ASSUME Structure, NEW w \in Workers, Occupe(w)
  PROVE  /\ JobDe(EvtDe(w)) \in jobs /\ EstEvenement(JobDe(EvtDe(w)))
         /\ JobDe(EvtDe(w)).evt = EvtDe(w)
         /\ JobDe(EvtDe(w)).etat = "actif"
         /\ EvtDe(w) \in Evenement
<1>1. PICK j \in jobs : EstEvenement(j) /\ j.evt = EvtDe(w) /\ j.etat = "actif"
  BY DEF Structure, Formes, Forme
<1>2. JobDe(j.evt) = j
  BY <1>1, JobEnMain DEF Structure, Types
<1>3. j.evt \in Evenement
  BY <1>1, EvenementDistinct
<1> QED BY <1>1, <1>2, <1>3

-----------------------------------------------------------------------------
(* Types and structure are kept by each step.                               *)

LEMMA StructureInit == Init => Structure
<1> SUFFICES ASSUME Init PROVE Structure
  OBVIOUS
<1>1. TypeMilo
  <2>1. Dates # {}
    BY ConstantsAssumption
  <2>2. (CHOOSE d \in Dates : TRUE) \in Dates
    BY <2>1
  <2>3. [statut |-> "retire", date |-> CHOOSE d \in Dates : TRUE] \in ObjetMilo
    BY <2>2 DEF ObjetMilo, Statuts
  <2> QED BY <2>3 DEF Init, TypeMilo
<1>2. TypeFile
  BY FS_EmptySet DEF Init, TypeFile
<1>3. TypeLignes /\ TypeFond /\ TypeJobs /\ IdsJobs
  BY DEF Init, TypeLignes, TypeFond, TypeJobs, IdsJobs
<1>4. TypeWorkers /\ Formes /\ Detenteurs
  BY ReposType, AuRepos DEF Init, TypeWorkers, Formes, Detenteurs
<1> QED BY <1>1, <1>2, <1>3, <1>4 DEF Structure, Types

Nouvel(o, a) == [id |-> publies + 1, action |-> a, objet |-> o]

(* What Milo may do with an object                                          *)
LEMMA PublierCas ==
  ASSUME Structure, NEW o \in Objets, Publier(o)
  PROVE  /\ o \notin supprimes /\ publies' = publies + 1
         /\ \E a \in Actions, m \in ObjetMilo \cup {Absent} :
              /\ milo' = [milo EXCEPT ![o] = m]
              /\ fileMilo' = fileMilo \cup {Nouvel(o, a)}
              /\ Nouvel(o, a) \in Evenement
              /\ supprimes' = IF a = "DELETE" THEN supprimes \cup {o}
                                              ELSE supprimes
              /\ a = "DELETE" <=> m = Absent
              /\ a = "CREATE" <=> milo[o] = Absent
              /\ a = "NON_TRAITABLE" => m = milo[o]
<1>1. PICK c \in Changements(o) :
        /\ milo' = [milo EXCEPT ![o] = c.objet]
        /\ supprimes' = IF c.action = "DELETE" THEN supprimes \cup {o}
                                               ELSE supprimes
        /\ fileMilo' = fileMilo \cup {Nouvel(o, c.action)}
  BY DEF Publier, Nouvel
<1>2. /\ c.action \in Actions /\ c.objet \in ObjetMilo \cup {Absent}
      /\ c.action = "DELETE" <=> c.objet = Absent
      /\ c.action = "CREATE" <=> milo[o] = Absent
      /\ c.action = "NON_TRAITABLE" => c.objet = milo[o]
  <2>1. Absent \notin ObjetMilo
    BY AbsentAssumption
  <2>2. milo[o] \in ObjetMilo \cup {Absent}
    BY DEF Structure, Types, TypeMilo
  <2>3. CASE milo[o] = Absent
    <3>1. c \in [action : {"CREATE"}, objet : [statut : {"prevu"}, date : Dates]]
      BY <2>3 DEF Changements
    <3>2. c.action = "CREATE" /\ c.objet \in ObjetMilo
      BY <3>1 DEF ObjetMilo, Statuts
    <3> QED BY <2>1, <2>3, <3>2 DEF Actions
  <2>4. CASE milo[o] # Absent
    <3>1. \/ c \in [action : {"UPDATE"}, objet : ObjetMilo]
          \/ c = [action |-> "DELETE", objet |-> Absent]
          \/ c = [action |-> "NON_TRAITABLE", objet |-> milo[o]]
      BY <2>4 DEF Changements
    <3>2. CASE c \in [action : {"UPDATE"}, objet : ObjetMilo]
      BY <2>1, <2>4, <3>2 DEF Actions
    <3>3. CASE c = [action |-> "DELETE", objet |-> Absent]
      BY <2>1, <2>4, <3>3 DEF Actions
    <3>4. CASE c = [action |-> "NON_TRAITABLE", objet |-> milo[o]]
      BY <2>1, <2>2, <2>4, <3>4 DEF Actions
    <3> QED BY <3>1, <3>2, <3>3, <3>4
  <2> QED BY <2>3, <2>4
<1>3. Nouvel(o, c.action) \in Evenement
  BY <1>2, ConstantsAssumption
     DEF Publier, Structure, Types, TypeFile, Nouvel, Evenement
<1> QED BY <1>1, <1>2, <1>3 DEF Publier

LEMMA StructurePublier ==
  ASSUME Structure, NEW o \in Objets, Publier(o)
  PROVE  Structure'
<1>1. PICK a \in Actions, m \in ObjetMilo \cup {Absent} :
        /\ milo' = [milo EXCEPT ![o] = m]
        /\ fileMilo' = fileMilo \cup {Nouvel(o, a)}
        /\ Nouvel(o, a) \in Evenement
        /\ supprimes' = IF a = "DELETE" THEN supprimes \cup {o} ELSE supprimes
        /\ a = "DELETE" <=> m = Absent
  BY PublierCas
<1>2. TypeMilo'
  BY <1>1, PublierCas DEF Structure, Types, TypeMilo
<1>3. TypeFile'
  BY <1>1, PublierCas, FS_AddElement DEF Structure, Types, TypeFile, Publier
<1>4. /\ TypeLignes' /\ TypeFond' /\ TypeWorkers' /\ TypeJobs' /\ IdsJobs'
      /\ Formes' /\ Detenteurs'
  BY DEF Publier, Structure, Types, TypeLignes, TypeFond, TypeWorkers, TypeJobs,
         IdsJobs, Formes, Forme, Detenteurs, Occupe, EvtDe
<1> QED BY <1>2, <1>3, <1>4 DEF Structure, Types

(* The steps of a worker that handles no event                              *)
LEMMA StructureSansEvenement ==
  ASSUME Structure, NEW w \in Workers, NEW x \in TravailEvt,
         workers' = [workers EXCEPT ![w] = x],
         x.evt = Absent, x.copie = Absent,
         x.etape \in {"repos", "verif", "suivi"},
         x.etape # "suivi" => x.aAcquitter = {},
         x.aPlanifier \subseteq x.aAcquitter,
         TypeFile', TypeJobs', IdsJobs', JobsDesAutres(w), TypeFond',
         UNCHANGED <<milo, supprimes, rdvs, uuids>>
  PROVE  Structure'
<1>1. TypeWorkers' /\ workers'[w] = x /\ Autres(w)
  BY MiseAJour DEF Structure, Types
<1>2. TypeMilo' /\ TypeLignes'
  BY DEF Structure, Types, TypeMilo, TypeLignes
<1>3. ~Occupe(w)' /\ Forme(w)'
  BY <1>1 DEF Forme, Occupe, EvtDe, EtapesEvenement
<1>4. uuids' \in Nat /\ uuids =< uuids'
  BY DEF Structure, Types, TypeLignes
<1>5. Formes' /\ Detenteurs'
  BY <1>1, <1>3, <1>4, FormesSuite DEF Structure, Types
<1> QED BY <1>1, <1>2, <1>5 DEF Structure, Types

LEMMA TravailType ==
  ASSUME Structure, NEW w \in Workers
  PROVE  /\ workers[w] \in TravailEvt /\ Forme(w)
         /\ EvtDe(w) = workers[w].evt
         /\ Occupe(w) <=> workers[w].evt # Absent
         /\ ~Occupe(w) => workers[w].copie = Absent
         /\ workers[w].copie # Absent => workers[w].copie \in Ligne
BY DEF Structure, Types, TypeWorkers, TravailEvt, Formes, Forme, EvtDe, Occupe

LEMMA FileInchangee ==
  ASSUME Structure, UNCHANGED <<publies, fileMilo>>,
         traites' = traites \/ (\E e \in Evenement : traites' = traites \cup {e})
  PROVE  TypeFile'
BY DEF Structure, Types, TypeFile

LEMMA JobsInchanges ==
  ASSUME Structure, UNCHANGED jobs, NEW w \in Workers
  PROVE  TypeJobs' /\ IdsJobs' /\ JobsDesAutres(w)
BY DEF Structure, Types, TypeJobs, IdsJobs, JobsDesAutres

LEMMA FondInchange ==
  ASSUME Structure, fond' \subseteq fond
  PROVE  TypeFond'
BY DEF Structure, Types, TypeFond

LEMMA StructureDemarrerSuivi ==
  ASSUME Structure, NEW w \in Workers, DemarrerSuivi(w)
  PROVE  Structure'
<1> DEFINE x == [workers[w] EXCEPT !.etape = "verif", !.reste = MaxBatch]
<1>1. workers[w] = Repos /\ workers' = [workers EXCEPT ![w] = x]
  BY DEF DemarrerSuivi
<1>2. /\ x \in TravailEvt /\ x.evt = Absent /\ x.copie = Absent
      /\ x.etape = "verif" /\ x.aAcquitter = {} /\ x.aPlanifier = {}
  <2>1. MaxBatch \in Int
    BY ConstantsAssumption
  <2>2. /\ workers[w] \in TravailEvt /\ workers[w].evt = Absent
        /\ workers[w].copie = Absent /\ workers[w].aAcquitter = {}
        /\ workers[w].aPlanifier = {}
    BY <1>1, ReposType
  <2> QED BY <2>1, <2>2 DEF TravailEvt
<1>3. /\ UNCHANGED <<milo, supprimes, rdvs, uuids>>
      /\ TypeFile' /\ TypeJobs' /\ IdsJobs' /\ JobsDesAutres(w) /\ TypeFond'
  BY FileInchangee, JobsInchanges, FondInchange DEF DemarrerSuivi
<1> HIDE DEF x
<1> QED BY <1>1, <1>2, <1>3, StructureSansEvenement

LEMMA StructureVerifierSuivi ==
  ASSUME Structure, NEW w \in Workers, VerifierSuivi(w)
  PROVE  Structure'
<1> DEFINE x == IF SuiviSeul(w) THEN [workers[w] EXCEPT !.etape = "suivi"]
                               ELSE Repos
<1>1. workers[w].etape = "verif" /\ workers' = [workers EXCEPT ![w] = x]
  BY DEF VerifierSuivi
<1>2. /\ x \in TravailEvt /\ x.evt = Absent /\ x.copie = Absent
      /\ x.etape \in {"repos", "suivi"} /\ x.aAcquitter = {}
      /\ x.aPlanifier = {}
  BY <1>1, ReposType, TravailType DEF TravailEvt, Forme, EtapesEvenement
<1>3. /\ UNCHANGED <<milo, supprimes, rdvs, uuids>>
      /\ TypeFile' /\ TypeJobs' /\ IdsJobs' /\ JobsDesAutres(w) /\ TypeFond'
  BY FileInchangee, JobsInchanges, FondInchange DEF VerifierSuivi
<1> HIDE DEF x
<1> QED BY <1>1, <1>2, <1>3, StructureSansEvenement

LEMMA LusType ==
  ASSUME Structure, NEW w \in Workers
  PROVE  Lus(w) \subseteq fileMilo /\ Cardinality(Lus(w)) \in Nat
<1>1. Lus(w) \subseteq fileMilo
  BY DEF Lus
<1> QED BY <1>1, FS_Subset, FS_CardinalityType DEF Structure, Types, TypeFile

LEMMA StructureInterroger ==
  ASSUME Structure, NEW w \in Workers, Interroger(w)
  PROVE  Structure'
<1> DEFINE x == IF Lus(w) = {} THEN Repos
                ELSE [workers[w] EXCEPT
                        !.aPlanifier = EvenementsAPlanifier(Lus(w)),
                        !.aAcquitter = Lus(w),
                        !.reste = workers[w].reste - Cardinality(Lus(w))]
<1>1. workers[w].etape = "suivi" /\ workers' = [workers EXCEPT ![w] = x]
  BY DEF Interroger
<1>2. /\ workers[w].evt = Absent /\ workers[w].copie = Absent
      /\ workers[w] \in TravailEvt
  BY <1>1, TravailType DEF Forme, EtapesEvenement
<1>3. /\ Lus(w) \subseteq Evenement
      /\ EvenementsAPlanifier(Lus(w)) \subseteq Lus(w)
      /\ workers[w].reste - Cardinality(Lus(w)) \in Int
  BY <1>2, LusType
     DEF Structure, Types, TypeFile, EvenementsAPlanifier, TravailEvt
<1>4. /\ x \in TravailEvt /\ x.evt = Absent /\ x.copie = Absent
      /\ x.etape \in {"repos", "suivi"} /\ x.aPlanifier \subseteq x.aAcquitter
      /\ x.etape # "suivi" => x.aAcquitter = {}
  BY <1>1, <1>2, <1>3, ReposType DEF TravailEvt
<1>5. /\ UNCHANGED <<milo, supprimes, rdvs, uuids>>
      /\ TypeFile' /\ TypeJobs' /\ IdsJobs' /\ JobsDesAutres(w) /\ TypeFond'
  BY FileInchangee, JobsInchanges, FondInchange DEF Interroger
<1> HIDE DEF x
<1> QED BY <1>1, <1>4, <1>5, StructureSansEvenement

LEMMA StructurePlanifier ==
  ASSUME Structure, NEW w \in Workers, Planifier(w)
  PROVE  Structure'
<1>1. PICK e \in workers[w].aPlanifier :
        /\ jobs' = AjouterJob(jobs, NouveauJob(e))
        /\ workers' = [workers EXCEPT
                         ![w].aPlanifier = workers[w].aPlanifier \ {e}]
  BY DEF Planifier
<1> DEFINE x == [workers[w] EXCEPT !.aPlanifier = workers[w].aPlanifier \ {e}]
<1>2. workers[w].etape = "suivi" /\ workers' = [workers EXCEPT ![w] = x]
  BY <1>1 DEF Planifier
<1>3. /\ workers[w].evt = Absent /\ workers[w].copie = Absent
      /\ workers[w] \in TravailEvt /\ e \in Evenement
      /\ workers[w].aPlanifier \subseteq workers[w].aAcquitter
  BY <1>2, TravailType DEF Forme, EtapesEvenement, TravailEvt
<1>4. /\ x \in TravailEvt /\ x.evt = Absent /\ x.copie = Absent
      /\ x.etape = "suivi" /\ x.aPlanifier \subseteq x.aAcquitter
  BY <1>2, <1>3 DEF TravailEvt
<1>5. TypeJobs' /\ IdsJobs' /\ jobs \subseteq jobs'
  BY <1>1, <1>3, NouveauJobType, AjouterJobType DEF Structure, Types
<1>6. JobsDesAutres(w)
  BY <1>5 DEF JobsDesAutres
<1>7. UNCHANGED <<milo, supprimes, rdvs, uuids>> /\ TypeFile' /\ TypeFond'
  BY FileInchangee, FondInchange DEF Planifier
<1> HIDE DEF x
<1> QED BY <1>2, <1>4, <1>5, <1>6, <1>7, StructureSansEvenement

LEMMA StructureAcquitter ==
  ASSUME Structure, NEW w \in Workers, NEW echec, Acquitter(w, echec)
  PROVE  Structure'
<1>1. PICK e \in workers[w].aAcquitter :
        /\ fileMilo' = IF echec THEN fileMilo ELSE fileMilo \ {e}
        /\ workers' =
             IF workers[w].aAcquitter = {e} /\ workers[w].reste = 0
               THEN [workers EXCEPT ![w] = Repos]
               ELSE [workers EXCEPT
                       ![w].aAcquitter = workers[w].aAcquitter \ {e}]
  BY DEF Acquitter
<1> DEFINE x == IF workers[w].aAcquitter = {e} /\ workers[w].reste = 0
                  THEN Repos
                  ELSE [workers[w] EXCEPT
                          !.aAcquitter = workers[w].aAcquitter \ {e}]
<1>2. /\ workers[w].etape = "suivi" /\ workers' = [workers EXCEPT ![w] = x]
      /\ workers[w].aPlanifier = {}
  BY <1>1 DEF Acquitter, PretAAcquitter
<1>3. /\ workers[w].evt = Absent /\ workers[w].copie = Absent
      /\ workers[w] \in TravailEvt
  BY <1>2, TravailType DEF Forme, EtapesEvenement
<1>4. /\ x \in TravailEvt /\ x.evt = Absent /\ x.copie = Absent
      /\ x.etape \in {"repos", "suivi"} /\ x.aPlanifier \subseteq x.aAcquitter
      /\ x.etape # "suivi" => x.aAcquitter = {}
  BY <1>2, <1>3, ReposType DEF TravailEvt
<1>5. TypeFile'
  <2>1. fileMilo' \subseteq fileMilo
    BY <1>1
  <2> QED BY <2>1, FS_Subset DEF Structure, Types, TypeFile, Acquitter
<1>6. /\ UNCHANGED <<milo, supprimes, rdvs, uuids>>
      /\ TypeJobs' /\ IdsJobs' /\ JobsDesAutres(w) /\ TypeFond'
  BY JobsInchanges, FondInchange DEF Acquitter
<1> HIDE DEF x
<1> QED BY <1>2, <1>4, <1>5, <1>6, StructureSansEvenement

LEMMA StructureEchecSuivi ==
  ASSUME Structure, NEW w \in Workers, EchecSuivi(w)
  PROVE  Structure'
<1>1. /\ workers' = [workers EXCEPT ![w] = Repos]
      /\ UNCHANGED <<milo, supprimes, rdvs, uuids>>
      /\ TypeFile' /\ TypeJobs' /\ IdsJobs' /\ JobsDesAutres(w) /\ TypeFond'
  BY FileInchangee, JobsInchanges, FondInchange DEF EchecSuivi
<1> QED BY <1>1, ReposType, StructureSansEvenement

(* The steps of a worker that goes on with the event it has                 *)
LEMMA StructureEnMain ==
  ASSUME Structure, NEW w \in Workers, Occupe(w), NEW x \in TravailEvt,
         workers' = [workers EXCEPT ![w] = x],
         x.evt = workers[w].evt, x.etape \in EtapesEvenement,
         x.aAcquitter = {}, x.aPlanifier = {},
         x.etape = "copie" => x.evt.objet \in Rdvs,
         x.etape \in {"lu", "copie"} => Traitable(x.evt),
         x.copie # Absent => x.copie.id =< uuids' /\ x.copie.objet = x.evt.objet,
         TypeLignes', uuids =< uuids', TypeFond',
         UNCHANGED <<milo, supprimes, publies, fileMilo, traites, jobs>>
  PROVE  Structure'
<1>1. TypeWorkers' /\ workers'[w] = x /\ Autres(w)
  BY MiseAJour DEF Structure, Types
<1>2. TypeMilo' /\ TypeFile' /\ TypeJobs' /\ IdsJobs' /\ JobsDesAutres(w)
  BY JobsInchanges, FileInchangee DEF Structure, Types, TypeMilo
<1>3. Occupe(w)' /\ EvtDe(w)' = EvtDe(w)
  BY <1>1 DEF Occupe, EvtDe
<1>4. \E j \in jobs' : /\ EstEvenement(j)
                       /\ j.evt = EvtDe(w) /\ j.etat = "actif"
  BY DEF Structure, Formes, Forme
<1>5. Forme(w)'
  BY <1>1, <1>3, <1>4 DEF Forme, EvtDe, EtapesEvenement
<1>6. \A v \in Workers \ {w} : Occupe(v) => EvtDe(v) # EvtDe(w)'
  BY <1>3 DEF Structure, Detenteurs
<1>7. uuids' \in Nat
  BY DEF TypeLignes
<1>8. Formes' /\ Detenteurs'
  BY <1>1, <1>2, <1>5, <1>6, <1>7, FormesSuite DEF Structure, Types
<1> QED BY <1>1, <1>2, <1>8 DEF Structure, Types

LEMMA EvtEnMain ==
  ASSUME Structure, NEW w \in Workers,
         workers[w].etape \in EtapesEvenement
  PROVE  /\ Occupe(w) /\ EvtDe(w) \in Evenement /\ EvtDe(w) = workers[w].evt
         /\ workers[w].aAcquitter = {} /\ workers[w].aPlanifier = {}
         /\ workers[w] \in TravailEvt
BY TravailType, JobTenu DEF Forme, EtapesEvenement

LEMMA StructureLireMilo ==
  ASSUME Structure, NEW w \in Workers, LireMilo(w)
  PROVE  Structure'
<1> DEFINE e == EvtDe(w)
           x == IF Traitable(e)
                  THEN [workers[w] EXCEPT !.etape = "lu", !.lu = milo[e.objet]]
                  ELSE [workers[w] EXCEPT !.etape = "ecrit"]
<1>1. workers[w].etape = "pris" /\ workers' = [workers EXCEPT ![w] = x]
  BY DEF LireMilo
<1>2. /\ Occupe(w) /\ e \in Evenement /\ e = workers[w].evt
      /\ workers[w].aAcquitter = {} /\ workers[w].aPlanifier = {}
      /\ workers[w] \in TravailEvt
  BY <1>1, EvtEnMain DEF EtapesEvenement
<1>3. milo[e.objet] \in ObjetMilo \cup {Absent}
  BY <1>2 DEF Structure, Types, TypeMilo, Evenement
<1>4. /\ x \in TravailEvt /\ x.evt = workers[w].evt
      /\ x.aAcquitter = {} /\ x.aPlanifier = {}
      /\ x.etape \in {"lu", "ecrit"} /\ x.etape = "lu" => Traitable(x.evt)
      /\ x.copie = workers[w].copie
  BY <1>2, <1>3 DEF TravailEvt, EtapesEvenement
<1>5. /\ x.etape \in EtapesEvenement /\ x.etape # "copie"
      /\ x.etape \in {"lu", "copie"} => Traitable(x.evt)
  BY <1>4 DEF EtapesEvenement
<1>6. /\ UNCHANGED <<milo, supprimes, publies, fileMilo, traites, jobs>>
      /\ TypeLignes' /\ uuids =< uuids' /\ TypeFond' /\ uuids' = uuids
  BY FondInchange DEF LireMilo, Structure, Types, TypeLignes
<1>7. x.copie # Absent => x.copie.id =< uuids' /\ x.copie.objet = x.evt.objet
  BY <1>2, <1>4, <1>6, TravailType DEF Forme, EvtDe
<1> HIDE DEF x, e
<1> QED BY <1>1, <1>2, <1>4, <1>5, <1>6, <1>7, StructureEnMain

LEMMA StructureLireCopie ==
  ASSUME Structure, NEW w \in Workers, LireCopie(w)
  PROVE  Structure'
<1>1. PICK r \in IF CopiesDe(EvtDe(w).objet) = {} THEN {Absent}
                                                 ELSE CopiesDe(EvtDe(w).objet) :
        workers' = [workers EXCEPT ![w].etape = "copie", ![w].copie = r]
  BY DEF LireCopie
<1> DEFINE x == [workers[w] EXCEPT !.etape = "copie", !.copie = r]
<1>2. /\ workers[w].etape = "lu" /\ EvtDe(w).objet \in Rdvs
      /\ workers' = [workers EXCEPT ![w] = x]
  BY <1>1 DEF LireCopie
<1>3. /\ Occupe(w) /\ EvtDe(w) = workers[w].evt
      /\ workers[w].aAcquitter = {} /\ workers[w].aPlanifier = {}
      /\ workers[w] \in TravailEvt /\ Traitable(workers[w].evt)
  BY <1>2, EvtEnMain, TravailType DEF EtapesEvenement, Forme
<1>4. /\ r # Absent => /\ r \in Ligne /\ r.id =< uuids
                       /\ r.objet = workers[w].evt.objet
      /\ r \in Ligne \cup {Absent}
  BY <1>1, <1>3 DEF CopiesDe, Structure, Types, TypeLignes
<1>5. /\ x \in TravailEvt /\ x.evt = workers[w].evt
      /\ x.aAcquitter = {} /\ x.aPlanifier = {} /\ x.etape = "copie"
      /\ x.copie = r
  BY <1>3, <1>4 DEF TravailEvt, EtapesEvenement
<1>6. /\ UNCHANGED <<milo, supprimes, publies, fileMilo, traites, jobs>>
      /\ TypeLignes' /\ uuids =< uuids' /\ TypeFond' /\ uuids' = uuids
  BY FondInchange DEF LireCopie, Structure, Types, TypeLignes
<1>7. x.etape \in EtapesEvenement
  BY <1>5 DEF EtapesEvenement
<1> HIDE DEF x
<1> QED BY <1>2, <1>3, <1>4, <1>5, <1>6, <1>7, StructureEnMain

-----------------------------------------------------------------------------
(* What the treatment of an event does                                      *)

Appels(w, c, demandes) ==
  {[worker |-> w, cle |-> c, objet |-> EvtDe(w).objet, demande |-> d] :
     d \in {n \in demandes : AFaire(n)}}

RetraitPuisAjouts(date) == [Ajouts(date) EXCEPT !.retrait = TRUE]

Rien(w) == rdvs' = rdvs /\ uuids' = uuids /\ fond' = fond

Cree(w) ==
  /\ EvtDe(w).action \in {"CREATE", "UPDATE"}
  /\ EvtDe(w).action = "UPDATE" => workers[w].copie = Absent
  /\ Recuperable(workers[w].lu)
  /\ rdvs' = rdvs \cup {[id |-> uuids + 1, objet |-> EvtDe(w).objet,
                         date |-> workers[w].lu.date]}
  /\ uuids' = uuids + 1
  /\ fond' = fond \cup Appels(w, uuids + 1, {Ajouts(workers[w].lu.date)})

Modifie(w) ==
  /\ EvtDe(w).action = "UPDATE" /\ workers[w].copie # Absent
  /\ Recuperable(workers[w].lu)
  /\ rdvs' = Remplacer(workers[w].copie, workers[w].lu)
  /\ uuids' = uuids
  /\ IF workers[w].lu.date = workers[w].copie.date
       THEN fond' = fond
       ELSE fond' = fond \cup Appels(w, workers[w].copie.id,
                                {RetraitPuisAjouts(workers[w].lu.date)})

Supprime(w) ==
  /\ workers[w].copie # Absent
  /\ \/ EvtDe(w).action = "DELETE"
     \/ /\ EvtDe(w).action = "UPDATE"
        /\ workers[w].lu # Absent /\ ~Recuperable(workers[w].lu)
  /\ rdvs' = {q \in rdvs : q.id # workers[w].copie.id}
  /\ uuids' = uuids
  /\ fond' = fond \cup Appels(w, workers[w].copie.id, {Retrait})

RienAFaire(w) ==
  /\ Rien(w)
  /\ \/ EvtDe(w).action = "CREATE" /\ ~Recuperable(workers[w].lu)
     \/ EvtDe(w).action = "UPDATE" /\ workers[w].lu = Absent
     \/ /\ EvtDe(w).action = "UPDATE" /\ workers[w].copie = Absent
        /\ ~Recuperable(workers[w].lu)
     \/ EvtDe(w).action = "DELETE" /\ workers[w].copie = Absent

DemandesSession(e, m) ==
  IF e.action = "DELETE" THEN {Retrait}
  ELSE IF m = Absent THEN {}
  ELSE (IF e.action = "UPDATE" THEN {Retrait} ELSE {})
         \cup (IF Recuperable(m) THEN {Ajouts(m.date)} ELSE {})

TraiteSession(w) ==
  /\ rdvs' = rdvs /\ uuids' = uuids
  /\ fond' = fond \cup Appels(w, EvtDe(w).objet,
                              DemandesSession(EvtDe(w), workers[w].lu))

LEMMA TraiterRdvCas ==
  ASSUME Structure, NEW w \in Workers, Traiter(w), EvtDe(w).objet \in Rdvs
  PROVE  Cree(w) \/ Modifie(w) \/ Supprime(w) \/ RienAFaire(w)
<1> DEFINE e == EvtDe(w)
           m == workers[w].lu
           r == workers[w].copie
           f == EffetRdv(e, m, r)
<1>1. /\ workers[w].etape = "copie"
      /\ rdvs' = f.lignes
      /\ uuids' = IF f.cle = uuids + 1 THEN uuids + 1 ELSE uuids
      /\ fond' = fond \cup {[worker |-> w, cle |-> f.cle, objet |-> e.objet,
                             demande |-> d] : d \in f.demandes}
  BY ConstantsAssumption DEF Traiter
<1>2. /\ Traitable(e) /\ e \in Evenement
      /\ e.action \in {"CREATE", "UPDATE", "DELETE"}
  BY <1>1, EvtEnMain, TravailType
     DEF Forme, EtapesEvenement, Traitable, Evenement, Actions
<1>3. /\ uuids \in Nat
      /\ r # Absent => r.id \in Nat /\ r.id =< uuids
  BY TravailType DEF Structure, Types, TypeLignes, Forme, Ligne
<1>4. \A l, c, D : /\ Effet(l, c, D).lignes = l /\ Effet(l, c, D).cle = c
                   /\ Effet(l, c, D).demandes = {d \in D : AFaire(d)}
  BY DEF Effet
<1>5. ASSUME f = HandleCreateRDV(e.objet, m),
             \/ e.action = "CREATE"
             \/ e.action = "UPDATE" /\ m # Absent /\ r = Absent
      PROVE  Cree(w) \/ RienAFaire(w)
  <2>1. CASE Recuperable(m)
    <3>1. f = Effet(rdvs \cup {[id |-> uuids + 1, objet |-> e.objet,
                                date |-> m.date]},
                    uuids + 1, {Ajouts(m.date)})
      BY <1>5, <2>1 DEF HandleCreateRDV
    <3> HIDE DEF f
    <3> QED BY <1>1, <1>4, <1>5, <2>1, <3>1 DEF Cree, Appels
  <2>2. CASE ~Recuperable(m)
    <3>1. f = Effet(rdvs, 0, {})
      BY <1>5, <2>2 DEF HandleCreateRDV, SansEffet
    <3> HIDE DEF f
    <3>2. f.lignes = rdvs /\ f.cle = 0 /\ f.demandes = {}
      BY <1>4, <3>1
    <3> QED BY <1>1, <1>3, <1>5, <2>2, <3>2 DEF RienAFaire, Rien
  <2> QED BY <2>1, <2>2
<1>6. ASSUME f = Suppression(r), r # Absent,
             \/ e.action = "DELETE"
             \/ e.action = "UPDATE" /\ m # Absent /\ ~Recuperable(m)
      PROVE  Supprime(w)
  <2>1. f = Effet({q \in rdvs : q.id # r.id}, r.id, {Retrait})
    BY <1>6 DEF Suppression
  <2> HIDE DEF f
  <2>2. /\ f.lignes = {q \in rdvs : q.id # r.id} /\ f.cle = r.id
        /\ f.demandes = {d \in {Retrait} : AFaire(d)}
    BY <1>4, <2>1
  <2>3. uuids' = uuids
    BY <1>1, <1>3, <1>6, <2>2
  <2> QED BY <1>1, <1>6, <2>2, <2>3 DEF Supprime, Appels
<1>7. ASSUME f = Modification(r, m), e.action = "UPDATE", r # Absent,
             Recuperable(m)
      PROVE  Modifie(w)
  <2>1. f = Effet(Remplacer(r, m), r.id,
                  IF m.date = r.date THEN {} ELSE {RetraitPuisAjouts(m.date)})
    BY <1>7 DEF Modification, RetraitPuisAjouts
  <2> HIDE DEF f
  <2>2. f.lignes = Remplacer(r, m) /\ f.cle = r.id
    BY <1>4, <2>1
  <2>3. uuids' = uuids
    BY <1>1, <1>3, <1>7, <2>2
  <2>4. CASE m.date = r.date
    <3>1. f.demandes = {}
      BY <1>4, <2>1, <2>4
    <3> QED BY <1>1, <1>7, <2>2, <2>3, <2>4, <3>1 DEF Modifie
  <2>5. CASE m.date # r.date
    <3>1. f.demandes = {d \in {RetraitPuisAjouts(m.date)} : AFaire(d)}
      BY <1>4, <2>1, <2>5
    <3> QED BY <1>1, <1>7, <2>2, <2>3, <2>5, <3>1 DEF Modifie, Appels
  <2> QED BY <2>4, <2>5
<1>8. ASSUME f = SansEffet,
             \/ e.action = "UPDATE" /\ m = Absent
             \/ e.action = "DELETE" /\ r = Absent
      PROVE  RienAFaire(w)
  <2>1. f = Effet(rdvs, 0, {})
    BY <1>8 DEF SansEffet
  <2> HIDE DEF f
  <2>2. f.lignes = rdvs /\ f.cle = 0 /\ f.demandes = {}
    BY <1>4, <2>1
  <2> QED BY <1>1, <1>3, <1>8, <2>2 DEF RienAFaire, Rien
<1>9. CASE e.action = "CREATE"
  BY <1>5, <1>9 DEF EffetRdv
<1>10. CASE e.action = "DELETE"
  BY <1>6, <1>8, <1>10 DEF EffetRdv, HandleDeleteRDV
<1>11. CASE e.action = "UPDATE"
  BY <1>5, <1>6, <1>7, <1>8, <1>11
     DEF EffetRdv, HandleUpdateRDV, HandleDeleteRDV
<1> QED BY <1>2, <1>9, <1>10, <1>11

LEMMA TraiterSessionCas ==
  ASSUME Structure, NEW w \in Workers, Traiter(w), EvtDe(w).objet \notin Rdvs
  PROVE  TraiteSession(w) /\ EvtDe(w).objet \in Sessions
<1> DEFINE e == EvtDe(w)
           m == workers[w].lu
           f == EffetSession(e, m)
<1>1. /\ workers[w].etape \in {"lu", "copie"}
      /\ rdvs' = f.lignes
      /\ uuids' = IF f.cle = uuids + 1 THEN uuids + 1 ELSE uuids
      /\ fond' = fond \cup {[worker |-> w, cle |-> f.cle, objet |-> e.objet,
                             demande |-> d] : d \in f.demandes}
  BY DEF Traiter
<1>2. e \in Evenement /\ e.objet \in Sessions
  BY <1>1, EvtEnMain DEF EtapesEvenement, Evenement, Objets
<1>3. \A l, c, D : /\ Effet(l, c, D).lignes = l /\ Effet(l, c, D).cle = c
                   /\ Effet(l, c, D).demandes = {d \in D : AFaire(d)}
  BY DEF Effet
<1>4. uuids + 1 \in Nat /\ uuids + 1 # 0
  BY DEF Structure, Types, TypeLignes
<1>5. e.objet # uuids + 1
  BY <1>2, <1>4, ConstantsAssumption
<1>6. \/ f = Effet(rdvs, e.objet, DemandesSession(e, m))
      \/ f = Effet(rdvs, 0, {}) /\ DemandesSession(e, m) = {}
  BY DEF EffetSession, DemandesSession, SansEffet
<1> HIDE DEF f
<1>7. CASE f = Effet(rdvs, e.objet, DemandesSession(e, m))
  BY <1>1, <1>2, <1>3, <1>5, <1>7 DEF TraiteSession, Appels
<1>8. CASE f = Effet(rdvs, 0, {}) /\ DemandesSession(e, m) = {}
  <2>1. f.lignes = rdvs /\ f.cle = 0 /\ f.demandes = {}
    BY <1>3, <1>8
  <2> QED BY <1>1, <1>2, <1>4, <1>8, <2>1 DEF TraiteSession, Appels
<1> QED BY <1>6, <1>7, <1>8

LEMMA DemandesTypes ==
  /\ Retrait \in Demande /\ AFaire(Retrait) /\ Retrait.retrait
  /\ Retrait.jours = {}
  /\ \A d \in Dates :
       /\ Ajouts(d) \in Demande /\ RetraitPuisAjouts(d) \in Demande
       /\ ~Ajouts(d).retrait /\ RetraitPuisAjouts(d).retrait
       /\ AFaire(RetraitPuisAjouts(d))
       /\ Ajouts(d).jours = {k \in JoursRappel : d > k}
       /\ RetraitPuisAjouts(d).jours = {k \in JoursRappel : d > k}
       /\ Ajouts(d).date = d /\ RetraitPuisAjouts(d).date = d
BY DEF Retrait, Ajouts, RetraitPuisAjouts, Demande, AFaire

LEMMA AppelsType ==
  ASSUME NEW w \in Workers, EvtDe(w) \in Evenement, NEW c \in Cles,
         NEW D \in SUBSET Demande
  PROVE  \A a : a \in Appels(w, c, D) <=>
           \E d \in D : /\ AFaire(d)
                        /\ a = [worker |-> w, cle |-> c,
                                objet |-> EvtDe(w).objet, demande |-> d]
                        /\ a \in Appel /\ a.worker = w /\ a.cle = c
                        /\ a.objet = EvtDe(w).objet /\ a.demande = d
BY DEF Appels, Appel, Evenement

LEMMA RecuperableType ==
  ASSUME Structure, NEW w \in Workers, Recuperable(workers[w].lu)
  PROVE  workers[w].lu \in ObjetMilo /\ workers[w].lu.date \in Dates
<1>1. workers[w].lu \in ObjetMilo \cup {Absent}
  BY TravailType DEF TravailEvt
<1> QED BY <1>1 DEF Recuperable, ObjetMilo

LEMMA RemplacerType ==
  ASSUME TypeLignes, NEW r \in Ligne, r.id =< uuids, NEW m \in ObjetMilo
  PROVE  \E n \in Ligne :
            /\ n.id = r.id /\ n.objet = r.objet /\ n.date = m.date
            /\ \A q : q \in Remplacer(r, m) <=>
                        (q \in rdvs /\ q.id # r.id) \/ q = n
<1> DEFINE n == [r EXCEPT !.date = m.date]
<1>1. n \in Ligne /\ n.id = r.id /\ n.objet = r.objet /\ n.date = m.date
  BY DEF Ligne, ObjetMilo
<1>2. \A q : q \in Remplacer(r, m) <=> (q \in rdvs /\ q.id # r.id) \/ q = n
  BY DEF Remplacer
<1> QED BY <1>1, <1>2

LEMMA StructureTraiter ==
  ASSUME Structure, NEW w \in Workers, Traiter(w)
  PROVE  Structure'
<1> DEFINE x == [workers[w] EXCEPT !.etape = "ecrit"]
           e == EvtDe(w)
           m == workers[w].lu
           r == workers[w].copie
<1>1. /\ workers[w].etape \in {"lu", "copie"}
      /\ workers' = [workers EXCEPT ![w] = x]
      /\ UNCHANGED <<milo, supprimes, publies, fileMilo, traites, jobs>>
  BY DEF Traiter
<1>2. /\ Occupe(w) /\ e \in Evenement /\ e = workers[w].evt
      /\ workers[w].aAcquitter = {} /\ workers[w].aPlanifier = {}
      /\ workers[w] \in TravailEvt
  BY <1>1, EvtEnMain DEF EtapesEvenement
<1>3. /\ x \in TravailEvt /\ x.evt = workers[w].evt
      /\ x.aAcquitter = {} /\ x.aPlanifier = {}
      /\ x.etape = "ecrit" /\ x.copie = r
  BY <1>2 DEF TravailEvt, EtapesEvenement
<1>4. /\ uuids \in Nat /\ TypeLignes
      /\ r # Absent => /\ r \in Ligne /\ r.id =< uuids /\ r.id \in Nat
                       /\ r.objet = e.objet
  BY <1>2, TravailType DEF Structure, Types, TypeLignes, Forme, Ligne
<1>5. ASSUME NEW c \in Cles, NEW D \in SUBSET Demande,
             fond' = fond \cup Appels(w, c, D)
      PROVE  TypeFond'
  BY <1>2, <1>5, AppelsType DEF Structure, Types, TypeFond
<1>6. TypeLignes' /\ uuids =< uuids' /\ TypeFond'
  <2>1. CASE e.objet \notin Rdvs
    <3>1. TraiteSession(w) /\ e.objet \in Sessions
      BY <2>1, TraiterSessionCas
    <3>2. DemandesSession(e, m) \in SUBSET Demande
      BY RecuperableType, DemandesTypes DEF DemandesSession
    <3>3. e.objet \in Cles
      BY <3>1 DEF Cles
    <3> QED BY <1>4, <1>5, <3>1, <3>2, <3>3 DEF TraiteSession, TypeLignes
  <2>2. CASE e.objet \in Rdvs /\ Cree(w)
    <3>1. m \in ObjetMilo /\ m.date \in Dates
      BY <2>2, RecuperableType DEF Cree
    <3>2. {Ajouts(m.date)} \in SUBSET Demande /\ uuids + 1 \in Cles
      BY <1>4, <3>1, DemandesTypes DEF Cles
    <3>3. [id |-> uuids + 1, objet |-> e.objet, date |-> m.date] \in Ligne
      BY <1>4, <2>2, <3>1 DEF Ligne
    <3>4. TypeLignes'
      BY <1>4, <2>2, <3>3 DEF Cree, TypeLignes, Ligne
    <3> QED BY <1>4, <1>5, <2>2, <3>2, <3>4 DEF Cree
  <2>3. CASE e.objet \in Rdvs /\ Modifie(w)
    <3>1. m \in ObjetMilo /\ m.date \in Dates
      BY <2>3, RecuperableType DEF Modifie
    <3>2. {RetraitPuisAjouts(m.date)} \in SUBSET Demande /\ r.id \in Cles
      BY <1>4, <2>3, <3>1, DemandesTypes DEF Cles, Modifie
    <3>3. TypeFond'
      BY <1>5, <2>3, <3>2, FondInchange DEF Modifie
    <3>4. rdvs' = Remplacer(r, m) /\ uuids' = uuids /\ r # Absent
      BY <2>3 DEF Modifie
    <3>5. \A q : q \in rdvs' =>
            (q \in rdvs \/ (q \in Ligne /\ q.id =< uuids))
      <4>1. r \in Ligne /\ r.id =< uuids
        BY <1>4, <3>4
      <4>2. \A q : q \in Remplacer(r, m) =>
              (q \in rdvs \/ (q \in Ligne /\ q.id =< uuids))
        <5> HIDE DEF r, m
        <5>1. PICK n \in Ligne :
                /\ n.id = r.id
                /\ \A q : q \in Remplacer(r, m) <=>
                            (q \in rdvs /\ q.id # r.id) \/ q = n
          BY <1>4, <3>1, <4>1, RemplacerType
        <5> QED BY <4>1, <5>1
      <4> QED BY <3>4, <4>2
    <3>6. TypeLignes'
      BY <1>4, <3>4, <3>5 DEF TypeLignes
    <3> QED BY <1>4, <3>3, <3>4, <3>6
  <2>4. CASE e.objet \in Rdvs /\ Supprime(w)
    <3>1. {Retrait} \in SUBSET Demande /\ r.id \in Cles
      BY <1>4, <2>4, DemandesTypes DEF Cles, Supprime
    <3>2. TypeFond'
      BY <1>5, <2>4, <3>1 DEF Supprime
    <3>3. TypeLignes' /\ uuids =< uuids'
      BY <1>4, <2>4 DEF Supprime, TypeLignes
    <3> QED BY <3>2, <3>3
  <2>5. CASE e.objet \in Rdvs /\ RienAFaire(w)
    BY <1>4, <2>5, FondInchange DEF RienAFaire, Rien, TypeLignes
  <2> QED BY <2>1, <2>2, <2>3, <2>4, <2>5, TraiterRdvCas
<1>7. x.copie # Absent => x.copie.id =< uuids' /\ x.copie.objet = x.evt.objet
  BY <1>2, <1>3, <1>4, <1>6 DEF TypeLignes
<1>8. x.etape \in EtapesEvenement
  BY <1>3 DEF EtapesEvenement
<1> HIDE DEF x
<1> QED BY <1>1, <1>2, <1>3, <1>6, <1>7, <1>8, StructureEnMain

-----------------------------------------------------------------------------
(* Jobs that change hands                                                   *)

LEMMA RemplaceTenu ==
  ASSUME Structure, NEW w \in Workers, Occupe(w),
         NEW k, EstEvenement(k), k.evt = EvtDe(w),
         jobs' = (jobs \ {JobDe(EvtDe(w))}) \cup {k}
  PROVE  /\ TypeJobs' /\ IdsJobs' /\ JobsDesAutres(w)
         /\ Remplace(JobDe(EvtDe(w)), k)
<1>1. Remplace(JobDe(EvtDe(w)), k)
  BY JobTenu DEF Remplace
<1>2. TypeJobs' /\ IdsJobs'
  BY <1>1, RemplaceType DEF Structure, Types
<1>3. JobsDesAutres(w)
  BY <1>1, JobTenu, RemplaceAutres DEF Structure, Types
<1> QED BY <1>1, <1>2, <1>3

LEMMA StructureRepos ==
  ASSUME Structure, NEW w \in Workers,
         workers' = [workers EXCEPT ![w] = Repos],
         TypeFile', TypeJobs', IdsJobs', JobsDesAutres(w), TypeFond',
         UNCHANGED <<milo, supprimes, rdvs, uuids>>
  PROVE  Structure'
BY ReposType, StructureSansEvenement

LEMMA EtatChange ==
  ASSUME NEW j, EstEvenement(j), NEW s \in EtatsJob
  PROVE  LET k == [j EXCEPT !.etat = s]
         IN EstEvenement(k) /\ k.evt = j.evt /\ k.etat = s
<1>1. j \in JobEvt /\ j.id = <<"event-milo", j.evt.id>>
  BY DEF EstEvenement
<1> DEFINE k == [j EXCEPT !.etat = s]
<1>2. k \in JobEvt /\ k.id = j.id /\ k.evt = j.evt /\ k.etat = s
  BY <1>1 DEF JobEvt
<1> QED BY <1>1, <1>2 DEF EstEvenement

LEMMA JobRepris ==
  ASSUME NEW j, EstEvenement(j)
  PROVE  LET k == [j EXCEPT !.etat = "attente", !.reprises = 1]
         IN EstEvenement(k) /\ k.evt = j.evt /\ k.etat = "attente"
<1>1. j \in JobEvt /\ j.id = <<"event-milo", j.evt.id>>
  BY DEF EstEvenement
<1> DEFINE k == [j EXCEPT !.etat = "attente", !.reprises = 1]
<1>2. "attente" \in EtatsJob /\ 1 \in 0 .. 1
  BY DEF EtatsJob
<1>3. k \in JobEvt /\ k.id = j.id /\ k.evt = j.evt /\ k.etat = "attente"
  BY <1>1, <1>2 DEF JobEvt
<1> QED BY <1>1, <1>3 DEF EstEvenement

LEMMA JobRetente ==
  ASSUME NEW j, EstEvenement(j), NEW s \in EtatsJob
  PROVE  LET k == [j EXCEPT !.essais = j.essais + 1, !.etat = s]
         IN EstEvenement(k) /\ k.evt = j.evt /\ k.etat = s
<1>1. j \in JobEvt /\ j.id = <<"event-milo", j.evt.id>>
  BY DEF EstEvenement
<1> DEFINE k == [j EXCEPT !.essais = j.essais + 1, !.etat = s]
<1>2. j.essais + 1 \in Nat
  BY <1>1 DEF JobEvt
<1>3. k \in JobEvt /\ k.id = j.id /\ k.evt = j.evt /\ k.etat = s
  BY <1>1, <1>2 DEF JobEvt
<1> QED BY <1>1, <1>3 DEF EstEvenement

(* The job a worker takes                                                   *)
LEMMA PrendreCas ==
  ASSUME Structure, NEW w \in Workers, NEW i, PrendreEvenement(w, i)
  PROVE  \E j \in jobs :
    /\ EstEvenement(j) /\ j.etat = "attente" /\ j.evt \in Evenement
    /\ workers[w] = Repos
    /\ Remplace(j, [j EXCEPT !.etat = "actif"])
    /\ workers' = [workers EXCEPT
                     ![w] = [Repos EXCEPT !.etape = "pris", !.evt = j.evt]]
    /\ perturbes' =
         IF \/ Traite(j.evt.objet)
            \/ EnDesordre(j.evt)
            \/ \E a \in fond : a.objet = j.evt.objet
           THEN perturbes \cup {j.evt.objet} ELSE perturbes
<1>1. PICK j \in JobsEchus(jobs, 0) :
        /\ workers[w] = Repos
        /\ j.id = <<"event-milo", i>>
        /\ jobs' = ChangerEtat(jobs, j, "actif")
        /\ workers' = [workers EXCEPT ![w].etape = "pris", ![w].evt = j.evt]
        /\ perturbes' =
             IF \/ Traite(j.evt.objet)
                \/ EnDesordre(j.evt)
                \/ \E a \in fond : a.objet = j.evt.objet
               THEN perturbes \cup {j.evt.objet} ELSE perturbes
  BY DEF PrendreEvenement
<1>2. j \in jobs /\ j.etat = "attente"
  BY DEF JobsEchus
<1>3. EstEvenement(j)
  BY <1>1, <1>2, RappelDistinct DEF Structure, Types, TypeJobs
<1>4. Remplace(j, [j EXCEPT !.etat = "actif"])
  BY <1>1, <1>2, <1>3, EtatChange DEF Remplace, ChangerEtat, EtatsJob
<1>5. workers' = [workers EXCEPT
                    ![w] = [Repos EXCEPT !.etape = "pris", !.evt = j.evt]]
  BY <1>1 DEF Structure, Types, TypeWorkers, TravailEvt
<1> QED BY <1>1, <1>2, <1>3, <1>4, <1>5, EvenementDistinct

LEMMA StructurePrendre ==
  ASSUME Structure, NEW w \in Workers, NEW i, PrendreEvenement(w, i)
  PROVE  Structure'
<1>1. PICK j \in jobs :
        /\ EstEvenement(j) /\ j.etat = "attente" /\ j.evt \in Evenement
        /\ workers[w] = Repos
        /\ Remplace(j, [j EXCEPT !.etat = "actif"])
        /\ workers' = [workers EXCEPT
                         ![w] = [Repos EXCEPT !.etape = "pris",
                                              !.evt = j.evt]]
  BY PrendreCas
<1> DEFINE x == [Repos EXCEPT !.etape = "pris", !.evt = j.evt]
           k == [j EXCEPT !.etat = "actif"]
<1>2. /\ x \in TravailEvt /\ x.evt = j.evt /\ x.etape = "pris"
      /\ x.aAcquitter = {} /\ x.aPlanifier = {} /\ x.copie = Absent
      /\ j.evt # Absent
  BY <1>1, ReposType, AbsentAssumption DEF TravailEvt, EtapesEvenement
<1>3. EstEvenement(k) /\ k.evt = j.evt /\ k.etat = "actif" /\ k \in jobs'
  BY <1>1, EtatChange DEF Remplace, EtatsJob
<1> HIDE DEF x, k
<1>4. TypeWorkers' /\ workers'[w] = x /\ Autres(w)
  BY <1>1, <1>2, MiseAJour DEF Structure, Types, x
<1>5. Occupe(w)' /\ EvtDe(w)' = j.evt
  BY <1>2, <1>4 DEF Occupe, EvtDe
<1>6. Forme(w)'
  BY <1>2, <1>3, <1>4, <1>5 DEF Forme, EtapesEvenement, EvtDe
<1>7. ASSUME NEW v \in Workers \ {w}, Occupe(v) PROVE EvtDe(v) # j.evt
  <2>1. PICK i2 \in jobs : /\ EstEvenement(i2) /\ i2.evt = EvtDe(v)
                           /\ i2.etat = "actif"
    BY <1>7 DEF Structure, Formes, Forme
  <2>2. CASE EvtDe(v) = j.evt
    <3>1. i2.id = j.id
      BY <1>1, <2>1, <2>2 DEF EstEvenement
    <3> QED BY <1>1, <2>1, <3>1 DEF Structure, Types, IdsJobs
  <2> QED BY <2>2
<1>8. JobsDesAutres(w)
  BY <1>1, <1>7 DEF JobsDesAutres, Remplace
<1>9. TypeJobs' /\ IdsJobs'
  BY <1>1, RemplaceType DEF Structure, Types
<1>10. /\ TypeMilo' /\ TypeFile' /\ TypeLignes' /\ TypeFond'
       /\ uuids' \in Nat /\ uuids =< uuids'
  BY DEF PrendreEvenement, Structure, Types, TypeMilo, TypeFile, TypeLignes,
         TypeFond
<1>11. Formes' /\ Detenteurs'
  BY <1>4, <1>5, <1>6, <1>7, <1>8, <1>10, FormesSuite DEF Structure, Types
<1> QED BY <1>4, <1>9, <1>10, <1>11 DEF Structure, Types

LEMMA StructureTerminer ==
  ASSUME Structure, NEW w \in Workers, Terminer(w)
  PROVE  Structure'
<1>1. Occupe(w) /\ EvtDe(w) \in Evenement
  BY EvtEnMain DEF Terminer, EtapesEvenement
<1> DEFINE j == JobDe(EvtDe(w))
           k == [j EXCEPT !.etat = "fini"]
<1>2. EstEvenement(k) /\ k.evt = EvtDe(w)
  <2>1. EstEvenement(j) /\ j.evt = EvtDe(w) /\ "fini" \in EtatsJob
    BY <1>1, JobTenu DEF EtatsJob
  <2> QED BY <2>1, EtatChange
<1>3. jobs' = (jobs \ {j}) \cup {k}
  BY DEF Terminer, ChangerEtat
<1> HIDE DEF k
<1>4. TypeJobs' /\ IdsJobs' /\ JobsDesAutres(w)
  BY <1>1, <1>2, <1>3, RemplaceTenu
<1>5. /\ workers' = [workers EXCEPT ![w] = Repos]
      /\ UNCHANGED <<milo, supprimes, rdvs, uuids>>
      /\ TypeFile' /\ TypeFond'
  BY <1>1, FileInchangee, FondInchange DEF Terminer
<1> QED BY <1>4, <1>5, StructureRepos

LEMMA EchecEvenementCas ==
  ASSUME Structure, NEW w \in Workers, EchecEvenement(w)
  PROVE  LET j == JobDe(EvtDe(w))
         IN /\ Occupe(w) /\ EvtDe(w) \in Evenement
            /\ \E k : /\ EstEvenement(k) /\ k.evt = EvtDe(w)
                      /\ k.etat \in {"attente", "fini"}
                      /\ jobs' = (jobs \ {j}) \cup {k}
                      /\ perturbes \subseteq perturbes'
                      /\ k.etat = "fini" => EvtDe(w).objet \in perturbes'
<1>1. Occupe(w) /\ EvtDe(w) \in Evenement
  BY EvtEnMain DEF EchecEvenement, EtapesEvenement
<1> DEFINE j == JobDe(EvtDe(w))
           s == IF EncoreUneFois(j) THEN "attente" ELSE "fini"
           k == [j EXCEPT !.essais = j.essais + 1, !.etat = s]
<1>2. EstEvenement(j) /\ j.evt = EvtDe(w) /\ s \in EtatsJob
  BY <1>1, JobTenu DEF EtatsJob
<1>3. EstEvenement(k) /\ k.evt = EvtDe(w) /\ k.etat = s
  BY <1>2, JobRetente
<1>4. /\ jobs' = (jobs \ {j}) \cup {k}
      /\ perturbes' = IF EncoreUneFois(j) THEN perturbes
                                          ELSE perturbes \cup {j.evt.objet}
  BY DEF EchecEvenement
<1>5. /\ k.etat \in {"attente", "fini"} /\ perturbes \subseteq perturbes'
      /\ k.etat = "fini" => EvtDe(w).objet \in perturbes'
  BY <1>2, <1>3, <1>4
<1> HIDE DEF k, s
<1> QED BY <1>1, <1>3, <1>4, <1>5

LEMMA StructureEchecEvenement ==
  ASSUME Structure, NEW w \in Workers, EchecEvenement(w)
  PROVE  Structure'
<1>1. PICK k : /\ EstEvenement(k) /\ k.evt = EvtDe(w)
               /\ jobs' = (jobs \ {JobDe(EvtDe(w))}) \cup {k}
  BY EchecEvenementCas
<1>2. TypeJobs' /\ IdsJobs' /\ JobsDesAutres(w)
  BY <1>1, EchecEvenementCas, RemplaceTenu
<1>3. /\ workers' = [workers EXCEPT ![w] = Repos]
      /\ UNCHANGED <<milo, supprimes, rdvs, uuids>>
      /\ TypeFile' /\ TypeFond'
  BY FileInchangee, FondInchange DEF EchecEvenement
<1> QED BY <1>2, <1>3, StructureRepos

LEMMA ArretCas ==
  ASSUME Structure, NEW w \in Workers, ArretWorker(w)
  PROVE  /\ workers' = [workers EXCEPT ![w] = Repos]
         /\ perturbes \subseteq perturbes'
         /\ fond' = {a \in fond : a.worker # w}
         /\ \A a \in fond : a.worker = w => a.objet \in perturbes'
         /\ ~Occupe(w) => jobs' = jobs
         /\ Occupe(w) =>
              \E k : /\ EstEvenement(k) /\ k.evt = EvtDe(w)
                     /\ k.etat \in {"attente", "fini"}
                     /\ jobs' = (jobs \ {JobDe(EvtDe(w))}) \cup {k}
                     /\ k.etat = "fini" \/ workers[w].etape = "ecrit" =>
                          EvtDe(w).objet \in perturbes'
<1> DEFINE j == JobDe(EvtDe(w))
           k == IF j.reprises = 0
                  THEN [j EXCEPT !.etat = "attente", !.reprises = 1]
                  ELSE [j EXCEPT !.etat = "fini"]
<1>1. /\ workers' = [workers EXCEPT ![w] = Repos]
      /\ fond' = fond \ {a \in fond : a.worker = w}
      /\ jobs' = IF ~Occupe(w) THEN jobs ELSE (jobs \ {j}) \cup {k}
      /\ perturbes' =
          perturbes \cup {a.objet : a \in {b \in fond : b.worker = w}}
            \cup IF Occupe(w) /\ (workers[w].etape = "ecrit" \/ j.reprises = 1)
                   THEN {j.evt.objet} ELSE {}
  BY DEF ArretWorker
<1>2. ASSUME Occupe(w)
      PROVE  \E n : /\ EstEvenement(n) /\ n.evt = EvtDe(w)
                    /\ n.etat \in {"attente", "fini"}
                    /\ jobs' = (jobs \ {JobDe(EvtDe(w))}) \cup {n}
                    /\ n.etat = "fini" \/ workers[w].etape = "ecrit" =>
                          EvtDe(w).objet \in perturbes'
  <2>1. /\ EstEvenement(j) /\ j.evt = EvtDe(w) /\ j.reprises \in 0 .. 1
        /\ "fini" \in EtatsJob
    BY <1>2, JobTenu DEF EtatsJob, EstEvenement, JobEvt
  <2>2. /\ EstEvenement(k) /\ k.evt = EvtDe(w)
        /\ k.etat = IF j.reprises = 0 THEN "attente" ELSE "fini"
    <3> HIDE DEF j
    <3>1. CASE j.reprises = 0
      <4> DEFINE n == [j EXCEPT !.etat = "attente", !.reprises = 1]
      <4>1. k = n
        BY <3>1
      <4>2. EstEvenement(n) /\ n.evt = j.evt /\ n.etat = "attente"
        BY <2>1, JobRepris
      <4> HIDE DEF n, k
      <4> QED BY <2>1, <3>1, <4>1, <4>2
    <3>2. CASE j.reprises # 0
      <4> DEFINE n == [j EXCEPT !.etat = "fini"]
      <4>1. k = n
        BY <3>2
      <4>2. EstEvenement(n) /\ n.evt = j.evt /\ n.etat = "fini"
        BY <2>1, EtatChange
      <4> HIDE DEF n, k
      <4> QED BY <2>1, <3>2, <4>1, <4>2
    <3> QED BY <3>1, <3>2
  <2>3. jobs' = (jobs \ {JobDe(EvtDe(w))}) \cup {k}
    BY <1>1, <1>2
  <2> HIDE DEF k
  <2>4. k.etat \in {"attente", "fini"} /\ (k.etat = "fini" => j.reprises = 1)
    BY <2>1, <2>2
  <2>5. k.etat = "fini" \/ workers[w].etape = "ecrit" =>
           EvtDe(w).objet \in perturbes'
    BY <1>1, <1>2, <2>1, <2>4
  <2> QED BY <2>2, <2>3, <2>4, <2>5
<1> QED BY <1>1, <1>2

LEMMA StructureArret ==
  ASSUME Structure, NEW w \in Workers, ArretWorker(w)
  PROVE  Structure'
<1>1. TypeJobs' /\ IdsJobs' /\ JobsDesAutres(w)
  <2>1. CASE Occupe(w)
    <3>1. PICK k : /\ EstEvenement(k) /\ k.evt = EvtDe(w)
                   /\ jobs' = (jobs \ {JobDe(EvtDe(w))}) \cup {k}
      BY <2>1, ArretCas
    <3> QED BY <2>1, <3>1, RemplaceTenu
  <2>2. CASE ~Occupe(w)
    BY <2>2, ArretCas, JobsInchanges
  <2> QED BY <2>1, <2>2
<1>2. /\ workers' = [workers EXCEPT ![w] = Repos]
      /\ UNCHANGED <<milo, supprimes, rdvs, uuids>>
      /\ TypeFile' /\ TypeFond'
  <2>1. fond' \subseteq fond
    BY ArretCas
  <2> QED BY <2>1, ArretCas, FileInchangee, FondInchange DEF ArretWorker
<1> QED BY <1>1, <1>2, StructureRepos

-----------------------------------------------------------------------------
(* Steps of nobody in particular                                            *)

(* The jobs a worker holds stay; none of the rest of Structure is touched.  *)
LEMMA StructureAilleurs ==
  ASSUME Structure, TypeJobs', IdsJobs', TypeFond',
         \A j \in jobs : EstEvenement(j) /\ j.etat = "actif" => j \in jobs',
         UNCHANGED <<milo, supprimes, publies, fileMilo, rdvs, uuids, workers,
                     traites>>
  PROVE  Structure'
<1>1. TypeMilo' /\ TypeFile' /\ TypeLignes' /\ TypeWorkers'
  BY DEF Structure, Types, TypeMilo, TypeFile, TypeLignes, TypeWorkers
<1>2. ASSUME NEW w \in Workers PROVE Forme(w)'
  <2>1. Forme(w)
    BY DEF Structure, Formes
  <2>2. Occupe(w) => \E j \in jobs' : /\ EstEvenement(j)
                                     /\ j.evt = EvtDe(w) /\ j.etat = "actif"
    BY <2>1 DEF Forme
  <2> QED BY <2>1, <2>2 DEF Forme, Occupe, EvtDe
<1>3. Detenteurs'
  BY DEF Structure, Detenteurs, Occupe, EvtDe
<1> QED BY <1>1, <1>2, <1>3 DEF Structure, Types, Formes

LEMMA SuiteType ==
  ASSUME Structure, NEW a \in fond, NEW d \in Demande, fond' = Suite(a, d)
  PROVE  /\ TypeFond'
         /\ \A b : b \in fond' <=>
              \/ b \in fond /\ b # a
              \/ /\ AFaire(d) /\ b = [a EXCEPT !.demande = d]
                 /\ b \in Appel /\ b.worker = a.worker /\ b.cle = a.cle
                 /\ b.objet = a.objet /\ b.demande = d
<1> DEFINE n == [a EXCEPT !.demande = d]
<1>1. /\ n \in Appel /\ n.worker = a.worker /\ n.cle = a.cle
      /\ n.objet = a.objet /\ n.demande = d
  BY DEF Structure, Types, TypeFond, Appel
<1>2. \A b : b \in fond' <=> (b \in fond /\ b # a) \/ (AFaire(d) /\ b = n)
  BY DEF Suite
<1> HIDE DEF n
<1>3. TypeFond'
  BY <1>1, <1>2 DEF Structure, Types, TypeFond
<1> QED BY <1>1, <1>2, <1>3 DEF n

LEMMA RetirerCas ==
  ASSUME Structure, NEW a \in fond, Retirer(a)
  PROVE  /\ jobs' = {j \in jobs : ~(EstRappel(j) /\ j.id[2] \in Concernes(a))}
         /\ [a.demande EXCEPT !.retrait = FALSE] \in Demande
         /\ a.cle \in Concernes(a)
         /\ a.cle \in Cles /\ a.objet \in Objets
<1>1. a \in Appel
  BY DEF Structure, Types, TypeFond
<1>2. a.cle \in Cles /\ a.demande \in Demande /\ a.objet \in Objets
  BY <1>1 DEF Appel
<1>3. [a.demande EXCEPT !.retrait = FALSE] \in Demande
  BY <1>2 DEF Demande
<1>4. a.cle \in Concernes(a)
  BY <1>2, ConstantsAssumption DEF Concernes
<1>5. ASSUME NEW j \in jobs
      PROVE  (j.id \notin {"rappel"} \X Concernes(a) \X JoursRappel
                \/ j.etat = "actif")
               <=> ~(EstRappel(j) /\ j.id[2] \in Concernes(a))
  <2>1. CASE EstRappel(j)
    <3>1. /\ j.id = <<"rappel", j.id[2], j.id[3]>> /\ j.id[3] \in JoursRappel
          /\ j.etat # "actif"
      BY <2>1, RappelDistinct
    <3>2. <<"rappel", j.id[2], j.id[3]>>
             \in {"rappel"} \X Concernes(a) \X JoursRappel
            <=> j.id[2] \in Concernes(a)
      BY <3>1
    <3> QED BY <2>1, <3>1, <3>2
  <2>2. CASE ~EstRappel(j)
    <3>1. EstEvenement(j)
      BY <2>2 DEF Structure, Types, TypeJobs
    <3> QED BY <2>2, <3>1, EvenementDistinct
  <2> QED BY <2>1, <2>2
<1>6. jobs' = {j \in jobs : ~(EstRappel(j) /\ j.id[2] \in Concernes(a))}
  BY <1>5 DEF Retirer, SupprimerJobs
<1> QED BY <1>2, <1>3, <1>4, <1>6

LEMMA StructureRetirer ==
  ASSUME Structure, NEW a \in fond, Retirer(a)
  PROVE  Structure'
<1>1. TypeJobs' /\ IdsJobs'
  BY RetirerCas, SousEnsembleType DEF Structure, Types
<1>2. TypeFond'
  BY RetirerCas, SuiteType DEF Retirer
<1>3. \A j \in jobs : EstEvenement(j) => j \in jobs'
  BY RetirerCas, EvenementDistinct
<1> QED BY <1>1, <1>2, <1>3, StructureAilleurs DEF Retirer

NouveauRappel(a, k) ==
  [id |-> <<"rappel", a.cle, k>>, echeance |-> a.demande.date - k,
   etat |-> "attente"]

LEMMA AjouterCas ==
  ASSUME Structure, NEW a \in fond, Ajouter(a)
  PROVE  \E k \in a.demande.jours :
           /\ jobs' = AjouterJob(jobs, NouveauRappel(a, k))
           /\ EstRappel(NouveauRappel(a, k))
           /\ NouveauRappel(a, k).id = <<"rappel", a.cle, k>>
           /\ NouveauRappel(a, k).echeance = a.demande.date - k
           /\ k \in JoursRappel
           /\ fond' = Suite(a, [a.demande EXCEPT !.jours =
                                  a.demande.jours \ {k}])
           /\ [a.demande EXCEPT !.jours = a.demande.jours \ {k}] \in Demande
           /\ a.cle \in Cles
<1>1. PICK k \in a.demande.jours :
        /\ jobs' = AjouterJob(jobs, NouveauRappel(a, k))
        /\ fond' = Suite(a, [a.demande EXCEPT !.jours =
                               a.demande.jours \ {k}])
  BY DEF Ajouter, NouveauRappel
<1>2. a \in Appel
  BY DEF Structure, Types, TypeFond
<1>3. a.cle \in Cles /\ a.demande \in Demande
  BY <1>2 DEF Appel
<1>4. /\ k \in JoursRappel /\ a.demande.date \in Int
      /\ [a.demande EXCEPT !.jours = a.demande.jours \ {k}] \in Demande
  BY <1>3, ConstantsAssumption DEF Demande
<1>5. k \in Int
  BY <1>4 DEF JoursRappel
<1>6. /\ EstRappel(NouveauRappel(a, k))
      /\ NouveauRappel(a, k).id = <<"rappel", a.cle, k>>
      /\ NouveauRappel(a, k).echeance = a.demande.date - k
  BY <1>3, <1>4, <1>5 DEF EstRappel, Rappel, NouveauRappel, EtatsJob
<1> QED BY <1>1, <1>3, <1>4, <1>6

LEMMA StructureAjouter ==
  ASSUME Structure, NEW a \in fond, Ajouter(a)
  PROVE  Structure'
<1>1. PICK k \in a.demande.jours :
        /\ jobs' = AjouterJob(jobs, NouveauRappel(a, k))
        /\ EstRappel(NouveauRappel(a, k))
        /\ fond' = Suite(a, [a.demande EXCEPT !.jours =
                               a.demande.jours \ {k}])
        /\ [a.demande EXCEPT !.jours = a.demande.jours \ {k}] \in Demande
  BY AjouterCas
<1>2. TypeJobs' /\ IdsJobs' /\ jobs \subseteq jobs'
  BY <1>1, AjouterJobType DEF Structure, Types
<1>3. TypeFond'
  BY <1>1, SuiteType
<1> QED BY <1>2, <1>3, StructureAilleurs DEF Ajouter

LEMMA StructureEchecDemande ==
  ASSUME Structure, NEW a \in fond, EchecDemande(a)
  PROVE  Structure'
<1>1. TypeFond'
  BY FondInchange DEF EchecDemande
<1>2. TypeJobs' /\ IdsJobs' /\ jobs' = jobs
  BY DEF EchecDemande, Structure, Types, TypeJobs, IdsJobs
<1> QED BY <1>1, <1>2, StructureAilleurs DEF EchecDemande

LEMMA NettoyerCas ==
  ASSUME Structure, NettoyerJobs
  PROVE  /\ \A w \in Workers : ~EnSuivi(w)
         /\ jobs' \subseteq jobs /\ perturbes \subseteq perturbes'
         /\ \A j \in jobs \ jobs' :
              /\ EstEvenement(j) /\ j.etat = "fini" /\ j.evt \in traites
              /\ j.evt \in fileMilo => j.evt.objet \in perturbes'
<1>1. PICK vieux \in SUBSET {j \in JobsEvenements : j.etat = "fini"
                                                  /\ j.evt \in traites} :
        /\ jobs' = jobs \ vieux
        /\ perturbes' = perturbes \cup
             {j.evt.objet : j \in {k \in vieux : k.evt \in fileMilo}}
  BY DEF NettoyerJobs
<1>2. \A j \in vieux : /\ EstEvenement(j) /\ j.etat = "fini"
                       /\ j.evt \in traites
  BY DeuxSortes DEF Structure, Types
<1> QED BY <1>1, <1>2 DEF NettoyerJobs

LEMMA StructureNettoyer ==
  ASSUME Structure, NettoyerJobs
  PROVE  Structure'
<1>1. TypeJobs' /\ IdsJobs'
  BY NettoyerCas, SousEnsembleType DEF Structure, Types
<1>2. \A j \in jobs : j.etat = "actif" => j \in jobs'
  BY NettoyerCas
<1>3. TypeFond'
  BY DEF NettoyerJobs, Structure, Types, TypeFond
<1> QED BY <1>1, <1>2, <1>3, StructureAilleurs DEF NettoyerJobs

LEMMA StructureSuite == Structure /\ [Next]_vars => Structure'
<1> SUFFICES ASSUME Structure, [Next]_vars PROVE Structure'
  OBVIOUS
<1>1. CASE UNCHANGED vars
  BY <1>1 DEF vars, Structure, Types, TypeMilo, TypeFile, TypeLignes, TypeFond,
     TypeWorkers, TypeJobs, IdsJobs, Formes, Forme, Detenteurs, Occupe, EvtDe
<1>2. ASSUME NEW o \in Objets, Publier(o) PROVE Structure'
  BY <1>2, StructurePublier
<1>3. ASSUME NEW w \in Workers, DemarrerSuivi(w) PROVE Structure'
  BY <1>3, StructureDemarrerSuivi
<1>4. ASSUME NEW w \in Workers, Avancer(w) PROVE Structure'
  BY <1>4, StructureVerifierSuivi, StructureInterroger, StructurePlanifier,
     StructureAcquitter, StructureLireMilo, StructureLireCopie,
     StructureTraiter, StructureTerminer DEF Avancer
<1>5. ASSUME NEW w \in Workers,
             Acquitter(w, TRUE) \/ EchecSuivi(w) \/ EchecEvenement(w)
               \/ ArretWorker(w)
      PROVE  Structure'
  BY <1>5, StructureAcquitter, StructureEchecSuivi, StructureEchecEvenement,
     StructureArret
<1>6. ASSUME NEW w \in Workers, NEW i \in 1 .. MaxEvenements,
             PrendreEvenement(w, i)
      PROVE  Structure'
  BY <1>6, StructurePrendre
<1>7. ASSUME NEW a \in fond, ExecuterDemande(a) \/ EchecDemande(a)
      PROVE  Structure'
  BY <1>7, StructureRetirer, StructureAjouter, StructureEchecDemande
     DEF ExecuterDemande
<1>8. CASE NettoyerJobs
  BY <1>8, StructureNettoyer
<1> QED BY <1>1, <1>2, <1>3, <1>4, <1>5, <1>6, <1>7, <1>8 DEF Next

-----------------------------------------------------------------------------
(* The events that are somewhere                                            *)

JobPour(e) == \E j \in jobs : EstEvenement(j) /\ j.evt = e

Vu(e) == \/ e \in fileMilo \/ e \in traites \/ JobPour(e)
         \/ \E w \in Workers : e \in workers[w].aAcquitter

(* A worker takes the job; a job that waits changes only then.              *)
Pris(j) ==
  \E w \in Workers, i \in 1 .. MaxEvenements :
    /\ PrendreEvenement(w, i) /\ workers[w] = Repos
    /\ workers' = [workers EXCEPT
                     ![w] = [Repos EXCEPT !.etape = "pris", !.evt = j.evt]]

Change(j, k) ==
  /\ Remplace(j, k)
  /\ j.etat = "actif" \/ (j.etat = "attente" /\ Pris(j))

(* What a step does to the jobs                                             *)
LEMMA JobsSuite ==
  ASSUME Structure, [Next]_vars
  PROVE  \/ jobs' = jobs
         \/ \E j, k : Change(j, k)
         \/ \E w \in Workers : \E e \in workers[w].aPlanifier :
              /\ Planifier(w) /\ jobs' = AjouterJob(jobs, NouveauJob(e))
              /\ workers' = [workers EXCEPT
                               ![w].aPlanifier = workers[w].aPlanifier \ {e}]
         \/ \E a \in fond : \E n :
              /\ Ajouter(a) /\ EstRappel(n) /\ jobs' = AjouterJob(jobs, n)
         \/ /\ \E a \in fond : Retirer(a)
            /\ jobs' \subseteq jobs
            /\ \A j \in jobs : EstEvenement(j) => j \in jobs'
         \/ NettoyerJobs
<1>1. CASE UNCHANGED vars
  BY <1>1 DEF vars
<1>2. ASSUME NEW o \in Objets, Publier(o) PROVE jobs' = jobs
  BY <1>2 DEF Publier
<1>3. ASSUME NEW w \in Workers,
             \/ DemarrerSuivi(w) \/ VerifierSuivi(w) \/ Interroger(w)
             \/ Acquitter(w, FALSE) \/ Acquitter(w, TRUE) \/ LireMilo(w)
             \/ LireCopie(w) \/ Traiter(w) \/ EchecSuivi(w)
      PROVE  jobs' = jobs
  BY <1>3 DEF DemarrerSuivi, VerifierSuivi, Interroger, Acquitter, LireMilo,
              LireCopie, Traiter, EchecSuivi
<1>4. ASSUME NEW w \in Workers, Planifier(w)
      PROVE  \E e \in workers[w].aPlanifier :
               /\ Planifier(w) /\ jobs' = AjouterJob(jobs, NouveauJob(e))
               /\ workers' = [workers EXCEPT
                                ![w].aPlanifier = workers[w].aPlanifier \ {e}]
  BY <1>4 DEF Planifier
<1>5. ASSUME NEW w \in Workers, Terminer(w) PROVE \E j, k : Change(j, k)
  <2>1. Occupe(w)
    BY <1>5, EvtEnMain DEF Terminer, EtapesEvenement
  <2> DEFINE j == JobDe(EvtDe(w))
             k == [j EXCEPT !.etat = "fini"]
  <2>2. EstEvenement(k) /\ k.evt = EvtDe(w)
    <3>1. EstEvenement(j) /\ j.evt = EvtDe(w) /\ "fini" \in EtatsJob
      BY <2>1, JobTenu DEF EtatsJob
    <3> QED BY <3>1, EtatChange
  <2>3. jobs' = (jobs \ {j}) \cup {k}
    BY <1>5 DEF Terminer, ChangerEtat
  <2> HIDE DEF k
  <2>4. Change(j, k)
    BY <2>1, <2>2, <2>3, RemplaceTenu, JobTenu DEF Change
  <2> QED BY <2>4
<1>6. ASSUME NEW w \in Workers, NEW i \in 1 .. MaxEvenements,
             PrendreEvenement(w, i)
      PROVE  \E j, k : Change(j, k)
  BY <1>6, PrendreCas DEF Change, Pris
<1>7. ASSUME NEW w \in Workers, EchecEvenement(w)
      PROVE  \E j, k : Change(j, k)
  <2>1. PICK k : /\ Occupe(w) /\ EstEvenement(k) /\ k.evt = EvtDe(w)
                 /\ jobs' = (jobs \ {JobDe(EvtDe(w))}) \cup {k}
    BY <1>7, EchecEvenementCas
  <2> QED BY <2>1, RemplaceTenu, JobTenu DEF Change
<1>8. ASSUME NEW w \in Workers, ArretWorker(w)
      PROVE  jobs' = jobs \/ \E j, k : Change(j, k)
  <2>1. CASE Occupe(w)
    <3>1. PICK k : /\ EstEvenement(k) /\ k.evt = EvtDe(w)
                   /\ jobs' = (jobs \ {JobDe(EvtDe(w))}) \cup {k}
      BY <1>8, <2>1, ArretCas
    <3> QED BY <2>1, <3>1, RemplaceTenu, JobTenu DEF Change
  <2> QED BY <1>8, <2>1, ArretCas
<1>9. ASSUME NEW a \in fond, Retirer(a)
      PROVE  /\ jobs' \subseteq jobs
             /\ \A j \in jobs : EstEvenement(j) => j \in jobs'
  BY <1>9, RetirerCas, EvenementDistinct
<1>10. ASSUME NEW a \in fond, Ajouter(a)
       PROVE  \E n : EstRappel(n) /\ jobs' = AjouterJob(jobs, n)
  BY <1>10, AjouterCas
<1>11. ASSUME NEW a \in fond, EchecDemande(a) PROVE jobs' = jobs
  BY <1>11 DEF EchecDemande
<1> QED BY <1>1, <1>2, <1>3, <1>4, <1>5, <1>6, <1>7, <1>8, <1>9, <1>10, <1>11
        DEF Next, Avancer, ExecuterDemande

(* The events that have a job                                               *)
LEMMA JobPourSuite ==
  ASSUME Structure, [Next]_vars, NEW e \in Evenement
  PROVE  /\ JobPour(e)' => \/ JobPour(e)
                           \/ \E w \in Workers : e \in workers[w].aPlanifier
         /\ JobPour(e) => JobPour(e)' \/ NettoyerJobs
<1>1. CASE jobs' = jobs
  BY <1>1 DEF JobPour
<1>2. ASSUME NEW j, NEW k, Change(j, k) PROVE JobPour(e)' <=> JobPour(e)
  BY <1>2 DEF Change, Remplace, JobPour
<1>3. ASSUME NEW w \in Workers, NEW f \in workers[w].aPlanifier,
             jobs' = AjouterJob(jobs, NouveauJob(f))
      PROVE  /\ JobPour(e)' => JobPour(e) \/ e = f
             /\ JobPour(e) => JobPour(e)'
  <2>1. f \in Evenement
    BY TravailType DEF TravailEvt
  <2>2. EstEvenement(NouveauJob(f)) /\ NouveauJob(f).evt = f
    BY <2>1, NouveauJobType
  <2> QED BY <1>3, <2>2, AjouterJobType DEF JobPour, Structure, Types
<1>4. ASSUME NEW n, EstRappel(n), jobs' = AjouterJob(jobs, n)
      PROVE  JobPour(e)' <=> JobPour(e)
  <2>1. ~EstEvenement(n)
    BY <1>4, RappelDistinct
  <2> QED BY <1>4, <2>1, AjouterJobType DEF JobPour, Structure, Types
<1>5. CASE /\ jobs' \subseteq jobs
           /\ \A j \in jobs : EstEvenement(j) => j \in jobs'
  BY <1>5 DEF JobPour
<1>6. CASE NettoyerJobs
  BY <1>6, NettoyerCas DEF JobPour
<1> QED BY <1>1, <1>2, <1>3, <1>4, <1>5, <1>6, JobsSuite

(* What a step does to the work of the polls                                *)
LEMMA SuiviSuite ==
  ASSUME Structure, [Next]_vars, NEW w \in Workers
  PROVE  \/ /\ workers'[w].aAcquitter \subseteq workers[w].aAcquitter
            /\ workers'[w].aPlanifier = workers[w].aPlanifier
         \/ workers'[w].aAcquitter = {}
         \/ Interroger(w) /\ workers'[w].aAcquitter = Lus(w)
            /\ workers'[w].aPlanifier = EvenementsAPlanifier(Lus(w))
         \/ \E e \in workers[w].aPlanifier :
              /\ Planifier(w) /\ jobs' = AjouterJob(jobs, NouveauJob(e))
              /\ workers'[w].aAcquitter = workers[w].aAcquitter
              /\ workers'[w].aPlanifier = workers[w].aPlanifier \ {e}
<1> DEFINE But ==
      \/ /\ workers'[w].aAcquitter \subseteq workers[w].aAcquitter
         /\ workers'[w].aPlanifier = workers[w].aPlanifier
      \/ workers'[w].aAcquitter = {}
      \/ Interroger(w) /\ workers'[w].aAcquitter = Lus(w)
         /\ workers'[w].aPlanifier = EvenementsAPlanifier(Lus(w))
      \/ \E e \in workers[w].aPlanifier :
           /\ Planifier(w) /\ jobs' = AjouterJob(jobs, NouveauJob(e))
           /\ workers'[w].aAcquitter = workers[w].aAcquitter
           /\ workers'[w].aPlanifier = workers[w].aPlanifier \ {e}
<1> SUFFICES But
  OBVIOUS
<1>0. workers \in [Workers -> TravailEvt] /\ workers[w] \in TravailEvt
  BY DEF Structure, Types, TypeWorkers
<1>1. CASE workers' = workers
  BY <1>1
<1>2. ASSUME NEW o \in Objets, Publier(o) PROVE workers' = workers
  BY <1>2 DEF Publier
<1>3. ASSUME NEW a \in fond, ExecuterDemande(a) \/ EchecDemande(a)
      PROVE  workers' = workers
  BY <1>3 DEF ExecuterDemande, Retirer, Ajouter, EchecDemande
<1>4. CASE NettoyerJobs
  BY <1>4 DEF NettoyerJobs
<1>5. ASSUME NEW v \in Workers, NEW x \in TravailEvt,
             workers' = [workers EXCEPT ![v] = x],
             \/ x.aAcquitter = {}
             \/ x.aAcquitter \subseteq workers[v].aAcquitter
                  /\ x.aPlanifier = workers[v].aPlanifier
      PROVE  But
  BY <1>0, <1>5
<1>6. ASSUME NEW v \in Workers, DemarrerSuivi(v) PROVE But
  <2>1. /\ workers[v] = Repos
        /\ workers' = [workers EXCEPT ![v].etape = "verif",
                                      ![v].reste = MaxBatch]
    BY <1>6 DEF DemarrerSuivi
  <2>2. CASE v # w
    BY <1>0, <2>1, <2>2
  <2>3. CASE v = w
    <3>1. workers'[w].aAcquitter = workers[w].aAcquitter
      BY <1>0, <2>1, <2>3 DEF TravailEvt
    <3>2. workers'[w].aPlanifier = workers[w].aPlanifier
      BY <1>0, <2>1, <2>3 DEF TravailEvt
    <3> QED BY <3>1, <3>2
  <2> QED BY <2>2, <2>3
<1>7. ASSUME NEW v \in Workers, VerifierSuivi(v) PROVE But
  BY <1>0, <1>7, ReposType DEF VerifierSuivi, TravailEvt
<1>8. ASSUME NEW v \in Workers, Interroger(v) PROVE But
  <2>1. CASE v # w
    BY <1>0, <1>8, <2>1 DEF Interroger
  <2>2. CASE v = w /\ Lus(v) = {}
    BY <1>0, <1>8, <2>2, ReposType DEF Interroger
  <2>3. CASE v = w /\ Lus(v) # {}
    <3>1. workers' = [workers EXCEPT
                        ![w].aPlanifier = EvenementsAPlanifier(Lus(w)),
                        ![w].aAcquitter = Lus(w),
                        ![w].reste = workers[w].reste - Cardinality(Lus(w))]
      BY <1>8, <2>3 DEF Interroger
    <3>2. workers'[w].aAcquitter = Lus(w)
      BY <1>0, <3>1 DEF TravailEvt
    <3>3. workers'[w].aPlanifier = EvenementsAPlanifier(Lus(w))
      BY <1>0, <3>1 DEF TravailEvt
    <3> QED BY <1>8, <2>3, <3>2, <3>3
  <2> QED BY <2>1, <2>2, <2>3
<1>9. ASSUME NEW v \in Workers, Planifier(v) PROVE But
  <2>1. PICK e \in workers[v].aPlanifier :
          /\ jobs' = AjouterJob(jobs, NouveauJob(e))
          /\ workers' = [workers EXCEPT
                           ![v].aPlanifier = workers[v].aPlanifier \ {e}]
    BY <1>9 DEF Planifier
  <2>2. CASE v # w
    BY <1>0, <2>1, <2>2
  <2>3. CASE v = w
    BY <1>0, <1>9, <2>1, <2>3 DEF TravailEvt
  <2> QED BY <2>2, <2>3
<1>10. ASSUME NEW v \in Workers, NEW echec, Acquitter(v, echec) PROVE But
  <2>1. PICK e \in workers[v].aAcquitter :
          workers' =
            IF workers[v].aAcquitter = {e} /\ workers[v].reste = 0
              THEN [workers EXCEPT ![v] = Repos]
              ELSE [workers EXCEPT
                      ![v].aAcquitter = workers[v].aAcquitter \ {e}]
    BY <1>10 DEF Acquitter
  <2>2. CASE v # w
    BY <1>0, <2>1, <2>2
  <2>3. CASE v = w
    BY <1>0, <2>1, <2>3, ReposType DEF TravailEvt
  <2> QED BY <2>2, <2>3
<1>11. ASSUME NEW v \in Workers, LireMilo(v) PROVE But
  <2>1. CASE v # w
    BY <1>0, <1>11, <2>1 DEF LireMilo
  <2>2. CASE v = w
    <3>1. workers'[w].aAcquitter = workers[w].aAcquitter
      BY <1>0, <1>11, <2>2 DEF LireMilo, TravailEvt
    <3>2. workers'[w].aPlanifier = workers[w].aPlanifier
      BY <1>0, <1>11, <2>2 DEF LireMilo, TravailEvt
    <3> QED BY <3>1, <3>2
  <2> QED BY <2>1, <2>2
<1>12. ASSUME NEW v \in Workers, LireCopie(v) PROVE But
  <2>0. PICK r : workers' = [workers EXCEPT ![v].etape = "copie",
                                            ![v].copie = r]
    BY <1>12 DEF LireCopie
  <2>1. CASE v # w
    BY <1>0, <2>0, <2>1
  <2>2. CASE v = w
    <3>1. workers'[w].aAcquitter = workers[w].aAcquitter
      BY <1>0, <2>0, <2>2 DEF TravailEvt
    <3>2. workers'[w].aPlanifier = workers[w].aPlanifier
      BY <1>0, <2>0, <2>2 DEF TravailEvt
    <3> QED BY <3>1, <3>2
  <2> QED BY <2>1, <2>2
<1>13. ASSUME NEW v \in Workers, Traiter(v) PROVE But
  BY <1>0, <1>13 DEF Traiter, TravailEvt
<1>14. ASSUME NEW v \in Workers,
              Terminer(v) \/ EchecSuivi(v) \/ EchecEvenement(v) \/ ArretWorker(v)
       PROVE  But
  <2>1. workers' = [workers EXCEPT ![v] = Repos]
    BY <1>14 DEF Terminer, EchecSuivi, EchecEvenement, ArretWorker
  <2> QED BY <1>0, <2>1, ReposType
<1>15. ASSUME NEW v \in Workers, NEW i \in 1 .. MaxEvenements,
              PrendreEvenement(v, i)
       PROVE  But
  <2>1. PICK j : workers' =
                   [workers EXCEPT
                      ![v] = [Repos EXCEPT !.etape = "pris", !.evt = j.evt]]
    BY <1>15, PrendreCas
  <2> DEFINE x == [Repos EXCEPT !.etape = "pris", !.evt = j.evt]
  <2>2. x.aAcquitter = {}
    BY ReposType DEF Repos
  <2>3. workers[v].aAcquitter = {} /\ workers' = [workers EXCEPT ![v] = x]
    BY <1>15, <2>1, ReposType DEF PrendreEvenement
  <2> HIDE DEF x
  <2>4. CASE v = w
    BY <1>0, <2>2, <2>3, <2>4
  <2>5. CASE v # w
    BY <1>0, <2>3, <2>5
  <2> QED BY <2>4, <2>5
<1>16. CASE UNCHANGED vars
  BY <1>16 DEF vars
<1> HIDE DEF But
<1>17. CASE workers' = workers
  BY <1>1, <1>17
<1>18. ASSUME NEW v \in Workers, Avancer(v) PROVE But
  BY <1>7, <1>8, <1>9, <1>10, <1>11, <1>12, <1>13, <1>14, <1>18 DEF Avancer
<1>19. ASSUME NEW v \in Workers,
              \/ DemarrerSuivi(v) \/ Avancer(v) \/ Acquitter(v, TRUE)
              \/ EchecSuivi(v) \/ EchecEvenement(v) \/ ArretWorker(v)
              \/ \E i \in 1 .. MaxEvenements : PrendreEvenement(v, i)
       PROVE  But
  BY <1>6, <1>10, <1>14, <1>15, <1>18, <1>19
<1>20. CASE \/ \E o \in Objets : Publier(o)
            \/ \E a \in fond : ExecuterDemande(a) \/ EchecDemande(a)
            \/ NettoyerJobs
  BY <1>2, <1>3, <1>4, <1>17, <1>20
<1> QED BY <1>16, <1>19, <1>20 DEF Next

LEMMA VuType ==
  ASSUME Structure, NEW e, Vu(e)
  PROVE  e \in Evenement
<1>1. ASSUME NEW j \in jobs, EstEvenement(j) PROVE j.evt \in Evenement
  BY <1>1, EvenementDistinct
<1>2. \A w \in Workers : workers[w].aAcquitter \subseteq Evenement
  BY TravailType DEF TravailEvt
<1> QED BY <1>1, <1>2 DEF Vu, JobPour, Structure, Types, TypeFile

LEMMA VuEnMain ==
  ASSUME Structure, NEW w \in Workers
  PROVE  /\ Occupe(w) => Vu(EvtDe(w)) /\ JobPour(EvtDe(w))
         /\ \A e \in workers[w].aPlanifier : Vu(e)
BY TravailType DEF Vu, JobPour, Forme

(* What a step does to the queue of Milo and to the history                 *)
LEMMA FileSuite ==
  ASSUME Structure, [Next]_vars
  PROVE  /\ \/ \E o \in Objets : Publier(o)
            \/ fileMilo' \subseteq fileMilo /\ UNCHANGED <<milo, supprimes, publies>>
         /\ \/ traites' = traites
            \/ \E w \in Workers : Terminer(w) /\ Occupe(w)
                                  /\ traites' = traites \cup {EvtDe(w)}
<1>1. ASSUME NEW w \in Workers, Terminer(w)
      PROVE  Occupe(w) /\ traites' = traites \cup {EvtDe(w)}
             /\ UNCHANGED <<fileMilo, milo, supprimes, publies>>
  BY <1>1, EvtEnMain DEF Terminer, EtapesEvenement
<1>2. ASSUME NEW w \in Workers, NEW echec, Acquitter(w, echec)
      PROVE  /\ fileMilo' \subseteq fileMilo
             /\ UNCHANGED <<milo, supprimes, publies, traites>>
  BY <1>2 DEF Acquitter
<1>3. ASSUME NEW w \in Workers,
             \/ DemarrerSuivi(w) \/ VerifierSuivi(w) \/ Interroger(w)
             \/ Planifier(w) \/ LireMilo(w) \/ LireCopie(w) \/ Traiter(w)
             \/ EchecSuivi(w) \/ EchecEvenement(w) \/ ArretWorker(w)
             \/ \E i \in 1 .. MaxEvenements : PrendreEvenement(w, i)
      PROVE  UNCHANGED <<fileMilo, milo, supprimes, publies, traites>>
  BY <1>3 DEF DemarrerSuivi, VerifierSuivi, Interroger, Planifier, LireMilo,
              LireCopie, Traiter, EchecSuivi, EchecEvenement, ArretWorker,
              PrendreEvenement
<1>4. ASSUME NEW a \in fond, ExecuterDemande(a) \/ EchecDemande(a)
      PROVE  UNCHANGED <<fileMilo, milo, supprimes, publies, traites>>
  BY <1>4 DEF ExecuterDemande, Retirer, Ajouter, EchecDemande
<1>5. CASE NettoyerJobs \/ UNCHANGED vars
  BY <1>5 DEF NettoyerJobs, vars
<1>6. ASSUME NEW o \in Objets, Publier(o) PROVE traites' = traites
  BY <1>6 DEF Publier
<1> QED BY <1>1, <1>2, <1>3, <1>4, <1>5, <1>6 DEF Next, Avancer

LEMMA VuSuite ==
  ASSUME Structure, [Next]_vars, NEW e, Vu(e)'
  PROVE  \/ Vu(e)
         \/ \E o \in Objets : Publier(o) /\ e \in fileMilo' /\ e \notin fileMilo
<1>1. e \in Evenement
  <2>1. Structure'
    BY StructureSuite
  <2>2. ASSUME NEW j \in jobs', EstEvenement(j) PROVE j.evt \in Evenement
    BY <2>2, EvenementDistinct
  <2>3. \A w \in Workers : workers'[w].aAcquitter \subseteq Evenement
    BY <2>1 DEF Structure, Types, TypeWorkers, TravailEvt
  <2> QED BY <2>1, <2>2, <2>3 DEF Vu, JobPour, Structure, Types, TypeFile
<1>2. CASE e \in fileMilo'
  BY <1>2, FileSuite DEF Vu
<1>3. CASE e \in traites'
  BY <1>3, FileSuite, VuEnMain DEF Vu
<1>4. CASE JobPour(e)'
  BY <1>1, <1>4, JobPourSuite, VuEnMain DEF Vu
<1>5. ASSUME NEW w \in Workers, e \in workers'[w].aAcquitter PROVE Vu(e)
  BY <1>5, SuiviSuite, LusType DEF Vu
<1> QED BY <1>2, <1>3, <1>4, <1>5 DEF Vu

-----------------------------------------------------------------------------
(* What the events say of the objects                                       *)

BorneVus == \A e \in Evenement : Vu(e) => e.id =< publies
IdsVus == \A e, f \in Evenement : Vu(e) /\ Vu(f) /\ e.id = f.id => e = f

(* A creation comes before any other event of the object.                   *)
CreationPremiere == \A e, f \in Evenement :
  Vu(e) /\ Vu(f) /\ e.action = "CREATE" /\ f.objet = e.objet => e.id =< f.id

SuppressionDefinitive == \A e \in Evenement :
  Vu(e) /\ e.action = "DELETE" => e.objet \in supprimes

Connaissance == \A e \in Evenement :
  Vu(e) => milo[e.objet] # Absent \/ e.objet \in supprimes

Histoire == /\ BorneVus /\ IdsVus /\ CreationPremiere
            /\ SuppressionDefinitive /\ Connaissance

LEMMA HistoireInit == Init => Histoire
<1> SUFFICES ASSUME Init PROVE Histoire
  OBVIOUS
<1>1. \A w \in Workers : workers[w].aAcquitter = {}
  BY ReposType DEF Init
<1>2. \A e : ~Vu(e)
  BY <1>1 DEF Init, Vu, JobPour
<1> QED BY <1>2 DEF Histoire, BorneVus, IdsVus, CreationPremiere,
                    SuppressionDefinitive, Connaissance

(* A new event                                                              *)
LEMMA NouvelEvenement ==
  ASSUME Structure, Histoire, NEW o \in Objets, Publier(o)
  PROVE  \E a \in Actions, m \in ObjetMilo \cup {Absent} :
           /\ Nouvel(o, a) \in Evenement
           /\ Nouvel(o, a).id = publies + 1 /\ Nouvel(o, a).objet = o
           /\ Nouvel(o, a).action = a
           /\ ~Vu(Nouvel(o, a))
           /\ fileMilo' = fileMilo \cup {Nouvel(o, a)}
           /\ \A e : Vu(e)' <=> Vu(e) \/ e = Nouvel(o, a)
           /\ milo' = [milo EXCEPT ![o] = m]
           /\ a = "DELETE" <=> m = Absent
           /\ a = "CREATE" <=> milo[o] = Absent
           /\ a = "NON_TRAITABLE" => m = milo[o]
           /\ supprimes' = IF a = "DELETE" THEN supprimes \cup {o}
                                           ELSE supprimes
<1>1. PICK a \in Actions, m \in ObjetMilo \cup {Absent} :
        /\ milo' = [milo EXCEPT ![o] = m]
        /\ fileMilo' = fileMilo \cup {Nouvel(o, a)}
        /\ Nouvel(o, a) \in Evenement
        /\ supprimes' = IF a = "DELETE" THEN supprimes \cup {o} ELSE supprimes
        /\ a = "DELETE" <=> m = Absent
        /\ a = "CREATE" <=> milo[o] = Absent
        /\ a = "NON_TRAITABLE" => m = milo[o]
  BY PublierCas
<1>2. /\ Nouvel(o, a).id = publies + 1 /\ Nouvel(o, a).objet = o
      /\ Nouvel(o, a).action = a
  BY DEF Nouvel
<1> DEFINE n == Nouvel(o, a)
<1>3. \A e : Vu(e)' <=> Vu(e) \/ e = n
  BY <1>1 DEF Vu, JobPour, Publier
<1>4. ~Vu(n)
  <2>1. publies \in Nat
    BY DEF Structure, Types, TypeFile
  <2> QED BY <1>1, <1>2, <2>1 DEF Histoire, BorneVus
<1> QED BY <1>1, <1>2, <1>3, <1>4

LEMMA HistoireSuite == Structure /\ Histoire /\ [Next]_vars => Histoire'
<1> SUFFICES ASSUME Structure, Histoire, [Next]_vars PROVE Histoire'
  OBVIOUS
<1>1. ASSUME NEW o \in Objets, Publier(o) PROVE Histoire'
  <2>1. PICK a \in Actions, m \in ObjetMilo \cup {Absent} :
          /\ Nouvel(o, a) \in Evenement
          /\ Nouvel(o, a).id = publies + 1 /\ Nouvel(o, a).objet = o
          /\ Nouvel(o, a).action = a
          /\ \A e : Vu(e)' <=> Vu(e) \/ e = Nouvel(o, a)
          /\ milo' = [milo EXCEPT ![o] = m]
          /\ a = "DELETE" <=> m = Absent
          /\ a = "CREATE" <=> milo[o] = Absent
          /\ a = "NON_TRAITABLE" => m = milo[o]
          /\ supprimes' = IF a = "DELETE" THEN supprimes \cup {o}
                                          ELSE supprimes
    BY <1>1, NouvelEvenement
  <2> DEFINE n == Nouvel(o, a)
  <2>2. /\ publies \in Nat /\ publies' = publies + 1 /\ o \notin supprimes
        /\ \A e \in Evenement : e.id \in Nat /\ e.objet \in Objets
        /\ milo \in [Objets -> ObjetMilo \cup {Absent}]
    BY <1>1, PublierCas DEF Structure, Types, TypeFile, TypeMilo, Evenement
  <2> HIDE DEF n
  <2>3. BorneVus'
    BY <2>1, <2>2 DEF Histoire, BorneVus, n
  <2>4. IdsVus'
    BY <2>1, <2>2 DEF Histoire, BorneVus, IdsVus, n
  <2>5. SuppressionDefinitive'
    BY <2>1, <2>2 DEF Histoire, SuppressionDefinitive, n
  <2>6. Connaissance'
    BY <2>1, <2>2 DEF Histoire, Connaissance, n
  <2>7. CreationPremiere'
    <3>1. a = "CREATE" => \A e \in Evenement : Vu(e) => e.objet # o
      BY <2>1, <2>2 DEF Histoire, Connaissance
    <3>2. SUFFICES ASSUME NEW e \in Evenement, NEW f \in Evenement,
                          Vu(e)', Vu(f)', e.action = "CREATE",
                          f.objet = e.objet
                   PROVE  e.id =< f.id
      BY DEF CreationPremiere
    <3>3. CASE Vu(e) /\ Vu(f)
      BY <3>2, <3>3 DEF Histoire, CreationPremiere
    <3>4. CASE e = n
      BY <2>1, <2>2, <3>1, <3>2, <3>4 DEF n
    <3>5. CASE f = n /\ Vu(e)
      BY <2>1, <2>2, <3>2, <3>5 DEF n, Histoire, BorneVus
    <3> QED BY <2>1, <3>2, <3>3, <3>4, <3>5 DEF n
  <2> QED BY <2>3, <2>4, <2>5, <2>6, <2>7 DEF Histoire
<1>2. CASE ~ \E o \in Objets : Publier(o)
  <2>1. UNCHANGED <<milo, supprimes, publies>>
    BY <1>2, FileSuite
  <2>2. \A e : Vu(e)' => Vu(e)
    BY <1>2, VuSuite
  <2> QED BY <2>1, <2>2 DEF Histoire, BorneVus, IdsVus, CreationPremiere,
                            SuppressionDefinitive, Connaissance
<1> QED BY <1>1, <1>2

-----------------------------------------------------------------------------
(* Acknowledgement                                                          *)

Couvert(e) == \E j \in jobs : EstEvenement(j) /\
  (j.evt = e \/ (MemeCle(e, j.evt) /\ j.evt.id > e.id))

(* Each event a poll is about to acknowledge has a job, or the event that   *)
(* stands for it waits for one.                                             *)
InvLu == \A w \in Workers : \A e \in workers[w].aAcquitter :
  \/ Couvert(e)
  \/ \E f \in workers[w].aPlanifier : f = e \/ (MemeCle(e, f) /\ f.id > e.id)

LEMMA CouvertSuite ==
  ASSUME Structure, [Next]_vars, NEW e, Couvert(e)
  PROVE  Couvert(e)' \/ NettoyerJobs
<1>1. PICK j \in jobs : EstEvenement(j) /\
        (j.evt = e \/ (MemeCle(e, j.evt) /\ j.evt.id > e.id))
  BY DEF Couvert
<1>2. j.evt \in Evenement /\ JobPour(j.evt)
  BY <1>1, EvenementDistinct DEF JobPour
<1>3. CASE JobPour(j.evt)'
  BY <1>1, <1>3 DEF JobPour, Couvert
<1> QED BY <1>2, <1>3, JobPourSuite

(* The job of an event is there once it has been added, even if it was      *)
(* there before.                                                            *)
LEMMA PlanifierCouvre ==
  ASSUME Structure, Histoire, NEW w \in Workers,
         NEW e \in workers[w].aPlanifier,
         jobs' = AjouterJob(jobs, NouveauJob(e))
  PROVE  JobPour(e)'
<1>1. e \in Evenement /\ Vu(e)
  BY VuEnMain, TravailType DEF TravailEvt
<1>2. /\ EstEvenement(NouveauJob(e)) /\ NouveauJob(e).evt = e
      /\ NouveauJob(e).id = <<"event-milo", e.id>>
  BY <1>1, NouveauJobType
<1>3. CASE \E j \in jobs : j.id = NouveauJob(e).id
  <2>1. PICK j \in jobs : j.id = <<"event-milo", e.id>>
    BY <1>2, <1>3
  <2>2. EstEvenement(j)
    BY <2>1, RappelDistinct DEF Structure, Types, TypeJobs
  <2>3. j.evt \in Evenement /\ j.evt.id = e.id /\ Vu(j.evt)
    BY <2>1, <2>2, EvenementDistinct DEF Vu, JobPour
  <2>4. j.evt = e
    BY <1>1, <2>3 DEF Histoire, IdsVus
  <2> QED BY <1>3, <2>2, <2>4 DEF JobPour, AjouterJob
<1>4. CASE ~ \E j \in jobs : j.id = NouveauJob(e).id
  BY <1>2, <1>4 DEF JobPour, AjouterJob
<1> QED BY <1>3, <1>4

LEMMA InvLuSuite == Structure /\ Histoire /\ InvLu /\ [Next]_vars => InvLu'
<1> SUFFICES ASSUME Structure, Histoire, InvLu, [Next]_vars,
                    NEW w \in Workers, NEW e \in workers'[w].aAcquitter
             PROVE  \/ Couvert(e)'
                    \/ \E f \in workers'[w].aPlanifier :
                         f = e \/ (MemeCle(e, f) /\ f.id > e.id)
  BY DEF InvLu
<1>1. CASE NettoyerJobs
  <2>1. workers[w].etape # "suivi"
    BY <1>1 DEF NettoyerJobs, EnSuivi
  <2>2. workers'[w].aAcquitter = {}
    BY <1>1, <2>1, TravailType DEF NettoyerJobs, Forme
  <2> QED BY <2>2
<1>2. ASSUME ~NettoyerJobs, e \in workers[w].aAcquitter, Couvert(e)
      PROVE  Couvert(e)'
  BY <1>2, CouvertSuite
<1>3. CASE /\ ~NettoyerJobs
           /\ workers'[w].aAcquitter \subseteq workers[w].aAcquitter
           /\ workers'[w].aPlanifier = workers[w].aPlanifier
  BY <1>2, <1>3 DEF InvLu
<1>4. CASE /\ Interroger(w) /\ workers'[w].aAcquitter = Lus(w)
           /\ workers'[w].aPlanifier = EvenementsAPlanifier(Lus(w))
  <2>1. Lus(w) \in SUBSET Evenement /\ e \in Lus(w)
    BY <1>4, LusType DEF Structure, Types, TypeFile
  <2> QED BY <1>4, <2>1, UnSeulGarde
<1>5. ASSUME ~NettoyerJobs, NEW g \in workers[w].aPlanifier,
             jobs' = AjouterJob(jobs, NouveauJob(g)),
             workers'[w].aAcquitter = workers[w].aAcquitter,
             workers'[w].aPlanifier = workers[w].aPlanifier \ {g}
      PROVE  \/ Couvert(e)'
             \/ \E f \in workers'[w].aPlanifier :
                  f = e \/ (MemeCle(e, f) /\ f.id > e.id)
  <2>1. JobPour(g)'
    BY <1>5, PlanifierCouvre
  <2>2. CASE g = e \/ (MemeCle(e, g) /\ g.id > e.id)
    BY <2>1, <2>2 DEF JobPour, Couvert
  <2> QED BY <1>2, <1>5, <2>2 DEF InvLu
<1> QED BY <1>1, <1>3, <1>4, <1>5, SuiviSuite

Inv == Structure /\ Histoire /\ InvLu

LEMMA InvInit == Init => Inv
<1>1. Init => InvLu
  BY ReposType DEF Init, InvLu
<1> QED BY <1>1, StructureInit, HistoireInit DEF Inv

LEMMA InvSuite == Inv /\ [Next]_vars => Inv'
BY StructureSuite, HistoireSuite, InvLuSuite DEF Inv

(* Who takes an event out of the queue of Milo                              *)
LEMMA SortieFile ==
  ASSUME Structure, [Next]_vars, NEW e \in fileMilo, e \notin fileMilo'
  PROVE  \E w \in Workers : /\ e \in workers[w].aAcquitter
                            /\ workers[w].aPlanifier = {}
                            /\ UNCHANGED <<jobs, fond, rdvs, uuids, perturbes,
                                           traites>>
<1>1. ASSUME NEW w \in Workers, NEW echec, Acquitter(w, echec)
      PROVE  /\ e \in workers[w].aAcquitter /\ workers[w].aPlanifier = {}
             /\ UNCHANGED <<jobs, fond, rdvs, uuids, perturbes, traites>>
  BY <1>1 DEF Acquitter, PretAAcquitter
<1>2. ASSUME NEW w \in Workers,
             \/ DemarrerSuivi(w) \/ VerifierSuivi(w) \/ Interroger(w)
             \/ Planifier(w) \/ LireMilo(w) \/ LireCopie(w) \/ Traiter(w)
             \/ Terminer(w)
             \/ EchecSuivi(w) \/ EchecEvenement(w) \/ ArretWorker(w)
             \/ \E i \in 1 .. MaxEvenements : PrendreEvenement(w, i)
      PROVE  FALSE
  BY <1>2 DEF DemarrerSuivi, VerifierSuivi, Interroger, Planifier, LireMilo,
              LireCopie, Traiter, Terminer, EchecSuivi, EchecEvenement,
              ArretWorker, PrendreEvenement
<1>3. ASSUME NEW a \in fond, ExecuterDemande(a) \/ EchecDemande(a) PROVE FALSE
  BY <1>3 DEF ExecuterDemande, Retirer, Ajouter, EchecDemande
<1>4. ASSUME NettoyerJobs \/ UNCHANGED vars PROVE FALSE
  BY <1>4 DEF NettoyerJobs, vars
<1>5. ASSUME NEW o \in Objets, Publier(o) PROVE FALSE
  BY <1>5 DEF Publier
<1>6. ASSUME NEW w \in Workers, Avancer(w)
      PROVE  \E v \in Workers :
               /\ e \in workers[v].aAcquitter /\ workers[v].aPlanifier = {}
               /\ UNCHANGED <<jobs, fond, rdvs, uuids, perturbes, traites>>
  BY <1>1, <1>2, <1>6 DEF Avancer
<1> QED BY <1>1, <1>2, <1>3, <1>4, <1>5, <1>6 DEF Next

(* An event leaves the queue of Milo once it has a job, or once another     *)
(* event of its session that stands for it has one (handlerSuivreEvenements *)
(* adds the jobs, then acknowledges), whatever the number of workers, the   *)
(* polls that overlap, the failures and the stops.                          *)
THEOREM AcquitteUnePlanifie == Spec => AcquitteApresPlanification
<1>1. ASSUME Inv, [Next]_vars
      PROVE  [\A e \in fileMilo \ fileMilo' :
                \E j \in JobsEvenements :
                  j.evt = e \/ (MemeCle(e, j.evt) /\ j.evt.id > e.id)]_vars
  <2>1. SUFFICES ASSUME NEW e \in fileMilo, e \notin fileMilo'
                 PROVE  \E j \in JobsEvenements :
                   j.evt = e \/ (MemeCle(e, j.evt) /\ j.evt.id > e.id)
    OBVIOUS
  <2>2. Structure
    BY <1>1 DEF Inv
  <2>3. PICK w \in Workers : /\ e \in workers[w].aAcquitter
                             /\ workers[w].aPlanifier = {}
    BY <1>1, <2>1, <2>2, SortieFile
  <2>4. Couvert(e)
    BY <1>1, <2>3 DEF Inv, InvLu
  <2> QED BY <2>2, <2>4, DeuxSortes DEF Couvert, Structure, Types
<1> QED BY <1>1, InvInit, InvSuite, PTL DEF Spec, AcquitteApresPlanification

-----------------------------------------------------------------------------
(* The cases of a step                                                      *)

(* What is treated stays so; polls may go on.                               *)
TravailGarde ==
  \A w \in Workers : /\ Occupe(w)' <=> Occupe(w)
                     /\ Occupe(w) => workers'[w] = workers[w]

Sondage == /\ TravailGarde
           /\ UNCHANGED <<milo, supprimes, publies, rdvs, uuids, fond, traites,
                          perturbes>>

LEMMA SondageDe ==
  ASSUME Structure, [Next]_vars, NEW w \in Workers, ~Occupe(w), Autres(w),
         workers'[w].evt = Absent,
         UNCHANGED <<milo, supprimes, publies, rdvs, uuids, fond, traites,
                     perturbes>>
  PROVE  Sondage
BY DEF Sondage, TravailGarde, Autres, Occupe

LEMMA SondageCas ==
  ASSUME Structure, [Next]_vars, NEW w \in Workers,
         \/ DemarrerSuivi(w) \/ VerifierSuivi(w) \/ Interroger(w)
         \/ Planifier(w) \/ Acquitter(w, TRUE) \/ Acquitter(w, FALSE)
         \/ EchecSuivi(w)
  PROVE  Sondage
<1>1. workers[w] \in TravailEvt /\ workers \in [Workers -> TravailEvt]
  BY DEF Structure, Types, TypeWorkers
<1>2. workers[w].evt = Absent /\ ~Occupe(w)
  <2>1. workers[w].etape \in {"repos", "verif", "suivi"}
    BY <1>1, ReposType DEF DemarrerSuivi, VerifierSuivi, Interroger, Planifier,
       Acquitter, EchecSuivi
  <2> QED BY <2>1, TravailType DEF Forme, EtapesEvenement
<1>3. Autres(w)
  BY <1>1 DEF Autres, DemarrerSuivi, VerifierSuivi, Interroger, Planifier,
       Acquitter, EchecSuivi
<1>4. workers'[w].evt = Absent
  <2>1. CASE DemarrerSuivi(w)
    <3>1. workers' = [workers EXCEPT ![w].etape = "verif",
                                     ![w].reste = MaxBatch]
      BY <2>1 DEF DemarrerSuivi
    <3> QED BY <1>1, <1>2, <3>1 DEF TravailEvt
  <2>2. CASE VerifierSuivi(w)
    BY <1>1, <1>2, <2>2, ReposType DEF VerifierSuivi, TravailEvt
  <2>3. CASE Interroger(w)
    <3>1. CASE Lus(w) = {}
      BY <1>1, <2>3, <3>1, ReposType DEF Interroger
    <3>2. CASE Lus(w) # {}
      <4>1. workers' = [workers EXCEPT
                        ![w].aPlanifier = EvenementsAPlanifier(Lus(w)),
                        ![w].aAcquitter = Lus(w),
                        ![w].reste = workers[w].reste - Cardinality(Lus(w))]
        BY <2>3, <3>2 DEF Interroger
      <4> QED BY <1>1, <1>2, <4>1 DEF TravailEvt
    <3> QED BY <3>1, <3>2
  <2>4. CASE Planifier(w)
    BY <1>1, <1>2, <2>4 DEF Planifier, TravailEvt
  <2>5. ASSUME NEW echec, Acquitter(w, echec) PROVE workers'[w].evt = Absent
    <3>1. PICK e : workers' =
            IF workers[w].aAcquitter = {e} /\ workers[w].reste = 0
              THEN [workers EXCEPT ![w] = Repos]
              ELSE [workers EXCEPT
                      ![w].aAcquitter = workers[w].aAcquitter \ {e}]
      BY <2>5 DEF Acquitter
    <3> QED BY <1>1, <1>2, <3>1, ReposType DEF TravailEvt
  <2>6. CASE EchecSuivi(w)
    BY <1>1, <2>6, ReposType DEF EchecSuivi
  <2> QED BY <2>1, <2>2, <2>3, <2>4, <2>5, <2>6
<1>5. UNCHANGED <<milo, supprimes, publies, rdvs, uuids, fond, traites,
                  perturbes>>
  BY DEF DemarrerSuivi, VerifierSuivi, Interroger, Planifier, Acquitter,
         EchecSuivi
<1> QED BY <1>2, <1>3, <1>4, <1>5, SondageDe

(* The cases that the invariants below distinguish                          *)
LEMMA Cas ==
  ASSUME Structure, [Next]_vars
  PROVE  \/ UNCHANGED vars
         \/ \E o \in Objets : Publier(o)
         \/ Sondage
         \/ \E w \in Workers, i \in 1 .. MaxEvenements : PrendreEvenement(w, i)
         \/ \E w \in Workers : LireMilo(w)
         \/ \E w \in Workers : LireCopie(w)
         \/ \E w \in Workers : Traiter(w)
         \/ \E w \in Workers : Terminer(w)
         \/ \E w \in Workers : EchecEvenement(w)
         \/ \E w \in Workers : ArretWorker(w)
         \/ \E a \in fond : Retirer(a) \/ Ajouter(a) \/ EchecDemande(a)
         \/ NettoyerJobs
<1>1. ASSUME NEW w \in Workers,
             \/ DemarrerSuivi(w) \/ VerifierSuivi(w) \/ Interroger(w)
             \/ Planifier(w) \/ Acquitter(w, TRUE) \/ Acquitter(w, FALSE)
             \/ EchecSuivi(w)
      PROVE  Sondage
  BY <1>1, SondageCas
<1> QED BY <1>1 DEF Next, Avancer, ExecuterDemande

(* An object that is disturbed stays so.                                    *)
LEMMA PerturbesSuite ==
  ASSUME Structure, [Next]_vars
  PROVE  perturbes \subseteq perturbes'
<1>1. ASSUME NEW w \in Workers, NEW i, PrendreEvenement(w, i)
      PROVE  perturbes \subseteq perturbes'
  BY <1>1 DEF PrendreEvenement
<1>2. ASSUME NEW w \in Workers,
             LireMilo(w) \/ LireCopie(w) \/ Traiter(w) \/ Terminer(w)
      PROVE  perturbes \subseteq perturbes'
  BY <1>2 DEF LireMilo, LireCopie, Traiter, Terminer
<1>3. ASSUME NEW w \in Workers, EchecEvenement(w) \/ ArretWorker(w)
      PROVE  perturbes \subseteq perturbes'
  BY <1>3, EchecEvenementCas, ArretCas
<1>4. ASSUME NEW a \in fond, Retirer(a) \/ Ajouter(a) \/ EchecDemande(a)
      PROVE  perturbes \subseteq perturbes'
  BY <1>4 DEF Retirer, Ajouter, EchecDemande
<1>5. ASSUME NEW o \in Objets, Publier(o) PROVE perturbes \subseteq perturbes'
  BY <1>5 DEF Publier
<1>6. CASE UNCHANGED vars
  BY <1>6 DEF vars
<1>7. CASE Sondage
  BY <1>7 DEF Sondage
<1>8. CASE NettoyerJobs
  BY <1>8, NettoyerCas
<1> QED BY <1>1, <1>2, <1>3, <1>4, <1>5, <1>6, <1>7, <1>8, Cas

-----------------------------------------------------------------------------
(* The keys of the rows and of the reminders                                *)

Possede(c, o) ==
  \/ \E r \in rdvs : r.id = c /\ r.objet = o
  \/ \E w \in Workers : /\ workers[w].copie # Absent
                        /\ workers[w].copie.id = c /\ workers[w].copie.objet = o
  \/ \E a \in fond : a.cle = c /\ a.objet = o

ClesRdv == \A c, o : o \in Rdvs /\ Possede(c, o) => c \in Nat /\ c =< uuids
ClesSession == \A c, o : o \in Sessions /\ Possede(c, o) => c = o
UnProprietaire == \A c, o, p : Possede(c, o) /\ Possede(c, p) => o = p
IdsLignes == \A r, q \in rdvs : r.id = q.id => r = q
ClesRappels == \A j \in jobs :
  EstRappel(j) => j.id[2] \in Sessions \/ j.id[2] =< uuids

Propriete == /\ ClesRdv /\ ClesSession /\ UnProprietaire /\ IdsLignes
             /\ ClesRappels

LEMMA ProprieteInit == Init => Propriete
<1> SUFFICES ASSUME Init PROVE Propriete
  OBVIOUS
<1>1. \A c, o : ~Possede(c, o)
  BY ReposType DEF Init, Possede
<1> QED BY <1>1 DEF Init, Propriete, ClesRdv, ClesSession, UnProprietaire,
                    IdsLignes, ClesRappels

LEMMA ObjetsDistincts ==
  ASSUME NEW o \in Objets
  PROVE  o \in Rdvs <=> o \notin Sessions
BY ConstantsAssumption DEF Objets

LEMMA PossedeType ==
  ASSUME Structure, NEW c, NEW o, Possede(c, o)
  PROVE  o \in Objets
<1>1. \A r \in rdvs : r.objet \in Rdvs
  BY DEF Structure, Types, TypeLignes, Ligne
<1>2. \A w \in Workers :
        workers[w].copie # Absent => workers[w].copie.objet \in Rdvs
  BY TravailType DEF Ligne
<1>3. \A a \in fond : a.objet \in Objets
  BY DEF Structure, Types, TypeFond, Appel
<1> QED BY <1>1, <1>2, <1>3 DEF Possede, Objets

(* The keys that a treatment uses                                           *)
CleNeuve(w, c, o) ==
  /\ o = EvtDe(w).objet
  /\ \/ o \in Rdvs /\ c = uuids + 1 /\ uuids' = uuids + 1
     \/ o \in Sessions /\ c = o

LEMMA PossedeFond ==
  ASSUME Structure, NEW w \in Workers, EvtDe(w) \in Evenement,
         NEW k \in Cles, NEW D \in SUBSET Demande, NEW a \in Appels(w, k, D)
  PROVE  a.cle = k /\ a.objet = EvtDe(w).objet /\ a.worker = w
BY AppelsType

LEMMA PossedeTraiter ==
  ASSUME Structure, NEW w \in Workers, Traiter(w), NEW c, NEW o,
         Possede(c, o)'
  PROVE  Possede(c, o) \/ CleNeuve(w, c, o)
<1> DEFINE e == EvtDe(w)
           m == workers[w].lu
           r == workers[w].copie
<1>1. /\ workers[w].etape \in {"lu", "copie"}
      /\ workers' = [workers EXCEPT ![w].etape = "ecrit"]
  BY DEF Traiter
<1>2. Occupe(w) /\ e \in Evenement
  BY <1>1, EvtEnMain DEF EtapesEvenement
<1>3. \A v \in Workers : workers'[v].copie = workers[v].copie
  BY <1>1 DEF Structure, Types, TypeWorkers, TravailEvt
<1>4. /\ uuids \in Nat
      /\ r # Absent => /\ r \in Ligne /\ r.id \in Nat /\ r.objet = e.objet
                       /\ Possede(r.id, e.objet) /\ r.id \in Cles
  BY <1>2, TravailType
     DEF Structure, Types, TypeLignes, Forme, Ligne, Possede, Cles
<1> HIDE DEF e, m, r
<1>5. ASSUME NEW v \in Workers, workers'[v].copie # Absent,
             workers'[v].copie.id = c, workers'[v].copie.objet = o
      PROVE  Possede(c, o)
  BY <1>3, <1>5 DEF Possede
<1>6. ASSUME NEW k \in Cles, NEW D \in SUBSET Demande,
             fond' = fond \/ fond' = fond \cup Appels(w, k, D),
             NEW a \in fond', a.cle = c, a.objet = o
      PROVE  Possede(c, o) \/ (c = k /\ o = e.objet)
  <2>1. CASE a \in fond
    BY <1>6, <2>1 DEF Possede
  <2>2. CASE a \in Appels(w, k, D)
    BY <1>2, <1>6, <2>2, PossedeFond DEF e
  <2> QED BY <1>6, <2>1, <2>2
<1>7. CASE e.objet \notin Rdvs
  <2>1. TraiteSession(w) /\ e.objet \in Sessions
    BY <1>7, TraiterSessionCas DEF e
  <2>2. DemandesSession(e, m) \in SUBSET Demande
    BY RecuperableType, DemandesTypes DEF DemandesSession, m
  <2>3. e.objet \in Cles
    BY <2>1 DEF Cles
  <2>4. rdvs' = rdvs /\ fond' = fond \cup Appels(w, e.objet, DemandesSession(e, m))
    BY <2>1 DEF TraiteSession, e, m
  <2>5. ASSUME NEW a \in fond', a.cle = c, a.objet = o
        PROVE  Possede(c, o) \/ (c = e.objet /\ o = e.objet)
    BY <1>6, <2>2, <2>3, <2>4, <2>5
  <2>6. CleNeuve(w, e.objet, e.objet)
    BY <2>1 DEF CleNeuve, e
  <2>7. ASSUME NEW q \in rdvs', q.id = c, q.objet = o PROVE Possede(c, o)
    BY <2>4, <2>7 DEF Possede
  <2> QED BY <1>5, <2>5, <2>6, <2>7 DEF Possede
<1>8. CASE e.objet \in Rdvs /\ Cree(w)
  <2>1. m \in ObjetMilo /\ m.date \in Dates
    BY <1>8, RecuperableType DEF Cree, m
  <2>2. {Ajouts(m.date)} \in SUBSET Demande /\ uuids + 1 \in Cles
    BY <1>4, <2>1, DemandesTypes DEF Cles
  <2> DEFINE n == [id |-> uuids + 1, objet |-> e.objet, date |-> m.date]
  <2>3. /\ fond' = fond \cup Appels(w, uuids + 1, {Ajouts(m.date)})
        /\ rdvs' = rdvs \cup {n} /\ uuids' = uuids + 1
    BY <1>8 DEF Cree, e, m
  <2>4. CleNeuve(w, uuids + 1, e.objet)
    BY <1>8, <2>3 DEF CleNeuve, e
  <2>5. ASSUME NEW q \in rdvs', q.id = c, q.objet = o
        PROVE  Possede(c, o) \/ CleNeuve(w, c, o)
    <3>1. CASE q \in rdvs
      BY <2>5, <3>1 DEF Possede
    <3>2. CASE q = n
      BY <2>4, <2>5, <3>2
    <3> QED BY <2>3, <3>1, <3>2
  <2>6. ASSUME NEW a \in fond', a.cle = c, a.objet = o
        PROVE  Possede(c, o) \/ (c = uuids + 1 /\ o = e.objet)
    BY <1>6, <2>2, <2>3, <2>6
  <2> QED BY <1>5, <2>4, <2>5, <2>6 DEF Possede
<1>9. CASE e.objet \in Rdvs /\ Modifie(w)
  <2>1. m \in ObjetMilo /\ m.date \in Dates /\ r # Absent
    BY <1>9, RecuperableType DEF Modifie, m, r
  <2>2. {RetraitPuisAjouts(m.date)} \in SUBSET Demande
    BY <2>1, DemandesTypes
  <2>3. /\ \/ fond' = fond
           \/ fond' = fond \cup Appels(w, r.id, {RetraitPuisAjouts(m.date)})
        /\ rdvs' = Remplacer(r, m)
    BY <1>9 DEF Modifie, m, r
  <2>4. TypeLignes /\ r.id =< uuids
    BY <1>2, <2>1, TravailType DEF Structure, Types, Forme, r
  <2>5. ASSUME NEW q \in rdvs', q.id = c, q.objet = o PROVE Possede(c, o)
    <3>1. PICK n \in Ligne :
            /\ n.id = r.id /\ n.objet = r.objet
            /\ \A i : i \in Remplacer(r, m) <=>
                        (i \in rdvs /\ i.id # r.id) \/ i = n
      BY <1>4, <2>1, <2>4, RemplacerType
    <3>2. CASE q \in rdvs
      BY <2>5, <3>2 DEF Possede
    <3>3. CASE q = n
      BY <1>4, <2>1, <2>5, <3>1, <3>3
    <3> QED BY <2>3, <2>5, <3>1, <3>2, <3>3
  <2>6. ASSUME NEW a \in fond', a.cle = c, a.objet = o PROVE Possede(c, o)
    BY <1>4, <1>6, <2>1, <2>2, <2>3, <2>6
  <2> QED BY <1>5, <2>5, <2>6 DEF Possede
<1>10. CASE e.objet \in Rdvs /\ Supprime(w)
  <2>1. /\ fond' = fond \cup Appels(w, r.id, {Retrait}) /\ r # Absent
        /\ rdvs' \subseteq rdvs
    BY <1>10 DEF Supprime, r
  <2>2. {Retrait} \in SUBSET Demande
    BY DemandesTypes
  <2>3. ASSUME NEW q \in rdvs', q.id = c, q.objet = o PROVE Possede(c, o)
    BY <2>1, <2>3 DEF Possede
  <2>4. ASSUME NEW a \in fond', a.cle = c, a.objet = o PROVE Possede(c, o)
    BY <1>4, <1>6, <2>1, <2>2, <2>4
  <2> QED BY <1>5, <2>3, <2>4 DEF Possede
<1>11. CASE e.objet \in Rdvs /\ RienAFaire(w)
  <2>1. fond' = fond /\ rdvs' = rdvs
    BY <1>11 DEF RienAFaire, Rien
  <2> QED BY <1>5, <2>1 DEF Possede
<1> QED BY <1>7, <1>8, <1>9, <1>10, <1>11, TraiterRdvCas DEF e

(* A worker that gives up its event, or takes one, holds no row any more.   *)
LEMMA CopieSuite ==
  ASSUME Structure, NEW w \in Workers, NEW x \in TravailEvt,
         workers' = [workers EXCEPT ![w] = x],
         x.copie = Absent \/ x.copie = workers[w].copie,
         rdvs' = rdvs, fond' \subseteq fond,
         NEW c, NEW o, Possede(c, o)'
  PROVE  Possede(c, o)
<1>1. \A v \in Workers : workers'[v].copie # Absent =>
         workers'[v].copie = workers[v].copie
  BY DEF Structure, Types, TypeWorkers
<1> QED BY <1>1 DEF Possede

LEMMA PossedeSuite ==
  ASSUME Structure, [Next]_vars, NEW c, NEW o, Possede(c, o)'
  PROVE  \/ Possede(c, o)
         \/ \E w \in Workers : Traiter(w) /\ CleNeuve(w, c, o)
<1>1. CASE UNCHANGED vars
  BY <1>1 DEF vars, Possede
<1>2. ASSUME NEW p \in Objets, Publier(p) PROVE Possede(c, o)
  BY <1>2 DEF Publier, Possede
<1>3. CASE Sondage
  <2>1. ASSUME NEW w \in Workers, workers'[w].copie # Absent
        PROVE  workers[w].copie = workers'[w].copie
    <3>1. Structure'
      BY StructureSuite
    <3>2. Occupe(w)'
      BY <2>1, <3>1 DEF Structure, Formes, Forme
    <3> QED BY <1>3, <2>1, <3>2 DEF Sondage, TravailGarde
  <2> QED BY <1>3, <2>1 DEF Sondage, Possede
<1>4. ASSUME NEW w \in Workers, NEW i, PrendreEvenement(w, i)
      PROVE  Possede(c, o)
  <2>1. PICK j \in jobs :
          /\ j.evt \in Evenement
          /\ workers' = [workers EXCEPT
                           ![w] = [Repos EXCEPT !.etape = "pris",
                                                !.evt = j.evt]]
    BY <1>4, PrendreCas
  <2> DEFINE x == [Repos EXCEPT !.etape = "pris", !.evt = j.evt]
  <2>2. x \in TravailEvt /\ x.copie = Absent
    BY <2>1, ReposType DEF TravailEvt, EtapesEvenement
  <2>3. rdvs' = rdvs /\ fond' \subseteq fond /\ workers' = [workers EXCEPT ![w] = x]
    BY <1>4, <2>1 DEF PrendreEvenement
  <2> HIDE DEF x
  <2> QED BY <2>2, <2>3, CopieSuite
<1>5. ASSUME NEW w \in Workers, LireMilo(w) PROVE Possede(c, o)
  <2>1. \A v \in Workers : workers'[v].copie = workers[v].copie
    BY <1>5 DEF LireMilo, Structure, Types, TypeWorkers, TravailEvt
  <2> QED BY <1>5, <2>1 DEF LireMilo, Possede
<1>6. ASSUME NEW w \in Workers, LireCopie(w) PROVE Possede(c, o)
  <2>1. PICK r \in IF CopiesDe(EvtDe(w).objet) = {} THEN {Absent}
                                                 ELSE CopiesDe(EvtDe(w).objet) :
          workers' = [workers EXCEPT ![w].etape = "copie", ![w].copie = r]
    BY <1>6 DEF LireCopie
  <2>2. \A v \in Workers : workers'[v].copie = workers[v].copie
                           \/ workers'[v].copie = r
    BY <2>1 DEF Structure, Types, TypeWorkers, TravailEvt
  <2>3. r = Absent \/ r \in rdvs
    BY <2>1 DEF CopiesDe
  <2> QED BY <1>6, <2>2, <2>3 DEF LireCopie, Possede
<1>7. ASSUME NEW w \in Workers, Traiter(w)
      PROVE  Possede(c, o) \/ CleNeuve(w, c, o)
  BY <1>7, PossedeTraiter
<1>8. ASSUME NEW w \in Workers,
             Terminer(w) \/ EchecEvenement(w) \/ ArretWorker(w)
      PROVE  Possede(c, o)
  <2>1. /\ workers' = [workers EXCEPT ![w] = Repos]
        /\ rdvs' = rdvs /\ fond' \subseteq fond
    BY <1>8 DEF Terminer, EchecEvenement, ArretWorker
  <2> QED BY <2>1, ReposType, CopieSuite
<1>9. ASSUME NEW a \in fond, NEW d \in Demande, fond' = Suite(a, d),
             UNCHANGED <<rdvs, workers>>
      PROVE  Possede(c, o)
  <2>1. \A b \in fond' : \E g \in fond : b.cle = g.cle /\ b.objet = g.objet
    BY <1>9, SuiteType
  <2> QED BY <1>9, <2>1 DEF Possede
<1>10. ASSUME NEW a \in fond, Retirer(a) PROVE Possede(c, o)
  BY <1>9, <1>10, RetirerCas DEF Retirer
<1>11. ASSUME NEW a \in fond, Ajouter(a) PROVE Possede(c, o)
  BY <1>9, <1>11, AjouterCas DEF Ajouter
<1>12. ASSUME NEW a \in fond, EchecDemande(a) PROVE Possede(c, o)
  BY <1>12 DEF EchecDemande, Possede
<1>13. CASE NettoyerJobs
  BY <1>13 DEF NettoyerJobs, Possede
<1> QED BY <1>1, <1>2, <1>3, <1>4, <1>5, <1>6, <1>7, <1>8, <1>10, <1>11, <1>12,
           <1>13, Cas

(* Rows                                                                     *)
LEMMA LignesSuite ==
  ASSUME Structure, [Next]_vars
  PROVE  \/ rdvs' = rdvs /\ uuids' = uuids
         \/ \E w \in Workers : Traiter(w)
<1>1. CASE UNCHANGED vars \/ Sondage \/ NettoyerJobs
  BY <1>1 DEF vars, Sondage, NettoyerJobs
<1>2. ASSUME NEW o \in Objets, Publier(o) PROVE rdvs' = rdvs /\ uuids' = uuids
  BY <1>2 DEF Publier
<1>3. ASSUME NEW w \in Workers, NEW i, PrendreEvenement(w, i)
      PROVE  rdvs' = rdvs /\ uuids' = uuids
  BY <1>3 DEF PrendreEvenement
<1>4. ASSUME NEW w \in Workers,
             \/ LireMilo(w) \/ LireCopie(w) \/ Terminer(w)
             \/ EchecEvenement(w) \/ ArretWorker(w)
      PROVE  rdvs' = rdvs /\ uuids' = uuids
  BY <1>4 DEF LireMilo, LireCopie, Terminer, EchecEvenement, ArretWorker
<1>5. ASSUME NEW a \in fond, Retirer(a) \/ Ajouter(a) \/ EchecDemande(a)
      PROVE  rdvs' = rdvs /\ uuids' = uuids
  BY <1>5 DEF Retirer, Ajouter, EchecDemande
<1> QED BY <1>1, <1>2, <1>3, <1>4, <1>5, Cas

(* The rows a treatment leaves: some of those there were, and at most one   *)
(* other, whose id is new or is that of the row it read.                    *)
LEMMA LignesTraiter ==
  ASSUME Structure, NEW w \in Workers, Traiter(w)
  PROVE  \/ rdvs' \subseteq rdvs
         \/ \E n \in Ligne :
              /\ n.objet = EvtDe(w).objet
              /\ \A r \in rdvs' : r = n \/ (r \in rdvs /\ r.id # n.id)
              /\ \/ n.id = uuids + 1
                 \/ workers[w].copie # Absent /\ n.id = workers[w].copie.id
<1>1. EvtDe(w) \in Evenement /\ Occupe(w) /\ uuids \in Nat
  BY EvtEnMain DEF Traiter, EtapesEvenement, Structure, Types, TypeLignes
<1>2. CASE EvtDe(w).objet \notin Rdvs
  BY <1>2, TraiterSessionCas DEF TraiteSession
<1>3. CASE EvtDe(w).objet \in Rdvs /\ Cree(w)
  <2> DEFINE n == [id |-> uuids + 1, objet |-> EvtDe(w).objet,
                   date |-> workers[w].lu.date]
  <2>1. workers[w].lu.date \in Dates
    BY <1>3, RecuperableType DEF Cree
  <2>2. n \in Ligne
    BY <1>1, <1>3, <2>1 DEF Ligne
  <2>3. rdvs' = rdvs \cup {n}
    BY <1>3 DEF Cree
  <2>4. \A r \in rdvs : r.id # n.id
    BY <1>1 DEF Structure, Types, TypeLignes, Ligne
  <2> QED BY <2>2, <2>3, <2>4
<1>4. CASE EvtDe(w).objet \in Rdvs /\ Modifie(w)
  <2> DEFINE c == workers[w].copie
             m == workers[w].lu
  <2>1. m \in ObjetMilo /\ c # Absent /\ rdvs' = Remplacer(c, m)
    BY <1>4, RecuperableType DEF Modifie
  <2>2. c \in Ligne /\ c.id =< uuids /\ TypeLignes /\ c.objet = EvtDe(w).objet
    BY <2>1, TravailType DEF Structure, Types, Forme
  <2>3. PICK n \in Ligne :
          /\ n.id = c.id /\ n.objet = c.objet
          /\ \A i : i \in Remplacer(c, m) <=> (i \in rdvs /\ i.id # c.id) \/ i = n
    <3> HIDE DEF c, m
    <3> QED BY <2>1, <2>2, RemplacerType
  <2> QED BY <2>1, <2>2, <2>3
<1>5. CASE EvtDe(w).objet \in Rdvs /\ (Supprime(w) \/ RienAFaire(w))
  BY <1>5 DEF Supprime, RienAFaire, Rien
<1> QED BY <1>2, <1>3, <1>4, <1>5, TraiterRdvCas

LEMMA ProprieteSuite == Structure /\ Propriete /\ [Next]_vars => Propriete'
<1> SUFFICES ASSUME Structure, Propriete, [Next]_vars PROVE Propriete'
  OBVIOUS
<1>1. uuids \in Nat /\ uuids' \in Nat /\ uuids =< uuids'
  <2>1. uuids' = uuids \/ uuids' = uuids + 1
    <3>1. ASSUME NEW w \in Workers, Traiter(w)
          PROVE  uuids' = uuids \/ uuids' = uuids + 1
      BY <3>1 DEF Traiter
    <3> QED BY <3>1, LignesSuite
  <2> QED BY <2>1 DEF Structure, Types, TypeLignes
<1>2. ClesRdv'
  <2>1. SUFFICES ASSUME NEW c, NEW o, o \in Rdvs, Possede(c, o)'
                 PROVE  c \in Nat /\ c =< uuids'
    BY DEF ClesRdv
  <2>2. CASE Possede(c, o)
    <3>1. c \in Nat /\ c =< uuids
      BY <2>1, <2>2 DEF Propriete, ClesRdv
    <3> QED BY <1>1, <3>1
  <2>3. ASSUME NEW w \in Workers, CleNeuve(w, c, o)
        PROVE  c \in Nat /\ c =< uuids'
    <3>1. c = uuids + 1 /\ uuids' = uuids + 1
      BY <2>1, <2>3, ConstantsAssumption DEF CleNeuve
    <3> QED BY <1>1, <3>1
  <2> QED BY <2>1, <2>2, <2>3, PossedeSuite
<1>3. ClesSession'
  <2>1. SUFFICES ASSUME NEW c, NEW o, o \in Sessions, Possede(c, o)'
                 PROVE  c = o
    BY DEF ClesSession
  <2>2. CASE Possede(c, o)
    BY <2>1, <2>2 DEF Propriete, ClesSession
  <2>3. ASSUME NEW w \in Workers, CleNeuve(w, c, o) PROVE c = o
    BY <2>1, <2>3, ConstantsAssumption DEF CleNeuve
  <2> QED BY <2>1, <2>2, <2>3, PossedeSuite
<1>4. UnProprietaire'
  <2>1. SUFFICES ASSUME NEW c, NEW o, NEW p, Possede(c, o)', Possede(c, p)'
                 PROVE  o = p
    BY DEF UnProprietaire
  <2>2. ASSUME NEW w \in Workers, NEW q, NEW s, CleNeuve(w, c, q), Possede(c, s)
        PROVE  q = s
    <3>1. s \in Objets
      BY <2>2, PossedeType
    <3>2. CASE q \in Rdvs /\ c = uuids + 1
      <4>1. s \notin Rdvs
        BY <1>1, <2>2, <3>2 DEF Propriete, ClesRdv
      <4>2. s \in Sessions /\ c = s
        BY <2>2, <3>1, <4>1 DEF Propriete, ClesSession, Objets
      <4> QED BY <1>1, <3>2, <4>2, ConstantsAssumption
    <3>3. CASE q \in Sessions /\ c = q
      <4>1. s \notin Rdvs
        BY <2>2, <3>3, ConstantsAssumption DEF Propriete, ClesRdv
      <4>2. s \in Sessions /\ c = s
        BY <2>2, <3>1, <4>1 DEF Propriete, ClesSession, Objets
      <4> QED BY <3>3, <4>2
    <3> QED BY <2>2, <3>2, <3>3 DEF CleNeuve
  <2>3. CASE Possede(c, o) /\ Possede(c, p)
    BY <2>3 DEF Propriete, UnProprietaire
  <2>4. ASSUME NEW v \in Workers, NEW w \in Workers, Traiter(v), Traiter(w),
               CleNeuve(v, c, o), CleNeuve(w, c, p)
        PROVE  o = p
    <3>1. v = w
      <4>1. CASE v # w
        <5>1. workers'[v] = workers[v] /\ workers'[v].etape = "ecrit"
          BY <2>4, <4>1 DEF Traiter, Structure, Types, TypeWorkers, TravailEvt
        <5> QED BY <2>4, <5>1 DEF Traiter
      <4> QED BY <4>1
    <3> QED BY <2>4, <3>1 DEF CleNeuve
  <2> QED BY <2>1, <2>2, <2>3, <2>4, PossedeSuite
<1>5. IdsLignes'
  <2>1. CASE rdvs' \subseteq rdvs
    BY <2>1 DEF Propriete, IdsLignes
  <2>2. ASSUME NEW n, \A r \in rdvs' : r = n \/ (r \in rdvs /\ r.id # n.id)
        PROVE  IdsLignes'
    BY <2>2 DEF Propriete, IdsLignes
  <2> QED BY <2>1, <2>2, LignesSuite, LignesTraiter
<1>6. ClesRappels'
  <2>1. ASSUME NEW a \in fond
        PROVE  a.cle \in Sessions \/ a.cle =< uuids
    <3>1. a.objet \in Objets /\ Possede(a.cle, a.objet)
      BY DEF Structure, Types, TypeFond, Appel, Possede
    <3> QED BY <3>1 DEF Objets, Propriete, ClesRdv, ClesSession
  <2>2. ASSUME NEW j \in jobs, EstRappel(j)
        PROVE  j.id[2] \in Sessions \/ j.id[2] =< uuids'
    <3>1. j.id[2] \in Cles
      BY <2>2, RappelDistinct
    <3> QED BY <1>1, <2>2, <3>1 DEF Propriete, ClesRappels, Cles
  <2>3. CASE jobs' \subseteq jobs
    BY <2>2, <2>3 DEF ClesRappels
  <2>4. ASSUME NEW j, NEW k, Change(j, k) PROVE ClesRappels'
    <3>1. ~EstRappel(k)
      BY <2>4, EvenementDistinct DEF Change, Remplace
    <3> QED BY <2>2, <2>4, <3>1 DEF ClesRappels, Change, Remplace
  <2>5. ASSUME NEW w \in Workers, NEW e \in workers[w].aPlanifier,
               jobs' = AjouterJob(jobs, NouveauJob(e))
        PROVE  ClesRappels'
    <3>1. EstEvenement(NouveauJob(e))
      BY TravailType, NouveauJobType DEF TravailEvt
    <3>2. ~EstRappel(NouveauJob(e))
      BY <3>1, EvenementDistinct
    <3> QED BY <2>2, <2>5, <3>2 DEF ClesRappels, AjouterJob
  <2>6. ASSUME NEW a \in fond, Ajouter(a) PROVE ClesRappels'
    <3>1. PICK k \in a.demande.jours :
            /\ jobs' = AjouterJob(jobs, NouveauRappel(a, k))
            /\ NouveauRappel(a, k).id = <<"rappel", a.cle, k>>
            /\ a.cle \in Cles
      BY <2>6, AjouterCas
    <3>2. NouveauRappel(a, k).id[2] = a.cle
      BY <3>1
    <3>3. uuids' = uuids
      BY <2>6 DEF Ajouter
    <3> QED BY <2>1, <2>2, <3>1, <3>2, <3>3 DEF ClesRappels, AjouterJob
  <2>7. CASE NettoyerJobs
    BY <2>3, <2>7, NettoyerCas
  <2>8. CASE ~ \E a \in fond : Ajouter(a)
    <3>1. \/ jobs' \subseteq jobs
          \/ \E j, k : Change(j, k)
          \/ \E w \in Workers : \E e \in workers[w].aPlanifier :
               jobs' = AjouterJob(jobs, NouveauJob(e))
          \/ NettoyerJobs
      BY <2>8, JobsSuite
    <3> QED BY <2>3, <2>4, <2>5, <2>7, <3>1
  <2> QED BY <2>6, <2>8
<1> QED BY <1>2, <1>3, <1>4, <1>5, <1>6 DEF Propriete


-----------------------------------------------------------------------------
(* What has been treated is not treated again.                              *)

(* The job of an event that has been treated is over, or has been removed   *)
(* once the event has left the queue of Milo.                               *)
TraitesClos(o) == \A e \in traites : e.objet = o =>
  \/ \E j \in jobs : EstEvenement(j) /\ j.evt = e /\ j.etat = "fini"
  \/ /\ e \notin fileMilo /\ ~JobPour(e)
     /\ \A w \in Workers : e \notin workers[w].aPlanifier

LEMMA TraitesClosSuite ==
  ASSUME Structure, Histoire, [Next]_vars, NEW o, TraitesClos(o),
         o \notin perturbes'
  PROVE  TraitesClos(o)'
<1> SUFFICES ASSUME NEW e \in traites', e.objet = o
             PROVE  \/ \E j \in jobs' : /\ EstEvenement(j) /\ j.evt = e
                                       /\ j.etat = "fini"
                    \/ /\ e \notin fileMilo' /\ ~JobPour(e)'
                       /\ \A w \in Workers : e \notin workers'[w].aPlanifier
  BY DEF TraitesClos
<1>0. Structure'
  BY StructureSuite
<1>1. ASSUME e \notin traites
      PROVE  \E j \in jobs' : /\ EstEvenement(j) /\ j.evt = e
                              /\ j.etat = "fini"
  <2>1. PICK w \in Workers : Terminer(w) /\ Occupe(w) /\ e = EvtDe(w)
    BY <1>1, FileSuite
  <2> DEFINE j == JobDe(EvtDe(w))
             k == [j EXCEPT !.etat = "fini"]
  <2>2. EstEvenement(k) /\ k.evt = EvtDe(w) /\ k.etat = "fini"
    <3>1. EstEvenement(j) /\ j.evt = EvtDe(w) /\ "fini" \in EtatsJob
      BY <2>1, JobTenu DEF EtatsJob
    <3> QED BY <3>1, EtatChange
  <2>3. jobs' = (jobs \ {j}) \cup {k}
    BY <2>1 DEF Terminer, ChangerEtat
  <2> QED BY <2>1, <2>2, <2>3
<1>2. ASSUME e \in traites, NEW j \in jobs, EstEvenement(j), j.evt = e,
             j.etat = "fini", j \notin jobs'
      PROVE  /\ e \notin fileMilo' /\ ~JobPour(e)'
             /\ \A w \in Workers : e \notin workers'[w].aPlanifier
  <2>1. NettoyerJobs
    <3>1. ASSUME NEW a, NEW k, Change(a, k) PROVE FALSE
      BY <1>2, <3>1 DEF Change, Remplace
    <3>2. ASSUME NEW n, jobs' = AjouterJob(jobs, n) PROVE FALSE
      BY <1>2, <3>2 DEF AjouterJob
    <3> QED BY <1>2, <3>1, <3>2, JobsSuite
  <2>2. e \notin fileMilo /\ fileMilo' = fileMilo
    BY <1>2, <2>1, NettoyerCas DEF NettoyerJobs
  <2>3. \A w \in Workers : workers'[w].aPlanifier = {}
    <3>1. \A w \in Workers : workers[w].etape # "suivi" /\ workers' = workers
      BY <2>1 DEF NettoyerJobs, EnSuivi
    <3> QED BY <3>1, TravailType DEF Forme
  <2>4. ~JobPour(e)'
    <3>1. ASSUME NEW k \in jobs', EstEvenement(k), k.evt = e PROVE FALSE
      <4>1. k \in jobs /\ k.id = j.id
        BY <1>2, <2>1, <3>1, NettoyerCas DEF EstEvenement
      <4> QED BY <1>2, <3>1, <4>1 DEF Structure, Types, IdsJobs
    <3> QED BY <3>1 DEF JobPour
  <2> QED BY <2>2, <2>3, <2>4
<1>3. ASSUME e \in traites, e \notin fileMilo, ~JobPour(e),
             \A w \in Workers : e \notin workers[w].aPlanifier
      PROVE  /\ e \notin fileMilo' /\ ~JobPour(e)'
             /\ \A w \in Workers : e \notin workers'[w].aPlanifier
  <2>1. e \in Evenement /\ Vu(e)
    BY <1>3 DEF Structure, Types, TypeFile, Vu
  <2>2. e \notin fileMilo'
    <3>1. ASSUME NEW p \in Objets, Publier(p) PROVE e \notin fileMilo'
      BY <1>3, <2>1, <3>1, NouvelEvenement
    <3> QED BY <1>3, <3>1, FileSuite
  <2>3. ~JobPour(e)'
    BY <1>3, <2>1, JobPourSuite
  <2>4. ASSUME NEW w \in Workers PROVE e \notin workers'[w].aPlanifier
    <3>1. workers'[w].aPlanifier \subseteq workers'[w].aAcquitter
      BY <1>0 DEF Structure, Formes, Forme
    <3>2. EvenementsAPlanifier(Lus(w)) \subseteq fileMilo
      BY LusType DEF EvenementsAPlanifier
    <3> QED BY <1>3, <3>1, <3>2, SuiviSuite
  <2> QED BY <2>2, <2>3, <2>4
<1> QED BY <1>1, <1>2, <1>3 DEF TraitesClos

-----------------------------------------------------------------------------
(* The copies of an appointment that is not disturbed                       *)

Tient(w, o) == Occupe(w) /\ EvtDe(w).objet = o

(* Something about the object has been done.                                *)
Commence(o) ==
  \/ \E f \in traites : f.objet = o
  \/ \E w \in Workers : Tient(w, o) /\ workers[w].etape = "ecrit"

Seul(o) == \A v, w \in Workers : Tient(v, o) /\ Tient(w, o) => v = w

PremiereFois(o) == \A w \in Workers :
  Tient(w, o) /\ EvtDe(w).action = "CREATE" /\ workers[w].etape # "ecrit" =>
    \A f \in traites : f.objet # o

LignesNees(o) == CopiesDe(o) # {} => Commence(o)

LignesUniques(o) == \A r, q \in CopiesDe(o) : r = q

(* What a worker has read of the copy is still so.                          *)
CopieLue(o) == \A w \in Workers :
  Tient(w, o) /\ workers[w].etape = "copie" =>
    \/ workers[w].copie = Absent /\ CopiesDe(o) = {}
    \/ workers[w].copie \in CopiesDe(o)

Ordre(o) == /\ Seul(o) /\ PremiereFois(o) /\ LignesNees(o)
            /\ LignesUniques(o) /\ CopieLue(o)

LEMMA OrdreGarde ==
  ASSUME Structure, NEW o, Ordre(o), TravailGarde, UNCHANGED <<rdvs, traites>>
  PROVE  Ordre(o)'
<1>1. \A w \in Workers : Tient(w, o)' <=> Tient(w, o)
  BY DEF Tient, TravailGarde, EvtDe
<1>2. \A w \in Workers : Tient(w, o) => workers'[w] = workers[w]
  BY DEF Tient, TravailGarde
<1>3. CopiesDe(o)' = CopiesDe(o)
  BY DEF CopiesDe
<1>4. Seul(o)' /\ LignesUniques(o)'
  BY <1>1, <1>3 DEF Ordre, Seul, LignesUniques
<1>5. PremiereFois(o)'
  BY <1>1, <1>2 DEF Ordre, PremiereFois, EvtDe
<1>6. Commence(o) => Commence(o)'
  BY <1>1, <1>2 DEF Commence
<1>7. LignesNees(o)'
  BY <1>3, <1>6 DEF Ordre, LignesNees
<1>8. CopieLue(o)'
  BY <1>1, <1>2, <1>3 DEF Ordre, CopieLue
<1> QED BY <1>4, <1>5, <1>7, <1>8 DEF Ordre

LEMMA OrdrePrendre ==
  ASSUME Structure, Histoire, NEW w \in Workers, NEW i, PrendreEvenement(w, i),
         NEW o, TraitesClos(o), Ordre(o), o \notin perturbes'
  PROVE  Ordre(o)'
<1>1. PICK j \in jobs :
        /\ EstEvenement(j) /\ j.etat = "attente" /\ j.evt \in Evenement
        /\ workers[w] = Repos
        /\ workers' = [workers EXCEPT
                         ![w] = [Repos EXCEPT !.etape = "pris",
                                              !.evt = j.evt]]
        /\ perturbes' =
             IF \/ Traite(j.evt.objet)
                \/ EnDesordre(j.evt)
                \/ \E a \in fond : a.objet = j.evt.objet
               THEN perturbes \cup {j.evt.objet} ELSE perturbes
  BY PrendreCas
<1> DEFINE x == [Repos EXCEPT !.etape = "pris", !.evt = j.evt]
<1>2. x.etape = "pris" /\ x.evt = j.evt /\ j.evt # Absent
  BY <1>1, AbsentAssumption DEF Repos
<1>3. /\ workers'[w] = x /\ Autres(w) /\ ~Occupe(w)
      /\ UNCHANGED <<rdvs, traites>>
  BY <1>1, ReposType
     DEF Autres, Structure, Types, TypeWorkers, PrendreEvenement, Occupe
<1> HIDE DEF x
<1>4. \A v \in Workers \ {w} : Tient(v, o)' <=> Tient(v, o)
  BY <1>3 DEF Autres, Tient, Occupe, EvtDe
<1>5. Tient(w, o)' <=> j.evt.objet = o
  BY <1>2, <1>3 DEF Tient, Occupe, EvtDe
<1>6. \A v \in Workers \ {w} : workers'[v] = workers[v]
  BY <1>3 DEF Autres
<1>7. CopiesDe(o)' = CopiesDe(o)
  BY <1>3 DEF CopiesDe
<1>8. j.evt.objet = o => ~Traite(o) /\ ~EnDesordre(j.evt)
  BY <1>1
<1>9. Seul(o)'
  <2>1. j.evt.objet = o => \A v \in Workers : ~Tient(v, o)
    BY <1>8 DEF Traite, Tient
  <2> QED BY <1>4, <1>5, <2>1 DEF Ordre, Seul
<1>10. LignesUniques(o)'
  BY <1>7 DEF Ordre, LignesUniques
<1>11. CopieLue(o)'
  BY <1>2, <1>3, <1>4, <1>6, <1>7 DEF Ordre, CopieLue
<1>12. LignesNees(o)'
  <2>1. ASSUME NEW v \in Workers, Tient(v, o), workers[v].etape = "ecrit"
        PROVE  Tient(v, o)' /\ workers'[v].etape = "ecrit"
    <3>1. v # w
      BY <1>3, <2>1 DEF Tient
    <3> QED BY <1>4, <1>6, <2>1, <3>1
  <2>2. Commence(o) => Commence(o)'
    BY <1>3, <2>1 DEF Commence
  <2> QED BY <1>7, <2>2 DEF Ordre, LignesNees
<1>13. PremiereFois(o)'
  <2>1. ASSUME NEW v \in Workers \ {w}, Tient(v, o)', EvtDe(v)'.action = "CREATE",
               workers'[v].etape # "ecrit", NEW f \in traites'
        PROVE  f.objet # o
    BY <1>3, <1>4, <1>6, <2>1 DEF Ordre, PremiereFois, EvtDe
  <2>2. ASSUME j.evt.objet = o, j.evt.action = "CREATE",
               NEW f \in traites, f.objet = o
        PROVE  FALSE
    <3>1. f \in Evenement /\ Vu(f) /\ Vu(j.evt) /\ JobPour(j.evt)
      BY <1>1, <2>2 DEF Structure, Types, TypeFile, Vu, JobPour
    <3>2. j.evt.id =< f.id /\ j.evt.id \in Int /\ f.id \in Int
      BY <1>1, <2>2, <3>1 DEF Histoire, CreationPremiere, Evenement
    <3>3. ~(f.id > j.evt.id)
      BY <1>8, <2>2 DEF EnDesordre
    <3>4. f = j.evt
      BY <1>1, <3>1, <3>2, <3>3 DEF Histoire, IdsVus
    <3>5. PICK k \in jobs : EstEvenement(k) /\ k.evt = f /\ k.etat = "fini"
      BY <2>2, <3>1, <3>4 DEF TraitesClos
    <3>6. k.id = j.id
      BY <1>1, <3>4, <3>5 DEF EstEvenement
    <3> QED BY <1>1, <3>5, <3>6 DEF Structure, Types, IdsJobs
  <2>3. EvtDe(w)' = j.evt
    BY <1>2, <1>3 DEF EvtDe
  <2> QED BY <1>3, <1>5, <2>1, <2>2, <2>3 DEF PremiereFois
<1> QED BY <1>9, <1>10, <1>11, <1>12, <1>13 DEF Ordre

(* A worker goes on with the event it holds.                                *)
LEMMA TientSuite ==
  ASSUME Structure, NEW w \in Workers, NEW x \in TravailEvt,
         workers' = [workers EXCEPT ![w] = x], x.evt = workers[w].evt
  PROVE  /\ workers'[w] = x
         /\ \A v \in Workers : /\ EvtDe(v)' = EvtDe(v)
                               /\ Occupe(v)' <=> Occupe(v)
                               /\ \A o : Tient(v, o)' <=> Tient(v, o)
                               /\ v # w => workers'[v] = workers[v]
BY DEF Structure, Types, TypeWorkers, EvtDe, Occupe, Tient

LEMMA LireMiloCas ==
  ASSUME Structure, NEW w \in Workers, LireMilo(w)
  PROVE  \E x \in TravailEvt :
           /\ workers' = [workers EXCEPT ![w] = x]
           /\ x.evt = workers[w].evt /\ x.copie = workers[w].copie
           /\ IF Traitable(EvtDe(w))
                THEN x.etape = "lu" /\ x.lu = milo[EvtDe(w).objet]
                ELSE x.etape = "ecrit"
           /\ workers[w].etape = "pris" /\ Occupe(w) /\ EvtDe(w) \in Evenement
           /\ UNCHANGED <<milo, supprimes, publies, fileMilo, rdvs, uuids,
                          jobs, fond, traites, perturbes>>
<1> DEFINE e == EvtDe(w)
           x == IF Traitable(e)
                  THEN [workers[w] EXCEPT !.etape = "lu", !.lu = milo[e.objet]]
                  ELSE [workers[w] EXCEPT !.etape = "ecrit"]
<1>1. workers[w].etape = "pris" /\ workers' = [workers EXCEPT ![w] = x]
  BY DEF LireMilo
<1>2. Occupe(w) /\ e \in Evenement /\ workers[w] \in TravailEvt
  BY <1>1, EvtEnMain DEF EtapesEvenement
<1>3. milo[e.objet] \in ObjetMilo \cup {Absent}
  BY <1>2 DEF Structure, Types, TypeMilo, Evenement
<1>4. /\ x \in TravailEvt /\ x.evt = workers[w].evt
      /\ x.copie = workers[w].copie
      /\ IF Traitable(e) THEN x.etape = "lu" /\ x.lu = milo[e.objet]
                         ELSE x.etape = "ecrit"
  BY <1>2, <1>3 DEF TravailEvt, EtapesEvenement
<1>5. UNCHANGED <<milo, supprimes, publies, fileMilo, rdvs, uuids, jobs, fond,
                  traites, perturbes>>
  BY DEF LireMilo
<1> HIDE DEF x
<1> QED BY <1>1, <1>2, <1>4, <1>5

LEMMA LireCopieCas ==
  ASSUME Structure, NEW w \in Workers, LireCopie(w)
  PROVE  \E x \in TravailEvt :
           /\ workers' = [workers EXCEPT ![w] = x]
           /\ x.evt = workers[w].evt /\ x.etape = "copie"
           /\ x.lu = workers[w].lu
           /\ \/ x.copie = Absent /\ CopiesDe(EvtDe(w).objet) = {}
              \/ x.copie \in CopiesDe(EvtDe(w).objet)
           /\ workers[w].etape = "lu" /\ Occupe(w) /\ EvtDe(w) \in Evenement
           /\ EvtDe(w).objet \in Rdvs
           /\ UNCHANGED <<milo, supprimes, publies, fileMilo, rdvs, uuids,
                          jobs, fond, traites, perturbes>>
<1>1. PICK r \in IF CopiesDe(EvtDe(w).objet) = {} THEN {Absent}
                                                 ELSE CopiesDe(EvtDe(w).objet) :
        workers' = [workers EXCEPT ![w].etape = "copie", ![w].copie = r]
  BY DEF LireCopie
<1> DEFINE x == [workers[w] EXCEPT !.etape = "copie", !.copie = r]
<1>2. /\ workers[w].etape = "lu" /\ EvtDe(w).objet \in Rdvs
      /\ workers' = [workers EXCEPT ![w] = x]
  BY <1>1 DEF LireCopie
<1>3. Occupe(w) /\ EvtDe(w) \in Evenement /\ workers[w] \in TravailEvt
  BY <1>2, EvtEnMain DEF EtapesEvenement
<1>4. r \in Ligne \cup {Absent}
  BY <1>1 DEF CopiesDe, Structure, Types, TypeLignes
<1>5. /\ x \in TravailEvt /\ x.evt = workers[w].evt /\ x.etape = "copie"
      /\ x.lu = workers[w].lu /\ x.copie = r
  BY <1>3, <1>4 DEF TravailEvt, EtapesEvenement
<1>6. \/ r = Absent /\ CopiesDe(EvtDe(w).objet) = {}
      \/ r \in CopiesDe(EvtDe(w).objet)
  BY <1>1
<1>7. UNCHANGED <<milo, supprimes, publies, fileMilo, rdvs, uuids, jobs, fond,
                  traites, perturbes>>
  BY DEF LireCopie
<1> HIDE DEF x
<1> QED BY <1>2, <1>3, <1>5, <1>6, <1>7

LEMMA OrdreLireMilo ==
  ASSUME Structure, NEW w \in Workers, LireMilo(w), NEW o, Ordre(o)
  PROVE  Ordre(o)'
<1>1. PICK x \in TravailEvt :
        /\ workers' = [workers EXCEPT ![w] = x]
        /\ x.evt = workers[w].evt /\ x.etape \in {"lu", "ecrit"}
        /\ workers[w].etape = "pris"
        /\ UNCHANGED <<rdvs, traites>>
  BY LireMiloCas
<1>2. /\ workers'[w] = x
      /\ \A v \in Workers : /\ EvtDe(v)' = EvtDe(v)
                            /\ Tient(v, o)' <=> Tient(v, o)
                            /\ v # w => workers'[v] = workers[v]
  BY <1>1, TientSuite
<1>3. CopiesDe(o)' = CopiesDe(o)
  BY <1>1 DEF CopiesDe
<1>4. Seul(o)' /\ LignesUniques(o)'
  BY <1>2, <1>3 DEF Ordre, Seul, LignesUniques
<1>5. PremiereFois(o)'
  BY <1>1, <1>2 DEF Ordre, PremiereFois
<1>6. Commence(o) => Commence(o)'
  BY <1>1, <1>2 DEF Commence
<1>7. LignesNees(o)'
  BY <1>3, <1>6 DEF Ordre, LignesNees
<1>8. CopieLue(o)'
  BY <1>1, <1>2, <1>3 DEF Ordre, CopieLue
<1> QED BY <1>4, <1>5, <1>7, <1>8 DEF Ordre

LEMMA OrdreLireCopie ==
  ASSUME Structure, NEW w \in Workers, LireCopie(w), NEW o, Ordre(o)
  PROVE  Ordre(o)'
<1>1. PICK x \in TravailEvt :
        /\ workers' = [workers EXCEPT ![w] = x]
        /\ x.evt = workers[w].evt /\ x.etape = "copie"
        /\ \/ x.copie = Absent /\ CopiesDe(EvtDe(w).objet) = {}
           \/ x.copie \in CopiesDe(EvtDe(w).objet)
        /\ workers[w].etape = "lu"
        /\ UNCHANGED <<rdvs, traites>>
  BY LireCopieCas
<1>2. /\ workers'[w] = x
      /\ \A v \in Workers : /\ EvtDe(v)' = EvtDe(v)
                            /\ Tient(v, o)' <=> Tient(v, o)
                            /\ v # w => workers'[v] = workers[v]
  BY <1>1, TientSuite
<1>3. CopiesDe(o)' = CopiesDe(o)
  BY <1>1 DEF CopiesDe
<1>4. Seul(o)' /\ LignesUniques(o)'
  BY <1>2, <1>3 DEF Ordre, Seul, LignesUniques
<1>5. PremiereFois(o)'
  BY <1>1, <1>2 DEF Ordre, PremiereFois
<1>6. Commence(o) => Commence(o)'
  BY <1>1, <1>2 DEF Commence
<1>7. LignesNees(o)'
  BY <1>3, <1>6 DEF Ordre, LignesNees
<1>8. CopieLue(o)'
  BY <1>1, <1>2, <1>3 DEF Ordre, CopieLue, Tient
<1> QED BY <1>4, <1>5, <1>7, <1>8 DEF Ordre

(* The treatment of another object leaves the copies.                       *)
LEMMA TraiterAilleurs ==
  ASSUME Structure, Propriete, NEW w \in Workers, Traiter(w),
         NEW o, EvtDe(w).objet # o
  PROVE  CopiesDe(o)' = CopiesDe(o)
<1>1. workers[w].copie # Absent =>
         /\ Possede(workers[w].copie.id, EvtDe(w).objet)
         /\ workers[w].copie \in Ligne
  BY TravailType DEF Forme, Possede
<1>2. ASSUME workers[w].copie # Absent, NEW r \in CopiesDe(o)
      PROVE  r \in rdvs /\ r.id # workers[w].copie.id
  <2>1. Possede(r.id, o) /\ r \in rdvs
    BY <1>2 DEF CopiesDe, Possede
  <2> QED BY <1>1, <1>2, <2>1 DEF Propriete, UnProprietaire
<1>3. CASE EvtDe(w).objet \notin Rdvs
  BY <1>3, TraiterSessionCas DEF TraiteSession, CopiesDe
<1>4. CASE EvtDe(w).objet \in Rdvs /\ Cree(w)
  <2> DEFINE n == [id |-> uuids + 1, objet |-> EvtDe(w).objet,
                   date |-> workers[w].lu.date]
  <2>1. rdvs' = rdvs \cup {n} /\ n.objet # o
    BY <1>4 DEF Cree
  <2> HIDE DEF n
  <2> QED BY <2>1 DEF CopiesDe
<1>5. CASE EvtDe(w).objet \in Rdvs /\ Modifie(w)
  <2> DEFINE c == workers[w].copie
             m == workers[w].lu
  <2>1. m \in ObjetMilo /\ c # Absent /\ rdvs' = Remplacer(c, m)
    BY <1>5, RecuperableType DEF Modifie
  <2>2. c \in Ligne /\ c.id =< uuids /\ TypeLignes /\ c.objet = EvtDe(w).objet
    BY <2>1, TravailType DEF Structure, Types, Forme
  <2>3. PICK n \in Ligne :
          /\ n.id = c.id /\ n.objet = c.objet
          /\ \A i : i \in Remplacer(c, m) <=> (i \in rdvs /\ i.id # c.id) \/ i = n
    <3> HIDE DEF c, m
    <3> QED BY <2>1, <2>2, RemplacerType
  <2>4. \A r : r \in CopiesDe(o) => r \in rdvs /\ r.id # c.id
    BY <1>2, <2>1
  <2> HIDE DEF c, m
  <2>5. \A r : r.objet = o => (r \in rdvs' <=> r \in rdvs /\ r.id # c.id)
    BY <2>1, <2>2, <2>3
  <2> QED BY <2>4, <2>5 DEF CopiesDe
<1>6. CASE EvtDe(w).objet \in Rdvs /\ Supprime(w)
  <2>1. /\ workers[w].copie # Absent
        /\ rdvs' = {q \in rdvs : q.id # workers[w].copie.id}
    BY <1>6 DEF Supprime
  <2> QED BY <1>2, <2>1 DEF CopiesDe
<1>7. CASE EvtDe(w).objet \in Rdvs /\ RienAFaire(w)
  BY <1>7 DEF RienAFaire, Rien, CopiesDe
<1> QED BY <1>3, <1>4, <1>5, <1>6, <1>7, TraiterRdvCas

CreeLigne(w, o) ==
  /\ Cree(w) /\ CopiesDe(o) = {}
  /\ \E n \in Ligne : /\ n.id = uuids + 1 /\ n.objet = o
                      /\ n.date = workers[w].lu.date /\ CopiesDe(o)' = {n}

ModifieLigne(w, o) ==
  /\ Modifie(w) /\ CopiesDe(o) = {workers[w].copie}
  /\ \E n \in Ligne : /\ n.id = workers[w].copie.id /\ n.objet = o
                      /\ n.date = workers[w].lu.date /\ CopiesDe(o)' = {n}

SupprimeLigne(w, o) ==
  /\ Supprime(w) /\ CopiesDe(o) = {workers[w].copie} /\ CopiesDe(o)' = {}

GardeLignes(w, o) ==
  /\ RienAFaire(w) /\ CopiesDe(o)' = CopiesDe(o)
  /\ workers[w].copie = Absent => CopiesDe(o) = {}
  /\ workers[w].copie # Absent => CopiesDe(o) = {workers[w].copie}

(* What the treatment of an appointment does to its copies                  *)
LEMMA TraiterCopies ==
  ASSUME Structure, Propriete, NEW w \in Workers, Traiter(w),
         NEW o \in Rdvs, EvtDe(w).objet = o, Ordre(o)
  PROVE  \/ CreeLigne(w, o) \/ ModifieLigne(w, o)
         \/ SupprimeLigne(w, o) \/ GardeLignes(w, o)
<1>1. /\ workers[w].etape = "copie" /\ Occupe(w) /\ Tient(w, o)
      /\ uuids \in Nat
  <2>1. workers[w].etape = "copie"
    BY ConstantsAssumption DEF Traiter
  <2> QED BY <2>1, EvtEnMain
          DEF EtapesEvenement, Tient, Structure, Types, TypeLignes
<1>2. \/ workers[w].copie = Absent /\ CopiesDe(o) = {}
      \/ workers[w].copie \in CopiesDe(o) /\ CopiesDe(o) = {workers[w].copie}
  BY <1>1 DEF Ordre, CopieLue, LignesUniques
<1>3. workers[w].copie \in CopiesDe(o) => workers[w].copie # Absent
  BY AbsentAssumption DEF CopiesDe, Structure, Types, TypeLignes
<1>4. CASE Cree(w)
  <2>1. CopiesDe(o) = {}
    <3>1. CASE EvtDe(w).action = "UPDATE"
      BY <1>2, <1>3, <1>4, <3>1 DEF Cree
    <3>2. CASE EvtDe(w).action = "CREATE"
      <4>1. \A f \in traites : f.objet # o
        BY <1>1, <3>2 DEF Ordre, PremiereFois
      <4>2. ASSUME NEW v \in Workers, Tient(v, o), workers[v].etape = "ecrit"
            PROVE  FALSE
        <5>1. v = w
          BY <1>1, <4>2 DEF Ordre, Seul
        <5> QED BY <1>1, <4>2, <5>1
      <4>3. ~Commence(o)
        BY <4>1, <4>2 DEF Commence
      <4> QED BY <4>3 DEF Ordre, LignesNees
    <3> QED BY <1>4, <3>1, <3>2 DEF Cree
  <2> DEFINE n == [id |-> uuids + 1, objet |-> o, date |-> workers[w].lu.date]
  <2>2. workers[w].lu.date \in Dates
    BY <1>4, RecuperableType DEF Cree
  <2>3. /\ n \in Ligne /\ n.id = uuids + 1 /\ n.objet = o
        /\ n.date = workers[w].lu.date
    BY <1>1, <2>2 DEF Ligne
  <2>4. rdvs' = rdvs \cup {n}
    BY <1>4 DEF Cree
  <2> HIDE DEF n
  <2>5. CopiesDe(o)' = {n}
    BY <2>1, <2>3, <2>4 DEF CopiesDe
  <2> QED BY <1>4, <2>1, <2>3, <2>5 DEF CreeLigne
<1>5. ASSUME workers[w].copie # Absent
      PROVE  /\ CopiesDe(o) = {workers[w].copie}
             /\ workers[w].copie \in Ligne /\ workers[w].copie.id =< uuids
             /\ workers[w].copie.objet = o /\ TypeLignes
             /\ \A q \in CopiesDe(o) : q.id = workers[w].copie.id
  BY <1>2, <1>5, TravailType DEF Structure, Types, Forme
<1>6. CASE Modifie(w)
  <2> DEFINE c == workers[w].copie
             m == workers[w].lu
  <2>1. m \in ObjetMilo /\ c # Absent /\ rdvs' = Remplacer(c, m)
    BY <1>6, RecuperableType DEF Modifie
  <2>2. /\ c \in Ligne /\ c.id =< uuids /\ TypeLignes /\ c.objet = o
        /\ CopiesDe(o) = {c} /\ \A q \in CopiesDe(o) : q.id = c.id
    BY <1>5, <2>1
  <2>3. PICK n \in Ligne :
          /\ n.id = c.id /\ n.objet = c.objet /\ n.date = m.date
          /\ \A i : i \in Remplacer(c, m) <=> (i \in rdvs /\ i.id # c.id) \/ i = n
    <3> HIDE DEF c, m
    <3> QED BY <2>1, <2>2, RemplacerType
  <2>4. \A i : i \in rdvs' <=> (i \in rdvs /\ i.id # c.id) \/ i = n
    BY <2>1, <2>3
  <2>5. CopiesDe(o)' = {n}
    <3> HIDE DEF c
    <3>1. \A i \in rdvs : i.objet = o => i.id = c.id
      BY <2>2 DEF CopiesDe
    <3>2. \A i : (i \in rdvs' /\ i.objet = o) <=> i = n
      BY <2>2, <2>3, <2>4, <3>1
    <3> QED BY <3>2 DEF CopiesDe
  <2> QED BY <1>6, <2>2, <2>3, <2>5 DEF ModifieLigne
<1>7. CASE Supprime(w)
  <2>1. /\ workers[w].copie # Absent
        /\ rdvs' = {q \in rdvs : q.id # workers[w].copie.id}
    BY <1>7 DEF Supprime
  <2>2. CopiesDe(o)' = {}
    BY <1>5, <2>1 DEF CopiesDe
  <2> QED BY <1>5, <1>7, <2>1, <2>2 DEF SupprimeLigne
<1>8. CASE RienAFaire(w)
  BY <1>2, <1>3, <1>8 DEF RienAFaire, Rien, GardeLignes, CopiesDe
<1> QED BY <1>4, <1>6, <1>7, <1>8, TraiterRdvCas

LEMMA TraiterTravail ==
  ASSUME Structure, NEW w \in Workers, Traiter(w)
  PROVE  \E x \in TravailEvt :
           /\ workers' = [workers EXCEPT ![w] = x]
           /\ x.evt = workers[w].evt /\ x.etape = "ecrit"
           /\ workers[w].etape \in {"lu", "copie"} /\ Occupe(w)
           /\ EvtDe(w) \in Evenement /\ Traitable(EvtDe(w))
           /\ UNCHANGED <<milo, supprimes, publies, fileMilo, jobs, pannes,
                          traites, perturbes>>
<1> DEFINE x == [workers[w] EXCEPT !.etape = "ecrit"]
<1>1. /\ workers[w].etape \in {"lu", "copie"}
      /\ workers' = [workers EXCEPT ![w] = x]
      /\ UNCHANGED <<milo, supprimes, publies, fileMilo, jobs, pannes,
                     traites, perturbes>>
  BY DEF Traiter
<1>2. /\ Occupe(w) /\ EvtDe(w) \in Evenement /\ workers[w] \in TravailEvt
      /\ Traitable(EvtDe(w))
  BY <1>1, EvtEnMain, TravailType DEF EtapesEvenement, Forme
<1>3. x \in TravailEvt /\ x.evt = workers[w].evt /\ x.etape = "ecrit"
  BY <1>2 DEF TravailEvt, EtapesEvenement
<1> HIDE DEF x
<1> QED BY <1>1, <1>2, <1>3

LEMMA OrdreTraiter ==
  ASSUME Structure, Propriete, NEW w \in Workers, Traiter(w),
         NEW o \in Objets, Ordre(o)
  PROVE  Ordre(o)'
<1>1. PICK x \in TravailEvt :
        /\ workers' = [workers EXCEPT ![w] = x]
        /\ x.evt = workers[w].evt /\ x.etape = "ecrit" /\ Occupe(w)
        /\ workers[w].etape \in {"lu", "copie"} /\ traites' = traites
  BY TraiterTravail
<1>2. /\ workers'[w] = x
      /\ \A v \in Workers : /\ EvtDe(v)' = EvtDe(v)
                            /\ Tient(v, o)' <=> Tient(v, o)
                            /\ v # w => workers'[v] = workers[v]
  BY <1>1, TientSuite
<1>3. Seul(o)'
  BY <1>2 DEF Ordre, Seul
<1>4. PremiereFois(o)'
  BY <1>1, <1>2 DEF Ordre, PremiereFois
<1>5. Commence(o) => Commence(o)'
  BY <1>1, <1>2 DEF Commence
<1>6. CASE CopiesDe(o)' = CopiesDe(o)
  <2>1. LignesUniques(o)' /\ LignesNees(o)'
    BY <1>5, <1>6 DEF Ordre, LignesUniques, LignesNees
  <2>2. CopieLue(o)'
    BY <1>1, <1>2, <1>6 DEF Ordre, CopieLue
  <2> QED BY <1>3, <1>4, <2>1, <2>2 DEF Ordre
<1>7. ASSUME EvtDe(w).objet = o, o \in Rdvs,
             CopiesDe(o)' = {} \/ \E n : CopiesDe(o)' = {n}
      PROVE  Ordre(o)'
  <2>1. Tient(w, o) /\ Tient(w, o)'
    BY <1>1, <1>2, <1>7 DEF Tient
  <2>2. LignesUniques(o)'
    BY <1>7 DEF LignesUniques
  <2>3. LignesNees(o)'
    BY <1>1, <1>2, <2>1 DEF LignesNees, Commence
  <2>4. ASSUME NEW v \in Workers, Tient(v, o)' PROVE workers'[v].etape = "ecrit"
    <3>1. v = w
      BY <1>2, <2>1, <2>4 DEF Ordre, Seul
    <3> QED BY <1>1, <1>2, <3>1
  <2>5. CopieLue(o)'
    BY <2>4 DEF CopieLue
  <2> QED BY <1>3, <1>4, <2>2, <2>3, <2>5 DEF Ordre
<1>8. CASE EvtDe(w).objet # o
  BY <1>6, <1>8, TraiterAilleurs
<1>9. CASE EvtDe(w).objet = o /\ o \in Rdvs
  BY <1>6, <1>7, <1>9, TraiterCopies
     DEF CreeLigne, ModifieLigne, SupprimeLigne, GardeLignes
<1>10. CASE EvtDe(w).objet = o /\ o \notin Rdvs
  BY <1>6, <1>10, TraiterSessionCas DEF TraiteSession, CopiesDe
<1> QED BY <1>8, <1>9, <1>10

(* A worker leaves the event it holds.                                      *)
LEMMA OrdreLacher ==
  ASSUME Structure, NEW w \in Workers, workers' = [workers EXCEPT ![w] = Repos],
         rdvs' = rdvs,
         \/ traites' = traites
         \/ /\ workers[w].etape = "ecrit" /\ Occupe(w)
            /\ traites' = traites \cup {EvtDe(w)},
         NEW o, Ordre(o),
         Tient(w, o) /\ workers[w].etape = "ecrit" => EvtDe(w) \in traites'
  PROVE  Ordre(o)'
<1>1. /\ workers'[w] = Repos
      /\ \A v \in Workers \ {w} : workers'[v] = workers[v]
  BY DEF Structure, Types, TypeWorkers
<1>2. ~Tient(w, o)' /\ \A v \in Workers \ {w} : /\ Tient(v, o)' <=> Tient(v, o)
                                               /\ EvtDe(v)' = EvtDe(v)
  BY <1>1, ReposType DEF Tient, Occupe, EvtDe
<1>3. CopiesDe(o)' = CopiesDe(o)
  BY DEF CopiesDe
<1>4. Seul(o)' /\ LignesUniques(o)'
  BY <1>2, <1>3 DEF Ordre, Seul, LignesUniques
<1>5. PremiereFois(o)'
  <2>1. SUFFICES ASSUME NEW v \in Workers, Tient(v, o)', NEW f \in traites',
                        EvtDe(v)'.action = "CREATE",
                        workers'[v].etape # "ecrit", f.objet = o
                 PROVE  FALSE
    BY DEF PremiereFois
  <2>2. v # w
    BY <1>2, <2>1
  <2>3. /\ Tient(v, o) /\ EvtDe(v).action = "CREATE"
        /\ workers[v].etape # "ecrit"
    BY <1>1, <1>2, <2>1, <2>2
  <2>4. f \notin traites
    BY <2>1, <2>3 DEF Ordre, PremiereFois
  <2>5. Tient(w, o)
    BY <2>1, <2>4 DEF Tient
  <2> QED BY <2>2, <2>3, <2>5 DEF Ordre, Seul
<1>6. Commence(o) => Commence(o)'
  <2>1. ASSUME NEW v \in Workers, Tient(v, o), workers[v].etape = "ecrit"
        PROVE  Commence(o)'
    <3>1. CASE v = w
      BY <2>1, <3>1 DEF Commence, Tient
    <3>2. CASE v # w
      BY <1>1, <1>2, <2>1, <3>2 DEF Commence
    <3> QED BY <3>1, <3>2
  <2> QED BY <2>1 DEF Commence
<1>7. LignesNees(o)'
  BY <1>3, <1>6 DEF Ordre, LignesNees
<1>8. CopieLue(o)'
  BY <1>1, <1>2, <1>3 DEF Ordre, CopieLue
<1> QED BY <1>4, <1>5, <1>7, <1>8 DEF Ordre

InvOrdre == \A o \in Objets \ perturbes : TraitesClos(o) /\ Ordre(o)

LEMMA OrdreInit == Init => InvOrdre
<1> SUFFICES ASSUME Init, NEW o \in Objets PROVE TraitesClos(o) /\ Ordre(o)
  BY DEF InvOrdre
<1>1. \A w \in Workers : ~Tient(w, o)
  BY ReposType DEF Init, Tient, Occupe, EvtDe
<1>2. CopiesDe(o) = {} /\ traites = {}
  BY DEF Init, CopiesDe
<1> QED BY <1>1, <1>2 DEF TraitesClos, Ordre, Seul, PremiereFois, LignesNees,
                          LignesUniques, CopieLue

LEMMA PublierGarde ==
  ASSUME NEW o, Publier(o)
  PROVE  TravailGarde /\ UNCHANGED <<rdvs, traites, perturbes, fond, jobs>>
BY DEF Publier, TravailGarde, Occupe

LEMMA OrdreSuite ==
  Structure /\ Histoire /\ Propriete /\ InvOrdre /\ [Next]_vars => InvOrdre'
<1> SUFFICES ASSUME Structure, Histoire, Propriete, InvOrdre, [Next]_vars,
                    NEW o \in Objets, o \notin perturbes'
             PROVE  TraitesClos(o)' /\ Ordre(o)'
  BY DEF InvOrdre
<1>1. TraitesClos(o) /\ Ordre(o)
  BY PerturbesSuite DEF InvOrdre
<1>2. TraitesClos(o)'
  BY <1>1, TraitesClosSuite
<1> SUFFICES Ordre(o)'
  BY <1>2
<1>3. ASSUME TravailGarde, UNCHANGED <<rdvs, traites>> PROVE Ordre(o)'
  BY <1>1, <1>3, OrdreGarde
<1>4. CASE UNCHANGED vars
  BY <1>3, <1>4 DEF vars, TravailGarde, Occupe
<1>5. ASSUME NEW p \in Objets, Publier(p) PROVE Ordre(o)'
  BY <1>3, <1>5, PublierGarde
<1>6. CASE Sondage
  BY <1>3, <1>6 DEF Sondage
<1>7. ASSUME NEW w \in Workers, NEW i, PrendreEvenement(w, i) PROVE Ordre(o)'
  BY <1>1, <1>7, OrdrePrendre
<1>8. ASSUME NEW w \in Workers, LireMilo(w) \/ LireCopie(w) \/ Traiter(w)
      PROVE  Ordre(o)'
  BY <1>1, <1>8, OrdreLireMilo, OrdreLireCopie, OrdreTraiter
<1>9. ASSUME NEW w \in Workers, Terminer(w) PROVE Ordre(o)'
  <2>1. /\ workers' = [workers EXCEPT ![w] = Repos] /\ rdvs' = rdvs
        /\ workers[w].etape = "ecrit" /\ traites' = traites \cup {EvtDe(w)}
    BY <1>9 DEF Terminer
  <2>2. Occupe(w)
    BY <2>1, EvtEnMain DEF EtapesEvenement
  <2> QED BY <1>1, <2>1, <2>2, OrdreLacher
<1>10. ASSUME NEW w \in Workers, EchecEvenement(w) PROVE Ordre(o)'
  <2>1. /\ workers' = [workers EXCEPT ![w] = Repos] /\ rdvs' = rdvs
        /\ workers[w].etape = "pris" /\ traites' = traites
    BY <1>10 DEF EchecEvenement
  <2> QED BY <1>1, <2>1, OrdreLacher
<1>11. ASSUME NEW w \in Workers, ArretWorker(w) PROVE Ordre(o)'
  <2>1. /\ workers' = [workers EXCEPT ![w] = Repos] /\ rdvs' = rdvs
        /\ traites' = traites
    BY <1>11 DEF ArretWorker
  <2>2. ~(Tient(w, o) /\ workers[w].etape = "ecrit")
    BY <1>11, ArretCas DEF Tient
  <2> QED BY <1>1, <2>1, <2>2, OrdreLacher
<1>12. ASSUME NEW a \in fond, Retirer(a) \/ Ajouter(a) \/ EchecDemande(a)
       PROVE  Ordre(o)'
  BY <1>3, <1>12 DEF Retirer, Ajouter, EchecDemande, TravailGarde, Occupe
<1>13. CASE NettoyerJobs
  BY <1>3, <1>13 DEF NettoyerJobs, TravailGarde, Occupe
<1> QED BY <1>4, <1>5, <1>6, <1>7, <1>8, <1>9, <1>10, <1>11, <1>12, <1>13, Cas

InvCopies == Inv /\ Propriete /\ InvOrdre

LEMMA InvCopiesInit == Init => InvCopies
BY InvInit, ProprieteInit, OrdreInit DEF InvCopies

LEMMA InvCopiesSuite == InvCopies /\ [Next]_vars => InvCopies'
BY InvSuite, ProprieteSuite, OrdreSuite DEF InvCopies, Inv

(* An appointment of Milo that no operation overlapping or failing has      *)
(* disturbed has at most one row, whatever the number of workers, of events *)
(* and of attempts: a creation that is delivered again finds its job        *)
(* (ajouterJobEvenementMiloSiIlNaPasEteCreeAvant), and an update that comes *)
(* late finds the row (getByIdPartenaire).                                  *)
THEOREM UneCopieToujours == Spec => []UneCopieParRdv
<1>1. InvCopies => UneCopieParRdv
  <2> SUFFICES ASSUME InvCopies, NEW o \in Rdvs \ perturbes
               PROVE  Cardinality(CopiesDe(o)) =< 1
    BY DEF UneCopieParRdv, CopiesDe
  <2>1. o \in Objets \ perturbes
    BY DEF Objets
  <2>2. \A r, q \in CopiesDe(o) : r = q
    BY <2>1 DEF InvCopies, InvOrdre, Ordre, LignesUniques
  <2>3. CASE CopiesDe(o) = {}
    BY <2>3, FS_EmptySet
  <2>4. ASSUME NEW r \in CopiesDe(o) PROVE Cardinality(CopiesDe(o)) =< 1
    <3>1. CopiesDe(o) = {r}
      BY <2>2
    <3> QED BY <3>1, FS_Singleton
  <2> QED BY <2>3, <2>4
<1> QED BY <1>1, InvCopiesInit, InvCopiesSuite, PTL DEF Spec

-----------------------------------------------------------------------------
(* The events that are still to be treated                                  *)

(* Its treatment brings the CEJ up to date.                                 *)
Decisif(e) == IF e.objet \in supprimes THEN e.action = "DELETE"
                                       ELSE e.action \in {"CREATE", "UPDATE"}

EnAttente(e) ==
  \/ e \in fileMilo /\ ~Couvert(e)
  \/ \E j \in jobs : EstEvenement(j) /\ j.evt = e /\ j.etat = "attente"

Attente(o) == \E e \in Evenement : e.objet = o /\ Decisif(e) /\ EnAttente(e)

(* The worker has what Milo holds now, or is about to ask.                  *)
AJour(w, o) ==
  \/ workers[w].etape = "pris"
  \/ workers[w].etape \in {"lu", "copie"} /\ workers[w].lu = milo[o]

EnCours(o) ==
  \E w \in Workers : Tient(w, o) /\ Decisif(EvtDe(w)) /\ AJour(w, o)

AVenir(o) == Attente(o) \/ EnCours(o)

(* A worker that has read an object changed since is not the last one.      *)
Perime(o) == \A w \in Workers :
  Tient(w, o) /\ workers[w].etape \in {"lu", "copie"} /\ ~AJour(w, o) =>
    Attente(o)

LEMMA DecisifSuite ==
  ASSUME Structure, [Next]_vars, NEW o, ~Publier(o), NEW e, e.objet = o
  PROVE  Decisif(e)' <=> Decisif(e)
<1>1. o \in supprimes' <=> o \in supprimes
  <2>1. ASSUME NEW p \in Objets, Publier(p), p # o
        PROVE  o \in supprimes' <=> o \in supprimes
    BY <2>1, PublierCas
  <2> QED BY <2>1, FileSuite
<1> QED BY <1>1 DEF Decisif

(* What Milo holds of an object that it does not change                     *)
LEMMA MiloSuite ==
  ASSUME Structure, [Next]_vars, NEW o \in Objets, ~Publier(o)
  PROVE  milo'[o] = milo[o]
<1>1. ASSUME NEW p \in Objets, Publier(p), p # o PROVE milo'[o] = milo[o]
  BY <1>1, PublierCas DEF Structure, Types, TypeMilo
<1> QED BY <1>1, FileSuite

(* A change is announced by an event that waits.                            *)
LEMMA PublierAttente ==
  ASSUME Structure, Histoire, [Next]_vars, NEW o \in Objets, Publier(o)
  PROVE  \/ Attente(o)'
         \/ milo' = milo /\ supprimes' = supprimes /\ (Attente(o) => Attente(o)')
<1>1. PICK a \in Actions, m \in ObjetMilo \cup {Absent} :
        /\ Nouvel(o, a) \in Evenement
        /\ Nouvel(o, a).id = publies + 1 /\ Nouvel(o, a).objet = o
        /\ Nouvel(o, a).action = a
        /\ ~Vu(Nouvel(o, a))
        /\ fileMilo' = fileMilo \cup {Nouvel(o, a)}
        /\ milo' = [milo EXCEPT ![o] = m]
        /\ a = "NON_TRAITABLE" => m = milo[o]
        /\ supprimes' = IF a = "DELETE" THEN supprimes \cup {o}
                                        ELSE supprimes
  BY NouvelEvenement
<1>0. PICK n \in Evenement :
        /\ n.id = publies + 1 /\ n.objet = o /\ n.action = a /\ ~Vu(n)
        /\ fileMilo' = fileMilo \cup {n}
  BY <1>1
<1>2. /\ publies \in Nat /\ o \notin supprimes /\ jobs' = jobs
      /\ milo \in [Objets -> ObjetMilo \cup {Absent}]
      /\ \A e \in Evenement : e.id \in Nat
  BY PublierCas DEF Structure, Types, TypeFile, TypeMilo, Publier, Evenement
<1>3. CASE a = "NON_TRAITABLE"
  <2>1. milo' = milo /\ supprimes' = supprimes
    BY <1>1, <1>2, <1>3
  <2>2. \A e : /\ Decisif(e)' <=> Decisif(e)
               /\ EnAttente(e) => EnAttente(e)'
    BY <1>1, <1>2, <2>1 DEF Decisif, EnAttente, Couvert
  <2>3. Attente(o) => Attente(o)'
    BY <2>2 DEF Attente
  <2> QED BY <2>1, <2>3
<1>4. CASE a # "NON_TRAITABLE"
  <2>1. Decisif(n)'
    BY <1>0, <1>1, <1>2, <1>4 DEF Decisif, Actions
  <2>2. ~Couvert(n)'
    <3>1. ASSUME NEW j \in jobs, EstEvenement(j),
                 j.evt = n \/ (MemeCle(n, j.evt) /\ j.evt.id > n.id)
          PROVE  FALSE
      <4>1. j.evt \in Evenement /\ Vu(j.evt)
        BY <3>1, EvenementDistinct DEF Vu, JobPour
      <4>2. j.evt.id =< publies /\ j.evt.id \in Nat
        BY <1>2, <4>1 DEF Histoire, BorneVus
      <4> QED BY <1>0, <1>1, <1>2, <3>1, <4>1, <4>2
    <3> QED BY <1>2, <3>1 DEF Couvert
  <2>3. n \in fileMilo' /\ n \in Evenement /\ n.objet = o
    BY <1>0
  <2>4. EnAttente(n)'
    BY <2>2, <2>3 DEF EnAttente
  <2> QED BY <2>1, <2>3, <2>4 DEF Attente
<1> QED BY <1>3, <1>4

(* An event that waits goes on waiting, or a worker takes it.               *)
LEMMA AttenteSuite ==
  ASSUME Structure, Histoire, InvLu, [Next]_vars,
         NEW o \in Objets, ~Publier(o), Attente(o)
  PROVE  \/ Attente(o)'
         \/ \E w \in Workers, i \in 1 .. MaxEvenements :
              PrendreEvenement(w, i) /\ Tient(w, o)' /\ EnCours(o)'
<1>1. PICK e \in Evenement : e.objet = o /\ Decisif(e) /\ EnAttente(e)
  BY DEF Attente
<1>2. Decisif(e)'
  BY <1>1, DecisifSuite
<1>3. ASSUME NEW j \in jobs, EstEvenement(j), j.evt = e, j.etat = "attente",
             j \in jobs'
      PROVE  Attente(o)'
  BY <1>1, <1>2, <1>3 DEF Attente, EnAttente
<1>4. ASSUME NEW j \in jobs, EstEvenement(j), j.evt = e, j.etat = "attente",
             j \notin jobs'
      PROVE  \E w \in Workers, i \in 1 .. MaxEvenements :
               PrendreEvenement(w, i) /\ Tient(w, o)' /\ EnCours(o)'
  <2>1. Pris(j)
    <3>1. ASSUME NEW a, NEW k, Change(a, k) PROVE Pris(j)
      BY <1>4, <3>1 DEF Change, Remplace
    <3>2. ASSUME NEW n, jobs' = AjouterJob(jobs, n) PROVE FALSE
      BY <1>4, <3>2 DEF AjouterJob
    <3>3. ASSUME NettoyerJobs PROVE FALSE
      BY <1>4, <3>3, NettoyerCas
    <3> QED BY <1>4, <3>1, <3>2, <3>3, JobsSuite
  <2>2. PICK w \in Workers, i \in 1 .. MaxEvenements :
          /\ PrendreEvenement(w, i)
          /\ workers' = [workers EXCEPT
                           ![w] = [Repos EXCEPT !.etape = "pris", !.evt = j.evt]]
    BY <2>1 DEF Pris
  <2> DEFINE x == [Repos EXCEPT !.etape = "pris", !.evt = j.evt]
  <2>3. x.etape = "pris" /\ x.evt = e /\ e # Absent
    BY <1>4, AbsentAssumption DEF Repos
  <2>4. workers'[w] = x
    BY <2>2 DEF Structure, Types, TypeWorkers
  <2> HIDE DEF x
  <2>5. EvtDe(w)' = e /\ Tient(w, o)' /\ workers'[w].etape = "pris"
    BY <1>1, <2>3, <2>4 DEF EvtDe, Tient, Occupe
  <2>6. Decisif(EvtDe(w))'
    BY <1>2, <2>5
  <2>7. EnCours(o)'
    BY <2>5, <2>6 DEF EnCours, AJour
  <2> QED BY <2>2, <2>5, <2>7
<1>5. ASSUME e \in fileMilo, ~Couvert(e) PROVE Attente(o)'
  <2>1. e \in fileMilo'
    <3>1. ASSUME NEW w \in Workers, e \in workers[w].aAcquitter,
                 workers[w].aPlanifier = {}
          PROVE  FALSE
      BY <1>5, <3>1 DEF InvLu
    <3> QED BY <1>5, <3>1, SortieFile
  <2>2. CASE ~Couvert(e)'
    BY <1>1, <1>2, <2>1, <2>2 DEF Attente, EnAttente
  <2>3. CASE Couvert(e)'
    <3>1. PICK k \in jobs' :
            /\ EstEvenement(k)
            /\ k.evt = e \/ (MemeCle(e, k.evt) /\ k.evt.id > e.id)
      BY <2>3 DEF Couvert
    <3>2. k \notin jobs
      BY <1>5, <3>1 DEF Couvert
    <3>3. ASSUME NEW a, NEW b, Change(a, b) PROVE FALSE
      BY <1>5, <3>1, <3>2, <3>3 DEF Change, Remplace, Couvert
    <3>4. ASSUME NEW n, EstRappel(n), jobs' = AjouterJob(jobs, n) PROVE FALSE
      BY <3>1, <3>2, <3>4, RappelDistinct DEF AjouterJob
    <3>5. PICK w \in Workers : \E g \in workers[w].aPlanifier :
            jobs' = AjouterJob(jobs, NouveauJob(g))
      BY <3>2, <3>3, <3>4, JobsSuite, NettoyerCas
    <3>6. PICK g \in workers[w].aPlanifier :
            jobs' = AjouterJob(jobs, NouveauJob(g))
      BY <3>5
    <3>7. g \in Evenement /\ k = NouveauJob(g)
      BY <3>2, <3>6, TravailType DEF AjouterJob, TravailEvt
    <3>8. k.evt = g /\ k.etat = "attente"
      BY <3>7, NouveauJobType
    <3>9. g.objet = o /\ g.action = e.action
      BY <1>1, <3>1, <3>8 DEF MemeCle
    <3>10. Decisif(g)'
      BY <1>1, <1>2, <3>9 DEF Decisif
    <3> QED BY <3>1, <3>7, <3>8, <3>9, <3>10 DEF Attente, EnAttente
  <2> QED BY <2>2, <2>3
<1> QED BY <1>1, <1>3, <1>4, <1>5 DEF EnAttente

(* A worker that steps leaves the others.                                   *)
LEMMA AutresSuite ==
  ASSUME Structure, NEW w \in Workers,
         \/ \E i : PrendreEvenement(w, i)
         \/ LireMilo(w) \/ LireCopie(w) \/ Traiter(w) \/ Terminer(w)
         \/ EchecEvenement(w) \/ ArretWorker(w)
  PROVE  \A v \in Workers \ {w} : workers'[v] = workers[v]
BY DEF Structure, Types, TypeWorkers, PrendreEvenement, LireMilo, LireCopie,
       Traiter, Terminer, EchecEvenement, ArretWorker

(* The others: what is treated goes on.                                     *)
LEMMA GardeCas ==
  ASSUME Structure, [Next]_vars
  PROVE  \/ TravailGarde
         \/ \E w \in Workers, i \in 1 .. MaxEvenements : PrendreEvenement(w, i)
         \/ \E w \in Workers : \/ LireMilo(w) \/ LireCopie(w) \/ Traiter(w)
                               \/ Terminer(w) \/ EchecEvenement(w)
                               \/ ArretWorker(w)
<1>1. CASE UNCHANGED vars
  BY <1>1 DEF vars, TravailGarde, Occupe
<1>2. ASSUME NEW p \in Objets, Publier(p) PROVE TravailGarde
  BY <1>2, PublierGarde
<1>3. ASSUME NEW a \in fond, Retirer(a) \/ Ajouter(a) \/ EchecDemande(a)
      PROVE  TravailGarde
  BY <1>3 DEF Retirer, Ajouter, EchecDemande, TravailGarde, Occupe
<1>4. CASE NettoyerJobs
  BY <1>4 DEF NettoyerJobs, TravailGarde, Occupe
<1>5. CASE Sondage
  BY <1>5 DEF Sondage
<1> QED BY <1>1, <1>2, <1>3, <1>4, <1>5, Cas

(* A worker that has what it needs treats the event, or gives it back.      *)
LEMMA EnCoursSuite ==
  ASSUME Structure, [Next]_vars, NEW o \in Objets, o \in Connus, ~Publier(o),
         o \notin perturbes', EnCours(o)
  PROVE  \/ AVenir(o)'
         \/ \E w \in Workers : /\ Traiter(w) /\ Tient(w, o)
                               /\ Decisif(EvtDe(w)) /\ workers[w].lu = milo[o]
<1>1. PICK w \in Workers : Tient(w, o) /\ Decisif(EvtDe(w)) /\ AJour(w, o)
  BY DEF EnCours
<1>2. milo'[o] = milo[o]
  BY MiloSuite
<1>3. /\ Occupe(w) /\ EvtDe(w).objet = o /\ EvtDe(w) \in Evenement
      /\ JobDe(EvtDe(w)) \in jobs
  BY <1>1, JobTenu DEF Tient
<1>4. ASSUME Tient(w, o)', EvtDe(w)' = EvtDe(w), AJour(w, o)' PROVE AVenir(o)'
  <2>1. \A e : e.objet = o => (Decisif(e)' <=> Decisif(e))
    BY DecisifSuite
  <2>2. Decisif(EvtDe(w))'
    <3>1. PICK e \in Evenement : e = EvtDe(w)
      BY <1>3
    <3>2. Decisif(e)' /\ EvtDe(w)' = e
      BY <1>1, <1>3, <1>4, <2>1, <3>1
    <3> QED BY <3>2
  <2> QED BY <1>4, <2>2 DEF AVenir, EnCours
<1>5. ASSUME workers'[w] = workers[w] PROVE AVenir(o)'
  BY <1>1, <1>2, <1>4, <1>5 DEF Tient, Occupe, EvtDe, AJour
<1>6. CASE TravailGarde
  BY <1>3, <1>5, <1>6 DEF TravailGarde
<1>7. ASSUME NEW v \in Workers, NEW i \in 1 .. MaxEvenements,
             PrendreEvenement(v, i)
      PROVE  AVenir(o)'
  <2>1. v # w
    BY <1>3, <1>7, AuRepos DEF PrendreEvenement
  <2> QED BY <1>5, <1>7, <2>1, AutresSuite
<1>8. ASSUME NEW v \in Workers, v # w,
             \/ LireMilo(v) \/ LireCopie(v) \/ Traiter(v) \/ Terminer(v)
             \/ EchecEvenement(v) \/ ArretWorker(v)
      PROVE  AVenir(o)'
  BY <1>5, <1>8, AutresSuite
<1>9. CASE LireMilo(w)
  <2>1. PICK x \in TravailEvt :
          /\ workers' = [workers EXCEPT ![w] = x]
          /\ x.evt = workers[w].evt
          /\ Traitable(EvtDe(w)) => /\ x.etape = "lu"
                                    /\ x.lu = milo[EvtDe(w).objet]
    BY <1>9, LireMiloCas
  <2>2. Traitable(EvtDe(w))
    BY <1>1, <1>3 DEF Traitable, Decisif
  <2>3. /\ workers'[w] = x /\ EvtDe(w)' = EvtDe(w)
        /\ Tient(w, o)' <=> Tient(w, o)
    BY <2>1, TientSuite
  <2>4. AJour(w, o)'
    BY <1>2, <1>3, <2>1, <2>2, <2>3 DEF AJour
  <2> QED BY <1>1, <1>4, <2>3, <2>4
<1>10. CASE LireCopie(w)
  <2>1. PICK x \in TravailEvt :
          /\ workers' = [workers EXCEPT ![w] = x]
          /\ x.evt = workers[w].evt /\ x.etape = "copie"
          /\ x.lu = workers[w].lu /\ workers[w].etape = "lu"
    BY <1>10, LireCopieCas
  <2>2. /\ workers'[w] = x /\ EvtDe(w)' = EvtDe(w)
        /\ Tient(w, o)' <=> Tient(w, o)
    BY <2>1, TientSuite
  <2>3. AJour(w, o)'
    BY <1>1, <1>2, <2>1, <2>2 DEF AJour
  <2> QED BY <1>1, <1>4, <2>2, <2>3
<1>11. CASE Traiter(w)
  <2>1. workers[w].etape \in {"lu", "copie"}
    BY <1>11 DEF Traiter
  <2>2. workers[w].lu = milo[o]
    BY <1>1, <2>1 DEF AJour
  <2> QED BY <1>1, <1>11, <2>2
<1>12. CASE Terminer(w)
  BY <1>1, <1>12 DEF Terminer, AJour
<1>13. ASSUME NEW k, EstEvenement(k), k.evt = EvtDe(w), k.etat = "attente",
              k \in jobs'
       PROVE  AVenir(o)'
  <2>1. Decisif(k.evt)'
    <3>1. PICK e \in Evenement : e = k.evt
      BY <1>3, <1>13
    <3>2. Decisif(e)'
      BY <1>1, <1>3, <1>13, <3>1, DecisifSuite
    <3>3. Decisif(k.evt)' <=> Decisif(e)'
      BY <3>1 DEF Decisif
    <3> QED BY <3>2, <3>3
  <2> QED BY <1>3, <1>13, <2>1 DEF AVenir, Attente, EnAttente
<1>14. CASE EchecEvenement(w)
  <2>1. PICK k : /\ EstEvenement(k) /\ k.evt = EvtDe(w)
                 /\ k.etat \in {"attente", "fini"} /\ k \in jobs'
                 /\ k.etat = "fini" => EvtDe(w).objet \in perturbes'
    BY <1>14, EchecEvenementCas
  <2> QED BY <1>3, <1>13, <2>1
<1>15. CASE ArretWorker(w)
  <2>1. PICK k : /\ EstEvenement(k) /\ k.evt = EvtDe(w)
                 /\ k.etat \in {"attente", "fini"} /\ k \in jobs'
                 /\ k.etat = "fini" => EvtDe(w).objet \in perturbes'
    BY <1>3, <1>15, ArretCas
  <2> QED BY <1>3, <1>13, <2>1
<1> QED BY <1>6, <1>7, <1>8, <1>9, <1>10, <1>11, <1>12, <1>14, <1>15, GardeCas

LEMMA PerimeSuite ==
  ASSUME Structure, Histoire, InvLu, [Next]_vars, NEW o \in Objets,
         o \notin perturbes', Perime(o)
  PROVE  Perime(o)'
<1> SUFFICES ASSUME NEW w \in Workers, Tient(w, o)',
                    workers'[w].etape \in {"lu", "copie"}, ~AJour(w, o)'
             PROVE  Attente(o)'
  BY DEF Perime
<1>0. Occupe(w)' /\ EvtDe(w)'.objet = o
  BY DEF Tient
<1>1. CASE Publier(o)
  <2>1. CASE milo' = milo /\ (Attente(o) => Attente(o)')
    <3>1. workers'[w] = workers[w] /\ Occupe(w)
      BY <1>0, <1>1, PublierGarde DEF TravailGarde
    <3>2. Tient(w, o) /\ ~AJour(w, o) /\ workers[w].etape \in {"lu", "copie"}
      BY <1>0, <2>1, <3>1 DEF Tient, EvtDe, AJour
    <3> QED BY <2>1, <3>2 DEF Perime
  <2> QED BY <1>1, <2>1, PublierAttente
<1>2. CASE ~Publier(o)
  <2>1. milo'[o] = milo[o]
    BY <1>2, MiloSuite
  <2>2. ASSUME Tient(w, o), ~AJour(w, o), workers[w].etape \in {"lu", "copie"}
        PROVE  Attente(o)'
    <3>1. Attente(o)
      BY <2>2 DEF Perime
    <3>2. ASSUME NEW v \in Workers, NEW i, PrendreEvenement(v, i), Tient(v, o)'
          PROVE  FALSE
      <4>1. PICK j \in jobs :
              /\ j.evt \in Evenement /\ workers[v] = Repos
              /\ workers' = [workers EXCEPT
                               ![v] = [Repos EXCEPT !.etape = "pris",
                                                    !.evt = j.evt]]
              /\ Traite(j.evt.objet) => j.evt.objet \in perturbes'
        BY <3>2, PrendreCas
      <4>2. workers'[v].evt = j.evt
        BY <4>1 DEF Structure, Types, TypeWorkers, Repos
      <4>3. j.evt.objet = o
        BY <3>2, <4>2 DEF Tient, EvtDe
      <4>4. Traite(o)
        BY <2>2 DEF Traite, Tient
      <4> QED BY <4>1, <4>3, <4>4
    <3> QED BY <1>2, <3>1, <3>2, AttenteSuite
  <2>3. ASSUME workers'[w] = workers[w] PROVE Attente(o)'
    BY <1>0, <2>1, <2>2, <2>3 DEF Tient, Occupe, EvtDe, AJour
  <2>4. CASE TravailGarde
    BY <1>0, <2>3, <2>4 DEF TravailGarde
  <2>5. ASSUME NEW v \in Workers, NEW i \in 1 .. MaxEvenements,
               PrendreEvenement(v, i)
        PROVE  Attente(o)'
    <3>1. CASE v # w
      BY <2>3, <2>5, <3>1, AutresSuite
    <3>2. CASE v = w
      <4>1. PICK j : workers' = [workers EXCEPT
                                   ![w] = [Repos EXCEPT !.etape = "pris",
                                                        !.evt = j.evt]]
        BY <2>5, <3>2, PrendreCas
      <4>2. workers'[w].etape = "pris"
        BY <4>1 DEF Structure, Types, TypeWorkers, Repos
      <4> QED BY <4>2
    <3> QED BY <3>1, <3>2
  <2>6. ASSUME NEW v \in Workers, v # w,
               \/ LireMilo(v) \/ LireCopie(v) \/ Traiter(v) \/ Terminer(v)
               \/ EchecEvenement(v) \/ ArretWorker(v)
        PROVE  Attente(o)'
    BY <2>3, <2>6, AutresSuite
  <2>7. CASE LireMilo(w)
    <3>1. PICK x \in TravailEvt :
            /\ workers' = [workers EXCEPT ![w] = x]
            /\ x.evt = workers[w].evt
            /\ IF Traitable(EvtDe(w))
                 THEN x.etape = "lu" /\ x.lu = milo[EvtDe(w).objet]
                 ELSE x.etape = "ecrit"
      BY <2>7, LireMiloCas
    <3>2. /\ workers'[w] = x /\ EvtDe(w)' = EvtDe(w)
          /\ Tient(w, o)' <=> Tient(w, o)
      BY <3>1, TientSuite
    <3>3. Tient(w, o) /\ EvtDe(w).objet = o
      BY <3>2 DEF Tient
    <3>4. AJour(w, o)'
      BY <2>1, <3>1, <3>2, <3>3 DEF AJour
    <3> QED BY <3>4
  <2>8. CASE LireCopie(w)
    <3>1. PICK x \in TravailEvt :
            /\ workers' = [workers EXCEPT ![w] = x]
            /\ x.evt = workers[w].evt /\ x.etape = "copie"
            /\ x.lu = workers[w].lu /\ workers[w].etape = "lu"
      BY <2>8, LireCopieCas
    <3>2. /\ workers'[w] = x
          /\ Tient(w, o)' <=> Tient(w, o)
      BY <3>1, TientSuite
    <3>3. ~AJour(w, o)
      BY <2>1, <3>1, <3>2 DEF AJour
    <3> QED BY <2>2, <3>1, <3>2, <3>3
  <2>9. CASE Traiter(w)
    <3>1. workers'[w].etape = "ecrit"
      BY <2>9 DEF Traiter, Structure, Types, TypeWorkers, TravailEvt
    <3> QED BY <3>1
  <2>10. CASE Terminer(w) \/ EchecEvenement(w) \/ ArretWorker(w)
    <3>1. workers'[w] = Repos
      BY <2>10 DEF Terminer, EchecEvenement, ArretWorker,
                   Structure, Types, TypeWorkers
    <3> QED BY <3>1, ReposType
  <2> QED BY <2>4, <2>5, <2>6, <2>7, <2>8, <2>9, <2>10, GardeCas
<1> QED BY <1>1, <1>2

-----------------------------------------------------------------------------
(* The copies of an appointment whose events are treated                    *)

ConformeRdv(o) ==
  {r.date : r \in CopiesDe(o)} = IF Attendu(o) THEN {milo[o].date} ELSE {}

LEMMA CreationSansCopie ==
  ASSUME Structure, NEW w \in Workers, NEW o, Tient(w, o), Ordre(o),
         workers[w].etape # "ecrit", EvtDe(w).action = "CREATE"
  PROVE  CopiesDe(o) = {}
<1>1. \A f \in traites : f.objet # o
  BY DEF Ordre, PremiereFois
<1>2. ASSUME NEW v \in Workers, Tient(v, o), workers[v].etape = "ecrit"
      PROVE  FALSE
  BY <1>2 DEF Ordre, Seul
<1>3. ~Commence(o)
  BY <1>1, <1>2 DEF Commence
<1> QED BY <1>3 DEF Ordre, LignesNees

LEMMA TraiterDecisif ==
  ASSUME Structure, Histoire, Propriete, NEW w \in Workers, Traiter(w),
         NEW o \in Rdvs, Tient(w, o), Ordre(o), Decisif(EvtDe(w)),
         workers[w].lu = milo[o]
  PROVE  ConformeRdv(o)'
<1>1. /\ milo' = milo /\ workers[w].etape \in {"lu", "copie"}
      /\ Traitable(EvtDe(w)) /\ EvtDe(w) \in Evenement
      /\ EvtDe(w).objet = o /\ o \in Connus /\ Occupe(w)
  BY TraiterTravail DEF Tient, Traitable
<1> DEFINE m == workers[w].lu
<1>2. Attendu(o)' <=> Recuperable(m)
  BY <1>1 DEF Attendu
<1>3. EvtDe(w).action = "DELETE" => m = Absent
  BY <1>1 DEF Decisif, Structure, Types, TypeMilo
<1>4. EvtDe(w).action # "DELETE" => m # Absent
  <2>1. Vu(EvtDe(w))
    BY <1>1, VuEnMain
  <2> QED BY <1>1, <2>1 DEF Decisif, Histoire, Connaissance
<1>5. ~Recuperable(Absent)
  BY DEF Recuperable
<1>6. milo'[o] = m
  BY <1>1
<1> HIDE DEF m
<1>7. CASE CreeLigne(w, o) \/ ModifieLigne(w, o)
  <2>1. Recuperable(m)
    BY <1>7 DEF CreeLigne, ModifieLigne, Cree, Modifie, m
  <2>2. PICK n \in Ligne : n.date = m.date /\ CopiesDe(o)' = {n}
    BY <1>7 DEF CreeLigne, ModifieLigne, m
  <2>3. {r.date : r \in CopiesDe(o)'} = {m.date}
    BY <2>2
  <2> QED BY <1>2, <1>6, <2>1, <2>3 DEF ConformeRdv
<1>8. CASE SupprimeLigne(w, o)
  <2>1. ~Recuperable(m) /\ CopiesDe(o)' = {}
    BY <1>3, <1>5, <1>8 DEF SupprimeLigne, Supprime, m
  <2> QED BY <1>2, <2>1 DEF ConformeRdv
<1>9. CASE GardeLignes(w, o)
  <2>1. ~Recuperable(m) /\ CopiesDe(o) = {}
    <3>1. CASE EvtDe(w).action = "CREATE"
      BY <1>1, <1>9, <3>1, CreationSansCopie DEF GardeLignes, RienAFaire, m
    <3>2. CASE EvtDe(w).action # "CREATE"
      BY <1>3, <1>4, <1>5, <1>9, <3>2 DEF GardeLignes, RienAFaire, m
    <3> QED BY <3>1, <3>2
  <2>2. CopiesDe(o)' = {}
    BY <1>9, <2>1 DEF GardeLignes
  <2> QED BY <1>2, <2>1, <2>2 DEF ConformeRdv
<1> QED BY <1>1, <1>7, <1>8, <1>9, TraiterCopies

LEMMA TraiterNonDecisif ==
  ASSUME Structure, Histoire, Propriete, NEW w \in Workers, Traiter(w),
         NEW o \in Objets, Tient(w, o), ~Decisif(EvtDe(w)),
         workers[w].lu = milo[o]
  PROVE  /\ o \in supprimes /\ workers[w].lu = Absent
         /\ EvtDe(w).action \in {"CREATE", "UPDATE"}
<1>1. /\ Traitable(EvtDe(w)) /\ EvtDe(w) \in Evenement
      /\ EvtDe(w).objet = o /\ Vu(EvtDe(w))
  BY TraiterTravail, VuEnMain DEF Tient
<1>2. EvtDe(w).action \in {"CREATE", "UPDATE", "DELETE"}
  BY <1>1 DEF Traitable, Evenement, Actions
<1>3. o \in supprimes
  BY <1>1, <1>2 DEF Decisif, Histoire, SuppressionDefinitive
<1>4. milo[o] = Absent
  BY <1>3 DEF Structure, Types, TypeMilo
<1> QED BY <1>1, <1>2, <1>3, <1>4 DEF Decisif

LEMMA TraiterSansSuite ==
  ASSUME Structure, Histoire, Propriete, NEW w \in Workers, Traiter(w),
         NEW o \in Rdvs, Tient(w, o), ~Decisif(EvtDe(w)),
         workers[w].lu = milo[o]
  PROVE  CopiesDe(o)' = CopiesDe(o)
<1>1. /\ workers[w].lu = Absent /\ EvtDe(w).action \in {"CREATE", "UPDATE"}
      /\ EvtDe(w).objet \in Rdvs
  BY TraiterNonDecisif DEF Tient, Objets
<1>2. ~Recuperable(workers[w].lu)
  BY <1>1 DEF Recuperable
<1>3. RienAFaire(w)
  BY <1>1, <1>2, TraiterRdvCas DEF Cree, Modifie, Supprime
<1> QED BY <1>3 DEF RienAFaire, Rien, CopiesDe

(* What is to come comes closer, or is done.                                *)
LEMMA AVenirSuite ==
  ASSUME Structure, Histoire, InvLu, [Next]_vars, NEW o \in Objets,
         o \in Connus, ~Publier(o), o \notin perturbes', AVenir(o)
  PROVE  \/ AVenir(o)'
         \/ \E w \in Workers : /\ Traiter(w) /\ Tient(w, o)
                               /\ Decisif(EvtDe(w)) /\ workers[w].lu = milo[o]
<1>1. CASE Attente(o)
  BY <1>1, AttenteSuite DEF AVenir
<1>2. CASE EnCours(o)
  BY <1>2, EnCoursSuite
<1> QED BY <1>1, <1>2 DEF AVenir

(* An event that cannot be treated changes nothing.                         *)
LEMMA AVenirPublier ==
  ASSUME Structure, NEW o \in Objets, Publier(o), milo' = milo,
         supprimes' = supprimes, Attente(o) => Attente(o)', AVenir(o)
  PROVE  AVenir(o)'
<1>1. CASE Attente(o)
  BY <1>1 DEF AVenir
<1>2. CASE EnCours(o)
  <2>1. PICK w \in Workers : Tient(w, o) /\ Decisif(EvtDe(w)) /\ AJour(w, o)
    BY <1>2 DEF EnCours
  <2>2. workers'[w] = workers[w] /\ Occupe(w)'
    BY <2>1, PublierGarde DEF TravailGarde, Tient
  <2>3. Tient(w, o)' /\ Decisif(EvtDe(w))' /\ AJour(w, o)'
    BY <2>1, <2>2 DEF Tient, EvtDe, Decisif, AJour
  <2> QED BY <2>3 DEF EnCours, AVenir
<1> QED BY <1>1, <1>2 DEF AVenir

InvVenir ==
  /\ \A o \in Objets \ perturbes : Perime(o)
  /\ \A o \in Rdvs \ perturbes :
       ConformeRdv(o) \/ (o \in Connus /\ AVenir(o))

LEMMA VenirInit == Init => InvVenir
<1> SUFFICES ASSUME Init PROVE InvVenir
  OBVIOUS
<1>1. \A o : \A w \in Workers : ~Tient(w, o)
  BY ReposType DEF Init, Tient, Occupe, EvtDe
<1>2. \A o : CopiesDe(o) = {}
  BY DEF Init, CopiesDe
<1>3. \A o \in Rdvs : o \notin Refusees /\ o \in Objets
  BY ConstantsAssumption DEF Objets
<1>4. \A o \in Rdvs : milo[o] = Absent
  BY <1>3 DEF Init
<1>5. \A o \in Rdvs : ~Attendu(o)
  BY <1>4 DEF Attendu, Recuperable
<1> QED BY <1>1, <1>2, <1>5 DEF InvVenir, Perime, ConformeRdv

LEMMA ConformeRdvSuite ==
  ASSUME InvCopies, InvVenir, [Next]_vars, NEW o \in Rdvs, o \notin perturbes',
         ~Publier(o), ConformeRdv(o), ~(o \in Connus /\ AVenir(o))
  PROVE  ConformeRdv(o)'
<1>1. o \in Objets /\ o \notin perturbes
  BY PerturbesSuite DEF Objets, InvCopies, Inv
<1>2. Structure /\ Histoire /\ Propriete /\ Ordre(o) /\ Perime(o)
  BY <1>1 DEF InvCopies, Inv, InvOrdre, InvVenir
<1>3. milo'[o] = milo[o]
  BY <1>1, <1>2, MiloSuite
<1>4. ASSUME CopiesDe(o)' = CopiesDe(o) PROVE ConformeRdv(o)'
  BY <1>3, <1>4 DEF ConformeRdv, Attendu
<1>5. CASE rdvs' = rdvs
  BY <1>4, <1>5 DEF CopiesDe
<1>6. ASSUME NEW w \in Workers, Traiter(w) PROVE ConformeRdv(o)'
  <2>1. /\ workers[w].etape \in {"lu", "copie"} /\ Occupe(w)
        /\ Traitable(EvtDe(w))
    BY <1>2, <1>6, TraiterTravail
  <2>2. CASE EvtDe(w).objet # o
    BY <1>2, <1>4, <1>6, <2>2, TraiterAilleurs
  <2>3. CASE EvtDe(w).objet = o
    <3>1. Tient(w, o) /\ o \in Connus
      BY <2>1, <2>3 DEF Tient, Traitable
    <3>2. CASE workers[w].lu = milo[o] /\ Decisif(EvtDe(w))
      BY <1>2, <1>6, <3>1, <3>2, TraiterDecisif
    <3>3. CASE workers[w].lu = milo[o] /\ ~Decisif(EvtDe(w))
      BY <1>2, <1>4, <1>6, <3>1, <3>3, TraiterSansSuite
    <3>4. CASE workers[w].lu # milo[o]
      <4>1. ~AJour(w, o)
        BY <2>1, <3>4 DEF AJour
      <4>2. Attente(o)
        BY <1>2, <2>1, <3>1, <4>1 DEF Perime
      <4> QED BY <3>1, <4>2 DEF AVenir
    <3> QED BY <3>2, <3>3, <3>4
  <2> QED BY <2>2, <2>3
<1> QED BY <1>2, <1>5, <1>6, LignesSuite

LEMMA VenirSuite == InvCopies /\ InvVenir /\ [Next]_vars => InvVenir'
<1> SUFFICES ASSUME InvCopies, InvVenir, [Next]_vars PROVE InvVenir'
  OBVIOUS
<1>1. Structure /\ Histoire /\ InvLu /\ Propriete
  BY DEF InvCopies, Inv
<1>2. ASSUME NEW o \in Objets, o \notin perturbes' PROVE Perime(o)'
  <2>1. Perime(o)
    BY <1>1, <1>2, PerturbesSuite DEF InvVenir
  <2> QED BY <1>1, <1>2, <2>1, PerimeSuite
<1>3. ASSUME NEW o \in Rdvs, o \notin perturbes'
      PROVE  ConformeRdv(o)' \/ (o \in Connus /\ AVenir(o)')
  <2>1. o \in Objets /\ o \notin perturbes
    BY <1>1, <1>3, PerturbesSuite DEF Objets
  <2>2. ConformeRdv(o) \/ (o \in Connus /\ AVenir(o))
    BY <1>3, <2>1 DEF InvVenir
  <2>3. CASE Publier(o) /\ o \notin Connus
    <3>1. rdvs' = rdvs /\ ~Attendu(o) /\ ~Attendu(o)'
      BY <2>3, PublierGarde DEF Attendu
    <3>2. ConformeRdv(o)
      BY <2>2, <2>3
    <3> QED BY <3>1, <3>2 DEF ConformeRdv, CopiesDe
  <2>4. CASE Publier(o) /\ o \in Connus
    <3>1. CASE Attente(o)'
      BY <2>4, <3>1 DEF AVenir
    <3>2. CASE /\ milo' = milo /\ supprimes' = supprimes
               /\ Attente(o) => Attente(o)'
      <4>1. CASE AVenir(o)
        BY <1>1, <2>1, <2>4, <3>2, <4>1, AVenirPublier
      <4>2. CASE ConformeRdv(o)
        <5>1. rdvs' = rdvs
          BY <2>4, PublierGarde
        <5> QED BY <3>2, <4>2, <5>1 DEF ConformeRdv, CopiesDe, Attendu
      <4> QED BY <2>2, <4>1, <4>2
    <3> QED BY <1>1, <2>1, <2>4, <3>1, <3>2, PublierAttente
  <2>5. CASE ~Publier(o) /\ o \in Connus /\ AVenir(o)
    <3>1. CASE AVenir(o)'
      BY <2>5, <3>1
    <3>2. ASSUME NEW w \in Workers, Traiter(w), Tient(w, o),
                 Decisif(EvtDe(w)), workers[w].lu = milo[o]
          PROVE  ConformeRdv(o)'
      <4>1. Ordre(o)
        BY <2>1 DEF InvCopies, InvOrdre
      <4> QED BY <1>1, <1>3, <3>2, <4>1, TraiterDecisif
    <3> QED BY <1>1, <1>3, <2>1, <2>5, <3>1, <3>2, AVenirSuite
  <2>6. CASE ~Publier(o) /\ ~(o \in Connus /\ AVenir(o))
    BY <1>3, <2>2, <2>6, ConformeRdvSuite
  <2> QED BY <2>3, <2>4, <2>5, <2>6
<1> QED BY <1>2, <1>3 DEF InvVenir

(* When nothing is left to do about an object, nothing is to come.          *)
LEMMA CalmeSansSuite ==
  ASSUME Structure, NEW o, Calme(o)
  PROVE  ~AVenir(o)
<1>1. ASSUME NEW j \in jobs, EstEvenement(j), j.evt.objet = o
      PROVE  j.etat = "fini"
  <2>1. j \in JobsEvenements
    BY <1>1, EvenementDistinct DEF JobsEvenements
  <2> QED BY <1>1, <2>1 DEF Calme
<1>2. ~Attente(o)
  BY <1>1 DEF Attente, EnAttente, Calme
<1>3. \A w \in Workers : ~Tient(w, o)
  BY <1>1 DEF Tient, Structure, Formes, Forme
<1> QED BY <1>2, <1>3 DEF AVenir, EnCours

(* Once the events of an appointment of Milo are treated, its row is there, *)
(* with the date it has at Milo, if and only if the appointment stands      *)
(* there: an event read while the object changes again is followed by       *)
(* another one, and a job that fails is tried again or the object is        *)
(* counted as disturbed.                                                    *)
THEOREM CopieToujoursFidele == Spec => []CopieFidele
<1>1. InvCopies /\ InvVenir => CopieFidele
  <2> SUFFICES ASSUME InvCopies, InvVenir, NEW o \in Rdvs \ perturbes, Calme(o)
               PROVE  ConformeRdv(o)
    BY DEF CopieFidele, ConformeRdv, CopiesDe
  <2>1. ~AVenir(o)
    BY CalmeSansSuite DEF InvCopies, Inv
  <2> QED BY <2>1 DEF InvVenir
<1>2. Init => InvCopies /\ InvVenir
  BY InvCopiesInit, VenirInit
<1>3. InvCopies /\ InvVenir /\ [Next]_vars => (InvCopies /\ InvVenir)'
  BY InvCopiesSuite, VenirSuite
<1> QED BY <1>1, <1>2, <1>3, PTL DEF Spec

-----------------------------------------------------------------------------
(* The reminders of an object that is not disturbed                         *)

AppelsDe(o) == {a \in fond : a.objet = o}

RetraitEnCours(o, c) == \E a \in AppelsDe(o) : a.cle = c /\ a.demande.retrait

Planifie(c, k, t) ==
  \E j \in jobs : EstRappel(j) /\ j.id = <<"rappel", c, k>> /\ j.echeance = t

Promis(o, c, k, t) ==
  \E a \in AppelsDe(o) : /\ a.cle = c /\ k \in a.demande.jours
                         /\ t = a.demande.date - k

(* The reminder that there will be once the calls have been executed        *)
Futur(o, c, k, t) ==
  (Planifie(c, k, t) /\ ~RetraitEnCours(o, c)) \/ Promis(o, c, k, t)

Voulu(date, k, t) == k \in JoursRappel /\ date > k /\ t = date - k

(* The keys of an object                                                    *)
Sien(c, o) == Possede(c, o) \/ (o \in Sessions /\ c = o)

RappelsGardes == \A j : EstRappel(j) => (j \in jobs' <=> j \in jobs)

LEMMA RappelsSuite ==
  ASSUME Structure, [Next]_vars
  PROVE  RappelsGardes \/ \E a \in fond : Retirer(a) \/ Ajouter(a)
<1>1. CASE jobs' = jobs
  BY <1>1 DEF RappelsGardes
<1>2. ASSUME NEW j, NEW k, Change(j, k) PROVE RappelsGardes
  BY <1>2, EvenementDistinct DEF Change, Remplace, RappelsGardes
<1>3. ASSUME NEW w \in Workers, NEW e \in workers[w].aPlanifier,
             jobs' = AjouterJob(jobs, NouveauJob(e))
      PROVE  RappelsGardes
  <2>1. e \in Evenement
    BY <1>3, TravailType DEF TravailEvt
  <2>2. ~EstRappel(NouveauJob(e))
    BY <2>1, NouveauJobType, EvenementDistinct
  <2> QED BY <1>3, <2>2 DEF AjouterJob, RappelsGardes
<1>4. CASE NettoyerJobs
  <2>1. jobs' \subseteq jobs /\ \A j \in jobs \ jobs' : EstEvenement(j)
    BY <1>4, NettoyerCas
  <2> QED BY <2>1, EvenementDistinct DEF RappelsGardes
<1> QED BY <1>1, <1>2, <1>3, <1>4, JobsSuite

LEMMA SienUnique ==
  ASSUME Structure, Propriete, NEW c, NEW o \in Objets, Sien(c, o)
  PROVE  /\ \A p \in Objets : Sien(c, p) => p = o
         /\ c \in Sessions => c = o
         /\ o \in Rdvs => c \in Nat /\ c =< uuids
<1>1. o \in Rdvs => c \in Nat /\ c =< uuids
  BY ObjetsDistincts DEF Sien, Propriete, ClesRdv
<1>2. o \in Sessions => c = o
  BY DEF Sien, Propriete, ClesSession
<1>3. Sessions \cap Nat = {}
  BY ConstantsAssumption
<1>4. \A p \in Objets : Sien(c, p) /\ p \in Sessions => p = c
  BY DEF Sien, Propriete, ClesSession
<1>5. \A p \in Objets : Sien(c, p) /\ p \in Rdvs => c \in Nat /\ Possede(c, p)
  BY ObjetsDistincts DEF Sien, Propriete, ClesRdv
<1>6. \A p \in Objets : Sien(c, p) => p = o
  <2>1. CASE o \in Sessions
    BY <1>2, <1>3, <1>4, <1>5, <2>1 DEF Objets
  <2>2. CASE o \in Rdvs
    BY <1>1, <1>3, <1>4, <1>5, <2>2 DEF Objets, Propriete, UnProprietaire
  <2> QED BY <2>1, <2>2 DEF Objets
<1> QED BY <1>1, <1>2, <1>3, <1>6 DEF Objets

LEMMA AppelSien ==
  ASSUME Structure, NEW a \in fond
  PROVE  /\ a \in Appel /\ a.objet \in Objets /\ Sien(a.cle, a.objet)
         /\ a.demande \in Demande /\ AFaire(a.demande)
         /\ a \in AppelsDe(a.objet)
BY DEF Structure, Types, TypeFond, Appel, Sien, Possede, AppelsDe

(* A removal concerns no reminder of another object that is not disturbed.  *)
LEMMA RetirerAilleurs ==
  ASSUME Structure, Propriete, NEW a \in fond, Retirer(a), NEW o \in Objets,
         o \notin perturbes', NEW c, Sien(c, o), a.objet # o \/ a.cle # c
  PROVE  \A k, t : Planifie(c, k, t)' <=> Planifie(c, k, t)
<1>1. jobs' = {j \in jobs : ~(EstRappel(j) /\ j.id[2] \in Concernes(a))}
  BY RetirerCas
<1>2. ASSUME NEW j \in jobs, EstRappel(j), j.id[2] = c, c \in Concernes(a)
      PROVE  FALSE
  <2>1. c # a.cle
    BY SienUnique, AppelSien
  <2>2. a.cle \in Sessions /\ c \in Motif[a.cle] /\ c \in Concernes(a)
    BY <1>2, <2>1 DEF Concernes
  <2>3. c \in Sessions
    BY <2>2, ConstantsAssumption
  <2>4. j \in RappelsDe(c)
    BY <1>2, RappelDistinct DEF RappelsDe
  <2>5. c \in perturbes'
    BY <2>1, <2>2, <2>3, <2>4 DEF Retirer
  <2> QED BY <2>3, <2>5, SienUnique
<1>3. \A k : <<"rappel", c, k>>[2] = c
  OBVIOUS
<1>4. ASSUME NEW j \in jobs, EstRappel(j), NEW k, j.id = <<"rappel", c, k>>
      PROVE  j \in jobs'
  <2>1. j.id[2] = c
    BY <1>3, <1>4
  <2> QED BY <1>1, <1>2, <1>4, <2>1
<1>5. ASSUME NEW k, NEW t
      PROVE  Planifie(c, k, t)' <=> Planifie(c, k, t)
  BY <1>1, <1>4 DEF Planifie
<1> QED BY <1>5

LEMMA AjouterAilleurs ==
  ASSUME Structure, Propriete, NEW a \in fond, Ajouter(a), NEW o \in Objets,
         NEW c, Sien(c, o), a.objet # o \/ a.cle # c
  PROVE  \A k, t : Planifie(c, k, t)' <=> Planifie(c, k, t)
<1>1. PICK n : /\ jobs' = AjouterJob(jobs, n)
               /\ \E k : n.id = <<"rappel", a.cle, k>>
  BY AjouterCas
<1>2. a.cle # c
  BY SienUnique, AppelSien
<1>3. \A k, i : <<"rappel", a.cle, k>> # <<"rappel", c, i>>
  <2>1. \A k : <<"rappel", c, k>>[2] = c /\ <<"rappel", a.cle, k>>[2] = a.cle
    OBVIOUS
  <2> QED BY <1>2, <2>1
<1>4. \A k : n.id # <<"rappel", c, k>>
  BY <1>1, <1>3
<1>5. ASSUME NEW k, NEW t
      PROVE  Planifie(c, k, t)' <=> Planifie(c, k, t)
  BY <1>1, <1>4 DEF Planifie, AjouterJob
<1> QED BY <1>5

LEMMA PlanifieSuite ==
  ASSUME Structure, Propriete, [Next]_vars, NEW o \in Objets,
         o \notin perturbes', NEW c, Sien(c, o)
  PROVE  \/ \A k, t : Planifie(c, k, t)' <=> Planifie(c, k, t)
         \/ \E a \in AppelsDe(o) : a.cle = c /\ (Retirer(a) \/ Ajouter(a))
<1>1. CASE RappelsGardes
  <2>1. ASSUME NEW k, NEW t PROVE Planifie(c, k, t)' <=> Planifie(c, k, t)
    BY <1>1 DEF RappelsGardes, Planifie
  <2> QED BY <2>1
<1>2. ASSUME NEW a \in fond, Retirer(a), a.objet # o \/ a.cle # c
      PROVE  \A k, t : Planifie(c, k, t)' <=> Planifie(c, k, t)
  BY <1>2, RetirerAilleurs
<1>3. ASSUME NEW a \in fond, Ajouter(a), a.objet # o \/ a.cle # c
      PROVE  \A k, t : Planifie(c, k, t)' <=> Planifie(c, k, t)
  BY <1>3, AjouterAilleurs
<1> QED BY <1>1, <1>2, <1>3, RappelsSuite DEF AppelsDe

(* What becomes of a call that is executed                                  *)
Reste(a, n) ==
  /\ n.cle = a.cle /\ n.objet = a.objet /\ n.demande.date = a.demande.date
  /\ ~n.demande.retrait
  /\ \A b : b \in fond' <=>
       (b \in fond /\ b # a) \/ (AFaire(n.demande) /\ b = n)

LEMMA ResteSuite ==
  ASSUME Structure, NEW a \in fond, NEW d \in Demande, fond' = Suite(a, d),
         ~d.retrait, d.date = a.demande.date
  PROVE  \E n : Reste(a, n) /\ n.demande = d
<1> DEFINE n == [a EXCEPT !.demande = d]
<1>1. n.demande = d /\ n.cle = a.cle /\ n.objet = a.objet
  BY AppelSien DEF Appel
<1>2. \A b : b \in fond' <=> (b \in fond /\ b # a) \/ (AFaire(d) /\ b = n)
  BY DEF Suite
<1> HIDE DEF n
<1> QED BY <1>1, <1>2 DEF Reste

LEMMA ResteRetirer ==
  ASSUME Structure, NEW a \in fond, Retirer(a)
  PROVE  \E n : /\ Reste(a, n) /\ n.demande.jours = a.demande.jours
                /\ a.demande.retrait
<1> DEFINE d == [a.demande EXCEPT !.retrait = FALSE]
<1>1. d \in Demande /\ a.demande \in Demande
  BY RetirerCas, AppelSien
<1>2. fond' = Suite(a, d) /\ a.demande.retrait
  BY DEF Retirer
<1>3. ~d.retrait /\ d.jours = a.demande.jours /\ d.date = a.demande.date
  BY <1>1 DEF Demande
<1> HIDE DEF d
<1>4. PICK n : Reste(a, n) /\ n.demande = d
  BY <1>1, <1>2, <1>3, ResteSuite
<1> QED BY <1>2, <1>3, <1>4

LEMMA ResteAjouter ==
  ASSUME Structure, NEW a \in fond, Ajouter(a)
  PROVE  \E k \in a.demande.jours, r \in Rappel :
           /\ EstRappel(r) /\ r.id = <<"rappel", a.cle, k>>
           /\ r.echeance = a.demande.date - k
           /\ jobs' = AjouterJob(jobs, r) /\ ~a.demande.retrait
           /\ \E n : Reste(a, n) /\ n.demande.jours = a.demande.jours \ {k}
<1>1. PICK k \in a.demande.jours :
           /\ jobs' = AjouterJob(jobs, NouveauRappel(a, k))
           /\ EstRappel(NouveauRappel(a, k))
           /\ NouveauRappel(a, k).id = <<"rappel", a.cle, k>>
           /\ NouveauRappel(a, k).echeance = a.demande.date - k
           /\ fond' = Suite(a, [a.demande EXCEPT !.jours =
                                  a.demande.jours \ {k}])
           /\ [a.demande EXCEPT !.jours = a.demande.jours \ {k}] \in Demande
  BY AjouterCas
<1> DEFINE d == [a.demande EXCEPT !.jours = a.demande.jours \ {k}]
<1>2. d \in Demande /\ a.demande \in Demande /\ ~a.demande.retrait
  BY <1>1, AppelSien DEF Ajouter
<1>3. /\ ~d.retrait /\ d.jours = a.demande.jours \ {k}
      /\ d.date = a.demande.date
  BY <1>2 DEF Demande
<1>4. fond' = Suite(a, d)
  BY <1>1
<1> HIDE DEF d
<1>5. PICK n : Reste(a, n) /\ n.demande = d
  BY <1>2, <1>3, <1>4, ResteSuite
<1>6. NouveauRappel(a, k) \in Rappel
  BY <1>1 DEF EstRappel
<1> QED BY <1>1, <1>2, <1>3, <1>5, <1>6

LEMMA ResteAilleurs ==
  ASSUME NEW a, NEW n, Reste(a, n), NEW o, a.objet # o
  PROVE  AppelsDe(o)' = AppelsDe(o)
BY DEF Reste, AppelsDe

LEMMA AppelsSuite ==
  ASSUME Structure, [Next]_vars, NEW o \in Objets, o \notin perturbes'
  PROVE  \/ AppelsDe(o)' = AppelsDe(o)
         \/ \E w \in Workers : Traiter(w) /\ Tient(w, o)
         \/ \E a \in AppelsDe(o) : Retirer(a) \/ Ajouter(a)
<1>1. ASSUME fond' = fond PROVE AppelsDe(o)' = AppelsDe(o)
  BY <1>1 DEF AppelsDe
<1>2. CASE UNCHANGED vars \/ Sondage \/ NettoyerJobs
  BY <1>1, <1>2 DEF vars, Sondage, NettoyerJobs
<1>3. ASSUME NEW p \in Objets, Publier(p) PROVE AppelsDe(o)' = AppelsDe(o)
  BY <1>1, <1>3, PublierGarde
<1>4. ASSUME NEW w \in Workers, NEW i, PrendreEvenement(w, i)
      PROVE  AppelsDe(o)' = AppelsDe(o)
  BY <1>1, <1>4 DEF PrendreEvenement
<1>5. ASSUME NEW w \in Workers,
             LireMilo(w) \/ LireCopie(w) \/ Terminer(w) \/ EchecEvenement(w)
      PROVE  AppelsDe(o)' = AppelsDe(o)
  BY <1>1, <1>5 DEF LireMilo, LireCopie, Terminer, EchecEvenement
<1>6. ASSUME NEW w \in Workers, ArretWorker(w)
      PROVE  AppelsDe(o)' = AppelsDe(o)
  <2>1. /\ fond' = {a \in fond : a.worker # w}
        /\ \A a \in fond : a.worker = w => a.objet \in perturbes'
    BY <1>6, ArretCas
  <2> QED BY <2>1 DEF AppelsDe
<1>7. ASSUME NEW a \in fond, EchecDemande(a)
      PROVE  AppelsDe(o)' = AppelsDe(o)
  BY <1>7 DEF EchecDemande, AppelsDe
<1>8. ASSUME NEW a \in fond, Retirer(a) \/ Ajouter(a), a.objet # o
      PROVE  AppelsDe(o)' = AppelsDe(o)
  BY <1>8, ResteRetirer, ResteAjouter, ResteAilleurs
<1>9. ASSUME NEW w \in Workers, Traiter(w), ~Tient(w, o)
      PROVE  AppelsDe(o)' = AppelsDe(o)
  <2>1. EvtDe(w).objet # o
    BY <1>9, TraiterTravail DEF Tient
  <2> DEFINE e == EvtDe(w)
             f == IF e.objet \in Rdvs
                    THEN EffetRdv(e, workers[w].lu, workers[w].copie)
                    ELSE EffetSession(e, workers[w].lu)
  <2>2. fond' = fond \cup {[worker |-> w, cle |-> f.cle, objet |-> e.objet,
                            demande |-> d] : d \in f.demandes}
    BY <1>9 DEF Traiter
  <2> HIDE DEF f
  <2>3. \A b \in fond' : b \in fond \/ b.objet = e.objet
    BY <2>2
  <2> QED BY <2>1, <2>2, <2>3 DEF AppelsDe
<1> QED BY <1>2, <1>3, <1>4, <1>5, <1>6, <1>7, <1>8, <1>9, Cas DEF AppelsDe

(* A treatment is the first thing done about the object, unless something   *)
(* was done, which stays so.                                                *)
LEMMA CommenceSuite ==
  ASSUME Structure, [Next]_vars, NEW o \in Objets, o \notin perturbes',
         Commence(o)
  PROVE  Commence(o)'
<1>1. ASSUME NEW f \in traites, f.objet = o, traites \subseteq traites'
      PROVE  Commence(o)'
  BY <1>1 DEF Commence
<1>2. traites \subseteq traites'
  <2>1. ASSUME NEW w \in Workers, Terminer(w) PROVE traites \subseteq traites'
    BY <2>1 DEF Terminer
  <2>2. ASSUME NEW w \in Workers, \/ LireMilo(w) \/ LireCopie(w) \/ Traiter(w)
                                  \/ EchecEvenement(w) \/ ArretWorker(w)
        PROVE  traites \subseteq traites'
    BY <2>2 DEF LireMilo, LireCopie, Traiter, EchecEvenement, ArretWorker
  <2>3. ASSUME NEW w \in Workers, NEW i, PrendreEvenement(w, i)
        PROVE  traites \subseteq traites'
    BY <2>3 DEF PrendreEvenement
  <2>4. ASSUME NEW a \in fond, Retirer(a) \/ Ajouter(a) \/ EchecDemande(a)
        PROVE  traites \subseteq traites'
    BY <2>4 DEF Retirer, Ajouter, EchecDemande
  <2>5. ASSUME NEW p \in Objets, Publier(p) PROVE traites \subseteq traites'
    BY <2>5 DEF Publier
  <2>6. CASE UNCHANGED vars \/ Sondage \/ NettoyerJobs
    BY <2>6 DEF vars, Sondage, NettoyerJobs
  <2> QED BY <2>1, <2>2, <2>3, <2>4, <2>5, <2>6, Cas
<1>3. ASSUME NEW w \in Workers, Tient(w, o), workers[w].etape = "ecrit"
      PROVE  Commence(o)'
  <2>1. ASSUME workers'[w] = workers[w] PROVE Commence(o)'
    BY <1>3, <2>1 DEF Commence, Tient, Occupe, EvtDe
  <2>2. CASE TravailGarde
    BY <1>3, <2>1, <2>2 DEF TravailGarde, Tient
  <2>3. ASSUME NEW v \in Workers, NEW i \in 1 .. MaxEvenements,
               PrendreEvenement(v, i)
        PROVE  Commence(o)'
    <3>1. v # w
      BY <1>3, <2>3, AuRepos DEF PrendreEvenement, Tient
    <3> QED BY <2>1, <2>3, <3>1, AutresSuite
  <2>4. ASSUME NEW v \in Workers, v # w,
               \/ LireMilo(v) \/ LireCopie(v) \/ Traiter(v) \/ Terminer(v)
               \/ EchecEvenement(v) \/ ArretWorker(v)
        PROVE  Commence(o)'
    BY <2>1, <2>4, AutresSuite
  <2>5. CASE LireMilo(w) \/ LireCopie(w) \/ Traiter(w) \/ EchecEvenement(w)
    BY <1>3, <2>5 DEF LireMilo, LireCopie, Traiter, EchecEvenement
  <2>6. CASE Terminer(w)
    <3>1. EvtDe(w) \in traites' /\ EvtDe(w).objet = o
      BY <1>3, <2>6 DEF Terminer, Tient
    <3> QED BY <3>1 DEF Commence
  <2>7. CASE ArretWorker(w)
    BY <1>3, <2>7, ArretCas DEF Tient
  <2> QED BY <2>2, <2>3, <2>4, <2>5, <2>6, <2>7, GardeCas
<1> QED BY <1>1, <1>2, <1>3 DEF Commence

(* A call that is not awaited leaves the object free: no treatment is to    *)
(* come that does not mark it.                                              *)
SansAppel(o) == \A w \in Workers :
  Tient(w, o) /\ workers[w].etape # "ecrit" => AppelsDe(o) = {}

UnAjout(o) == \A a, b \in AppelsDe(o) :
  a.demande.jours # {} /\ b.demande.jours # {} => a = b

(* The queue refuses none of the reminders to add.                          *)
NonBloque(o) == \A a \in AppelsDe(o) : ~RetraitEnCours(o, a.cle) =>
  \A k \in a.demande.jours : \A j \in jobs :
    EstRappel(j) => j.id # <<"rappel", a.cle, k>>

LEMMA FuturGarde ==
  ASSUME NEW o, NEW c, AppelsDe(o)' = AppelsDe(o),
         \A k, t : Planifie(c, k, t)' <=> Planifie(c, k, t)
  PROVE  \A k, t : Futur(o, c, k, t)' <=> Futur(o, c, k, t)
<1>1. RetraitEnCours(o, c)' <=> RetraitEnCours(o, c)
  BY DEF RetraitEnCours
<1>2. ASSUME NEW k, NEW t PROVE Promis(o, c, k, t)' <=> Promis(o, c, k, t)
  BY DEF Promis
<1>3. ASSUME NEW k, NEW t PROVE Futur(o, c, k, t)' <=> Futur(o, c, k, t)
  BY <1>1, <1>2 DEF Futur
<1> QED BY <1>3

(* The calls about an object, one of which has been executed                *)
LEMMA ResteIci ==
  ASSUME NEW o, NEW a, NEW n, Reste(a, n), a.objet = o
  PROVE  \A b : b \in AppelsDe(o)' <=>
           (b \in AppelsDe(o) /\ b # a) \/ (AFaire(n.demande) /\ b = n)
BY DEF Reste, AppelsDe

LEMMA RetraitAutreCle ==
  ASSUME NEW o, NEW a \in fond, NEW n, Reste(a, n), a.objet = o,
         NEW c, a.cle # c
  PROVE  /\ RetraitEnCours(o, c)' <=> RetraitEnCours(o, c)
         /\ \A k, t : Promis(o, c, k, t)' <=> Promis(o, c, k, t)
<1>1. \A b : b.cle = c => (b \in AppelsDe(o)' <=> b \in AppelsDe(o))
  BY ResteIci DEF Reste
<1>2. RetraitEnCours(o, c)' <=> RetraitEnCours(o, c)
  BY <1>1 DEF RetraitEnCours
<1>3. ASSUME NEW k, NEW t PROVE Promis(o, c, k, t)' <=> Promis(o, c, k, t)
  BY <1>1 DEF Promis
<1> QED BY <1>2, <1>3

LEMMA FuturRetirer ==
  ASSUME Structure, Propriete, NEW a \in fond, Retirer(a), NEW o \in Objets,
         a.objet = o, o \notin perturbes', NEW c, Sien(c, o)
  PROVE  \A k, t : Futur(o, c, k, t)' <=> Futur(o, c, k, t)
<1>1. PICK n : /\ Reste(a, n) /\ n.demande.jours = a.demande.jours
               /\ a.demande.retrait
  BY ResteRetirer
<1>2. CASE a.cle # c
  <2>1. \A k, t : Planifie(c, k, t)' <=> Planifie(c, k, t)
    BY <1>2, RetirerAilleurs
  <2>2. /\ RetraitEnCours(o, c)' <=> RetraitEnCours(o, c)
        /\ \A k, t : Promis(o, c, k, t)' <=> Promis(o, c, k, t)
    BY <1>1, <1>2, RetraitAutreCle
  <2>3. ASSUME NEW k, NEW t PROVE Futur(o, c, k, t)' <=> Futur(o, c, k, t)
    BY <2>1, <2>2 DEF Futur
  <2> QED BY <2>3
<1>3. CASE a.cle = c
  <2>1. a \in AppelsDe(o) /\ RetraitEnCours(o, c)
    BY <1>1, <1>3 DEF AppelsDe, RetraitEnCours
  <2>2. ASSUME NEW k, NEW t PROVE ~Planifie(c, k, t)'
    <3>1. ASSUME NEW j \in jobs', EstRappel(j), j.id = <<"rappel", c, k>>
          PROVE  FALSE
      <4>1. <<"rappel", c, k>>[2] = c
        OBVIOUS
      <4>2. j.id[2] = c
        BY <3>1, <4>1
      <4> QED BY <1>3, <3>1, <4>2, RetirerCas
    <3> QED BY <3>1 DEF Planifie
  <2>3. ASSUME NEW k, NEW t PROVE Promis(o, c, k, t)' <=> Promis(o, c, k, t)
    <3>1. k \in n.demande.jours => AFaire(n.demande)
      BY DEF AFaire
    <3>2. n.cle = c /\ n.demande.date = a.demande.date
      BY <1>1, <1>3 DEF Reste
    <3>3. \A b : b \in AppelsDe(o)' <=>
            (b \in AppelsDe(o) /\ b # a) \/ (AFaire(n.demande) /\ b = n)
      BY <1>1, ResteIci
    <3> QED BY <1>1, <1>3, <2>1, <3>1, <3>2, <3>3 DEF Promis
  <2>4. ASSUME NEW k, NEW t PROVE Futur(o, c, k, t)' <=> Futur(o, c, k, t)
    BY <2>1, <2>2, <2>3 DEF Futur
  <2> QED BY <2>4
<1> QED BY <1>2, <1>3

(* A job is added, and no removal of the same key is going on.              *)
LEMMA AjouterSeul ==
  ASSUME Structure, NEW a \in fond, Ajouter(a), NEW o \in Objets,
         a.objet = o, o \notin perturbes'
  PROVE  ~RetraitEnCours(o, a.cle)
<1>1. ~a.demande.retrait
  BY DEF Ajouter
<1>2. \A b \in fond \ {a} : ~(b.cle = a.cle /\ b.demande.retrait)
  BY DEF Ajouter
<1> QED BY <1>1, <1>2 DEF RetraitEnCours, AppelsDe

LEMMA FuturAjouter ==
  ASSUME Structure, Propriete, NEW a \in fond, Ajouter(a), NEW o \in Objets,
         a.objet = o, o \notin perturbes', NonBloque(o), NEW c, Sien(c, o)
  PROVE  \A k, t : Futur(o, c, k, t)' <=> Futur(o, c, k, t)
<1>1. PICK i \in a.demande.jours, r \in Rappel :
           /\ EstRappel(r) /\ r.id = <<"rappel", a.cle, i>>
           /\ r.echeance = a.demande.date - i
           /\ jobs' = AjouterJob(jobs, r) /\ ~a.demande.retrait
           /\ \E n : Reste(a, n) /\ n.demande.jours = a.demande.jours \ {i}
  BY ResteAjouter
<1>2. PICK n : Reste(a, n) /\ n.demande.jours = a.demande.jours \ {i}
  BY <1>1
<1>3. CASE a.cle # c
  <2>1. \A k, t : Planifie(c, k, t)' <=> Planifie(c, k, t)
    BY <1>3, AjouterAilleurs
  <2>2. /\ RetraitEnCours(o, c)' <=> RetraitEnCours(o, c)
        /\ \A k, t : Promis(o, c, k, t)' <=> Promis(o, c, k, t)
    BY <1>2, <1>3, RetraitAutreCle
  <2>3. ASSUME NEW k, NEW t PROVE Futur(o, c, k, t)' <=> Futur(o, c, k, t)
    BY <2>1, <2>2 DEF Futur
  <2> QED BY <2>3
<1>4. CASE a.cle = c
  <2>1. a \in AppelsDe(o) /\ ~RetraitEnCours(o, c)
    BY <1>4, AjouterSeul DEF AppelsDe
  <2>2. \A b : b \in AppelsDe(o)' <=>
          (b \in AppelsDe(o) /\ b # a) \/ (AFaire(n.demande) /\ b = n)
    BY <1>2, ResteIci
  <2>3. /\ n.cle = c /\ n.demande.date = a.demande.date
        /\ ~n.demande.retrait /\ \A k \in n.demande.jours : AFaire(n.demande)
    BY <1>2, <1>4 DEF Reste, AFaire
  <2>4. ~RetraitEnCours(o, c)'
    BY <2>1, <2>2, <2>3 DEF RetraitEnCours
  <2>5. jobs' = jobs \cup {r}
    <3>1. ASSUME NEW j \in jobs, j.id = r.id PROVE FALSE
      <4>1. EstRappel(j)
        BY <1>1, <3>1, EvenementDistinct DEF Structure, Types, TypeJobs
      <4> QED BY <1>1, <1>4, <2>1, <3>1, <4>1 DEF NonBloque
    <3> QED BY <1>1, <3>1 DEF AjouterJob
  <2>6. ASSUME NEW k, NEW t
        PROVE  Planifie(c, k, t)' <=>
                 Planifie(c, k, t) \/ (k = i /\ t = a.demande.date - i)
    <3>1. <<"rappel", c, i>> = <<"rappel", c, k>> <=> i = k
      OBVIOUS
    <3> QED BY <1>1, <1>4, <2>5, <3>1 DEF Planifie
  <2>7. ASSUME NEW k, NEW t
        PROVE  Promis(o, c, k, t) <=>
                 Promis(o, c, k, t)' \/ (k = i /\ t = a.demande.date - i)
    <3>1. Promis(o, c, k, t) <=>
            \/ \E b \in AppelsDe(o) : /\ b # a /\ b.cle = c
                                      /\ k \in b.demande.jours
                                      /\ t = b.demande.date - k
            \/ k \in a.demande.jours /\ t = a.demande.date - k
      BY <1>4, <2>1 DEF Promis
    <3>2. Promis(o, c, k, t)' <=>
            \/ \E b \in AppelsDe(o) : /\ b # a /\ b.cle = c
                                      /\ k \in b.demande.jours
                                      /\ t = b.demande.date - k
            \/ k \in n.demande.jours /\ t = n.demande.date - k
      BY <2>2, <2>3 DEF Promis
    <3> QED BY <1>1, <1>2, <2>3, <3>1, <3>2
  <2>8. ASSUME NEW k, NEW t PROVE Futur(o, c, k, t)' <=> Futur(o, c, k, t)
    BY <2>1, <2>4, <2>6, <2>7 DEF Futur
  <2> QED BY <2>8
<1> QED BY <1>3, <1>4

LEMMA FuturSuite ==
  ASSUME Structure, Propriete, [Next]_vars, NEW o \in Objets,
         o \notin perturbes', NonBloque(o), NEW c, Sien(c, o),
         \A w \in Workers : Traiter(w) => ~Tient(w, o)
  PROVE  \A k, t : Futur(o, c, k, t)' <=> Futur(o, c, k, t)
<1>1. ASSUME NEW a \in AppelsDe(o), Retirer(a)
      PROVE  \A k, t : Futur(o, c, k, t)' <=> Futur(o, c, k, t)
  BY <1>1, FuturRetirer DEF AppelsDe
<1>2. ASSUME NEW a \in AppelsDe(o), Ajouter(a)
      PROVE  \A k, t : Futur(o, c, k, t)' <=> Futur(o, c, k, t)
  BY <1>2, FuturAjouter DEF AppelsDe
<1>3. CASE ~\E a \in AppelsDe(o) : Retirer(a) \/ Ajouter(a)
  <2>1. AppelsDe(o)' = AppelsDe(o)
    BY <1>3, AppelsSuite
  <2>2. \A k, t : Planifie(c, k, t)' <=> Planifie(c, k, t)
    BY <1>3, PlanifieSuite
  <2> QED BY <2>1, <2>2, FuturGarde
<1> QED BY <1>1, <1>2, <1>3

(* A worker that is about to treat an object was, or has just taken it.     *)
LEMMA TientAvant ==
  ASSUME Structure, [Next]_vars, NEW w \in Workers, NEW o, Tient(w, o)',
         workers'[w].etape # "ecrit"
  PROVE  \/ Tient(w, o) /\ workers[w].etape # "ecrit" /\ ~Traiter(w)
         \/ \E i : PrendreEvenement(w, i)
<1>0. Occupe(w)' /\ EvtDe(w)'.objet = o
  BY DEF Tient
<1>1. ~Traiter(w)
  BY DEF Traiter, Structure, Types, TypeWorkers, TravailEvt
<1>2. ASSUME workers'[w] = workers[w]
      PROVE  Tient(w, o) /\ workers[w].etape # "ecrit"
  BY <1>0, <1>2 DEF Tient, Occupe, EvtDe
<1>3. CASE TravailGarde
  BY <1>0, <1>1, <1>2, <1>3 DEF TravailGarde
<1>4. ASSUME NEW v \in Workers, v # w,
             \/ \E i : PrendreEvenement(v, i)
             \/ LireMilo(v) \/ LireCopie(v) \/ Traiter(v) \/ Terminer(v)
             \/ EchecEvenement(v) \/ ArretWorker(v)
      PROVE  Tient(w, o) /\ workers[w].etape # "ecrit"
  BY <1>2, <1>4, AutresSuite
<1>5. CASE LireMilo(w)
  <2>1. PICK x \in TravailEvt :
          /\ workers' = [workers EXCEPT ![w] = x]
          /\ x.evt = workers[w].evt /\ workers[w].etape = "pris"
    BY <1>5, LireMiloCas
  <2> QED BY <1>1, <2>1, TientSuite
<1>6. CASE LireCopie(w)
  <2>1. PICK x \in TravailEvt :
          /\ workers' = [workers EXCEPT ![w] = x]
          /\ x.evt = workers[w].evt /\ workers[w].etape = "lu"
    BY <1>6, LireCopieCas
  <2> QED BY <1>1, <2>1, TientSuite
<1>7. CASE Terminer(w) \/ EchecEvenement(w) \/ ArretWorker(w)
  <2>1. workers'[w] = Repos
    BY <1>7 DEF Terminer, EchecEvenement, ArretWorker,
                Structure, Types, TypeWorkers
  <2> QED BY <1>0, <2>1, ReposType DEF Occupe
<1> QED BY <1>1, <1>3, <1>4, <1>5, <1>6, <1>7, GardeCas

LEMMA SansAppelSuite ==
  ASSUME Structure, [Next]_vars, NEW o \in Objets, o \notin perturbes',
         Seul(o), SansAppel(o)
  PROVE  SansAppel(o)'
<1> SUFFICES ASSUME NEW w \in Workers, Tient(w, o)',
                    workers'[w].etape # "ecrit"
             PROVE  AppelsDe(o)' = {}
  BY DEF SansAppel
<1>1. CASE Tient(w, o) /\ workers[w].etape # "ecrit" /\ ~Traiter(w)
  <2>1. AppelsDe(o) = {}
    BY <1>1 DEF SansAppel
  <2>2. \A v \in Workers : Traiter(v) => ~Tient(v, o)
    BY <1>1 DEF Seul
  <2> QED BY <2>1, <2>2, AppelsSuite
<1>2. ASSUME NEW i, PrendreEvenement(w, i) PROVE AppelsDe(o)' = {}
  <2>1. PICK j \in jobs :
          /\ j.evt \in Evenement
          /\ workers' = [workers EXCEPT
                           ![w] = [Repos EXCEPT !.etape = "pris",
                                                !.evt = j.evt]]
          /\ (\E a \in fond : a.objet = j.evt.objet) =>
                j.evt.objet \in perturbes'
    BY <1>2, PrendreCas
  <2>2. workers'[w].evt = j.evt
    BY <2>1 DEF Structure, Types, TypeWorkers, Repos
  <2>3. j.evt.objet = o
    BY <2>2 DEF Tient, EvtDe
  <2>4. fond' = fond
    BY <1>2 DEF PrendreEvenement
  <2> QED BY <2>1, <2>3, <2>4 DEF AppelsDe
<1> QED BY <1>1, <1>2, TientAvant

LEMMA AjoutsSuite ==
  ASSUME Structure, Propriete, [Next]_vars, NEW o \in Objets,
         o \notin perturbes', UnAjout(o), NonBloque(o),
         \A w \in Workers : Traiter(w) => ~Tient(w, o)
  PROVE  UnAjout(o)' /\ NonBloque(o)'
<1>0. \A a \in AppelsDe(o) : a \in fond /\ a.objet = o /\ Sien(a.cle, o)
  BY AppelSien DEF AppelsDe
<1>1. ASSUME NEW a \in AppelsDe(o), Retirer(a)
      PROVE  UnAjout(o)' /\ NonBloque(o)'
  <2>1. PICK n : /\ Reste(a, n) /\ n.demande.jours = a.demande.jours
                 /\ a.demande.retrait
    BY <1>0, <1>1, ResteRetirer
  <2>2. \A b : b \in AppelsDe(o)' <=>
          (b \in AppelsDe(o) /\ b # a) \/ (AFaire(n.demande) /\ b = n)
    BY <1>0, <2>1, ResteIci
  <2>3. UnAjout(o)'
    BY <1>1, <2>1, <2>2 DEF UnAjout
  <2>4. ASSUME NEW b \in AppelsDe(o)', ~RetraitEnCours(o, b.cle)',
               NEW k \in b.demande.jours, NEW j \in jobs', EstRappel(j),
               j.id = <<"rappel", b.cle, k>>
        PROVE  FALSE
    <3>1. <<"rappel", b.cle, k>>[2] = b.cle
      OBVIOUS
    <3>2. j.id[2] = b.cle
      BY <2>4, <3>1
    <3>3. b.cle # a.cle
      BY <1>0, <1>1, <2>4, <3>2, RetirerCas
    <3>4. b \in AppelsDe(o)
      BY <2>1, <2>2, <2>4, <3>3 DEF Reste
    <3>5. ~RetraitEnCours(o, b.cle)
      BY <1>0, <2>1, <2>4, <3>3, RetraitAutreCle
    <3>6. j \in jobs
      BY <1>0, <1>1, <2>4, RetirerCas
    <3> QED BY <2>4, <3>4, <3>5, <3>6 DEF NonBloque
  <2>5. NonBloque(o)'
    BY <2>4 DEF NonBloque
  <2> QED BY <2>3, <2>5
<1>2. ASSUME NEW a \in AppelsDe(o), Ajouter(a)
      PROVE  UnAjout(o)' /\ NonBloque(o)'
  <2>1. PICK i \in a.demande.jours, r \in Rappel :
             /\ EstRappel(r) /\ r.id = <<"rappel", a.cle, i>>
             /\ jobs' = AjouterJob(jobs, r) /\ ~a.demande.retrait
             /\ \E n : Reste(a, n) /\ n.demande.jours = a.demande.jours \ {i}
    BY <1>0, <1>2, ResteAjouter
  <2>2. PICK n : Reste(a, n) /\ n.demande.jours = a.demande.jours \ {i}
    BY <2>1
  <2>3. \A b : b \in AppelsDe(o)' <=>
          (b \in AppelsDe(o) /\ b # a) \/ (AFaire(n.demande) /\ b = n)
    BY <1>0, <2>2, ResteIci
  <2>4. \A b \in AppelsDe(o) : b.demande.jours # {} => b = a
    BY <1>2, <2>1 DEF UnAjout
  <2>5. \A b \in AppelsDe(o)' : b.demande.jours # {} => b = n
    BY <2>3, <2>4
  <2>6. UnAjout(o)'
    BY <2>5 DEF UnAjout
  <2>7. ~RetraitEnCours(o, a.cle)
    BY <1>0, <1>2, AjouterSeul
  <2>8. ASSUME NEW b \in AppelsDe(o)', NEW k \in b.demande.jours,
               NEW j \in jobs', EstRappel(j), j.id = <<"rappel", b.cle, k>>
        PROVE  FALSE
    <3>1. b = n /\ b.cle = a.cle /\ k \in a.demande.jours /\ k # i
      BY <2>2, <2>5, <2>8 DEF Reste
    <3>2. <<"rappel", a.cle, k>> # <<"rappel", a.cle, i>>
      BY <3>1
    <3>3. j \in jobs
      BY <2>1, <2>8, <3>1, <3>2 DEF AjouterJob
    <3> QED BY <1>2, <2>7, <2>8, <3>1, <3>3 DEF NonBloque
  <2>9. NonBloque(o)'
    BY <2>8 DEF NonBloque
  <2> QED BY <2>6, <2>9
<1>3. CASE ~\E a \in AppelsDe(o) : Retirer(a) \/ Ajouter(a)
  <2>1. AppelsDe(o)' = AppelsDe(o)
    BY <1>3, AppelsSuite
  <2>2. \A c, k, t : Sien(c, o) => (Planifie(c, k, t)' <=> Planifie(c, k, t))
    BY <1>3, PlanifieSuite
  <2>3. ASSUME NEW b \in AppelsDe(o), ~RetraitEnCours(o, b.cle),
               NEW k \in b.demande.jours, NEW j \in jobs', EstRappel(j),
               j.id = <<"rappel", b.cle, k>>
        PROVE  FALSE
    <3>1. Planifie(b.cle, k, j.echeance)
      <4>1. PICK t : t = j.echeance
        OBVIOUS
      <4>2. Planifie(b.cle, k, t)' <=> Planifie(b.cle, k, t)
        BY <1>0, <2>2
      <4>3. Planifie(b.cle, k, t)'
        BY <2>3, <4>1 DEF Planifie
      <4> QED BY <4>1, <4>2, <4>3
    <3> QED BY <2>3, <3>1 DEF Planifie, NonBloque
  <2>4. \A b \in AppelsDe(o) : RetraitEnCours(o, b.cle)' <=> RetraitEnCours(o, b.cle)
    BY <2>1 DEF RetraitEnCours
  <2>5. NonBloque(o)'
    BY <2>1, <2>3, <2>4 DEF NonBloque
  <2>6. UnAjout(o)'
    BY <2>1 DEF UnAjout
  <2> QED BY <2>5, <2>6
<1> QED BY <1>1, <1>2, <1>3

(* The calls that the treatment of an object without calls starts           *)
LEMMA AppelsNouveaux ==
  ASSUME Structure, NEW w \in Workers, EvtDe(w) \in Evenement,
         NEW o, EvtDe(w).objet = o, AppelsDe(o) = {}, NEW c \in Cles,
         NEW D \in SUBSET Demande, fond' = fond \cup Appels(w, c, D)
  PROVE  /\ \A a \in AppelsDe(o)' : a.cle = c /\ a.demande \in D
         /\ \A a, b \in AppelsDe(o)' : a.demande = b.demande => a = b
         /\ \A d \in D : AFaire(d) =>
              \E a \in AppelsDe(o)' : a.cle = c /\ a.demande = d
<1>1. \A a : a \in Appels(w, c, D) <=>
           \E d \in D : /\ AFaire(d)
                        /\ a = [worker |-> w, cle |-> c,
                                objet |-> EvtDe(w).objet, demande |-> d]
                        /\ a \in Appel /\ a.worker = w /\ a.cle = c
                        /\ a.objet = EvtDe(w).objet /\ a.demande = d
  BY AppelsType
<1>2. \A a : a \in AppelsDe(o)' <=> a \in Appels(w, c, D)
  BY <1>1 DEF AppelsDe
<1>3. ASSUME NEW a \in AppelsDe(o)'
      PROVE  /\ a.cle = c /\ a.demande \in D
             /\ a = [worker |-> w, cle |-> c, objet |-> EvtDe(w).objet,
                     demande |-> a.demande]
  BY <1>1, <1>2
<1>4. \A a, b \in AppelsDe(o)' : a.demande = b.demande => a = b
  BY <1>3
<1>5. ASSUME NEW d \in D, AFaire(d)
      PROVE  \E a \in AppelsDe(o)' : a.cle = c /\ a.demande = d
  <2> DEFINE a == [worker |-> w, cle |-> c, objet |-> EvtDe(w).objet,
                   demande |-> d]
  <2>1. a \in Appels(w, c, D)
    BY <1>5 DEF Appels
  <2>2. a \in AppelsDe(o)' /\ a.cle = c /\ a.demande = d
    BY <1>2, <2>1
  <2> HIDE DEF a
  <2> QED BY <2>2
<1> QED BY <1>3, <1>4, <1>5

LEMMA FuturNouveau ==
  ASSUME Structure, NEW w \in Workers, EvtDe(w) \in Evenement,
         NEW o, EvtDe(w).objet = o, AppelsDe(o) = {}, NEW c \in Cles,
         NEW D \in SUBSET Demande, fond' = fond \cup Appels(w, c, D),
         jobs' = jobs,
         \A d, e \in D : d.jours # {} /\ e.jours # {} => d = e,
         \/ \E d \in D : d.retrait
         \/ \A k, t : ~Planifie(c, k, t)
  PROVE  /\ UnAjout(o)' /\ NonBloque(o)'
         /\ \A k, t : Futur(o, c, k, t)' <=>
              \/ \E d \in D : k \in d.jours /\ t = d.date - k
              \/ Planifie(c, k, t) /\ ~\E d \in D : d.retrait
<1>1. /\ \A a \in AppelsDe(o)' : a.cle = c /\ a.demande \in D
      /\ \A a, b \in AppelsDe(o)' : a.demande = b.demande => a = b
      /\ \A d \in D : AFaire(d) =>
           \E a \in AppelsDe(o)' : a.cle = c /\ a.demande = d
  BY AppelsNouveaux
<1>2. \A d \in D : d.retrait \/ d.jours # {} => AFaire(d)
  BY DEF AFaire
<1>3. UnAjout(o)'
  BY <1>1 DEF UnAjout
<1>4. RetraitEnCours(o, c)' <=> \E d \in D : d.retrait
  BY <1>1, <1>2 DEF RetraitEnCours
<1>5. \A k, t : Planifie(c, k, t)' <=> Planifie(c, k, t)
  BY DEF Planifie
<1>6. ASSUME NEW k, NEW t
      PROVE  Promis(o, c, k, t)' <=> \E d \in D : k \in d.jours /\ t = d.date - k
  <2>1. ASSUME Promis(o, c, k, t)'
        PROVE  \E d \in D : k \in d.jours /\ t = d.date - k
    BY <1>1, <2>1 DEF Promis
  <2>2. ASSUME NEW d \in D, k \in d.jours, t = d.date - k
        PROVE  Promis(o, c, k, t)'
    <3>1. PICK a \in AppelsDe(o)' : a.cle = c /\ a.demande = d
      BY <1>1, <1>2, <2>2
    <3> QED BY <2>2, <3>1 DEF Promis
  <2> QED BY <2>1, <2>2
<1>7. NonBloque(o)'
  <2> SUFFICES ASSUME NEW a \in AppelsDe(o)', ~RetraitEnCours(o, a.cle)',
                      NEW k \in a.demande.jours, NEW j \in jobs', EstRappel(j),
                      j.id = <<"rappel", a.cle, k>>
               PROVE  FALSE
    BY DEF NonBloque
  <2>1. a.cle = c
    BY <1>1
  <2>2. \A i, t : ~Planifie(c, i, t)
    BY <1>4, <2>1
  <2> QED BY <2>1, <2>2 DEF Planifie
<1>8. ASSUME NEW k, NEW t
      PROVE  Futur(o, c, k, t)' <=>
              \/ \E d \in D : k \in d.jours /\ t = d.date - k
              \/ Planifie(c, k, t) /\ ~\E d \in D : d.retrait
  BY <1>4, <1>5, <1>6 DEF Futur
<1> QED BY <1>3, <1>7, <1>8

(* Without a call, what is to come is what is planned.                      *)
LEMMA FuturSansAppel ==
  ASSUME NEW o, AppelsDe(o) = {}
  PROVE  \A c, k, t : Futur(o, c, k, t) <=> Planifie(c, k, t)
BY DEF Futur, Promis, RetraitEnCours

(* The reminders of a row, and those of a session nothing was done about    *)
RappelsLignes(o) == \A r \in CopiesDe(o) :
  \A k, t : Futur(o, r.id, k, t) <=> Voulu(r.date, k, t)

RappelsNes(o) ==
  o \in Sessions /\ (\E k, t : Futur(o, o, k, t)) => Commence(o)

LEMMA CreationSansRappel ==
  ASSUME Structure, NEW w \in Workers, NEW o \in Sessions, Tient(w, o),
         Ordre(o), RappelsNes(o), workers[w].etape # "ecrit",
         EvtDe(w).action = "CREATE"
  PROVE  \A k, t : ~Futur(o, o, k, t)
<1>1. \A f \in traites : f.objet # o
  BY DEF Ordre, PremiereFois
<1>2. ASSUME NEW v \in Workers, Tient(v, o), workers[v].etape = "ecrit"
      PROVE  FALSE
  BY <1>2 DEF Ordre, Seul
<1>3. ~Commence(o)
  BY <1>1, <1>2 DEF Commence
<1> QED BY <1>3 DEF RappelsNes

LEMMA DemandesVoulues ==
  ASSUME NEW d \in Dates, NEW k, NEW t
  PROVE  /\ (k \in Ajouts(d).jours /\ t = Ajouts(d).date - k)
              <=> Voulu(d, k, t)
         /\ (k \in RetraitPuisAjouts(d).jours
             /\ t = RetraitPuisAjouts(d).date - k)
              <=> Voulu(d, k, t)
BY DemandesTypes DEF Voulu

LEMMA TraiterSession ==
  ASSUME Structure, NEW w \in Workers, Traiter(w), NEW o \in Sessions,
         Tient(w, o), Ordre(o), SansAppel(o), RappelsNes(o)
  PROVE  /\ UnAjout(o)' /\ NonBloque(o)'
         /\ \A k, t : Futur(o, o, k, t)' <=>
              IF EvtDe(w).action # "DELETE" /\ workers[w].lu = Absent
                THEN Futur(o, o, k, t)
                ELSE /\ EvtDe(w).action # "DELETE"
                     /\ Recuperable(workers[w].lu)
                     /\ Voulu(workers[w].lu.date, k, t)
<1> DEFINE e == EvtDe(w)
           m == workers[w].lu
           D == DemandesSession(e, m)
<1>1. /\ workers[w].etape \in {"lu", "copie"} /\ e \in Evenement
      /\ Traitable(e) /\ e.objet = o /\ jobs' = jobs
  BY TraiterTravail DEF Tient
<1>2. AppelsDe(o) = {}
  BY <1>1 DEF SansAppel
<1>3. \A k, t : Futur(o, o, k, t) <=> Planifie(o, k, t)
  BY <1>2, FuturSansAppel
<1>4. o \notin Rdvs /\ o \in Cles
  BY ConstantsAssumption DEF Cles
<1>5. fond' = fond \cup Appels(w, o, D)
  BY <1>1, <1>4, TraiterSessionCas DEF TraiteSession
<1>6. e.action \in {"CREATE", "UPDATE", "DELETE"}
  BY <1>1 DEF Traitable, Evenement, Actions
<1>7. Recuperable(m) => m.date \in Dates /\ m # Absent
  BY RecuperableType DEF Recuperable
<1>8. /\ e.action = "DELETE" => D = {Retrait}
      /\ e.action # "DELETE" /\ m = Absent => D = {}
      /\ e.action = "UPDATE" /\ m # Absent =>
           D = {Retrait} \cup IF Recuperable(m) THEN {Ajouts(m.date)} ELSE {}
      /\ e.action = "CREATE" /\ m # Absent =>
           D = IF Recuperable(m) THEN {Ajouts(m.date)} ELSE {}
  BY DEF DemandesSession
<1>9. e.action = "CREATE" => \A k, t : ~Planifie(o, k, t)
  BY <1>1, <1>3, CreationSansRappel
<1> HIDE DEF D, m, e
<1>10. CASE e.action # "DELETE" /\ m = Absent
  <2>1. fond' = fond
    BY <1>5, <1>8, <1>10 DEF Appels
  <2>2. AppelsDe(o)' = {}
    BY <1>2, <2>1 DEF AppelsDe
  <2>3. UnAjout(o)' /\ NonBloque(o)'
    BY <2>2 DEF UnAjout, NonBloque
  <2>4. \A k, t : Planifie(o, k, t)' <=> Planifie(o, k, t)
    BY <1>1 DEF Planifie
  <2>5. \A k, t : Futur(o, o, k, t)' <=> Futur(o, o, k, t)
    BY <1>2, <2>2, <2>4, FuturGarde
  <2> QED BY <1>10, <2>3, <2>5 DEF e, m
<1>11. CASE ~(e.action # "DELETE" /\ m = Absent)
  <2>1. D \in SUBSET Demande
    BY <1>6, <1>7, <1>8, <1>11, DemandesTypes
  <2>2. \A d, f \in D : d.jours # {} /\ f.jours # {} => d = f
    BY <1>6, <1>7, <1>8, <1>11, DemandesTypes
  <2>3. e.action # "CREATE" => \E d \in D : d.retrait
    BY <1>6, <1>8, <1>11, DemandesTypes
  <2>4. e.action = "CREATE" => \A d \in D : ~d.retrait
    BY <1>7, <1>8, <1>11, DemandesTypes
  <2>5. /\ UnAjout(o)' /\ NonBloque(o)'
        /\ \A k, t : Futur(o, o, k, t)' <=>
             \/ \E d \in D : k \in d.jours /\ t = d.date - k
             \/ Planifie(o, k, t) /\ ~\E d \in D : d.retrait
    BY <1>1, <1>2, <1>4, <1>5, <1>9, <2>1, <2>2, <2>3, FuturNouveau DEF e
  <2>6. ASSUME NEW k, NEW t
        PROVE  (\E d \in D : k \in d.jours /\ t = d.date - k) <=>
                 /\ e.action # "DELETE" /\ Recuperable(m)
                 /\ Voulu(m.date, k, t)
    <3>1. CASE e.action = "DELETE"
      BY <1>8, <3>1, DemandesTypes
    <3>2. CASE e.action # "DELETE" /\ Recuperable(m)
      <4>1. \E d \in D : d = Ajouts(m.date)
        BY <1>6, <1>7, <1>8, <3>2
      <4>2. \A d \in D : d.jours # {} => d = Ajouts(m.date)
        BY <1>6, <1>7, <1>8, <3>2, DemandesTypes
      <4>3. k \in Ajouts(m.date).jours /\ t = Ajouts(m.date).date - k
              <=> Voulu(m.date, k, t)
        BY <1>7, <3>2, DemandesVoulues
      <4> QED BY <3>2, <4>1, <4>2, <4>3
    <3>3. CASE e.action # "DELETE" /\ ~Recuperable(m)
      BY <1>6, <1>8, <1>11, <3>3, DemandesTypes
    <3> QED BY <3>1, <3>2, <3>3
  <2>7. ASSUME NEW k, NEW t
        PROVE  Futur(o, o, k, t)' <=> /\ e.action # "DELETE"
                                      /\ Recuperable(m)
                                      /\ Voulu(m.date, k, t)
    <3>1. CASE e.action = "CREATE"
      BY <1>9, <2>5, <2>6, <3>1
    <3>2. CASE e.action # "CREATE"
      BY <2>3, <2>5, <2>6, <3>2
    <3> QED BY <3>1, <3>2
  <2> QED BY <1>11, <2>5, <2>7 DEF e, m
<1> QED BY <1>10, <1>11

(* The treatment of an appointment plans what its row calls for.            *)
LEMMA TraiterLignes ==
  ASSUME Structure, Propriete, NEW w \in Workers, Traiter(w),
         NEW o \in Rdvs, Tient(w, o), Ordre(o), SansAppel(o),
         RappelsLignes(o)
  PROVE  UnAjout(o)' /\ NonBloque(o)' /\ RappelsLignes(o)'
<1> DEFINE m == workers[w].lu
           r == workers[w].copie
<1>1. /\ workers[w].etape \in {"lu", "copie"} /\ EvtDe(w) \in Evenement
      /\ EvtDe(w).objet = o /\ jobs' = jobs /\ uuids \in Nat
  BY TraiterTravail DEF Tient, Structure, Types, TypeLignes
<1>2. AppelsDe(o) = {}
  BY <1>1 DEF SansAppel
<1>3. Recuperable(m) => m.date \in Dates
  BY RecuperableType
<1>4. ASSUME NEW c \in Cles, NEW n, CopiesDe(o)' = {n}, n.id = c,
             n.date = m.date, Recuperable(m),
             NEW d, d = Ajouts(m.date) \/ d = RetraitPuisAjouts(m.date),
             fond' = fond \cup Appels(w, c, {d}),
             d = Ajouts(m.date) => \A k, t : ~Planifie(c, k, t)
      PROVE  UnAjout(o)' /\ NonBloque(o)' /\ RappelsLignes(o)'
  <2> HIDE DEF m, r
  <2>1. {d} \in SUBSET Demande /\ (d = RetraitPuisAjouts(m.date) => d.retrait)
    BY <1>3, <1>4, DemandesTypes
  <2>2. /\ UnAjout(o)' /\ NonBloque(o)'
        /\ \A k, t : Futur(o, c, k, t)' <=>
             \/ \E f \in {d} : k \in f.jours /\ t = f.date - k
             \/ Planifie(c, k, t) /\ ~\E f \in {d} : f.retrait
    BY <1>1, <1>2, <1>4, <2>1, FuturNouveau
  <2>3. ASSUME NEW k, NEW t PROVE Futur(o, c, k, t)' <=> Voulu(m.date, k, t)
    <3>1. (k \in d.jours /\ t = d.date - k) <=> Voulu(m.date, k, t)
      BY <1>3, <1>4, DemandesVoulues
    <3> QED BY <1>4, <2>1, <2>2, <3>1
  <2> QED BY <1>4, <2>2, <2>3 DEF RappelsLignes
<1>5. CASE CreeLigne(w, o)
  <2> DEFINE c == uuids + 1
  <2>1. PICK n : /\ n.id = c /\ n.date = m.date /\ CopiesDe(o)' = {n}
    BY <1>5 DEF CreeLigne
  <2>2. /\ Recuperable(m)
        /\ fond' = fond \cup Appels(w, c, {Ajouts(m.date)})
    BY <1>5 DEF CreeLigne, Cree
  <2>3. c \in Cles /\ c \in Nat /\ c > uuids
    BY <1>1 DEF Cles
  <2>4. c \notin Sessions
    BY <2>3, ConstantsAssumption
  <2> HIDE DEF c, m
  <2>5. ASSUME NEW k, NEW t PROVE ~Planifie(c, k, t)
    <3>1. ASSUME NEW j \in jobs, EstRappel(j), j.id = <<"rappel", c, k>>
          PROVE  FALSE
      <4>1. <<"rappel", c, k>>[2] = c
        OBVIOUS
      <4>2. j.id[2] = c
        BY <3>1, <4>1
      <4>3. ~(c =< uuids)
        BY <1>1, <2>3
      <4> QED BY <2>4, <3>1, <4>2, <4>3 DEF Propriete, ClesRappels
    <3> QED BY <3>1 DEF Planifie
  <2> QED BY <1>4, <2>1, <2>2, <2>3, <2>5
<1>6. ASSUME fond' = fond PROVE UnAjout(o)' /\ NonBloque(o)' /\ AppelsDe(o)' = {}
  <2>1. AppelsDe(o)' = {}
    BY <1>2, <1>6 DEF AppelsDe
  <2> QED BY <2>1 DEF UnAjout, NonBloque
<1>7. ASSUME fond' = fond, NEW c
      PROVE  \A k, t : Futur(o, c, k, t)' <=> Futur(o, c, k, t)
  <2>1. \A k, t : Planifie(c, k, t)' <=> Planifie(c, k, t)
    BY <1>1 DEF Planifie
  <2>2. AppelsDe(o)' = AppelsDe(o)
    BY <1>7 DEF AppelsDe
  <2> QED BY <2>1, <2>2, FuturGarde
<1>8. CASE ModifieLigne(w, o)
  <2>1. PICK n : /\ n.id = r.id /\ n.date = m.date /\ CopiesDe(o)' = {n}
    BY <1>8 DEF ModifieLigne
  <2>2. /\ Recuperable(m) /\ CopiesDe(o) = {r} /\ r # Absent
        /\ IF m.date = r.date
             THEN fond' = fond
             ELSE fond' = fond \cup Appels(w, r.id,
                                      {RetraitPuisAjouts(m.date)})
    BY <1>8 DEF ModifieLigne, Modifie
  <2>3. r.id \in Cles
    BY <2>2, TravailType DEF Ligne, Cles
  <2> HIDE DEF m, r
  <2>4. CASE m.date # r.date
    <3>1. RetraitPuisAjouts(m.date) # Ajouts(m.date)
      BY <1>3, <2>2, DemandesTypes
    <3> QED BY <1>4, <2>1, <2>2, <2>3, <2>4, <3>1
  <2>5. CASE m.date = r.date
    <3>1. \A k, t : Futur(o, n.id, k, t)' <=> Futur(o, n.id, k, t)
      BY <1>7, <2>2, <2>5
    <3>2. \A k, t : Futur(o, n.id, k, t) <=> Voulu(n.date, k, t)
      BY <2>1, <2>2, <2>5 DEF RappelsLignes
    <3>3. RappelsLignes(o)'
      BY <2>1, <3>1, <3>2 DEF RappelsLignes
    <3> QED BY <1>6, <2>2, <2>5, <3>3
  <2> QED BY <2>4, <2>5
<1>9. CASE SupprimeLigne(w, o)
  <2>1. /\ r # Absent /\ CopiesDe(o)' = {}
        /\ fond' = fond \cup Appels(w, r.id, {Retrait})
    BY <1>9 DEF SupprimeLigne, Supprime
  <2>2. r.id \in Cles
    BY <2>1, TravailType DEF Ligne, Cles
  <2> HIDE DEF r
  <2>3. {Retrait} \in SUBSET Demande /\ Retrait.retrait
    BY DemandesTypes
  <2>4. UnAjout(o)' /\ NonBloque(o)'
    BY <1>1, <1>2, <2>1, <2>2, <2>3, FuturNouveau
  <2> QED BY <2>1, <2>4 DEF RappelsLignes
<1>10. CASE GardeLignes(w, o)
  <2>1. fond' = fond /\ CopiesDe(o)' = CopiesDe(o)
    BY <1>10 DEF GardeLignes, RienAFaire, Rien
  <2>2. RappelsLignes(o)'
    BY <1>7, <2>1 DEF RappelsLignes
  <2> QED BY <1>6, <2>1, <2>2
<1> QED BY <1>1, <1>5, <1>8, <1>9, <1>10, TraiterCopies

InvRappels == \A o \in Objets \ perturbes :
  /\ SansAppel(o) /\ UnAjout(o) /\ NonBloque(o)
  /\ RappelsLignes(o) /\ RappelsNes(o)

LEMMA FuturInit ==
  ASSUME Init
  PROVE  /\ \A o : AppelsDe(o) = {}
         /\ \A o, c, k, t : ~Futur(o, c, k, t)
<1>1. \A o : AppelsDe(o) = {}
  BY DEF Init, AppelsDe
<1>2. \A c, k, t : ~Planifie(c, k, t)
  BY DEF Init, Planifie
<1>3. ASSUME NEW o, NEW c, NEW k, NEW t PROVE ~Futur(o, c, k, t)
  BY <1>1, <1>2, FuturSansAppel
<1> QED BY <1>1, <1>3

LEMMA RappelsInit == Init => InvRappels
<1> SUFFICES ASSUME Init, NEW o \in Objets
             PROVE  /\ SansAppel(o) /\ UnAjout(o) /\ NonBloque(o)
                    /\ RappelsLignes(o) /\ RappelsNes(o)
  BY DEF InvRappels
<1>1. AppelsDe(o) = {} /\ CopiesDe(o) = {}
  BY FuturInit DEF Init, CopiesDe
<1>2. RappelsNes(o)
  BY FuturInit DEF RappelsNes
<1> QED BY <1>1, <1>2 DEF SansAppel, UnAjout, NonBloque, RappelsLignes

LEMMA RappelsLignesSuite ==
  ASSUME Structure, Propriete, [Next]_vars, NEW o \in Objets,
         o \notin perturbes', NonBloque(o), RappelsLignes(o),
         \A w \in Workers : Traiter(w) => ~Tient(w, o)
  PROVE  RappelsLignes(o)'
<1>1. CopiesDe(o)' = CopiesDe(o)
  <2>1. CASE rdvs' = rdvs
    BY <2>1 DEF CopiesDe
  <2>2. ASSUME NEW w \in Workers, Traiter(w)
        PROVE  CopiesDe(o)' = CopiesDe(o)
    <3>1. EvtDe(w).objet # o
      BY <2>2, TraiterTravail DEF Tient
    <3> QED BY <2>2, <3>1, TraiterAilleurs
  <2> QED BY <2>1, <2>2, LignesSuite
<1>2. ASSUME NEW r \in CopiesDe(o), NEW k, NEW t
      PROVE  Futur(o, r.id, k, t)' <=> Voulu(r.date, k, t)
  <2>1. Sien(r.id, o)
    BY <1>2 DEF CopiesDe, Sien, Possede
  <2>2. Futur(o, r.id, k, t) <=> Voulu(r.date, k, t)
    BY <1>2 DEF RappelsLignes
  <2> QED BY <2>1, <2>2, FuturSuite
<1> QED BY <1>1, <1>2 DEF RappelsLignes

LEMMA RappelsNesSuite ==
  ASSUME Structure, Propriete, [Next]_vars, NEW o \in Objets,
         o \notin perturbes', NonBloque(o), RappelsNes(o),
         \A w \in Workers : Traiter(w) => ~Tient(w, o)
  PROVE  RappelsNes(o)'
<1> SUFFICES ASSUME o \in Sessions, NEW k, NEW t, Futur(o, o, k, t)'
             PROVE  Commence(o)'
  BY DEF RappelsNes
<1>1. Futur(o, o, k, t)
  BY FuturSuite DEF Sien
<1>2. Commence(o)
  BY <1>1 DEF RappelsNes
<1> QED BY <1>2, CommenceSuite

LEMMA CommenceTraiter ==
  ASSUME Structure, NEW w \in Workers, Traiter(w), NEW o, Tient(w, o)
  PROVE  Commence(o)'
<1>1. PICK x \in TravailEvt :
        /\ workers' = [workers EXCEPT ![w] = x]
        /\ x.evt = workers[w].evt /\ x.etape = "ecrit"
  BY TraiterTravail
<1> QED BY <1>1, TientSuite DEF Commence

LEMMA InvRappelsSuite ==
  InvCopies /\ InvRappels /\ [Next]_vars => InvRappels'
<1> SUFFICES ASSUME InvCopies, InvRappels, [Next]_vars,
                    NEW o \in Objets, o \notin perturbes'
             PROVE  /\ SansAppel(o)' /\ UnAjout(o)' /\ NonBloque(o)'
                    /\ RappelsLignes(o)' /\ RappelsNes(o)'
  BY DEF InvRappels
<1>1. Structure /\ Propriete /\ o \notin perturbes
  BY PerturbesSuite DEF InvCopies, Inv
<1>2. /\ SansAppel(o) /\ UnAjout(o) /\ NonBloque(o) /\ Ordre(o)
      /\ RappelsLignes(o) /\ RappelsNes(o)
  BY <1>1 DEF InvRappels, InvCopies, InvOrdre
<1>3. SansAppel(o)'
  BY <1>1, <1>2, SansAppelSuite DEF Ordre
<1>4. CASE \A w \in Workers : Traiter(w) => ~Tient(w, o)
  BY <1>1, <1>2, <1>3, <1>4, AjoutsSuite, RappelsLignesSuite, RappelsNesSuite
<1>5. ASSUME NEW w \in Workers, Traiter(w), Tient(w, o)
      PROVE  /\ UnAjout(o)' /\ NonBloque(o)'
             /\ RappelsLignes(o)' /\ RappelsNes(o)'
  <2>1. RappelsNes(o)'
    BY <1>1, <1>5, CommenceTraiter DEF RappelsNes
  <2>2. CASE o \in Rdvs
    BY <1>1, <1>2, <1>5, <2>1, <2>2, TraiterLignes
  <2>3. CASE o \in Sessions
    <3>1. CopiesDe(o)' = {}
      <4>1. Structure'
        BY <1>1, StructureSuite
      <4>2. \A r \in rdvs' : r.objet \in Rdvs
        BY <4>1 DEF Structure, Types, TypeLignes, Ligne
      <4> QED BY <2>3, <4>2, ConstantsAssumption DEF CopiesDe
    <3>2. RappelsLignes(o)'
      BY <3>1 DEF RappelsLignes
    <3> QED BY <1>1, <1>2, <1>5, <2>1, <2>3, <3>2, TraiterSession
  <2> QED BY <2>2, <2>3 DEF Objets
<1> QED BY <1>3, <1>4, <1>5

-----------------------------------------------------------------------------
(* The reminders of a session whose events are treated                      *)

ConformeSession(o) == \A k, t :
  Futur(o, o, k, t) <=> Attendu(o) /\ Voulu(milo[o].date, k, t)

InvSession == \A o \in Sessions \ perturbes :
  ConformeSession(o) \/ (o \in Connus /\ AVenir(o))

LEMMA SessionInit == Init => InvSession
<1> SUFFICES ASSUME Init, NEW o \in Sessions PROVE ConformeSession(o)
  BY DEF InvSession
<1>1. o \in Objets
  BY DEF Objets
<1>2. milo[o] = Absent \/ milo[o].statut = "retire"
  BY <1>1 DEF Init
<1>3. ~Attendu(o)
  BY <1>2 DEF Attendu, Recuperable
<1> QED BY <1>3, FuturInit DEF ConformeSession

LEMMA TraiterSessionDecisif ==
  ASSUME Structure, Histoire, NEW w \in Workers, Traiter(w),
         NEW o \in Sessions, Tient(w, o), Ordre(o), SansAppel(o),
         RappelsNes(o), Decisif(EvtDe(w)), workers[w].lu = milo[o]
  PROVE  ConformeSession(o)'
<1>1. /\ milo' = milo /\ Traitable(EvtDe(w)) /\ EvtDe(w) \in Evenement
      /\ EvtDe(w).objet = o /\ o \in Connus /\ Occupe(w)
  BY TraiterTravail DEF Tient, Traitable
<1>2. Attendu(o)' <=> Recuperable(milo[o])
  BY <1>1 DEF Attendu
<1>3. EvtDe(w).action = "DELETE" => milo[o] = Absent
  BY <1>1 DEF Decisif, Structure, Types, TypeMilo
<1>4. EvtDe(w).action # "DELETE" => milo[o] # Absent
  <2>1. Vu(EvtDe(w))
    BY <1>1, VuEnMain
  <2> QED BY <1>1, <2>1 DEF Decisif, Histoire, Connaissance
<1>5. ~Recuperable(Absent)
  BY DEF Recuperable
<1>6. \A k, t : Futur(o, o, k, t)' <=>
        IF EvtDe(w).action # "DELETE" /\ milo[o] = Absent
          THEN Futur(o, o, k, t)
          ELSE /\ EvtDe(w).action # "DELETE" /\ Recuperable(milo[o])
               /\ Voulu(milo[o].date, k, t)
  BY TraiterSession
<1>7. \A k, t : Futur(o, o, k, t)' <=>
        Recuperable(milo[o]) /\ Voulu(milo[o].date, k, t)
  BY <1>3, <1>4, <1>5, <1>6
<1> QED BY <1>1, <1>2, <1>7 DEF ConformeSession

LEMMA TraiterSessionSansSuite ==
  ASSUME Structure, Histoire, Propriete, NEW w \in Workers, Traiter(w),
         NEW o \in Sessions, Tient(w, o), Ordre(o), SansAppel(o),
         RappelsNes(o), ~Decisif(EvtDe(w)), workers[w].lu = milo[o]
  PROVE  \A k, t : Futur(o, o, k, t)' <=> Futur(o, o, k, t)
<1>1. workers[w].lu = Absent /\ EvtDe(w).action # "DELETE"
  BY TraiterNonDecisif DEF Objets
<1>2. \A k, t : Futur(o, o, k, t)' <=>
        IF EvtDe(w).action # "DELETE" /\ workers[w].lu = Absent
          THEN Futur(o, o, k, t)
          ELSE /\ EvtDe(w).action # "DELETE" /\ Recuperable(workers[w].lu)
               /\ Voulu(workers[w].lu.date, k, t)
  BY TraiterSession
<1> QED BY <1>1, <1>2

LEMMA ConformeSessionSuite ==
  ASSUME InvCopies, InvVenir, InvRappels, [Next]_vars, NEW o \in Sessions,
         o \notin perturbes', ~Publier(o), ConformeSession(o),
         ~(o \in Connus /\ AVenir(o))
  PROVE  ConformeSession(o)'
<1>1. o \in Objets /\ o \notin perturbes
  BY PerturbesSuite DEF Objets, InvCopies, Inv
<1>2. /\ Structure /\ Histoire /\ Propriete /\ Ordre(o) /\ Perime(o)
      /\ SansAppel(o) /\ NonBloque(o) /\ RappelsNes(o)
  BY <1>1 DEF InvCopies, Inv, InvOrdre, InvVenir, InvRappels
<1>3. milo'[o] = milo[o]
  BY <1>1, <1>2, MiloSuite
<1>4. ASSUME \A k, t : Futur(o, o, k, t)' <=> Futur(o, o, k, t)
      PROVE  ConformeSession(o)'
  BY <1>3, <1>4 DEF ConformeSession, Attendu
<1>5. CASE \A w \in Workers : Traiter(w) => ~Tient(w, o)
  <2>1. \A k, t : Futur(o, o, k, t)' <=> Futur(o, o, k, t)
    BY <1>1, <1>2, <1>5, FuturSuite DEF Sien
  <2> QED BY <1>4, <2>1
<1>6. ASSUME NEW w \in Workers, Traiter(w), Tient(w, o)
      PROVE  ConformeSession(o)'
  <2>1. workers[w].etape \in {"lu", "copie"} /\ o \in Connus
    BY <1>2, <1>6, TraiterTravail DEF Tient, Traitable
  <2>2. CASE workers[w].lu = milo[o] /\ Decisif(EvtDe(w))
    BY <1>2, <1>6, <2>2, TraiterSessionDecisif
  <2>3. CASE workers[w].lu = milo[o] /\ ~Decisif(EvtDe(w))
    <3>1. \A k, t : Futur(o, o, k, t)' <=> Futur(o, o, k, t)
      BY <1>2, <1>6, <2>3, TraiterSessionSansSuite
    <3> QED BY <1>4, <3>1
  <2>4. CASE workers[w].lu # milo[o]
    <3>1. ~AJour(w, o)
      BY <2>1, <2>4 DEF AJour
    <3>2. Attente(o)
      BY <1>2, <1>6, <2>1, <3>1 DEF Perime
    <3> QED BY <2>1, <3>2 DEF AVenir
  <2> QED BY <2>2, <2>3, <2>4
<1> QED BY <1>5, <1>6

LEMMA SessionSuite ==
  InvCopies /\ InvVenir /\ InvRappels /\ InvSession /\ [Next]_vars
    => InvSession'
<1> SUFFICES ASSUME InvCopies, InvVenir, InvRappels, InvSession, [Next]_vars,
                    NEW o \in Sessions, o \notin perturbes'
             PROVE  ConformeSession(o)' \/ (o \in Connus /\ AVenir(o)')
  BY DEF InvSession
<1>1. /\ Structure /\ Histoire /\ InvLu /\ Propriete
      /\ o \in Objets /\ o \notin perturbes
  BY PerturbesSuite DEF InvCopies, Inv, Objets
<1>2. /\ ConformeSession(o) \/ (o \in Connus /\ AVenir(o))
      /\ Ordre(o) /\ SansAppel(o) /\ NonBloque(o) /\ RappelsNes(o)
  BY <1>1 DEF InvSession, InvRappels, InvCopies, InvOrdre
<1>3. ASSUME Publier(o)
      PROVE  \A k, t : Futur(o, o, k, t)' <=> Futur(o, o, k, t)
  <2>1. fond' = fond /\ jobs' = jobs
    BY <1>3, PublierGarde
  <2>2. AppelsDe(o)' = AppelsDe(o)
    BY <2>1 DEF AppelsDe
  <2>3. \A k, t : Planifie(o, k, t)' <=> Planifie(o, k, t)
    BY <2>1 DEF Planifie
  <2> QED BY <2>2, <2>3, FuturGarde
<1>4. CASE Publier(o) /\ o \notin Connus
  <2>1. ~Attendu(o) /\ ~Attendu(o)' /\ ConformeSession(o)
    BY <1>2, <1>4 DEF Attendu
  <2> QED BY <1>3, <1>4, <2>1 DEF ConformeSession
<1>5. CASE Publier(o) /\ o \in Connus
  <2>1. CASE Attente(o)'
    BY <1>5, <2>1 DEF AVenir
  <2>2. CASE /\ milo' = milo /\ supprimes' = supprimes
             /\ Attente(o) => Attente(o)'
    <3>1. CASE AVenir(o)
      BY <1>1, <1>5, <2>2, <3>1, AVenirPublier
    <3>2. CASE ConformeSession(o)
      BY <1>3, <1>5, <2>2, <3>2 DEF ConformeSession, Attendu
    <3> QED BY <1>2, <3>1, <3>2
  <2> QED BY <1>1, <1>5, <2>1, <2>2, PublierAttente
<1>6. CASE ~Publier(o) /\ o \in Connus /\ AVenir(o)
  <2>1. CASE AVenir(o)'
    BY <1>6, <2>1
  <2>2. ASSUME NEW w \in Workers, Traiter(w), Tient(w, o),
               Decisif(EvtDe(w)), workers[w].lu = milo[o]
        PROVE  ConformeSession(o)'
    BY <1>1, <1>2, <2>2, TraiterSessionDecisif
  <2> QED BY <1>1, <1>6, <2>1, <2>2, AVenirSuite
<1>7. CASE ~Publier(o) /\ ~(o \in Connus /\ AVenir(o))
  BY <1>2, <1>7, ConformeSessionSuite
<1> QED BY <1>4, <1>5, <1>6, <1>7

InvFidele == InvCopies /\ InvVenir /\ InvRappels /\ InvSession

LEMMA InvFideleInit == Init => InvFidele
BY InvCopiesInit, VenirInit, RappelsInit, SessionInit DEF InvFidele

LEMMA InvFideleSuite == InvFidele /\ [Next]_vars => InvFidele'
BY InvCopiesSuite, VenirSuite, InvRappelsSuite, SessionSuite DEF InvFidele

(* The reminders planned under the keys of an object, read off the queue    *)
LEMMA PlanifiesDe ==
  ASSUME Structure, NEW o, NEW k, NEW t
  PROVE  <<k, t>> \in Planifies(o) <=> \E c \in ClesDe(o) : Planifie(c, k, t)
<1>1. TypeJobs
  BY DEF Structure, Types
<1>2. ASSUME NEW c \in ClesDe(o), Planifie(c, k, t)
      PROVE  <<k, t>> \in Planifies(o)
  <2>1. PICK j \in jobs : /\ EstRappel(j) /\ j.id = <<"rappel", c, k>>
                          /\ j.echeance = t
    BY <1>2 DEF Planifie
  <2>2. j.id[1] = "rappel" /\ j.id[2] = c /\ j.id[3] = k
    BY <2>1
  <2>3. j \in RappelsDe(c)
    BY <2>1, <2>2 DEF RappelsDe
  <2> QED BY <1>2, <2>1, <2>2, <2>3 DEF Planifies
<1>3. ASSUME <<k, t>> \in Planifies(o)
      PROVE  \E c \in ClesDe(o) : Planifie(c, k, t)
  <2>1. PICK c \in ClesDe(o) :
          \E j \in RappelsDe(c) : <<k, t>> = <<j.id[3], j.echeance>>
    BY <1>3 DEF Planifies
  <2>2. PICK j \in RappelsDe(c) : <<k, t>> = <<j.id[3], j.echeance>>
    BY <2>1
  <2>3. j \in jobs /\ j.id[2] = c /\ EstRappel(j)
    BY <1>1, DeuxSortes DEF RappelsDe
  <2>4. j.id = <<"rappel", j.id[2], j.id[3]>>
    BY <2>3, RappelDistinct
  <2>5. j.id[3] = k /\ j.echeance = t
    BY <2>2
  <2>6. Planifie(c, k, t)
    BY <2>3, <2>4, <2>5 DEF Planifie
  <2> QED BY <2>6
<1> QED BY <1>2, <1>3

LEMMA PlanifiesPaires ==
  ASSUME NEW o, NEW p \in Planifies(o)
  PROVE  p = <<p[1], p[2]>>
BY DEF Planifies

(* The reminders an object is to have, as a set                             *)
Souhaites(o) ==
  IF Attendu(o) THEN {<<k, milo[o].date - k>> :
                        k \in {n \in JoursRappel : milo[o].date > n}}
                ELSE {}

LEMMA SouhaitesVoulus ==
  ASSUME NEW o
  PROVE  /\ \A k, t : <<k, t>> \in Souhaites(o)
                        <=> Attendu(o) /\ Voulu(milo[o].date, k, t)
         /\ \A p \in Souhaites(o) : p = <<p[1], p[2]>>
BY DEF Souhaites, Voulu

(* An object about which nothing is left to do has the reminders it is to   *)
(* have: there is no call left, and its row has the date of Milo.           *)
LEMMA CalmeConforme ==
  ASSUME InvFidele, NEW o \in Objets \ perturbes, Calme(o)
  PROVE  \A k, t : (\E c \in ClesDe(o) : Planifie(c, k, t))
                     <=> Attendu(o) /\ Voulu(milo[o].date, k, t)
<1>1. Structure /\ Ordre(o)
  BY DEF InvFidele, InvCopies, Inv, InvOrdre
<1>2. ~AVenir(o)
  BY <1>1, CalmeSansSuite
<1>3. AppelsDe(o) = {}
  BY DEF Calme, AppelsDe
<1>4. \A c, k, t : Futur(o, c, k, t) <=> Planifie(c, k, t)
  BY <1>3, FuturSansAppel
<1>5. CASE o \in Sessions
  <2>1. ClesDe(o) = {o}
    BY <1>5, ConstantsAssumption DEF ClesDe
  <2>2. ConformeSession(o)
    BY <1>2, <1>5 DEF InvFidele, InvSession
  <2> QED BY <1>4, <2>1, <2>2 DEF ConformeSession
<1>6. CASE o \in Rdvs
  <2>1. ClesDe(o) = {r.id : r \in CopiesDe(o)}
    BY <1>6 DEF ClesDe, CopiesDe
  <2>2. ConformeRdv(o)
    BY <1>2, <1>6 DEF InvFidele, InvVenir
  <2>3. RappelsLignes(o) /\ LignesUniques(o)
    BY <1>1 DEF InvFidele, InvRappels, Ordre
  <2>4. CASE CopiesDe(o) = {}
    <3>1. ~Attendu(o)
      BY <2>2, <2>4 DEF ConformeRdv
    <3> QED BY <2>1, <2>4, <3>1
  <2>5. ASSUME NEW r \in CopiesDe(o)
        PROVE  \A k, t : (\E c \in ClesDe(o) : Planifie(c, k, t))
                           <=> Attendu(o) /\ Voulu(milo[o].date, k, t)
    <3>1. CopiesDe(o) = {r}
      BY <2>3, <2>5 DEF LignesUniques
    <3>2. ClesDe(o) = {r.id}
      BY <2>1, <3>1
    <3>3. Attendu(o) /\ r.date = milo[o].date
      BY <2>2, <2>5 DEF ConformeRdv
    <3>4. \A k, t : Planifie(r.id, k, t) <=> Voulu(r.date, k, t)
      BY <1>4, <2>3, <2>5 DEF RappelsLignes
    <3> QED BY <3>2, <3>3, <3>4
  <2> QED BY <2>4, <2>5
<1> QED BY <1>5, <1>6 DEF Objets

(* Once the events of an object are treated, the reminders planned under    *)
(* its row, or under the session, are those of the date it has at Milo:     *)
(* none is missing, none is late and none is left of an earlier date,       *)
(* although the treatments await neither the removals nor the additions     *)
(* they ask for.                                                            *)
THEOREM RappelsToujoursFideles == Spec => []RappelsFideles
<1>1. InvFidele => RappelsFideles
  <2> SUFFICES ASSUME InvFidele, NEW o \in Objets \ perturbes, Calme(o)
               PROVE  Planifies(o) = Souhaites(o)
    BY DEF RappelsFideles, Souhaites
  <2>1. Structure
    BY DEF InvFidele, InvCopies, Inv
  <2>2. \A k, t : <<k, t>> \in Planifies(o) <=> <<k, t>> \in Souhaites(o)
    BY <2>1, PlanifiesDe, CalmeConforme, SouhaitesVoulus
  <2>3. \A p \in Planifies(o) : p = <<p[1], p[2]>>
    BY PlanifiesPaires
  <2>4. \A p \in Souhaites(o) : p = <<p[1], p[2]>>
    BY SouhaitesVoulus
  <2>5. \A p \in Planifies(o) : p \in Souhaites(o)
    BY <2>2, <2>3
  <2>6. \A p \in Souhaites(o) : p \in Planifies(o)
    BY <2>2, <2>4
  <2> QED BY <2>5, <2>6
<1>2. Init => InvFidele
  BY InvFideleInit
<1>3. InvFidele /\ [Next]_vars => InvFidele'
  BY InvFideleSuite
<1> QED BY <1>1, <1>2, <1>3, PTL DEF Spec

=============================================================================

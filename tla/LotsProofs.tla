------------------------------ MODULE LotsProofs ------------------------------
(***************************************************************************)
(* What is proved of Lots for every value of its constants.                 *)
(***************************************************************************)
EXTENDS Lots, FiniteSetTheorems, TLAPS

-----------------------------------------------------------------------------
(* The values the operators give                                            *)

LEMMA PopulationFinie ==
  ASSUME population \subseteq Ids
  PROVE  Cardinality(population) \in Nat
BY FS_Subset, FS_CardinalityType, ConstantsAssumption

LEMMA MinType ==
  ASSUME NEW S \in SUBSET Nat, NEW n \in Nat, NEW m \in Nat, S = {n, m}
  PROVE  Min(S) \in S
<1>1. \E x \in S : \A y \in S : x =< y
  <2>1. CASE n =< m
    BY <2>1
  <2>2. CASE ~(n =< m)
    BY <2>2
  <2> QED BY <2>1, <2>2
<1> QED BY <1>1 DEF Min

LEMMA MaxType ==
  ASSUME NEW n \in Nat
  PROVE  Max({n, 1}) \in Nat \ {0}
<1> DEFINE S == {n, 1}
<1>1. \E x \in S : \A y \in S : x >= y
  <2>1. CASE n >= 1
    BY <2>1
  <2>2. CASE ~(n >= 1)
    BY <2>2
  <2> QED BY <2>1, <2>2
<1>2. Max(S) \in S /\ \A y \in S : Max(S) >= y
  BY <1>1 DEF Max
<1> QED BY <1>2

LEMMA NouvelIdType ==
  ASSUME Libres # {}
  PROVE  /\ NouvelId \in 1 .. MaxJobs
         /\ \A j \in jobs : j.id # NouvelId
BY DEF Libres, NouvelId

LEMMA TailleDuBatchType ==
  ASSUME NEW batch \in Nat, NEW total \in Nat
  PROVE  TailleDuBatch(batch, total) \in Nat \ {0}
<1>1. total \div 4 \in Nat
  OBVIOUS
<1>2. Max({total \div 4, 1}) \in Nat \ {0}
  BY <1>1, MaxType
<1> QED BY <1>2 DEF TailleDuBatch

LEMMA OffsetSuivantType ==
  ASSUME NEW c \in Contenu
  PROVE  /\ Suivant(c) \in Contenu
         /\ Suivant(c).batch = c.batch
<1>1. c.offset + c.batch \in Nat /\ Cardinality(Ids) \in Nat
  BY FS_CardinalityType, ConstantsAssumption DEF Contenu
<1>2. Min({c.offset + c.batch, Cardinality(Ids)}) \in Nat
  BY <1>1, MinType
<1>3. OffsetSuivant(c) \in Nat
  BY <1>2 DEF OffsetSuivant
<1> QED BY <1>3 DEF Suivant, Contenu

LEMMA TraiterType ==
  ASSUME NEW lot \in 1 .. MaxLots, NEW ids,
         traites \in [1 .. MaxLots -> [Ids -> 0 .. 2]], TraiterPage(lot, ids)
  PROVE  traites' \in [1 .. MaxLots -> [Ids -> 0 .. 2]]
<1> DEFINE f == [i \in Ids |-> IF i \in ids THEN Min({traites[lot][i] + 1, 2})
                                            ELSE traites[lot][i]]
<1>1. ASSUME NEW i \in Ids
      PROVE  Min({traites[lot][i] + 1, 2}) \in 0 .. 2
  <2>1. traites[lot][i] \in 0 .. 2
    OBVIOUS
  <2>2. Min({traites[lot][i] + 1, 2}) \in {traites[lot][i] + 1, 2}
    BY <2>1, MinType
  <2>3. traites[lot][i] + 1 \in Nat /\ Min({traites[lot][i] + 1, 2}) =< 2
    <3>1. \E x \in {traites[lot][i] + 1, 2} :
             \A y \in {traites[lot][i] + 1, 2} : x =< y
      BY <2>1
    <3> QED BY <2>1, <3>1 DEF Min
  <2> QED BY <2>1, <2>2, <2>3
<1>2. f \in [Ids -> 0 .. 2]
  BY <1>1
<1>3. traites' = [traites EXCEPT ![lot] = f]
  BY DEF TraiterPage
<1> QED BY <1>2, <1>3

LEMMA PerturberType ==
  ASSUME TypePerturbes, NEW ls, NEW quoi \in SUBSET Perturbations,
         Perturber(ls, quoi)
  PROVE  /\ TypePerturbes'
         /\ \A l \in 1 .. MaxLots : perturbes[l] \subseteq perturbes'[l]
BY DEF TypePerturbes, Perturber

(* A job that is added, that follows another or that Bull gives back        *)
LEMMA NouveauJobType ==
  ASSUME NEW id \in 1 .. MaxJobs, NEW lot \in 1 .. MaxLots, NEW c \in Contenu
  PROVE  LET j == NouveauJob(id, lot, c)
         IN /\ j \in Job /\ j.id = id /\ j.lot = lot
BY DEF NouveauJob, Job, Etapes

LEMMA SuitesType ==
  ASSUME NEW j, j \in Job, NEW id \in 1 .. MaxJobs
  PROVE  /\ \A k \in Suites(j, id) :
               k \in Job /\ k.id = id /\ k.lot = j.lot
         /\ \A k, m \in Suites(j, id) : k = m
<1>1. /\ j.lot \in 1 .. MaxLots /\ j.contenu \in Contenu
      /\ Suivant(j.courant) \in Contenu
  BY OffsetSuivantType DEF Job
<1>2. /\ NouveauJob(id, j.lot, j.contenu) \in Job
      /\ NouveauJob(id, j.lot, j.contenu).id = id
      /\ NouveauJob(id, j.lot, j.contenu).lot = j.lot
  BY <1>1, NouveauJobType
<1>3. /\ NouveauJob(id, j.lot, Suivant(j.courant)) \in Job
      /\ NouveauJob(id, j.lot, Suivant(j.courant)).id = id
      /\ NouveauJob(id, j.lot, Suivant(j.courant)).lot = j.lot
  BY <1>1, NouveauJobType
<1> QED BY <1>2, <1>3 DEF Suites

LEMMA RenduType ==
  ASSUME NEW j, j \in Job
  PROVE  /\ \A k \in Rendu(j) :
               k \in Job /\ k.id = j.id /\ k.lot = j.lot
         /\ \A k, m \in Rendu(j) : k = m
<1> DEFINE k == [j EXCEPT !.etape = "attente", !.courant = j.contenu, !.page = {},
                          !.taille = 0, !.reprises = 1]
<1>1. k \in Job
  <2>1. /\ j.contenu \in Contenu /\ "attente" \in Etapes /\ {} \in SUBSET Ids
        /\ 0 \in Nat /\ 1 \in 0 .. 1
    BY DEF Job, Etapes
  <2> QED BY <2>1 DEF Job
<1>2. k.id = j.id /\ k.lot = j.lot
  BY DEF Job
<1> QED BY <1>1, <1>2 DEF Rendu

(* The steps of a job replace it by jobs of the same lot                    *)
Remplace(j, js) ==
  /\ j \in jobs
  /\ jobs' = (jobs \ {j}) \cup js
  /\ \A k \in js : k \in Job /\ k.lot = j.lot
  /\ \A k \in js : k.id = j.id \/ (\A m \in jobs : k.id # m.id)
  /\ \A k, m \in js : k.id = m.id => k = m

LEMMA RemplaceType ==
  ASSUME TypeOK, NEW j, NEW js, Remplace(j, js), lots' = lots
  PROVE  (\A k \in jobs : TypeJob(k))' /\ IdUnique'
<1>1. ASSUME NEW k \in jobs'
      PROVE  TypeJob(k)'
  BY <1>1 DEF TypeOK, TypeJob, Remplace
<1>2. ASSUME NEW k \in jobs', NEW m \in jobs', k.id = m.id
      PROVE  k = m
  BY <1>2 DEF TypeOK, IdUnique, Remplace
<1> QED BY <1>1, <1>2 DEF IdUnique

(* A job that runs, modified as the steps do                                *)
LEMMA RemplaceUn ==
  ASSUME NEW j \in jobs, NEW k \in Job, k.lot = j.lot, k.id = j.id,
         jobs' = (jobs \ {j}) \cup {k}
  PROVE  Remplace(j, {k})
BY DEF Remplace

-----------------------------------------------------------------------------
(* Every step keeps the types                                               *)

LEMMA TypeInit == Init => TypeOK
<1> SUFFICES ASSUME Init PROVE TypeOK
  OBVIOUS
<1>1. Cardinality({}) = 0
  BY FS_EmptySet
<1>2. /\ lots \in Nat /\ lots + Cardinality(commandes) <= MaxLots
      /\ mouvements \in Nat /\ pannes \in Nat
  BY <1>1, ConstantsAssumption DEF Init
<1>3. /\ attendus \in [1 .. MaxLots -> SUBSET Ids]
      /\ traites \in [1 .. MaxLots -> [Ids -> 0 .. 2]]
      /\ TypePerturbes
  BY DEF Init, TypePerturbes
<1>4. (\A j \in jobs : TypeJob(j)) /\ IdUnique
  BY DEF Init, IdUnique
<1> QED BY <1>2, <1>3, <1>4, ConstantsAssumption DEF Init, TypeOK

LEMMA CommandesFinies ==
  ASSUME NEW cs, cs \subseteq Ops
  PROVE  IsFiniteSet(cs) /\ Cardinality(cs) \in Nat
BY FS_Subset, FS_CardinalityType, ConstantsAssumption

LEMMA TypeVerifier ==
  ASSUME TypeOK, NEW o \in Ops, Verifier(o)
  PROVE  TypeOK'
<1>1. commandes' \subseteq Ops /\ lots + Cardinality(commandes') <= MaxLots
  <2>1. Cardinality(commandes') = Cardinality(commandes) + 1
    BY CommandesFinies, FS_AddElement DEF Verifier, TypeOK
  <2> QED BY <2>1, CommandesFinies, ConstantsAssumption DEF Verifier, TypeOK
<1>2. TypePerturbes'
  BY PerturberType DEF Verifier, TypeOK, Perturbations
<1>3. (\A j \in jobs : TypeJob(j))' /\ IdUnique'
  BY DEF Verifier, TypeOK, TypeJob, IdUnique
<1> QED BY <1>1, <1>2, <1>3 DEF Verifier, TypeOK, SurCommande

LEMMA LancerType ==
  ASSUME TypeOK, NEW c \in Contenu, Lancer(c), lots + 1 <= MaxLots
  PROVE  /\ lots' \in Nat /\ lots' = lots + 1
         /\ attendus' \in [1 .. MaxLots -> SUBSET Ids]
         /\ (\A j \in jobs : TypeJob(j))' /\ IdUnique'
         /\ \E j : j.lot = lots + 1 /\ jobs' = jobs \cup {j}
<1> DEFINE n == NouveauJob(NouvelId, lots + 1, c)
<1>1. lots + 1 \in 1 .. MaxLots
  BY ConstantsAssumption DEF TypeOK
<1>2. /\ n \in Job /\ n.lot = lots + 1
      /\ \A j \in jobs : j.id # n.id
  BY <1>1, NouvelIdType, NouveauJobType DEF Lancer
<1>3. jobs' = jobs \cup {n} /\ lots' = lots + 1
  BY DEF Lancer
<1> HIDE DEF n
<1>4. ASSUME NEW j \in jobs' PROVE TypeJob(j)'
  BY <1>1, <1>2, <1>3 DEF TypeOK, TypeJob, Job
<1>5. IdUnique'
  BY <1>2, <1>3 DEF TypeOK, IdUnique
<1> QED BY <1>1, <1>2, <1>3, <1>4, <1>5 DEF Lancer, TypeOK

LEMMA DebutType ==
  ASSUME NEW b \in Nat
  PROVE  Debut(b) \in Contenu
BY DEF Debut, Contenu

LEMMA TypeAjouter ==
  ASSUME TypeOK, NEW o \in Ops, Ajouter(o)
  PROVE  TypeOK'
<1>1. /\ commandes' \subseteq Ops
      /\ Cardinality(commandes') = Cardinality(commandes) - 1
      /\ Cardinality(commandes) \in Nat /\ Cardinality(commandes') \in Nat
  BY CommandesFinies, FS_RemoveElement DEF Ajouter, TypeOK
<1>2. lots + 1 <= MaxLots
  BY <1>1, ConstantsAssumption DEF TypeOK
<1>3. PICK b \in BatchsDemandes : Lancer(Debut(b))
  BY DEF Ajouter
<1>4. Debut(b) \in Contenu
  BY DebutType, ConstantsAssumption
<1>5. /\ lots' \in Nat /\ lots' = lots + 1
      /\ attendus' \in [1 .. MaxLots -> SUBSET Ids]
      /\ (\A j \in jobs : TypeJob(j))' /\ IdUnique'
  BY <1>2, <1>3, <1>4, LancerType
<1>6. lots' + Cardinality(commandes') <= MaxLots
  BY <1>1, <1>5, ConstantsAssumption DEF TypeOK
<1> QED BY <1>1, <1>5, <1>6 DEF TypeOK, Ajouter, TypePerturbes, SurCommande

LEMMA TypeProgrammer ==
  ASSUME TypeOK, Programmer
  PROVE  TypeOK'
<1>1. lots + 1 <= MaxLots /\ commandes' = commandes /\ commandes = {}
  BY ConstantsAssumption DEF Programmer, TypeOK
<1>2. Debut(Pagination) \in Contenu
  BY DebutType, ConstantsAssumption
<1>3. /\ lots' \in Nat /\ lots' = lots + 1
      /\ attendus' \in [1 .. MaxLots -> SUBSET Ids]
      /\ (\A j \in jobs : TypeJob(j))' /\ IdUnique'
  BY <1>1, <1>2, LancerType DEF Programmer
<1>4. lots' + Cardinality(commandes') <= MaxLots
  BY <1>1, <1>3, FS_EmptySet, ConstantsAssumption
<1> QED BY <1>1, <1>3, <1>4 DEF TypeOK, Programmer, TypePerturbes, SurCommande

(* What the steps of a job share: the launches, the commands and the people *)
(* are left alone, and the job is replaced.                                 *)
Suit(j) ==
  /\ UNCHANGED <<type, population, ferme, commandes, lots, attendus, mouvements>>
  /\ \E js : Remplace(j, js)

LEMMA RemplaceAvancer ==
  ASSUME TypeOK, NEW j \in jobs, NEW etape \in Etapes, Avancer(j, etape)
  PROVE  \E js : Remplace(j, js)
<1> DEFINE k == [j EXCEPT !.etape = etape]
<1>1. j \in Job
  BY DEF TypeOK, TypeJob
<1>2. k \in Job /\ k.lot = j.lot /\ k.id = j.id
  BY <1>1 DEF Job
<1>3. Remplace(j, {k})
  BY <1>2, RemplaceUn DEF Avancer
<1> QED BY <1>3

LEMMA RemplaceCompter ==
  ASSUME TypeOK, NEW j \in jobs, Compter(j)
  PROVE  \E js : Remplace(j, js)
<1> DEFINE total == IF j.courant.total = 0 THEN Cardinality(population)
                                           ELSE j.courant.total
           batch == TailleDuBatch(j.courant.batch, total)
           c == [j.courant EXCEPT !.total = total, !.batch = batch]
           k == [j EXCEPT !.etape = "compte", !.courant = c]
<1>1. j \in Job /\ j.courant \in Contenu /\ j.courant.batch \in Nat
  BY DEF TypeOK, TypeJob, Job, Contenu
<1>2. total \in Nat
  BY <1>1, PopulationFinie DEF TypeOK, Contenu
<1>3. batch \in Nat
  BY <1>1, <1>2, TailleDuBatchType
<1>4. c \in Contenu
  BY <1>1, <1>2, <1>3 DEF Contenu
<1>5. jobs' = (jobs \ {j}) \cup {k}
  BY <1>1 DEF Compter, Job, Contenu
<1> HIDE DEF c
<1>6. k \in Job /\ k.lot = j.lot /\ k.id = j.id
  BY <1>1, <1>4 DEF Job, Etapes
<1>7. Remplace(j, {k})
  BY <1>5, <1>6, RemplaceUn
<1> QED BY <1>7

LEMMA SuitDemarrer ==
  ASSUME TypeOK, NEW j \in jobs, Demarrer(j)
  PROVE  Suit(j) /\ UNCHANGED <<traites, pannes, perturbes>>
BY RemplaceAvancer, RemplaceCompter DEF Demarrer, Suit, Etapes

LEMMA PageType ==
  ASSUME population \subseteq Ids, NEW lot, NEW offset, NEW batch
  PROVE  /\ Page(lot, offset, batch) \subseteq Ids
         /\ Cardinality(Page(lot, offset, batch)) \in Nat
<1>1. Page(lot, offset, batch) \subseteq Ids
  BY DEF Page, Selection
<1> QED BY <1>1, FS_Subset, FS_CardinalityType, ConstantsAssumption

LEMMA SuitLirePage ==
  ASSUME TypeOK, NEW j \in jobs, LirePage(j)
  PROVE  Suit(j) /\ UNCHANGED <<traites, pannes>>
<1> DEFINE page == Page(j.lot, j.courant.offset, j.courant.batch)
           nb == IF regle.arret = "total" THEN j.courant.nb + Cardinality(page)
                                          ELSE 0
           c == [j.courant EXCEPT !.nb = nb]
           k == [j EXCEPT !.etape = "page", !.page = page,
                          !.taille = Cardinality(page), !.courant = c]
<1>1. j \in Job /\ j.courant \in Contenu /\ j.courant.nb \in Nat
  BY DEF TypeOK, TypeJob, Job, Contenu
<1>2. page \subseteq Ids /\ Cardinality(page) \in Nat
  BY PageType DEF TypeOK
<1>3. nb \in Nat
  BY <1>1, <1>2
<1>4. c \in Contenu
  BY <1>1, <1>3 DEF Contenu
<1>5. jobs' = (jobs \ {j}) \cup {k}
  BY <1>1 DEF LirePage, Job, Contenu
<1> HIDE DEF c, page
<1>6. k \in Job /\ k.lot = j.lot /\ k.id = j.id
  BY <1>1, <1>2, <1>4 DEF Job, Etapes
<1>7. Remplace(j, {k})
  BY <1>5, <1>6, RemplaceUn
<1> QED BY <1>7 DEF LirePage, Suit

LEMMA SuitBilan ==
  ASSUME TypeOK, NEW j \in jobs,
         jobs' = (jobs \ {j}) \cup {[j EXCEPT !.etape = "bilan", !.page = {}]}
  PROVE  \E js : Remplace(j, js)
<1> DEFINE k == [j EXCEPT !.etape = "bilan", !.page = {}]
<1>1. j \in Job
  BY DEF TypeOK, TypeJob
<1>2. k \in Job /\ k.lot = j.lot /\ k.id = j.id
  BY <1>1 DEF Job, Etapes
<1>3. Remplace(j, {k})
  BY <1>2, RemplaceUn
<1> QED BY <1>3

LEMMA SuitTraiter ==
  ASSUME TypeOK, NEW j \in jobs, Traiter(j)
  PROVE  Suit(j) /\ UNCHANGED <<pannes, perturbes>>
BY SuitBilan DEF Traiter, Suit

LEMMA SuitEnchainer ==
  ASSUME TypeOK, NEW j \in jobs, Enchainer(j)
  PROVE  Suit(j) /\ UNCHANGED <<traites, pannes, perturbes>>
<1>1. j \in Job /\ j.id \in 1 .. MaxJobs
  BY DEF TypeOK, TypeJob, Job
<1>2. Remplace(j, Suites(j, j.id))
  BY <1>1, SuitesType DEF Enchainer, Remplace
<1> QED BY <1>2 DEF Enchainer, Suit

LEMMA SuitBoucler ==
  ASSUME TypeOK, NEW j \in jobs, Boucler(j)
  PROVE  Suit(j) /\ UNCHANGED <<traites, pannes, perturbes>>
<1> DEFINE c == Suivant(j.courant)
           k == [j EXCEPT !.etape = "compte", !.courant = c, !.taille = 0]
<1>1. j \in Job /\ c \in Contenu
  BY OffsetSuivantType DEF TypeOK, TypeJob, Job
<1>2. jobs' = (jobs \ {j}) \cup {k}
  BY <1>1 DEF Boucler, Job
<1> HIDE DEF c
<1>3. k \in Job /\ k.lot = j.lot /\ k.id = j.id
  BY <1>1 DEF Job, Etapes
<1>4. Remplace(j, {k})
  BY <1>2, <1>3, RemplaceUn
<1> QED BY <1>4 DEF Boucler, Suit

LEMMA SuitEchec ==
  ASSUME TypeOK, NEW j \in jobs, Echec(j)
  PROVE  Suit(j)
<1>1. CASE jobs' = jobs \ {j}
  <2>1. Remplace(j, {})
    BY <1>1 DEF Remplace
  <2> QED BY <2>1 DEF Echec, Suit
<1> QED BY <1>1, SuitBilan DEF Echec, Suit

LEMMA SuitArretWorker ==
  ASSUME TypeOK, NEW j \in jobs, ArretWorker(j)
  PROVE  Suit(j)
<1>1. j \in Job
  BY DEF TypeOK, TypeJob
<1>2. CASE jobs' = (jobs \ {j}) \cup Rendu(j)
  <2>1. Remplace(j, Rendu(j))
    BY <1>1, <1>2, RenduType DEF Remplace
  <2> QED BY <2>1 DEF ArretWorker, Suit
<1>3. CASE /\ Libres # {}
           /\ jobs' = (jobs \ {j}) \cup Rendu(j) \cup Suites(j, NouvelId)
  <2>1. /\ NouvelId \in 1 .. MaxJobs
        /\ \A m \in jobs : m.id # NouvelId
    BY <1>3, NouvelIdType
  <2>2. Remplace(j, Rendu(j) \cup Suites(j, NouvelId))
    BY <1>1, <1>3, <2>1, RenduType, SuitesType DEF Remplace
  <2> QED BY <2>2 DEF ArretWorker, Suit
<1> QED BY <1>2, <1>3 DEF ArretWorker

LEMMA TypeSuit ==
  ASSUME TypeOK, NEW j \in jobs, Suit(j),
         traites' \in [1 .. MaxLots -> [Ids -> 0 .. 2]], pannes' \in Nat,
         TypePerturbes'
  PROVE  TypeOK'
<1>1. (\A k \in jobs : TypeJob(k))' /\ IdUnique'
  BY RemplaceType DEF Suit
<1> QED BY <1>1 DEF Suit, TypeOK, SurCommande

(* What the steps of a job do to the history                                *)
LEMMA PerturbesJob ==
  ASSUME TypeOK, NEW j \in jobs,
         Demarrer(j) \/ Executer(j) \/ Echec(j) \/ ArretWorker(j)
  PROVE  /\ TypePerturbes'
         /\ \A l \in 1 .. MaxLots : perturbes[l] \subseteq perturbes'[l]
<1>1. ASSUME UNCHANGED perturbes
      PROVE  /\ TypePerturbes'
             /\ \A l \in 1 .. MaxLots : perturbes[l] \subseteq perturbes'[l]
  BY <1>1 DEF TypeOK, TypePerturbes
<1>2. ASSUME NEW ls, NEW quoi \in SUBSET Perturbations, Perturber(ls, quoi)
      PROVE  /\ TypePerturbes'
             /\ \A l \in 1 .. MaxLots : perturbes[l] \subseteq perturbes'[l]
  BY <1>2, PerturberType DEF TypeOK
<1>3. CASE Demarrer(j) \/ Traiter(j) \/ Enchainer(j) \/ Boucler(j)
  BY <1>1, <1>3 DEF Demarrer, Traiter, Enchainer, Boucler
<1>4. CASE LirePage(j)
  BY <1>2, <1>4 DEF LirePage, Perturbations
<1>5. CASE Echec(j)
  BY <1>2, <1>5 DEF Echec, Perturbations
<1>6. CASE ArretWorker(j)
  <2> DEFINE quoi == IF j.reprises = 0 THEN {"reprise"} ELSE {"echec"}
  <2>1. quoi \in SUBSET Perturbations
    BY DEF Perturbations
  <2> QED BY <1>2, <1>6, <2>1 DEF ArretWorker
<1> QED BY <1>3, <1>4, <1>5, <1>6 DEF Executer

LEMMA SuitJob ==
  ASSUME TypeOK, NEW j \in jobs,
         Demarrer(j) \/ Executer(j) \/ Echec(j) \/ ArretWorker(j)
  PROVE  Suit(j)
BY SuitDemarrer, SuitLirePage, SuitTraiter, SuitEnchainer, SuitBoucler,
   SuitEchec, SuitArretWorker DEF Executer

LEMMA TypeJobs ==
  ASSUME TypeOK, NEW j \in jobs,
         Demarrer(j) \/ Executer(j) \/ Echec(j) \/ ArretWorker(j)
  PROVE  TypeOK'
<1>1. /\ j.lot \in 1 .. MaxLots
      /\ traites \in [1 .. MaxLots -> [Ids -> 0 .. 2]] /\ pannes \in Nat
  BY DEF TypeOK, TypeJob, Job
<1>2. traites' \in [1 .. MaxLots -> [Ids -> 0 .. 2]]
  <2>1. ASSUME NEW ids, TraiterPage(j.lot, ids)
        PROVE  traites' \in [1 .. MaxLots -> [Ids -> 0 .. 2]]
    BY <1>1, <2>1, TraiterType
  <2> QED BY <1>1, <2>1
    DEF Demarrer, Executer, LirePage, Traiter, Enchainer, Boucler, Echec, ArretWorker
<1>3. pannes' \in Nat
  BY <1>1
    DEF Demarrer, Executer, LirePage, Traiter, Enchainer, Boucler, Echec,
        ArretWorker, Panne
<1> QED BY <1>2, <1>3, SuitJob, PerturbesJob, TypeSuit

LEMMA TypeMouvement ==
  ASSUME TypeOK, NEW i \in Ids, Entrer(i) \/ Sortir(i)
  PROVE  TypeOK'
<1>1. TypePerturbes'
  BY PerturberType DEF Entrer, Sortir, TypeOK, Perturbations
<1>2. (\A k \in jobs : TypeJob(k))' /\ IdUnique'
  BY DEF Entrer, Sortir, TypeOK, TypeJob, IdUnique
<1>3. population' \subseteq Ids /\ mouvements' \in Nat
  BY DEF Entrer, Sortir, TypeOK, Mouvement
<1> QED BY <1>1, <1>2, <1>3 DEF Entrer, Sortir, TypeOK, SurCommande

LEMMA TypeHeure ==
  ASSUME TypeOK, Ouvrir \/ Fermer \/ UNCHANGED vars
  PROVE  TypeOK'
<1>1. (\A k \in jobs : TypeJob(k))' /\ IdUnique' /\ TypePerturbes'
  BY DEF Ouvrir, Fermer, vars, TypeOK, TypeJob, IdUnique, TypePerturbes
<1> QED BY <1>1 DEF Ouvrir, Fermer, vars, TypeOK, SurCommande

LEMMA TypeNext == TypeOK /\ [Next]_vars => TypeOK'
<1> SUFFICES ASSUME TypeOK, [Next]_vars PROVE TypeOK'
  OBVIOUS
<1> QED BY TypeVerifier, TypeAjouter, TypeProgrammer, TypeJobs, TypeMouvement,
           TypeHeure DEF Next

(* The jobs that go through a population have distinct ids in Redis, are of *)
(* lots that were launched and carry numbers, whatever the sizes asked, the  *)
(* comings and goings and the failures.                                     *)
THEOREM Typage == Spec => []TypeOK
BY TypeInit, TypeNext, PTL DEF Spec

-----------------------------------------------------------------------------
(* One chain of notifications                                               *)

(* A step of a job leaves the lots in progress as they are, or fewer, and   *)
(* the history grows.                                                       *)
LEMMA EnCoursRemplace ==
  ASSUME TypeOK, NEW j \in jobs, Suit(j)
  PROVE  /\ EnCours' \subseteq EnCours
         /\ \A k, m \in jobs' : k.lot # m.lot =>
              \E q, r \in jobs : q.lot # r.lot
<1>1. PICK js : Remplace(j, js)
  BY DEF Suit
<1>2. \A k \in jobs' : \E q \in jobs : q.lot = k.lot
  BY <1>1 DEF Remplace
<1> QED BY <1>2 DEF EnCours

LEMMA DisputesCroit ==
  ASSUME NEW ls, ls \subseteq 1 .. MaxLots, NEW ms, ms \subseteq ls, Disputes(ls),
         \A l \in 1 .. MaxLots : perturbes[l] \subseteq perturbes'[l]
  PROVE  Disputes(ms)'
BY DEF Disputes

LEMMA LotsConnus ==
  ASSUME TypeOK
  PROVE  EnCours \subseteq 1 .. MaxLots /\ (lots + 1) .. MaxLots \subseteq 1 .. MaxLots
BY ConstantsAssumption DEF TypeOK, TypeJob, Job, EnCours

LEMMA ChainesInit == Init => ChainesDisputees
BY DEF Init, ChainesDisputees

(* A command that looks while another one has looked marks the lots to come *)
LEMMA ChainesVerifier ==
  ASSUME TypeOK, NEW o \in Ops, Verifier(o)
  PROVE  ChainesDisputees'
<1>1. jobs' = {} /\ lots' = lots /\ commandes' = commandes \cup {o}
  BY DEF Verifier, DejaPlanifie
<1>2. ASSUME commandes # {}
      PROVE  Disputes((lots + 1) .. MaxLots)'
  <2>1. ASSUME NEW l \in (lots + 1) .. MaxLots
        PROVE  "concurrence" \in perturbes'[l]
    BY <1>2, <2>1, ConstantsAssumption
      DEF Verifier, Perturber, TypeOK, TypePerturbes
  <2> QED BY <1>1, <2>1 DEF Disputes
<1> QED BY <1>1, <1>2 DEF ChainesDisputees

(* A command that adds its job while another one has looked, or there is a  *)
(* job, is of a race that is known                                          *)
LEMMA ChainesAjouter ==
  ASSUME TypeOK, ChainesDisputees, NEW o \in Ops, Ajouter(o)
  PROVE  ChainesDisputees'
<1> SUFFICES ASSUME SurCommande PROVE ChainesDisputees'
  BY DEF Ajouter, ChainesDisputees, SurCommande
<1>1. /\ o \in commandes /\ commandes' = commandes \ {o}
      /\ lots \in Nat /\ lots' = lots + 1 /\ perturbes' = perturbes
  BY DEF Ajouter, Lancer, TypeOK
<1>2. lots + 1 <= MaxLots
  <2>1. Cardinality(commandes) = Cardinality(commandes') + 1
    BY <1>1, CommandesFinies, FS_RemoveElement DEF TypeOK
  <2> QED BY <1>1, <2>1, CommandesFinies, ConstantsAssumption DEF TypeOK
<1>3. PICK n : n.lot = lots + 1 /\ jobs' = jobs \cup {n}
  <2>1. PICK b \in BatchsDemandes : Lancer(Debut(b))
    BY DEF Ajouter
  <2>2. Debut(b) \in Contenu
    BY DebutType, ConstantsAssumption
  <2> QED BY <1>2, <2>1, <2>2, LancerType
<1>4. EnCours' = EnCours \cup {lots + 1}
  BY <1>3 DEF EnCours
<1>5. /\ lots + 1 \in (lots + 1) .. MaxLots
      /\ (lots' + 1) .. MaxLots \subseteq (lots + 1) .. MaxLots
  BY <1>1, <1>2, ConstantsAssumption
<1>6. (commandes' # {}) => Disputes((lots + 1) .. MaxLots)
  BY <1>1 DEF ChainesDisputees
<1>7. (jobs # {}) => Disputes(EnCours \cup (lots + 1) .. MaxLots)
  BY <1>1 DEF ChainesDisputees
<1>8. (commandes' # {}) => Disputes(EnCours \cup (lots + 1) .. MaxLots)'
  <2>1. CASE jobs = {}
    BY <1>1, <1>4, <1>5, <1>6, <2>1 DEF Disputes, EnCours
  <2>2. CASE jobs # {}
    BY <1>1, <1>4, <1>5, <1>7, <2>2 DEF Disputes
  <2> QED BY <2>1, <2>2
<1>9. (\E j, k \in jobs' : j.lot # k.lot) => Disputes(EnCours)'
  <2>1. CASE jobs = {}
    BY <1>3, <2>1
  <2>2. CASE jobs # {}
    BY <1>1, <1>4, <1>5, <1>7, <2>2 DEF Disputes
  <2> QED BY <2>1, <2>2
<1> QED BY <1>1, <1>8, <1>9 DEF ChainesDisputees, Disputes

(* The jobs already there only go on, or end                                *)
LEMMA ChainesJobs ==
  ASSUME TypeOK, ChainesDisputees, NEW j \in jobs,
         Demarrer(j) \/ Executer(j) \/ Echec(j) \/ ArretWorker(j)
  PROVE  ChainesDisputees'
<1> DEFINE aVenir == (lots + 1) .. MaxLots
<1>1. Suit(j) /\ \A l \in 1 .. MaxLots : perturbes[l] \subseteq perturbes'[l]
  BY SuitJob, PerturbesJob
<1>2. /\ EnCours' \subseteq EnCours
      /\ \A k, m \in jobs' : k.lot # m.lot => \E q, r \in jobs : q.lot # r.lot
  BY <1>1, EnCoursRemplace
<1>3. EnCours \subseteq 1 .. MaxLots /\ aVenir \subseteq 1 .. MaxLots
  BY LotsConnus
<1>4. lots' = lots /\ commandes' = commandes /\ type' = type
  BY <1>1 DEF Suit
<1>5. Disputes(aVenir) => Disputes(aVenir)'
  BY <1>1, <1>3, <1>4 DEF Disputes
<1>6. Disputes(EnCours) => Disputes(EnCours)'
  BY <1>1, <1>2, <1>3 DEF Disputes
<1>7. Disputes(EnCours \cup aVenir) => Disputes(EnCours \cup aVenir)'
  BY <1>1, <1>2, <1>3, <1>4 DEF Disputes
<1> QED BY <1>2, <1>4, <1>5, <1>6, <1>7 DEF ChainesDisputees, SurCommande

LEMMA ChainesAutres ==
  ASSUME TypeOK, ChainesDisputees,
         Programmer \/ (\E i \in Ids : Entrer(i) \/ Sortir(i)) \/ Ouvrir \/ Fermer
           \/ UNCHANGED vars
  PROVE  ChainesDisputees'
<1>1. CASE Programmer
  BY <1>1 DEF Programmer, ChainesDisputees, SurCommande
<1>2. CASE (\E i \in Ids : Entrer(i) \/ Sortir(i)) \/ Ouvrir \/ Fermer
             \/ UNCHANGED vars
  <2>1. UNCHANGED <<type, commandes, lots, jobs>>
    BY <1>2 DEF Entrer, Sortir, Ouvrir, Fermer, vars
  <2>2. \A l \in 1 .. MaxLots : perturbes[l] \subseteq perturbes'[l]
    <3>1. CASE UNCHANGED perturbes
      BY <3>1
    <3>2. CASE \E i \in Ids : Entrer(i) \/ Sortir(i)
      BY <3>2, PerturberType DEF Entrer, Sortir, TypeOK, Perturbations
    <3> QED BY <1>2, <3>1, <3>2 DEF Ouvrir, Fermer, vars
  <2>3. EnCours \subseteq 1 .. MaxLots /\ (lots + 1) .. MaxLots \subseteq 1 .. MaxLots
    BY LotsConnus
  <2> QED BY <2>1, <2>2, <2>3 DEF ChainesDisputees, SurCommande, EnCours, Disputes
<1> QED BY <1>1, <1>2

LEMMA ChainesNext == TypeOK /\ ChainesDisputees /\ [Next]_vars => ChainesDisputees'
<1> SUFFICES ASSUME TypeOK, ChainesDisputees, [Next]_vars
             PROVE  ChainesDisputees'
  OBVIOUS
<1> QED BY ChainesVerifier, ChainesAjouter, ChainesJobs, ChainesAutres DEF Next

(* Jobs of one lot only make one chain                                      *)
LEMMA ChainesUneSeule == ChainesDisputees => UneSeuleChaine
<1> SUFFICES ASSUME ChainesDisputees, SurCommande,
                    \A l \in EnCours : "concurrence" \notin perturbes[l]
             PROVE  Cardinality(EnCours) <= 1
  BY DEF UneSeuleChaine
<1>1. CASE jobs = {}
  BY <1>1, FS_EmptySet DEF EnCours
<1>2. CASE jobs # {}
  <2>1. PICK j \in jobs : TRUE
    BY <1>2
  <2>2. \A k \in jobs : k.lot = j.lot
    BY <2>1 DEF ChainesDisputees, Disputes, EnCours
  <2>3. EnCours = {j.lot}
    BY <2>1, <2>2 DEF EnCours
  <2>4. Cardinality({j.lot}) = 1
    BY FS_Singleton, Zenon
  <2> QED BY <2>3, <2>4
<1> QED BY <1>1, <1>2

(* Whatever the number of people and of launches, whoever comes or goes and *)
(* whatever fails, the jobs of two launches of the notifications live       *)
(* together only when two commands looked for a job before either added its *)
(* own.                                                                     *)
THEOREM ChaineUnique == Spec => []UneSeuleChaine
<1>1. TypeOK /\ ChainesDisputees /\ [Next]_vars => TypeOK' /\ ChainesDisputees'
  BY TypeNext, ChainesNext
<1> QED BY <1>1, TypeInit, ChainesInit, ChainesUneSeule, PTL DEF Spec

-----------------------------------------------------------------------------
(* Ranks                                                                    *)

(* How many come before i in S                                              *)
RangDans(S, i) == Cardinality({k \in S : k < i})

LEMMA RangCroit ==
  ASSUME NEW T, IsFiniteSet(T), NEW S, S \subseteq T, NEW i
  PROVE  /\ RangDans(S, i) \in Nat /\ RangDans(T, i) \in Nat
         /\ RangDans(S, i) <= RangDans(T, i)
<1> DEFINE A == {k \in S : k < i}
           B == {k \in T : k < i}
<1>1. A \in SUBSET B /\ B \in SUBSET T
  OBVIOUS
<1>2. IsFiniteSet(B)
  BY <1>1, FS_Subset
<1>3. IsFiniteSet(A) /\ Cardinality(A) <= Cardinality(B)
  BY <1>1, <1>2, FS_Subset
<1>4. Cardinality(A) \in Nat /\ Cardinality(B) \in Nat
  BY <1>2, <1>3, FS_CardinalityType
<1> QED BY <1>3, <1>4 DEF RangDans

LEMMA RangStrict ==
  ASSUME NEW S, IsFiniteSet(S), S \subseteq Nat, NEW i \in S
  PROVE  /\ RangDans(S, i) < Cardinality(S)
         /\ \A k \in S : i < k => RangDans(S, i) < RangDans(S, k)
<1> DEFINE A(k) == {m \in S : m < k}
<1>1. ASSUME NEW B, B \in SUBSET S, A(i) \subseteq B, i \in B
      PROVE  Cardinality(A(i)) < Cardinality(B)
  <2>1. IsFiniteSet(B) /\ i \in Nat
    BY <1>1, FS_Subset
  <2>2. A(i) \in SUBSET B /\ A(i) # B
    BY <1>1, <2>1
  <2>3. /\ IsFiniteSet(A(i)) /\ Cardinality(A(i)) <= Cardinality(B)
        /\ Cardinality(A(i)) # Cardinality(B)
    BY <2>1, <2>2, FS_Subset
  <2>4. Cardinality(A(i)) \in Nat /\ Cardinality(B) \in Nat
    BY <2>1, <2>3, FS_CardinalityType
  <2> QED BY <2>3, <2>4
<1>2. Cardinality(A(i)) < Cardinality(S)
  BY <1>1
<1>3. ASSUME NEW k \in S, i < k
      PROVE  Cardinality(A(i)) < Cardinality(A(k))
  <2>1. i \in Nat /\ k \in Nat
    OBVIOUS
  <2>2. ASSUME NEW m \in S, m < i PROVE m < k
    <3>1. m \in Nat
      OBVIOUS
    <3> QED BY <1>3, <2>1, <2>2, <3>1
  <2>3. A(k) \in SUBSET S /\ A(i) \subseteq A(k) /\ i \in A(k)
    BY <1>3, <2>2
  <2> QED BY <1>1, <2>3
<1> QED BY <1>2, <1>3 DEF RangDans

(* The ranks are the numbers below the size of the set.                     *)
LEMMA RangBijection ==
  ASSUME NEW S, IsFiniteSet(S), S \subseteq Nat, NEW n, n = Cardinality(S)
  PROVE  /\ n \in Nat
         /\ \A i, k \in S : RangDans(S, i) = RangDans(S, k) => i = k
         /\ \A m \in 0 .. (n - 1) : \E i \in S : RangDans(S, i) = m
<1> DEFINE T == 0 .. (n - 1)
           f == [i \in S |-> RangDans(S, i)]
<1>1. n \in Nat
  BY FS_CardinalityType
<1>2. ASSUME NEW i \in S PROVE RangDans(S, i) \in T
  <2>1. RangDans(S, i) \in Nat /\ RangDans(S, i) < n
    BY RangCroit, RangStrict
  <2> QED BY <1>1, <2>1
<1>3. ASSUME NEW i \in S, NEW k \in S, RangDans(S, i) = RangDans(S, k)
      PROVE  i = k
  <2>1. RangDans(S, i) \in Nat /\ RangDans(S, k) \in Nat
    BY RangCroit
  <2>2. (i < k => RangDans(S, i) < RangDans(S, k)) /\ (k < i => RangDans(S, k) < RangDans(S, i))
    BY RangStrict
  <2>3. i \in Nat /\ k \in Nat
    OBVIOUS
  <2> QED BY <1>3, <2>1, <2>2, <2>3
<1>4. f \in Injection(S, T)
  BY <1>2, <1>3 DEF Injection, IsInjective
<1>5. IsFiniteSet(T) /\ Cardinality(T) = n
  <2>1. 0 \in Int /\ n - 1 \in Int
    BY <1>1
  <2>2. /\ IsFiniteSet(0 .. (n - 1))
        /\ Cardinality(0 .. (n - 1)) = IF 0 > n - 1 THEN 0 ELSE (n - 1) - 0 + 1
    BY <2>1, FS_Interval
  <2> QED BY <1>1, <2>2
<1> HIDE DEF f, T
<1>6. f \in Surjection(S, T)
  BY <1>4, <1>5, FS_Injection
<1>7. ASSUME NEW m \in T PROVE \E i \in S : RangDans(S, i) = m
  BY <1>6 DEF Surjection, f
<1> QED BY <1>1, <1>3, <1>7 DEF T

(* A page                                                                   *)
PageDans(S, o, b) == {i \in S : RangDans(S, i) >= o /\ RangDans(S, i) < o + b}

(* It is full when somebody comes after it.                                 *)
LEMMA PagePleine ==
  ASSUME NEW S, IsFiniteSet(S), S \subseteq Nat, NEW o \in Nat, NEW b \in Nat,
         NEW h \in Nat, o <= h, h <= o + b, h <= Cardinality(S),
         \A i \in S : RangDans(S, i) < o + b => RangDans(S, i) < h
  PROVE  Cardinality(PageDans(S, o, b)) = h - o
<1> DEFINE P == PageDans(S, o, b)
           T == o .. (h - 1)
           f == [i \in P |-> RangDans(S, i)]
<1>1. /\ Cardinality(S) \in Nat
      /\ \A i, k \in S : RangDans(S, i) = RangDans(S, k) => i = k
      /\ \A m \in 0 .. (Cardinality(S) - 1) : \E i \in S : RangDans(S, i) = m
  BY RangBijection
<1>2. P \subseteq S /\ \A i \in S : RangDans(S, i) \in Nat
  BY RangCroit DEF PageDans
<1>3. \A i \in P : f[i] \in T
  BY <1>2 DEF PageDans
<1>4. f \in Injection(P, T)
  BY <1>1, <1>2, <1>3 DEF Injection, IsInjective
<1>5. ASSUME NEW m \in T PROVE \E i \in P : f[i] = m
  <2>1. m \in 0 .. (Cardinality(S) - 1) /\ m >= o /\ m < o + b
    BY <1>1
  <2>2. PICK i \in S : RangDans(S, i) = m
    BY <1>1, <2>1
  <2>3. i \in P
    BY <2>1, <2>2 DEF PageDans
  <2> QED BY <2>2, <2>3
<1>6. f \in Surjection(P, T)
  BY <1>3, <1>5 DEF Surjection
<1>7. IsFiniteSet(T) /\ Cardinality(T) = h - o
  <2>1. o \in Int /\ h - 1 \in Int
    OBVIOUS
  <2>2. /\ IsFiniteSet(o .. (h - 1))
        /\ Cardinality(o .. (h - 1)) = IF o > h - 1 THEN 0 ELSE (h - 1) - o + 1
    BY <2>1, FS_Interval
  <2> QED BY <2>2
<1> HIDE DEF f, T, P
<1>8. Cardinality(P) = Cardinality(T)
  BY <1>4, <1>6, <1>7, FS_Injection
<1> QED BY <1>7, <1>8 DEF P

-----------------------------------------------------------------------------
(* Nobody twice                                                             *)

Rang(i) == Cardinality({k \in population : k < i})

DoublePossible(l) == perturbes[l] \cap {"entree", "reprise"} # {}

(* Where a job has gone to                                                  *)
Borne(j) == IF j.etape = "bilan" THEN j.courant.offset + j.courant.batch
                                 ELSE j.courant.offset

(* Those of the page are still to be treated, and those that were treated   *)
(* and are still there come before the page: their rank can only decrease.  *)
InvJobSeul(j) ==
  /\ j.reprises = 0
  /\ j.etape = "attente" => j.courant = j.contenu
  /\ j.etape # "page" => j.page = {}
  /\ \A i \in j.page : traites[j.lot][i] = 0
  /\ ~regle.consomme =>
       /\ \A i \in j.page \cap population : Rang(i) < j.courant.offset + j.courant.batch
       /\ \A i \in population : traites[j.lot][i] > 0 => Rang(i) < Borne(j)

(* A lot that nothing disturbed has one job at most.                        *)
InvSeul(l) ==
  ~DoublePossible(l) =>
    /\ \A i \in Ids : traites[l][i] <= 1
    /\ \A j \in jobs : j.lot = l => InvJobSeul(j)
    /\ \A j, k \in jobs : (j.lot = l /\ k.lot = l) => j = k
    /\ l > lots => \A i \in Ids : traites[l][i] = 0

InvSeuls == \A l \in 1 .. MaxLots : InvSeul(l)

-----------------------------------------------------------------------------
(* What the proofs need of the rules and of the pages                       *)

LEMMA RegleForme ==
  ASSUME type \in Types
  PROVE  /\ regle.consomme \/ regle.decale
         /\ regle.arret = "total" => ~regle.consomme /\ regle.decale
         /\ regle.arret \in {"total", "incomplete", "vide"}
         /\ SurCommande <=> regle.arret = "total"
<1>1. type \in DOMAIN Regles
  BY ConstantsAssumption
<1>2. DOMAIN Regles =
        {"NOTIFIER_BENEFICIAIRES", "NOTIFIER_CAMPAGNE", "NOTIFIER_BONNE_ALTERNANCE",
         "NOTIFIER_0_HEURES_DECLAREES", "NOTIFIER_RAPPEL_CREATION_ACTIONS_DEMARCHES",
         "NOTIFIER_ACTUALISATION", "NOUVELLES_OFFRES_SERVICE_CIVIQUE",
         "NOUVELLES_OFFRES_EMPLOI", "RECUPERER_SITUATIONS_JEUNES_MILO",
         "NOTIFIER_RENDEZVOUS_PE"}
  BY DEF Regles
<1>3. CASE type = "NOTIFIER_BENEFICIAIRES"
  BY <1>3 DEF regle, Regles, NotifierBeneficiaires, Regle, SurCommande
<1>4. CASE type = "NOTIFIER_CAMPAGNE"
  BY <1>4 DEF regle, Regles, NotifierCampagne, Regle, SurCommande
<1>5. CASE type = "NOTIFIER_BONNE_ALTERNANCE"
  BY <1>5 DEF regle, Regles, NotifierBonneAlternance, Regle, SurCommande
<1>6. CASE type = "NOTIFIER_0_HEURES_DECLAREES"
  BY <1>6 DEF regle, Regles, Notifier0Heures, Regle, SurCommande
<1>7. CASE type = "NOTIFIER_RAPPEL_CREATION_ACTIONS_DEMARCHES"
  BY <1>7 DEF regle, Regles, NotifierRappelCreation, Regle, SurCommande
<1>8. CASE type = "NOTIFIER_ACTUALISATION"
  BY <1>8 DEF regle, Regles, NotifierActualisation, Regle, SurCommande
<1>9. CASE type = "NOUVELLES_OFFRES_SERVICE_CIVIQUE"
  BY <1>9 DEF regle, Regles, OffresServiceCivique, Regle, SurCommande
<1>10. CASE type = "NOUVELLES_OFFRES_EMPLOI"
  BY <1>10 DEF regle, Regles, OffresEmploi, Regle, SurCommande
<1>11. CASE type = "RECUPERER_SITUATIONS_JEUNES_MILO"
  BY <1>11 DEF regle, Regles, SituationsMilo, Regle, SurCommande
<1>12. CASE type = "NOTIFIER_RENDEZVOUS_PE"
  BY <1>12 DEF regle, Regles, RendezVousPoleEmploi, Regle, SurCommande
<1> QED BY <1>1, <1>2, <1>3, <1>4, <1>5, <1>6, <1>7, <1>8, <1>9, <1>10, <1>11, <1>12

LEMMA SelectionFinie ==
  ASSUME TypeOK, NEW lot
  PROVE  /\ population \subseteq Nat /\ IsFiniteSet(population)
         /\ Selection(lot) \subseteq population
         /\ Selection(lot) \subseteq Nat /\ IsFiniteSet(Selection(lot))
<1>1. population \in SUBSET Ids /\ Ids \subseteq Nat /\ IsFiniteSet(Ids)
  BY FS_CardinalityType, ConstantsAssumption DEF TypeOK
<1>2. IsFiniteSet(population)
  BY <1>1, FS_Subset
<1>3. Selection(lot) \in SUBSET population
  BY DEF Selection
<1>4. IsFiniteSet(Selection(lot))
  BY <1>2, <1>3, FS_Subset
<1> QED BY <1>1, <1>2, <1>3, <1>4

LEMMA PageRangs ==
  ASSUME NEW lot, NEW o \in Nat, NEW b \in Nat
  PROVE  Page(lot, o, b) = PageDans(Selection(lot), o, b)
BY DEF Page, PageDans, RangDans

LEMMA RangNombre ==
  ASSUME TypeOK, NEW i \in population
  PROVE  /\ Rang(i) \in Nat /\ Rang(i) = RangDans(population, i)
         /\ Rang(i) < Cardinality(population)
         /\ Cardinality(population) \in Nat /\ Cardinality(Ids) \in Nat
         /\ Cardinality(population) <= Cardinality(Ids)
<1>1. population \subseteq Nat /\ IsFiniteSet(population)
  BY SelectionFinie
<1>2. /\ RangDans(population, i) \in Nat
      /\ RangDans(population, i) < Cardinality(population)
  BY <1>1, RangCroit, RangStrict
<1>3. /\ Cardinality(population) \in Nat /\ Cardinality(Ids) \in Nat
      /\ Cardinality(population) <= Cardinality(Ids)
  BY FS_Subset, FS_CardinalityType, ConstantsAssumption DEF TypeOK
<1> QED BY <1>2, <1>3 DEF Rang, RangDans

LEMMA MinEgal ==
  ASSUME NEW n \in Nat, NEW m \in Nat
  PROVE  Min({n, m}) \in Nat /\ Min({n, m}) = IF n <= m THEN n ELSE m
<1> DEFINE S == {n, m}
<1>1. CASE n =< m
  <2>1. \A x \in S : (\A y \in S : x =< y) => x = n
    BY <1>1
  <2>2. n \in S /\ \A y \in S : n =< y
    BY <1>1
  <2>3. Min(S) \in S /\ \A y \in S : Min(S) =< y
    BY <2>2 DEF Min
  <2> QED BY <1>1, <2>1, <2>3
<1>2. CASE ~(n =< m)
  <2>1. \A x \in S : (\A y \in S : x =< y) => x = m
    BY <1>2
  <2>2. m \in S /\ \A y \in S : m =< y
    BY <1>2
  <2>3. Min(S) \in S /\ \A y \in S : Min(S) =< y
    BY <2>2 DEF Min
  <2> QED BY <1>2, <2>1, <2>3
<1> QED BY <1>1, <1>2

(* What treating some of a page changes                                     *)
LEMMA TraiterEffet ==
  ASSUME TypeOK, NEW lot \in 1 .. MaxLots, NEW ids, TraiterPage(lot, ids)
  PROVE  /\ \A l \in 1 .. MaxLots \ {lot} : traites'[l] = traites[l]
         /\ \A i \in Ids : /\ traites[lot][i] \in 0 .. 2 /\ traites'[lot][i] \in 0 .. 2
                           /\ i \notin ids => traites'[lot][i] = traites[lot][i]
                           /\ i \in ids => /\ traites'[lot][i] > 0
                                           /\ traites[lot][i] = 0 => traites'[lot][i] = 1
<1>1. traites \in [1 .. MaxLots -> [Ids -> 0 .. 2]]
  BY DEF TypeOK
<1>2. traites' = [traites EXCEPT ![lot] =
        [i \in Ids |-> IF i \in ids THEN Min({traites[lot][i] + 1, 2})
                                    ELSE traites[lot][i]]]
  BY DEF TraiterPage
<1>3. ASSUME NEW i \in Ids
      PROVE  /\ traites[lot][i] \in 0 .. 2
             /\ traites'[lot][i] = IF i \in ids THEN Min({traites[lot][i] + 1, 2})
                                                ELSE traites[lot][i]
  BY <1>1, <1>2
<1>4. ASSUME NEW n \in 0 .. 2
      PROVE  Min({n + 1, 2}) \in 1 .. 2 /\ (n = 0 => Min({n + 1, 2}) = 1)
  <2>1. n + 1 \in Nat /\ 2 \in Nat
    OBVIOUS
  <2>2. Min({n + 1, 2}) = IF n + 1 <= 2 THEN n + 1 ELSE 2
    BY <2>1, MinEgal
  <2> QED BY <2>1, <2>2
<1>5. ASSUME NEW i \in Ids
      PROVE  /\ traites'[lot][i] \in 0 .. 2
             /\ i \notin ids => traites'[lot][i] = traites[lot][i]
             /\ i \in ids => /\ traites'[lot][i] > 0
                             /\ traites[lot][i] = 0 => traites'[lot][i] = 1
  <2> DEFINE n == traites[lot][i]
             m == Min({n + 1, 2})
  <2>1. n \in 0 .. 2 /\ traites'[lot][i] = IF i \in ids THEN m ELSE n
    BY <1>3
  <2>2. m \in 1 .. 2 /\ (n = 0 => m = 1)
    BY <2>1, <1>4
  <2> HIDE DEF n, m
  <2>3. /\ traites'[lot][i] \in 0 .. 2
        /\ i \notin ids => traites'[lot][i] = n
        /\ i \in ids => traites'[lot][i] > 0 /\ (n = 0 => traites'[lot][i] = 1)
    BY <2>1, <2>2
  <2> QED BY <2>3 DEF n
<1>6. \A l \in 1 .. MaxLots \ {lot} : traites'[l] = traites[l]
  BY <1>1, <1>2
<1> QED BY <1>3, <1>5, <1>6

(* Rank in a population that only lost people                               *)
LEMMA RangBaisse ==
  ASSUME TypeOK, population' \subseteq population, NEW i \in population'
  PROVE  /\ i \in population
         /\ Rang(i) \in Nat /\ Rang(i)' \in Nat /\ Rang(i)' <= Rang(i)
<1>1. /\ population' \subseteq Nat /\ IsFiniteSet(population)
  BY SelectionFinie
<1>2. /\ RangDans(population', i) \in Nat /\ RangDans(population, i) \in Nat
      /\ RangDans(population', i) <= RangDans(population, i)
  BY <1>1, RangCroit
<1> QED BY <1>2 DEF Rang, RangDans

(* Steps that leave the lot alone, or take people away                      *)
LEMMA SeulAilleurs ==
  ASSUME TypeOK, NEW l \in 1 .. MaxLots, InvSeul(l),
         type' = type, population' \subseteq population, traites'[l] = traites[l],
         DoublePossible(l) => DoublePossible(l)',
         \A j \in jobs' : j.lot = l => j \in jobs,
         l > lots' => l > lots
  PROVE  InvSeul(l)'
<1> SUFFICES ASSUME ~DoublePossible(l)
             PROVE  InvSeul(l)'
  BY DEF InvSeul
<1>1. /\ \A i \in Ids : traites[l][i] <= 1
      /\ \A j \in jobs : j.lot = l => InvJobSeul(j)
      /\ \A j, k \in jobs : (j.lot = l /\ k.lot = l) => j = k
      /\ l > lots => \A i \in Ids : traites[l][i] = 0
  BY DEF InvSeul
<1>2. ASSUME NEW j \in jobs', j.lot = l
      PROVE  InvJobSeul(j)'
  <2>1. j \in jobs /\ InvJobSeul(j) /\ j \in Job /\ j.courant \in Contenu
    BY <1>1, <1>2 DEF TypeOK, TypeJob, Job
  <2>2. j.courant.offset \in Nat /\ j.courant.batch \in Nat /\ Borne(j) \in Nat
    BY <2>1 DEF Contenu, Borne
  <2>3. regle' = regle
    BY DEF regle
  <2>4. ASSUME ~regle.consomme, NEW i \in j.page \cap population'
        PROVE  Rang(i)' < j.courant.offset + j.courant.batch
    BY <2>1, <2>2, <2>4, RangBaisse DEF InvJobSeul
  <2>5. ASSUME ~regle.consomme, NEW i \in population', traites'[j.lot][i] > 0
        PROVE  Rang(i)' < Borne(j)
    BY <1>2, <2>1, <2>2, <2>5, RangBaisse DEF InvJobSeul
  <2> QED BY <1>2, <2>1, <2>3, <2>4, <2>5 DEF InvJobSeul, Borne
<1> QED BY <1>1, <1>2 DEF InvSeul

(* A lot without a job                                                      *)
LEMMA SeulSansJob ==
  ASSUME NEW l, InvSeul(l), traites'[l] = traites[l],
         DoublePossible(l) => DoublePossible(l)',
         \A j \in jobs' : j.lot # l,
         l > lots' => l > lots
  PROVE  InvSeul(l)'
BY DEF InvSeul

(* A step of the job of the lot                                             *)
Unique(js) == \A k, m \in js : k = m

LEMMA SeulSuit ==
  ASSUME NEW j \in jobs, InvSeul(j.lot), lots' = lots, j.lot <= lots,
         j.lot \in Nat, lots \in Nat,
         DoublePossible(j.lot) => DoublePossible(j.lot)',
         NEW js, jobs' = (jobs \ {j}) \cup js, Unique(js),
         ~DoublePossible(j.lot) => /\ \A i \in Ids : traites'[j.lot][i] <= 1
                                   /\ \A k \in js : InvJobSeul(k)'
  PROVE  InvSeul(j.lot)'
<1> DEFINE l == j.lot
<1> SUFFICES ASSUME ~DoublePossible(l) PROVE InvSeul(l)'
  BY DEF InvSeul
<1>1. \A k \in jobs : k.lot = l => k = j
  BY DEF InvSeul
<1>2. \A k \in jobs' : k.lot = l => k \in js
  BY <1>1
<1>3. ~(l > lots')
  OBVIOUS
<1> QED BY <1>2, <1>3 DEF InvSeul, Unique

(* What InvSeul says of the job of an undisturbed lot                       *)
LEMMA SeulJob ==
  ASSUME TypeOK, NEW j \in jobs, InvSeul(j.lot), ~DoublePossible(j.lot)
  PROVE  /\ InvJobSeul(j) /\ j \in Job
         /\ j.courant \in Contenu /\ j.contenu \in Contenu
         /\ j.courant.offset \in Nat /\ j.courant.batch \in Nat
         /\ j.lot \in 1 .. MaxLots
         /\ \A i \in Ids : traites[j.lot][i] \in 0 .. 1
         /\ population \subseteq Ids
<1>1. /\ j \in Job /\ j.courant \in Contenu /\ j.contenu \in Contenu
      /\ j.lot \in 1 .. MaxLots /\ population \subseteq Ids
  BY DEF TypeOK, TypeJob, Job
<1>2. \A i \in Ids : traites[j.lot][i] \in 0 .. 2
  BY <1>1 DEF TypeOK
<1>3. \A i \in Ids : traites[j.lot][i] \in 0 .. 1
  BY <1>2 DEF InvSeul
<1> QED BY <1>1, <1>3 DEF InvSeul, Contenu

(* The steps that neither treat anybody nor end a page                      *)
LEMMA SeulDemarrer ==
  ASSUME TypeOK, NEW j \in jobs, InvSeul(j.lot), ~DoublePossible(j.lot), Demarrer(j)
  PROVE  \E k : jobs' = (jobs \ {j}) \cup {k} /\ InvJobSeul(k)'
<1>1. /\ InvJobSeul(j) /\ j \in Job /\ j.courant \in Contenu /\ j.etape = "attente"
  BY SeulJob DEF Demarrer
<1>2. UNCHANGED <<type, population, traites>>
  BY DEF Demarrer
<1>3. \E k : /\ jobs' = (jobs \ {j}) \cup {k}
             /\ k.lot = j.lot /\ k.reprises = j.reprises /\ k.page = j.page
             /\ k.etape = "compte" /\ k.courant.offset = j.courant.offset
  <2>1. CASE regle.arret = "total"
    <3> DEFINE total == IF j.courant.total = 0 THEN Cardinality(population)
                                               ELSE j.courant.total
               b == TailleDuBatch(j.courant.batch, total)
               c == [j.courant EXCEPT !.total = total, !.batch = b]
               k == [j EXCEPT !.etape = "compte", !.courant = c]
    <3>1. jobs' = (jobs \ {j}) \cup {k}
      BY <1>1, <2>1 DEF Demarrer, Compter, Job, Contenu
    <3>2. c.offset = j.courant.offset
      BY <1>1 DEF Contenu
    <3> HIDE DEF c
    <3>3. /\ k.lot = j.lot /\ k.reprises = j.reprises /\ k.page = j.page
          /\ k.etape = "compte" /\ k.courant.offset = j.courant.offset
      BY <1>1, <3>2 DEF Job
    <3> QED BY <3>1, <3>3
  <2>2. CASE regle.arret # "total"
    <3> DEFINE k == [j EXCEPT !.etape = "compte"]
    <3>1. jobs' = (jobs \ {j}) \cup {k}
      BY <2>2 DEF Demarrer, Avancer
    <3>2. /\ k.lot = j.lot /\ k.reprises = j.reprises /\ k.page = j.page
          /\ k.etape = "compte" /\ k.courant.offset = j.courant.offset
      BY <1>1 DEF Job
    <3> QED BY <3>1, <3>2
  <2> QED BY <2>1, <2>2
<1>4. PICK k : /\ jobs' = (jobs \ {j}) \cup {k}
               /\ k.lot = j.lot /\ k.reprises = j.reprises /\ k.page = j.page
               /\ k.etape = "compte" /\ k.courant.offset = j.courant.offset
  BY <1>3
<1>5. InvJobSeul(k)'
  BY <1>1, <1>2, <1>4 DEF InvJobSeul, Borne, Rang, regle
<1> QED BY <1>4, <1>5

(* Those of the page that is read are not treated yet.                      *)
LEMMA SeulLirePage ==
  ASSUME TypeOK, NEW j \in jobs, InvSeul(j.lot), ~DoublePossible(j.lot), LirePage(j)
  PROVE  \E k : jobs' = (jobs \ {j}) \cup {k} /\ InvJobSeul(k)'
<1> DEFINE page == Page(j.lot, j.courant.offset, j.courant.batch)
           nb == IF regle.arret = "total" THEN j.courant.nb + Cardinality(page)
                                          ELSE 0
           c == [j.courant EXCEPT !.nb = nb]
           k == [j EXCEPT !.etape = "page", !.page = page,
                          !.taille = Cardinality(page), !.courant = c]
<1>1. /\ InvJobSeul(j) /\ j \in Job /\ j.courant \in Contenu
      /\ j.courant.offset \in Nat /\ j.courant.batch \in Nat
      /\ \A i \in Ids : traites[j.lot][i] \in 0 .. 1
      /\ population \subseteq Ids
  BY SeulJob
<1>2. UNCHANGED <<type, population, traites>> /\ j.etape = "compte"
  BY DEF LirePage
<1>3. jobs' = (jobs \ {j}) \cup {k}
  BY <1>1 DEF LirePage, Job, Contenu
<1>4. /\ c.offset = j.courant.offset /\ c.batch = j.courant.batch
  BY <1>1 DEF Contenu
<1>5. ASSUME NEW i \in page
      PROVE  /\ i \in population
             /\ regle.consomme => traites[j.lot][i] = 0
             /\ ~regle.consomme => /\ Rang(i) >= j.courant.offset
                                   /\ Rang(i) < j.courant.offset + j.courant.batch
  BY <1>5 DEF Page, Selection, Rang
<1>6. ASSUME NEW i \in page
      PROVE  traites[j.lot][i] = 0
  <2>1. CASE regle.consomme
    BY <1>5, <2>1
  <2>2. CASE ~regle.consomme
    <3>1. /\ i \in population /\ i \in Ids /\ Rang(i) \in Nat
          /\ Rang(i) >= j.courant.offset
      BY <1>1, <1>5, <2>2, RangNombre
    <3>2. traites[j.lot][i] > 0 => Rang(i) < j.courant.offset
      BY <1>1, <1>2, <2>2, <3>1 DEF InvJobSeul, Borne
    <3> QED BY <1>1, <3>1, <3>2
  <2> QED BY <2>1, <2>2
<1> HIDE DEF c, page
<1>7. /\ k.lot = j.lot /\ k.reprises = j.reprises /\ k.page = page
      /\ k.etape = "page" /\ k.courant = c
  BY <1>1 DEF Job
<1> HIDE DEF k
<1>8. PICK q : /\ jobs' = (jobs \ {j}) \cup {q}
               /\ q.lot = j.lot /\ q.reprises = j.reprises /\ q.page = page
               /\ q.etape = "page"
               /\ q.courant.offset = j.courant.offset /\ q.courant.batch = j.courant.batch
  BY <1>3, <1>4, <1>7
<1>9. q.reprises = 0 /\ \A i \in q.page : traites'[q.lot][i] = 0
  BY <1>1, <1>2, <1>6, <1>8 DEF InvJobSeul
<1>10. ASSUME ~regle.consomme
       PROVE  /\ \A i \in q.page \cap population : Rang(i) < q.courant.offset + q.courant.batch
              /\ \A i \in population : traites[q.lot][i] > 0 => Rang(i) < Borne(q)
  BY <1>1, <1>2, <1>5, <1>8, <1>10 DEF InvJobSeul, Borne
<1>11. InvJobSeul(q)'
  BY <1>2, <1>8, <1>9, <1>10 DEF InvJobSeul, Borne, Rang, regle
<1> QED BY <1>8, <1>11

(* Treating some of the page, each for the first time                       *)
LEMMA SeulTraitement ==
  ASSUME TypeOK, NEW j \in jobs, InvSeul(j.lot), ~DoublePossible(j.lot),
         NEW ids \in SUBSET j.page, TraiterPage(j.lot, ids),
         UNCHANGED <<type, population>>
  PROVE  /\ \A i \in Ids : traites'[j.lot][i] <= 1
         /\ j.etape = "page" =>
              InvJobSeul([j EXCEPT !.etape = "bilan", !.page = {}])'
<1>1. /\ InvJobSeul(j) /\ j \in Job /\ j.lot \in 1 .. MaxLots
      /\ j.courant.offset \in Nat /\ j.courant.batch \in Nat
      /\ \A i \in Ids : traites[j.lot][i] \in 0 .. 1
      /\ population \subseteq Ids
  BY SeulJob
<1>2. \A i \in Ids : /\ i \notin ids => traites'[j.lot][i] = traites[j.lot][i]
                     /\ i \in ids => /\ traites'[j.lot][i] > 0
                                     /\ traites[j.lot][i] = 0 => traites'[j.lot][i] = 1
  BY <1>1, TraiterEffet
<1>3. \A i \in ids : traites[j.lot][i] = 0
  BY <1>1 DEF InvJobSeul
<1>4. \A i \in Ids : traites'[j.lot][i] <= 1
  BY <1>1, <1>2, <1>3
<1>5. ASSUME j.etape = "page"
      PROVE  InvJobSeul([j EXCEPT !.etape = "bilan", !.page = {}])'
  <2> DEFINE k == [j EXCEPT !.etape = "bilan", !.page = {}]
  <2>1. /\ k.lot = j.lot /\ k.reprises = j.reprises /\ k.page = {}
        /\ k.etape = "bilan" /\ k.courant = j.courant
    BY <1>1 DEF Job
  <2> HIDE DEF k
  <2>2. ASSUME ~regle.consomme, NEW i \in population, traites'[j.lot][i] > 0
        PROVE  Rang(i) < j.courant.offset + j.courant.batch
    <3>1. i \in Ids /\ Rang(i) \in Nat
      BY <1>1, RangNombre
    <3>2. CASE i \in ids
      BY <1>1, <2>2, <3>2 DEF InvJobSeul
    <3>3. CASE i \notin ids
      <4>1. Rang(i) < Borne(j)
        BY <1>1, <1>2, <2>2, <3>1, <3>3 DEF InvJobSeul
      <4> QED BY <1>1, <1>5, <3>1, <4>1 DEF Borne
    <3> QED BY <3>2, <3>3
  <2>3. InvJobSeul(k)'
    BY <1>1, <2>1, <2>2 DEF InvJobSeul, Borne, Rang, regle
  <2> QED BY <2>3 DEF k
<1> QED BY <1>4, <1>5

(* The next page                                                            *)
LEMMA SeulSuivant ==
  ASSUME TypeOK, NEW j \in jobs, InvSeul(j.lot), ~DoublePossible(j.lot),
         j.etape = "bilan", UNCHANGED <<type, population, traites>>,
         NEW k, k.lot = j.lot, k.reprises = 0, k.page = {},
         k.etape \in {"attente", "compte"}, k.courant = Suivant(j.courant),
         k.etape = "attente" => k.contenu = k.courant
  PROVE  InvJobSeul(k)'
<1>1. /\ InvJobSeul(j) /\ j \in Job /\ j.courant \in Contenu
      /\ j.courant.offset \in Nat /\ j.courant.batch \in Nat
  BY SeulJob
<1>2. ASSUME ~regle.consomme, NEW i \in population, traites[j.lot][i] > 0
      PROVE  Rang(i) < Borne(k)
  <2> DEFINE n == j.courant.offset + j.courant.batch
             m == Cardinality(Ids)
  <2>1. regle.decale
    BY <1>2, RegleForme DEF TypeOK
  <2>2. Rang(i) \in Nat /\ Rang(i) < n /\ Rang(i) < m /\ m \in Nat /\ n \in Nat
    <3>1. /\ Rang(i) \in Nat /\ m \in Nat
          /\ Rang(i) < Cardinality(population) /\ Cardinality(population) \in Nat
          /\ Cardinality(population) <= m
      BY RangNombre
    <3>2. Rang(i) < n
      BY <1>1, <1>2 DEF InvJobSeul, Borne
    <3> QED BY <1>1, <3>1, <3>2
  <2>3. Min({n, m}) = IF n <= m THEN n ELSE m
    BY <2>2, MinEgal
  <2>4. Rang(i) < Min({n, m})
    BY <2>2, <2>3
  <2>5. k.courant.offset = Min({n, m})
    BY <1>1, <2>1 DEF Suivant, OffsetSuivant, Contenu
  <2> QED BY <2>4, <2>5 DEF Borne
<1> QED BY <1>2 DEF InvJobSeul, Borne, Rang, regle

LEMMA SeulEnchainer ==
  ASSUME TypeOK, NEW j \in jobs, InvSeul(j.lot), ~DoublePossible(j.lot), Enchainer(j),
         NEW k \in Suites(j, j.id)
  PROVE  InvJobSeul(k)'
<1>1. /\ InvJobSeul(j) /\ j \in Job
  BY SeulJob
<1>2. UNCHANGED <<type, population, traites>> /\ Planifie(j)
  BY DEF Enchainer
<1>3. CASE Fermee(j)
  <2>1. k = NouveauJob(j.id, j.lot, j.contenu) /\ j.etape = "attente"
    BY <1>3 DEF Suites, Fermee
  <2>2. /\ k.lot = j.lot /\ k.reprises = 0 /\ k.page = {} /\ k.etape = "attente"
        /\ k.courant = j.courant /\ k.contenu = j.courant
    BY <1>1, <2>1 DEF NouveauJob, InvJobSeul
  <2> QED BY <1>1, <1>2, <2>1, <2>2 DEF InvJobSeul, Borne, Rang, regle
<1>4. CASE ~Fermee(j)
  <2>1. k = NouveauJob(j.id, j.lot, Suivant(j.courant)) /\ j.etape = "bilan"
    BY <1>2, <1>4 DEF Suites, Planifie
  <2>2. /\ k.lot = j.lot /\ k.reprises = 0 /\ k.page = {} /\ k.etape = "attente"
        /\ k.courant = Suivant(j.courant) /\ k.contenu = Suivant(j.courant)
    BY <2>1 DEF NouveauJob
  <2> QED BY <1>2, <2>1, <2>2, SeulSuivant
<1> QED BY <1>3, <1>4

(* What a launch adds                                                       *)
Lancement(id, b) ==
  /\ jobs' = jobs \cup {NouveauJob(id, lots + 1, Debut(b))}
  /\ lots' = lots + 1 /\ lots + 1 \in 1 .. MaxLots
  /\ attendus' = [attendus EXCEPT ![lots + 1] = population]
  /\ b \in Nat /\ (~SurCommande => b = Pagination)
  /\ UNCHANGED <<type, population, traites, perturbes>>

LEMMA LancementFait ==
  ASSUME TypeOK, Programmer \/ (\E o \in Ops : Ajouter(o))
  PROVE  \E id, b : Lancement(id, b)
<1>1. CASE Programmer
  <2>1. lots + 1 \in 1 .. MaxLots
    BY <1>1, ConstantsAssumption DEF Programmer
  <2>2. Lancement(NouvelId, Pagination)
    BY <1>1, <2>1, ConstantsAssumption DEF Programmer, Lancer, Lancement
  <2> QED BY <2>2
<1>2. CASE \E o \in Ops : Ajouter(o)
  <2>1. PICK o \in Ops : Ajouter(o)
    BY <1>2
  <2>2. PICK b \in BatchsDemandes : Lancer(Debut(b))
    BY <2>1 DEF Ajouter
  <2>3. o \in commandes /\ Cardinality(commandes) \in Nat /\ SurCommande
    BY <2>1, CommandesFinies DEF Ajouter, TypeOK
  <2>4. Cardinality(commandes) # 0
    BY <2>3, CommandesFinies, FS_EmptySet DEF TypeOK
  <2>5. lots + 1 \in 1 .. MaxLots
    BY <2>3, <2>4, ConstantsAssumption DEF TypeOK
  <2>6. b \in Nat
    BY ConstantsAssumption
  <2>7. Lancement(NouvelId, b)
    BY <2>1, <2>2, <2>3, <2>5, <2>6 DEF Ajouter, Lancer, Lancement
  <2> QED BY <2>7
<1> QED BY <1>1, <1>2

LEMMA SeulLancer ==
  ASSUME TypeOK, NEW l \in 1 .. MaxLots, InvSeul(l), NEW id, NEW b, Lancement(id, b)
  PROVE  InvSeul(l)'
<1>1. DoublePossible(l)' <=> DoublePossible(l)
  BY DEF Lancement, DoublePossible
<1>2. CASE l # lots + 1
  <2>1. \A j \in jobs' : j.lot = l => j \in jobs
    BY <1>2 DEF Lancement, NouveauJob
  <2>2. l > lots' => l > lots
    BY DEF Lancement, TypeOK
  <2> QED BY <1>1, <2>1, <2>2, SeulAilleurs DEF Lancement
<1>3. CASE l = lots + 1
  <2> SUFFICES ASSUME ~DoublePossible(l) PROVE InvSeul(l)'
    BY <1>1 DEF InvSeul
  <2> DEFINE n == NouveauJob(id, l, Debut(b))
  <2>1. /\ n.lot = l /\ n.reprises = 0 /\ n.etape = "attente" /\ n.page = {}
        /\ n.courant = n.contenu
    BY DEF NouveauJob
  <2>2. \A j \in jobs : j.lot # l
    BY <1>3 DEF TypeOK, TypeJob, Job
  <2>3. jobs' = jobs \cup {n}
    BY <1>3 DEF Lancement
  <2>4. PICK q : /\ jobs' = jobs \cup {q}
                 /\ q.lot = l /\ q.reprises = 0 /\ q.etape = "attente" /\ q.page = {}
                 /\ q.courant = q.contenu
    BY <2>1, <2>3
  <2>5. \A i \in Ids : traites[l][i] = 0
    BY <1>3 DEF InvSeul, TypeOK
  <2>6. UNCHANGED <<type, population, traites>> /\ population \subseteq Ids
    BY DEF Lancement, TypeOK
  <2>7. InvJobSeul(q)'
    BY <2>4, <2>5, <2>6 DEF InvJobSeul
  <2>8. \A j \in jobs' : j.lot = l => j = q
    BY <2>2, <2>4
  <2> QED BY <2>5, <2>6, <2>7, <2>8 DEF InvSeul
<1> QED BY <1>2, <1>3

(* The steps of a job, on its own lot                                       *)
LEMMA SeulPropre ==
  ASSUME TypeOK, NEW j \in jobs, InvSeul(j.lot),
         Demarrer(j) \/ Executer(j) \/ Echec(j) \/ ArretWorker(j)
  PROVE  InvSeul(j.lot)'
<1>1. /\ j.lot \in 1 .. MaxLots /\ j.lot \in Nat /\ lots \in Nat /\ j.lot <= lots
      /\ j \in Job
  BY DEF TypeOK, TypeJob, Job
<1>2. lots' = lots /\ UNCHANGED <<type, population>>
  BY SuitJob DEF Suit
<1>3. perturbes[j.lot] \subseteq perturbes'[j.lot]
  BY <1>1, PerturbesJob
<1>4. DoublePossible(j.lot) => DoublePossible(j.lot)'
  BY <1>3 DEF DoublePossible
<1> SUFFICES ASSUME ~DoublePossible(j.lot), ~DoublePossible(j.lot)'
             PROVE  InvSeul(j.lot)'
  BY <1>4 DEF InvSeul
<1>5. /\ InvJobSeul(j) /\ \A i \in Ids : traites[j.lot][i] \in 0 .. 1
  BY SeulJob
<1>6. ASSUME NEW js, jobs' = (jobs \ {j}) \cup js, Unique(js),
             \A i \in Ids : traites'[j.lot][i] <= 1,
             \A k \in js : InvJobSeul(k)'
      PROVE  InvSeul(j.lot)'
  BY <1>1, <1>2, <1>4, <1>6, SeulSuit
<1>7. (UNCHANGED traites) => \A i \in Ids : traites'[j.lot][i] <= 1
  BY <1>5
<1>8. ASSUME UNCHANGED traites, NEW k, jobs' = (jobs \ {j}) \cup {k}, InvJobSeul(k)'
      PROVE  InvSeul(j.lot)'
  <2>1. Unique({k}) /\ \A q \in {k} : InvJobSeul(q)'
    BY <1>8 DEF Unique
  <2> QED BY <1>6, <1>7, <1>8, <2>1
<1>9. CASE Demarrer(j)
  <2>1. PICK k : jobs' = (jobs \ {j}) \cup {k} /\ InvJobSeul(k)'
    BY <1>9, SeulDemarrer
  <2> QED BY <1>8, <1>9, <2>1 DEF Demarrer
<1>10. CASE LirePage(j)
  <2>1. PICK k : jobs' = (jobs \ {j}) \cup {k} /\ InvJobSeul(k)'
    BY <1>10, SeulLirePage
  <2> QED BY <1>8, <1>10, <2>1 DEF LirePage
<1>11. CASE Traiter(j)
  <2> DEFINE k == [j EXCEPT !.etape = "bilan", !.page = {}]
  <2>1. j.etape = "page" /\ TraiterPage(j.lot, j.page) /\ jobs' = (jobs \ {j}) \cup {k}
    BY <1>11 DEF Traiter
  <2>2. (\A i \in Ids : traites'[j.lot][i] <= 1) /\ InvJobSeul(k)'
    BY <1>2, <2>1, SeulTraitement
  <2> HIDE DEF k
  <2>3. Unique({k}) /\ \A q \in {k} : InvJobSeul(q)'
    BY <2>2 DEF Unique
  <2> QED BY <1>6, <2>1, <2>2, <2>3
<1>12. CASE Enchainer(j)
  <2>1. \A k \in Suites(j, j.id) : InvJobSeul(k)'
    BY <1>12, SeulEnchainer
  <2>2. Unique(Suites(j, j.id))
    BY <1>1, SuitesType DEF Unique, Job
  <2> QED BY <1>6, <1>7, <1>12, <2>1, <2>2 DEF Enchainer
<1>13. CASE Boucler(j)
  <2> DEFINE c == Suivant(j.courant)
             k == [j EXCEPT !.etape = "compte", !.courant = c, !.taille = 0]
  <2>1. j.etape = "bilan" /\ jobs' = (jobs \ {j}) \cup {k} /\ UNCHANGED traites
    BY <1>1, <1>13 DEF Boucler, Job
  <2> HIDE DEF c
  <2>2. /\ k.lot = j.lot /\ k.reprises = 0 /\ k.page = {} /\ k.etape = "compte"
        /\ k.courant = c
    BY <1>1, <1>5, <2>1 DEF Job, InvJobSeul
  <2>3. PICK q : /\ jobs' = (jobs \ {j}) \cup {q}
                 /\ q.lot = j.lot /\ q.reprises = 0 /\ q.page = {} /\ q.etape = "compte"
                 /\ q.courant = Suivant(j.courant)
    BY <2>1, <2>2 DEF c
  <2>4. InvJobSeul(q)'
    BY <1>2, <2>1, <2>3, SeulSuivant
  <2> QED BY <1>8, <2>1, <2>3, <2>4
<1>14. CASE Echec(j)
  <2>1. PICK ids \in Entames(j) : TraiterPage(j.lot, ids)
    BY <1>14 DEF Echec
  <2>2. ids \in SUBSET j.page
    BY DEF Entames
  <2>3. /\ \A i \in Ids : traites'[j.lot][i] <= 1
        /\ j.etape = "page" => InvJobSeul([j EXCEPT !.etape = "bilan", !.page = {}])'
    BY <1>2, <2>1, <2>2, SeulTraitement
  <2>4. CASE jobs' = jobs \ {j}
    <3>1. jobs' = (jobs \ {j}) \cup {} /\ Unique({}) /\ \A k \in {} : InvJobSeul(k)'
      BY <2>4 DEF Unique
    <3> QED BY <1>6, <2>3, <3>1
  <2>5. CASE /\ j.etape = "page"
             /\ jobs' = (jobs \ {j}) \cup {[j EXCEPT !.etape = "bilan", !.page = {}]}
    <3> DEFINE k == [j EXCEPT !.etape = "bilan", !.page = {}]
    <3>1. jobs' = (jobs \ {j}) \cup {k} /\ InvJobSeul(k)'
      BY <2>3, <2>5
    <3> HIDE DEF k
    <3>2. Unique({k}) /\ \A q \in {k} : InvJobSeul(q)'
      BY <3>1 DEF Unique
    <3> QED BY <1>6, <2>3, <3>1, <3>2
  <2> QED BY <1>14, <2>4, <2>5 DEF Echec
<1>15. CASE ArretWorker(j)
  <2>1. Perturber({j.lot}, {"reprise"})
    BY <1>5, <1>15 DEF ArretWorker, InvJobSeul
  <2>2. "reprise" \in perturbes'[j.lot]
    BY <1>1, <2>1 DEF Perturber
  <2> QED BY <2>2 DEF DoublePossible
<1> QED BY <1>9, <1>10, <1>11, <1>12, <1>13, <1>14, <1>15 DEF Executer

(* ... and on the others                                                    *)
LEMMA SeulJobs ==
  ASSUME TypeOK, NEW j \in jobs, NEW l \in 1 .. MaxLots, InvSeul(l),
         Demarrer(j) \/ Executer(j) \/ Echec(j) \/ ArretWorker(j)
  PROVE  InvSeul(l)'
<1>1. CASE l = j.lot
  BY <1>1, SeulPropre
<1>2. CASE l # j.lot
  <2>1. PICK js : Remplace(j, js)
    BY SuitJob DEF Suit
  <2>2. \A k \in jobs' : k.lot = l => k \in jobs
    BY <1>2, <2>1 DEF Remplace
  <2>3. lots' = lots /\ type' = type /\ population' = population
    BY SuitJob DEF Suit
  <2>4. perturbes[l] \subseteq perturbes'[l]
    BY PerturbesJob
  <2>5. traites'[l] = traites[l]
    <3>1. j.lot \in 1 .. MaxLots
      BY DEF TypeOK, TypeJob, Job
    <3>2. ASSUME NEW ids, TraiterPage(j.lot, ids)
          PROVE  traites'[l] = traites[l]
      BY <1>2, <3>1, <3>2, TraiterEffet
    <3> QED BY <3>2
      DEF Demarrer, Executer, LirePage, Traiter, Enchainer, Boucler, Echec, ArretWorker
  <2>6. DoublePossible(l) => DoublePossible(l)'
    BY <2>4 DEF DoublePossible
  <2> QED BY <2>2, <2>3, <2>5, <2>6, SeulAilleurs
<1> QED BY <1>1, <1>2

LEMMA SeulMouvement ==
  ASSUME TypeOK, NEW l \in 1 .. MaxLots, InvSeul(l), NEW i \in Ids, Entrer(i) \/ Sortir(i)
  PROVE  InvSeul(l)'
<1>1. CASE Entrer(i)
  <2>1. jobs' = jobs /\ lots' = lots /\ traites' = traites /\ Perturber(EnCours, {"entree"})
    BY <1>1 DEF Entrer
  <2>2. CASE l \in EnCours
    <3>1. "entree" \in perturbes'[l]
      BY <2>1, <2>2 DEF Perturber
    <3> QED BY <3>1 DEF InvSeul, DoublePossible
  <2>3. CASE l \notin EnCours
    <3>1. perturbes'[l] = perturbes[l] /\ \A j \in jobs' : j.lot # l
      BY <2>1, <2>3 DEF Perturber, EnCours
    <3> QED BY <2>1, <3>1, SeulSansJob DEF DoublePossible
  <2> QED BY <2>2, <2>3
<1>2. CASE Sortir(i)
  <2>1. /\ jobs' = jobs /\ lots' = lots /\ traites' = traites /\ type' = type
        /\ population' \subseteq population
    BY <1>2 DEF Sortir
  <2>2. perturbes[l] \subseteq perturbes'[l]
    BY <1>2 DEF Sortir, Perturber
  <2> QED BY <2>1, <2>2, SeulAilleurs DEF DoublePossible
<1> QED BY <1>1, <1>2

LEMMA SeulAutres ==
  ASSUME TypeOK, NEW l \in 1 .. MaxLots, InvSeul(l),
         (\E o \in Ops : Verifier(o)) \/ Ouvrir \/ Fermer \/ UNCHANGED vars
  PROVE  InvSeul(l)'
<1>1. UNCHANGED <<type, population, traites, jobs, lots>>
  BY DEF Verifier, Ouvrir, Fermer, vars
<1>2. perturbes[l] \subseteq perturbes'[l]
  BY DEF Verifier, Ouvrir, Fermer, vars, Perturber
<1> QED BY <1>1, <1>2, SeulAilleurs DEF DoublePossible

LEMMA SeulNext == TypeOK /\ InvSeuls /\ [Next]_vars => InvSeuls'
<1> SUFFICES ASSUME TypeOK, InvSeuls, [Next]_vars, NEW l \in 1 .. MaxLots
             PROVE  InvSeul(l)'
  BY DEF InvSeuls
<1>1. InvSeul(l)
  BY DEF InvSeuls
<1>2. CASE Programmer \/ (\E o \in Ops : Ajouter(o))
  BY <1>1, <1>2, LancementFait, SeulLancer
<1>3. CASE \E j \in jobs : Demarrer(j) \/ Executer(j) \/ Echec(j) \/ ArretWorker(j)
  BY <1>1, <1>3, SeulJobs
<1>4. CASE \E i \in Ids : Entrer(i) \/ Sortir(i)
  BY <1>1, <1>4, SeulMouvement
<1>5. CASE (\E o \in Ops : Verifier(o)) \/ Ouvrir \/ Fermer \/ UNCHANGED vars
  BY <1>1, <1>5, SeulAutres
<1> QED BY <1>2, <1>3, <1>4, <1>5 DEF Next

(* Whatever the sizes of the pages, the people and the failures, a lot      *)
(* treats the same person twice only when somebody came while it went on,   *)
(* or when a worker stopped and Bull gave its job back.                     *)
THEOREM DoublonsToujoursExpliques == Spec => []DoublonsExpliques
<1>1. Init => InvSeuls
  BY DEF Init, InvSeuls, InvSeul
<1>2. TypeOK /\ InvSeuls => DoublonsExpliques
  <2> SUFFICES ASSUME TypeOK, InvSeuls, NEW l \in 1 .. lots, NEW i \in Ids,
                      traites[l][i] > 1, ~DoublePossible(l)
               PROVE  FALSE
    BY DEF DoublonsExpliques, DoublePossible
  <2>1. Cardinality(commandes) \in Nat
    BY CommandesFinies DEF TypeOK
  <2>2. l \in 1 .. MaxLots
    BY <2>1, ConstantsAssumption DEF TypeOK
  <2>3. traites[l][i] <= 1 /\ traites[l][i] \in 0 .. 2
    BY <2>2 DEF InvSeuls, InvSeul, TypeOK
  <2> QED BY <2>3
<1>3. TypeOK /\ InvSeuls /\ [Next]_vars => TypeOK' /\ InvSeuls'
  BY TypeNext, SeulNext
<1> QED BY <1>1, <1>2, <1>3, TypeInit, PTL DEF Spec

-----------------------------------------------------------------------------
(* Nobody forgotten                                                         *)

OubliPossible(l) ==
  perturbes[l] \cap ({"sortie", "echec", "saut"} \cup
                     IF regle.arret = "total" THEN {"entree"} ELSE {}) # {}

(* Those a lot has still to treat                                           *)
Reste(l) == {i \in attendus[l] : traites[l][i] = 0}

Plafond(n, m) == IF n <= m THEN n ELSE m
Effectif == Cardinality(population)

(* What a job carries is not beyond those that wait; the lot that stops on  *)
(* a total carries it, and how many there are before the page.              *)
InvContenu(l, c) ==
  /\ ~regle.consomme => \A i \in Reste(l) : Rang(i) >= c.offset
  /\ regle.arret # "total" => c.batch > 0
  /\ regle.arret = "total" =>
       c.total \in {0, Effectif} /\ c.nb = Plafond(c.offset, Effectif)

(* Once the page is read, those that wait are in it or after it, and in it  *)
(* when it is the last.                                                     *)
InvPage(j) ==
  LET fin == j.courant.offset + j.courant.batch
  IN /\ ~regle.consomme => \A i \in Reste(j.lot) \ j.page : Rang(i) >= fin
     /\ regle.arret = "total" => j.courant.nb = Plafond(fin, Effectif)
     /\ Termine(j) => Reste(j.lot) \subseteq j.page

InvJobPage(j) ==
  /\ InvContenu(j.lot, j.contenu)
  /\ j.etape = "attente" => j.courant = j.contenu
  /\ j.etape # "attente" => j.courant.batch > 0
  /\ (j.etape # "attente" /\ regle.arret = "total") => j.courant.total = Effectif
  /\ j.etape = "compte" => InvContenu(j.lot, j.courant)
  /\ j.etape \in {"page", "bilan"} => InvPage(j)
  /\ j.etape # "page" => j.page = {}

(* Those that a lot waits for are there as long as it goes on, and all were *)
(* treated when it ends.                                                    *)
InvReste(l) ==
  ~OubliPossible(l) =>
    /\ l \in EnCours => attendus[l] \subseteq population
    /\ (l \in EnCours /\ regle.arret = "total") => attendus[l] = population
    /\ l \in Termines => Reste(l) = {}
    /\ \A j \in jobs : j.lot = l => InvJobPage(j)

InvRestes == \A l \in 1 .. MaxLots : InvReste(l)

(* Rank in a population that only gained people                             *)
LEMMA RangMonte ==
  ASSUME TypeOK, TypeOK', population \subseteq population', NEW i \in population
  PROVE  Rang(i) \in Nat /\ Rang(i)' \in Nat /\ Rang(i) <= Rang(i)'
<1>1. population' \subseteq Ids /\ IsFiniteSet(Ids)
  BY ConstantsAssumption DEF TypeOK
<1>2. IsFiniteSet(population')
  BY <1>1, FS_Subset
<1>3. /\ RangDans(population, i) \in Nat /\ RangDans(population', i) \in Nat
      /\ RangDans(population, i) <= RangDans(population', i)
  BY <1>2, RangCroit
<1> QED BY <1>3 DEF Rang, RangDans

(* The fewer are left, the more InvJobPage holds; and people may come when  *)
(* the lot does not stop on a total.                                        *)
LEMMA PageReduite ==
  ASSUME TypeOK, TypeOK', NEW j \in jobs, InvJobPage(j),
         Reste(j.lot)' \subseteq Reste(j.lot), Reste(j.lot) \subseteq population,
         type' = type, population \subseteq population',
         regle.arret = "total" => population' = population
  PROVE  InvJobPage(j)' /\ InvContenu(j.lot, j.contenu)'
<1> DEFINE l == j.lot
<1>1. /\ regle' = regle /\ j \in Job /\ j.courant \in Contenu /\ j.contenu \in Contenu
      /\ j.courant.offset \in Nat /\ j.courant.batch \in Nat /\ j.contenu.offset \in Nat
  BY DEF regle, TypeOK, TypeJob, Job, Contenu
<1>2. regle.arret = "total" => Effectif' = Effectif
  BY DEF Effectif
<1>3. ASSUME NEW n \in Nat, NEW i \in Reste(l)', Rang(i) >= n
      PROVE  Rang(i)' >= n
  BY <1>3, RangMonte
<1>4. ASSUME NEW c \in Contenu, InvContenu(l, c)
      PROVE  InvContenu(l, c)'
  <2>1. c.offset \in Nat
    BY DEF Contenu
  <2>2. ASSUME ~regle.consomme, NEW i \in Reste(l)'
        PROVE  Rang(i)' >= c.offset
    BY <1>3, <1>4, <2>1, <2>2 DEF InvContenu
  <2> QED BY <1>1, <1>2, <1>4, <2>2 DEF InvContenu
<1>5. ASSUME InvPage(j)
      PROVE  InvPage(j)'
  <2> DEFINE fin == j.courant.offset + j.courant.batch
  <2>1. fin \in Nat
    BY <1>1
  <2>2. ASSUME ~regle.consomme, NEW i \in Reste(l)', i \notin j.page
        PROVE  Rang(i)' >= fin
    <3>1. Rang(i) >= fin
      BY <1>5, <2>2 DEF InvPage
    <3> QED BY <1>3, <2>1, <3>1
  <2>3. Termine(j)' <=> Termine(j)
    BY <1>1 DEF Termine
  <2> QED BY <1>1, <1>2, <1>5, <2>2, <2>3 DEF InvPage
<1>6. InvContenu(l, j.contenu)'
  BY <1>1, <1>4 DEF InvJobPage
<1>7. j.etape = "compte" => InvContenu(l, j.courant)'
  BY <1>1, <1>4 DEF InvJobPage
<1>8. j.etape \in {"page", "bilan"} => InvPage(j)'
  BY <1>5 DEF InvJobPage
<1> QED BY <1>1, <1>2, <1>6, <1>7, <1>8 DEF InvJobPage

(* Steps that leave the lot alone, or bring people                          *)
LEMMA ResteAilleurs ==
  ASSUME TypeOK, TypeOK', NEW l \in 1 .. MaxLots, InvReste(l),
         type' = type, population \subseteq population',
         (regle.arret = "total" /\ l \in EnCours) =>
           population' = population \/ OubliPossible(l)',
         traites'[l] = traites[l], attendus'[l] = attendus[l],
         OubliPossible(l) => OubliPossible(l)',
         \A j : j.lot = l => (j \in jobs' <=> j \in jobs),
         l <= lots' => l <= lots
  PROVE  InvReste(l)'
<1> SUFFICES ASSUME ~OubliPossible(l), ~OubliPossible(l)'
             PROVE  InvReste(l)'
  BY DEF InvReste
<1>1. Reste(l)' = Reste(l) /\ regle' = regle
  BY DEF Reste, regle
<1>2. l \in EnCours' <=> l \in EnCours
  BY DEF EnCours
<1>3. l \in EnCours => /\ attendus[l] \subseteq population'
                       /\ regle.arret = "total" => attendus'[l] = population'
  BY DEF InvReste
<1>4. l \in Termines' => Reste(l)' = {}
  BY <1>1, <1>2 DEF InvReste, Termines, TypeOK
<1>5. ASSUME NEW j \in jobs', j.lot = l
      PROVE  InvJobPage(j)'
  <2>1. j \in jobs /\ l \in EnCours
    BY <1>5 DEF EnCours
  <2>2. InvJobPage(j) /\ Reste(l) \subseteq population
    BY <1>5, <2>1 DEF InvReste, Reste
  <2>3. regle.arret = "total" => population' = population
    BY <2>1
  <2> QED BY <1>1, <1>5, <2>1, <2>2, <2>3, PageReduite
<1> QED BY <1>1, <1>2, <1>3, <1>4, <1>5 DEF InvReste

(* A lot without a job                                                      *)
LEMMA ResteSansJob ==
  ASSUME TypeOK, NEW l \in 1 .. MaxLots, InvReste(l),
         traites'[l] = traites[l], attendus'[l] = attendus[l],
         OubliPossible(l) => OubliPossible(l)',
         jobs' = jobs, l \notin EnCours, lots' = lots
  PROVE  InvReste(l)'
<1>1. Reste(l)' = Reste(l)
  BY DEF Reste
<1>2. l \notin EnCours' /\ (l \in Termines' <=> l \in Termines)
  BY DEF EnCours, Termines
<1>3. \A j \in jobs' : j.lot # l
  BY DEF EnCours
<1> QED BY <1>1, <1>2, <1>3 DEF InvReste

(* A step of a job of the lot                                               *)
LEMMA ResteSuit ==
  ASSUME TypeOK, TypeOK', NEW j \in jobs, InvReste(j.lot), ~OubliPossible(j.lot),
         lots' = lots, UNCHANGED <<type, population, attendus>>,
         Reste(j.lot)' \subseteq Reste(j.lot),
         NEW js, jobs' = (jobs \ {j}) \cup js,
         \A k \in js : k.lot = j.lot /\ InvJobPage(k)',
         js = {} => Reste(j.lot)' = {}
  PROVE  InvReste(j.lot)'
<1> DEFINE l == j.lot
<1>1. l \in EnCours /\ regle' = regle
  BY DEF EnCours, regle
<1>2. /\ attendus'[l] \subseteq population'
      /\ regle.arret = "total" => attendus'[l] = population'
      /\ Reste(l) \subseteq population
  BY <1>1 DEF InvReste, Reste
<1>3. ASSUME NEW k \in jobs', k.lot = l
      PROVE  InvJobPage(k)'
  <2>1. CASE k \in js
    BY <2>1
  <2>2. CASE k \in jobs
    <3>1. InvJobPage(k)
      BY <1>3, <2>2 DEF InvReste
    <3> QED BY <1>2, <1>3, <2>2, <3>1, PageReduite
  <2> QED BY <2>1, <2>2
<1>4. ASSUME l \in Termines'
      PROVE  Reste(l)' = {}
  <2>1. js = {}
    BY <1>4 DEF Termines, EnCours
  <2> QED BY <2>1
<1> QED BY <1>1, <1>2, <1>3, <1>4 DEF InvReste

(* What InvReste says of the jobs of an undisturbed lot                     *)
LEMMA ResteJob ==
  ASSUME TypeOK, NEW j \in jobs, InvReste(j.lot), ~OubliPossible(j.lot)
  PROVE  /\ InvJobPage(j) /\ j \in Job
         /\ j.courant \in Contenu /\ j.contenu \in Contenu
         /\ j.courant.offset \in Nat /\ j.courant.batch \in Nat /\ j.courant.nb \in Nat
         /\ j.courant.total \in Nat
         /\ j.lot \in 1 .. MaxLots
         /\ Reste(j.lot) \subseteq population /\ Effectif \in Nat
         /\ \A i \in Reste(j.lot) : /\ Rang(i) \in Nat /\ Rang(i) < Effectif
                                    /\ traites[j.lot][i] = 0
<1>1. /\ j \in Job /\ j.courant \in Contenu /\ j.contenu \in Contenu
      /\ j.lot \in 1 .. MaxLots
  BY DEF TypeOK, TypeJob, Job
<1>2. j.lot \in EnCours
  BY DEF EnCours
<1>3. InvJobPage(j) /\ Reste(j.lot) \subseteq population
  BY <1>2 DEF InvReste, Reste
<1>4. Effectif \in Nat
  BY PopulationFinie DEF Effectif, TypeOK
<1>5. \A i \in Reste(j.lot) : Rang(i) \in Nat /\ Rang(i) < Effectif
  BY <1>3, RangNombre DEF Effectif
<1> QED BY <1>1, <1>3, <1>4, <1>5 DEF Contenu, Reste

(* The page is full when somebody of the selection comes after it, and the  *)
(* number of those that come before its end is known.                       *)
LEMMA PageComplete ==
  ASSUME TypeOK, NEW lot, NEW o \in Nat, NEW b \in Nat
  PROVE  /\ (\E i \in Selection(lot) : RangDans(Selection(lot), i) >= o + b)
              => Cardinality(Page(lot, o, b)) = b
         /\ ~regle.consomme =>
              Plafond(o, Effectif) + Cardinality(Page(lot, o, b)) = Plafond(o + b, Effectif)
<1> DEFINE S == Selection(lot)
           n == Cardinality(S)
<1>1. S \subseteq Nat /\ IsFiniteSet(S)
  BY SelectionFinie
<1>2. Page(lot, o, b) = PageDans(S, o, b)
  BY PageRangs
<1>3. n \in Nat /\ \A i \in S : RangDans(S, i) \in Nat /\ RangDans(S, i) < n
  BY <1>1, FS_CardinalityType, RangCroit, RangStrict
<1>4. ASSUME NEW i \in S, RangDans(S, i) >= o + b
      PROVE  Cardinality(Page(lot, o, b)) = b
  <2> DEFINE h == o + b
  <2>1. h \in Nat /\ o <= h /\ h <= o + b /\ h <= n /\ h - o = b
    BY <1>3, <1>4
  <2>2. \A k \in S : RangDans(S, k) < o + b => RangDans(S, k) < h
    OBVIOUS
  <2> HIDE DEF h, S
  <2>3. Cardinality(PageDans(S, o, b)) = h - o
    BY <1>1, <2>1, <2>2, PagePleine
  <2> QED BY <1>2, <2>1, <2>3
<1>5. ASSUME ~regle.consomme
      PROVE  Plafond(o, Effectif) + Cardinality(Page(lot, o, b)) = Plafond(o + b, Effectif)
  <2>1. S = population /\ n = Effectif
    BY <1>5 DEF Selection, Effectif
  <2>2. CASE o <= n
    <3> DEFINE h == Plafond(o + b, n)
    <3>1. h \in Nat /\ o <= h /\ h <= o + b /\ h <= n
      BY <1>3, <2>2 DEF Plafond
    <3>2. \A k \in S : RangDans(S, k) < o + b => RangDans(S, k) < h
      BY <1>3 DEF Plafond
    <3>3. Plafond(o, n) = o
      BY <2>2 DEF Plafond
    <3> HIDE DEF h, S
    <3>4. Cardinality(PageDans(S, o, b)) = h - o
      BY <1>1, <3>1, <3>2, PagePleine
    <3>5. o + (h - o) = h
      BY <3>1
    <3> QED BY <1>2, <2>1, <3>3, <3>4, <3>5 DEF h
  <2>3. CASE ~(o <= n)
    <3>1. PageDans(S, o, b) = {}
      BY <1>3, <2>3 DEF PageDans
    <3>2. Plafond(o, n) = n /\ Plafond(o + b, n) = n
      BY <1>3, <2>3 DEF Plafond
    <3>3. Cardinality({}) = 0
      BY FS_EmptySet
    <3> QED BY <1>2, <1>3, <2>1, <3>1, <3>2, <3>3
  <2> QED BY <2>2, <2>3
<1> QED BY <1>4, <1>5

LEMMA ResteDemarrer ==
  ASSUME TypeOK, NEW j \in jobs, InvReste(j.lot), ~OubliPossible(j.lot), Demarrer(j)
  PROVE  \E k : /\ jobs' = (jobs \ {j}) \cup {k}
                /\ k.lot = j.lot /\ InvJobPage(k)'
<1>1. /\ InvJobPage(j) /\ j \in Job /\ j.courant \in Contenu /\ j.courant.batch \in Nat
      /\ j.courant.total \in Nat /\ Effectif \in Nat /\ j.etape = "attente"
  BY ResteJob DEF Demarrer
<1>2. UNCHANGED <<type, population, attendus, traites>>
  BY DEF Demarrer
<1>3. InvContenu(j.lot, j.courant) /\ j.courant = j.contenu /\ j.page = {}
  BY <1>1 DEF InvJobPage
<1>4. \E k : /\ jobs' = (jobs \ {j}) \cup {k}
             /\ k.lot = j.lot /\ k.contenu = j.contenu /\ k.page = j.page
             /\ k.etape = "compte" /\ k.courant.offset = j.courant.offset
             /\ k.courant.nb = j.courant.nb /\ k.courant.batch > 0
             /\ regle.arret = "total" => k.courant.total = Effectif
  <2>1. CASE regle.arret = "total"
    <3> DEFINE total == IF j.courant.total = 0 THEN Cardinality(population)
                                               ELSE j.courant.total
               b == TailleDuBatch(j.courant.batch, total)
               c == [j.courant EXCEPT !.total = total, !.batch = b]
               k == [j EXCEPT !.etape = "compte", !.courant = c]
    <3>1. jobs' = (jobs \ {j}) \cup {k}
      BY <1>1, <2>1 DEF Demarrer, Compter, Job, Contenu
    <3>2. total = Effectif
      BY <1>3, <2>1 DEF InvContenu, Effectif
    <3>3. b \in Nat \ {0}
      BY <1>1, <3>2, TailleDuBatchType
    <3> HIDE DEF b, total
    <3>4. c.offset = j.courant.offset /\ c.nb = j.courant.nb /\ c.batch > 0 /\ c.total = Effectif
      BY <1>1, <3>2, <3>3 DEF Contenu
    <3> HIDE DEF c
    <3>5. /\ k.lot = j.lot /\ k.contenu = j.contenu /\ k.page = j.page
          /\ k.etape = "compte" /\ k.courant = c
      BY <1>1 DEF Job
    <3> QED BY <3>1, <3>4, <3>5
  <2>2. CASE regle.arret # "total"
    <3> DEFINE k == [j EXCEPT !.etape = "compte"]
    <3>1. jobs' = (jobs \ {j}) \cup {k}
      BY <2>2 DEF Demarrer, Avancer
    <3>2. /\ k.lot = j.lot /\ k.contenu = j.contenu /\ k.page = j.page
          /\ k.etape = "compte" /\ k.courant = j.courant
      BY <1>1 DEF Job
    <3>3. j.courant.batch > 0
      BY <1>3, <2>2 DEF InvContenu
    <3> QED BY <2>2, <3>1, <3>2, <3>3
  <2> QED BY <2>1, <2>2
<1>5. PICK k : /\ jobs' = (jobs \ {j}) \cup {k}
               /\ k.lot = j.lot /\ k.contenu = j.contenu /\ k.page = j.page
               /\ k.etape = "compte" /\ k.courant.offset = j.courant.offset
               /\ k.courant.nb = j.courant.nb /\ k.courant.batch > 0
               /\ regle.arret = "total" => k.courant.total = Effectif
  BY <1>4
<1>6. InvContenu(j.lot, k.courant) /\ InvContenu(j.lot, k.contenu)
  BY <1>3, <1>5 DEF InvContenu
<1>7. InvJobPage(k)
  BY <1>3, <1>5, <1>6 DEF InvJobPage
<1>8. InvJobPage(k)'
  BY <1>2, <1>7 DEF InvJobPage, InvContenu, InvPage, Reste, Rang, Effectif, Termine, regle
<1> QED BY <1>5, <1>8

(* A page that does not take everybody of those that wait is full.          *)
LEMMA ResteLirePage ==
  ASSUME TypeOK, NEW j \in jobs, InvReste(j.lot), ~OubliPossible(j.lot),
         ~OubliPossible(j.lot)', LirePage(j)
  PROVE  \E k : /\ jobs' = (jobs \ {j}) \cup {k}
                /\ k.lot = j.lot /\ InvJobPage(k)'
<1> DEFINE l == j.lot
           o == j.courant.offset
           b == j.courant.batch
           S == Selection(l)
           page == Page(l, o, b)
           nb == IF regle.arret = "total" THEN j.courant.nb + Cardinality(page)
                                          ELSE 0
           c == [j.courant EXCEPT !.nb = nb]
           k == [j EXCEPT !.etape = "page", !.page = page,
                          !.taille = Cardinality(page), !.courant = c]
<1>1. /\ InvJobPage(j) /\ j \in Job /\ j.courant \in Contenu /\ l \in 1 .. MaxLots
      /\ o \in Nat /\ b \in Nat /\ j.courant.nb \in Nat /\ j.courant.total \in Nat
      /\ Effectif \in Nat /\ Reste(l) \subseteq population
      /\ \A i \in Reste(l) : /\ Rang(i) \in Nat /\ Rang(i) < Effectif
                             /\ traites[l][i] = 0
  BY ResteJob
<1>2. UNCHANGED <<type, population, attendus, traites>> /\ j.etape = "compte"
  BY DEF LirePage
<1>3. /\ InvContenu(l, j.courant) /\ InvContenu(l, j.contenu) /\ b > 0
      /\ regle.arret = "total" => j.courant.total = Effectif
  BY <1>1, <1>2 DEF InvJobPage
<1>4. jobs' = (jobs \ {j}) \cup {k}
  BY <1>1 DEF LirePage, Job, Contenu
<1>5. c.offset = o /\ c.batch = b /\ c.nb = nb /\ c.total = j.courant.total
  BY <1>1 DEF Contenu
<1>6. Reste(l) \subseteq S
  BY <1>1 DEF Selection
<1>7. regle.consomme => o = 0 \/ S = {}
  <2> SUFFICES ASSUME regle.consomme, o > 0, S # {} PROVE FALSE
    BY <1>1
  <2>1. "saut" \in perturbes'[l]
    BY <1>1 DEF LirePage, Perturber
  <2> QED BY <2>1 DEF OubliPossible
<1>8. ASSUME NEW i \in Reste(l) \ page
      PROVE  /\ RangDans(S, i) >= o + b
             /\ ~regle.consomme => S = population /\ Rang(i) = RangDans(S, i)
  <2>1. ~regle.consomme => S = population /\ Rang(i) = RangDans(S, i)
    BY <1>6 DEF Selection, Rang, RangDans
  <2>2. RangDans(S, i) \in Nat
    BY <1>6, SelectionFinie, RangCroit
  <2>3. RangDans(S, i) >= o
    <3>1. CASE regle.consomme
      BY <1>6, <1>7, <2>2, <3>1
    <3>2. CASE ~regle.consomme
      BY <1>3, <1>6, <2>1, <3>2 DEF InvContenu
    <3> QED BY <3>1, <3>2
  <2>4. ~(RangDans(S, i) < o + b)
    <3>1. page = PageDans(S, o, b)
      BY <1>1, PageRangs
    <3>2. i \in S /\ i \notin page
      BY <1>6
    <3> QED BY <2>3, <3>1, <3>2 DEF PageDans
  <2> QED BY <1>1, <1>6, <2>1, <2>2, <2>4
<1>9. (Reste(l) \ page # {}) => Cardinality(page) = b
  BY <1>1, <1>6, <1>8, PageComplete
<1>10. regle.arret = "total" => nb = Plafond(o + b, Effectif)
  <2> SUFFICES ASSUME regle.arret = "total"
               PROVE  nb = Plafond(o + b, Effectif)
    OBVIOUS
  <2>1. ~regle.consomme
    BY RegleForme DEF TypeOK
  <2>2. j.courant.nb = Plafond(o, Effectif)
    BY <1>3 DEF InvContenu
  <2>3. Plafond(o, Effectif) + Cardinality(page) = Plafond(o + b, Effectif)
    BY <1>1, <2>1, PageComplete
  <2> QED BY <2>2, <2>3
<1> HIDE DEF c, page, nb, S
<1>11. PICK q : /\ jobs' = (jobs \ {j}) \cup {q}
                /\ q.lot = l /\ q.contenu = j.contenu /\ q.page = page /\ q.etape = "page"
                /\ q.taille = Cardinality(page)
                /\ q.courant.offset = o /\ q.courant.batch = b /\ q.courant.nb = nb
                /\ q.courant.total = j.courant.total
  <2>1. /\ k.lot = l /\ k.contenu = j.contenu /\ k.page = page /\ k.etape = "page"
        /\ k.taille = Cardinality(page) /\ k.courant = c
    BY <1>1 DEF Job
  <2> HIDE DEF k
  <2> QED BY <1>4, <1>5, <2>1
<1>12. ASSUME Termine(q), NEW i \in Reste(l) \ page
       PROVE  FALSE
  <2>1. Cardinality(page) = b /\ b > 0
    BY <1>3, <1>9
  <2>2. CASE regle.arret = "total"
    <3>1. nb = Effectif /\ nb = Plafond(o + b, Effectif)
      BY <1>3, <1>10, <1>11, <1>12, <2>2 DEF Termine
    <3>2. Rang(i) >= o + b /\ Rang(i) < Effectif /\ Rang(i) \in Nat
      BY <1>1, <1>8, <2>2, RegleForme DEF TypeOK
    <3> QED BY <1>1, <3>1, <3>2 DEF Plafond
  <2>3. CASE regle.arret = "incomplete"
    BY <1>11, <1>12, <2>1, <2>3 DEF Termine
  <2>4. CASE regle.arret = "vide"
    <3>1. q.taille = 0
      BY <1>12, <2>4 DEF Termine
    <3> QED BY <1>1, <1>11, <2>1, <3>1
  <2> QED BY <2>2, <2>3, <2>4, RegleForme DEF TypeOK
<1>13. InvPage(q)
  BY <1>8, <1>10, <1>11, <1>12 DEF InvPage
<1>14. InvJobPage(q)
  BY <1>3, <1>11, <1>13 DEF InvJobPage
<1>15. InvJobPage(q)'
  BY <1>2, <1>14 DEF InvJobPage, InvContenu, InvPage, Reste, Rang, Effectif, Termine, regle
<1> QED BY <1>11, <1>15

(* The next page begins where this one ends.                                *)
LEMMA ContenuSuivant ==
  ASSUME TypeOK, NEW j \in jobs, InvReste(j.lot), ~OubliPossible(j.lot),
         UNCHANGED <<type, population, attendus>>, Reste(j.lot)' \subseteq Reste(j.lot),
         j.etape = "bilan", NEW c, c = Suivant(j.courant)
  PROVE  InvContenu(j.lot, c)'
<1> DEFINE l == j.lot
           fin == j.courant.offset + j.courant.batch
           m == Cardinality(Ids)
<1>1. /\ InvJobPage(j) /\ j.courant \in Contenu /\ fin \in Nat /\ Effectif \in Nat
      /\ \A i \in Reste(l) : Rang(i) \in Nat /\ Rang(i) < Effectif
  BY ResteJob
<1>2. InvPage(j) /\ j.page = {} /\ j.courant.batch > 0
      /\ (regle.arret = "total" => j.courant.total = Effectif)
  BY <1>1 DEF InvJobPage
<1>3. /\ regle' = regle /\ Effectif' = Effectif /\ \A i : Rang(i)' = Rang(i)
  BY DEF regle, Effectif, Rang
<1>4. /\ c.batch = j.courant.batch /\ c.nb = j.courant.nb /\ c.total = j.courant.total
      /\ regle.decale => c.offset = Min({fin, m})
  BY <1>1 DEF Suivant, OffsetSuivant, Contenu
<1>5. m \in Nat /\ Effectif <= m
  <2>1. population \in SUBSET Ids /\ IsFiniteSet(Ids)
    BY ConstantsAssumption DEF TypeOK
  <2> QED BY <2>1, FS_Subset, FS_CardinalityType DEF Effectif
<1>6. Min({fin, m}) = IF fin <= m THEN fin ELSE m
  BY <1>1, <1>5, MinEgal
<1> HIDE DEF fin, m
<1>7. ASSUME ~regle.consomme, NEW i \in Reste(l)'
      PROVE  Rang(i)' >= c.offset
  <2>1. Rang(i) >= fin
    BY <1>2, <1>7 DEF InvPage, fin
  <2>2. c.offset = IF fin <= m THEN fin ELSE m
    BY <1>4, <1>6, <1>7, RegleForme DEF TypeOK
  <2> QED BY <1>1, <1>3, <1>5, <2>1, <2>2
<1>8. regle.arret = "total" => c.nb = Plafond(c.offset, Effectif)
  <2> SUFFICES ASSUME regle.arret = "total"
               PROVE  c.nb = Plafond(c.offset, Effectif)
    OBVIOUS
  <2>1. c.offset = IF fin <= m THEN fin ELSE m
    BY <1>4, <1>6, RegleForme DEF TypeOK
  <2>2. c.nb = Plafond(fin, Effectif)
    BY <1>2, <1>4 DEF InvPage, fin
  <2> QED BY <1>1, <1>5, <2>1, <2>2 DEF Plafond
<1> QED BY <1>2, <1>3, <1>4, <1>7, <1>8 DEF InvContenu
(* Treating only leaves fewer.                                              *)
LEMMA ResteTraite ==
  ASSUME TypeOK, NEW lot \in 1 .. MaxLots, NEW ids, TraiterPage(lot, ids),
         attendus' = attendus
  PROVE  Reste(lot)' = Reste(lot) \ ids
<1>1. attendus[lot] \subseteq Ids
  BY DEF TypeOK
<1>2. ASSUME NEW i \in Ids
      PROVE  traites'[lot][i] = 0 <=> traites[lot][i] = 0 /\ i \notin ids
  <2>1. /\ traites'[lot][i] \in 0 .. 2
        /\ i \notin ids => traites'[lot][i] = traites[lot][i]
        /\ i \in ids => traites'[lot][i] > 0
    BY TraiterEffet
  <2> QED BY <2>1
<1> QED BY <1>1, <1>2 DEF Reste

(* The jobs that may follow                                                 *)
LEMMA ResteSuites ==
  ASSUME TypeOK, TypeOK', NEW j \in jobs, InvReste(j.lot), ~OubliPossible(j.lot),
         UNCHANGED <<type, population, attendus>>, Reste(j.lot)' \subseteq Reste(j.lot),
         Planifie(j), NEW id, NEW k \in Suites(j, id)
  PROVE  k.lot = j.lot /\ InvJobPage(k)'
<1> DEFINE l == j.lot
           o == j.courant.offset
           b == j.courant.batch
           m == Cardinality(Ids)
<1>1. /\ InvJobPage(j) /\ j.courant \in Contenu /\ j.contenu \in Contenu
      /\ o \in Nat /\ b \in Nat /\ Effectif \in Nat /\ Reste(l) \subseteq population
      /\ \A i \in Reste(l) : Rang(i) \in Nat /\ Rang(i) < Effectif
  BY ResteJob
<1>2. InvJobPage(j)' /\ InvContenu(l, j.contenu)'
  BY <1>1, PageReduite
<1>3. regle' = regle /\ Effectif' = Effectif /\ \A i : Rang(i)' = Rang(i)
  BY DEF regle, Effectif, Rang
<1>4. CASE Fermee(j)
  <2>1. k = NouveauJob(id, l, j.contenu)
    BY <1>4 DEF Suites
  <2>2. /\ k.lot = l /\ k.contenu = j.contenu /\ k.courant = j.contenu
        /\ k.etape = "attente" /\ k.page = {}
    BY <2>1 DEF NouveauJob
  <2> QED BY <1>2, <2>2 DEF InvJobPage
<1>5. CASE ~Fermee(j)
  <2>1. /\ j.etape = "bilan" /\ k \in {NouveauJob(id, l, Suivant(j.courant))}
    BY <1>5 DEF Suites, Planifie
  <2>2. PICK c : c = Suivant(j.courant)
    OBVIOUS
  <2>3. /\ k.lot = l /\ k.contenu = c /\ k.courant = c /\ k.etape = "attente" /\ k.page = {}
    BY <2>1, <2>2 DEF NouveauJob
  <2>4. InvContenu(l, c)'
    BY <1>1, <1>3, <2>1, <2>2, ContenuSuivant
  <2> QED BY <2>3, <2>4 DEF InvJobPage
<1> QED BY <1>4, <1>5

LEMMA ResteTraiter ==
  ASSUME TypeOK, TypeOK', NEW j \in jobs, InvReste(j.lot), ~OubliPossible(j.lot),
         Traiter(j)
  PROVE  /\ Reste(j.lot)' \subseteq Reste(j.lot)
         /\ \E k : /\ jobs' = (jobs \ {j}) \cup {k}
                   /\ k.lot = j.lot /\ InvJobPage(k)'
<1> DEFINE l == j.lot
           k == [j EXCEPT !.etape = "bilan", !.page = {}]
<1>1. /\ InvJobPage(j) /\ j \in Job /\ l \in 1 .. MaxLots /\ Reste(l) \subseteq population
  BY ResteJob
<1>2. /\ UNCHANGED <<type, population, attendus>> /\ j.etape = "page"
      /\ TraiterPage(l, j.page) /\ jobs' = (jobs \ {j}) \cup {k}
  BY DEF Traiter
<1>3. Reste(l)' = Reste(l) \ j.page
  BY <1>1, <1>2, ResteTraite
<1>4. /\ k.lot = l /\ k.contenu = j.contenu /\ k.courant = j.courant
      /\ k.taille = j.taille /\ k.etape = "bilan" /\ k.page = {}
  BY <1>1 DEF Job
<1> HIDE DEF k
<1>5. InvPage(j) /\ j.courant.batch > 0
      /\ (regle.arret = "total" => j.courant.total = Effectif)
  BY <1>1, <1>2 DEF InvJobPage
<1>6. InvContenu(l, j.contenu)'
  BY <1>1, <1>2, <1>3, PageReduite
<1>7. /\ regle' = regle /\ Effectif' = Effectif /\ \A i : Rang(i)' = Rang(i)
  BY <1>2 DEF regle, Effectif, Rang
<1>8. Termine(k)' <=> Termine(j)
  BY <1>4, <1>7 DEF Termine
<1>9. ASSUME ~regle.consomme, NEW i \in Reste(l)'
      PROVE  Rang(i) >= j.courant.offset + j.courant.batch
  BY <1>3, <1>5, <1>9 DEF InvPage
<1>10. InvPage(k)'
  BY <1>3, <1>4, <1>5, <1>7, <1>8, <1>9 DEF InvPage
<1>11. InvJobPage(k)'
  BY <1>4, <1>5, <1>6, <1>7, <1>10 DEF InvJobPage
<1>12. Reste(l)' \subseteq Reste(l)
  BY <1>3
<1> QED BY <1>2, <1>4, <1>11, <1>12

LEMMA ResteBoucler ==
  ASSUME TypeOK, TypeOK', NEW j \in jobs, InvReste(j.lot), ~OubliPossible(j.lot),
         Boucler(j)
  PROVE  \E k : /\ jobs' = (jobs \ {j}) \cup {k}
                /\ k.lot = j.lot /\ InvJobPage(k)'
<1> DEFINE l == j.lot
           c == Suivant(j.courant)
           k == [j EXCEPT !.etape = "compte", !.courant = c, !.taille = 0]
<1>1. /\ InvJobPage(j) /\ j \in Job /\ j.courant \in Contenu /\ Reste(l) \subseteq population
  BY ResteJob
<1>2. /\ UNCHANGED <<type, population, attendus, traites>> /\ j.etape = "bilan"
      /\ jobs' = (jobs \ {j}) \cup {k}
  BY <1>1 DEF Boucler, Job
<1>3. Reste(l)' = Reste(l)
  BY <1>2 DEF Reste
<1>4. c.batch = j.courant.batch /\ c.total = j.courant.total
  BY <1>1 DEF Suivant, Contenu
<1>5. PICK d : d = c
  OBVIOUS
<1>6. InvContenu(l, d)'
  BY <1>2, <1>3, <1>5, ContenuSuivant
<1> HIDE DEF c
<1>7. PICK q : /\ jobs' = (jobs \ {j}) \cup {q}
               /\ q.lot = l /\ q.contenu = j.contenu /\ q.courant = d
               /\ q.etape = "compte" /\ q.page = j.page
  <2>1. /\ k.lot = l /\ k.contenu = j.contenu /\ k.courant = c
        /\ k.etape = "compte" /\ k.page = j.page
    BY <1>1 DEF Job
  <2> QED BY <1>2, <1>5, <2>1
<1>8. InvContenu(l, j.contenu)'
  BY <1>1, <1>2, <1>3, PageReduite
<1>9. /\ j.page = {} /\ d.batch > 0
      /\ regle'.arret = "total" => d.total = Effectif'
  BY <1>1, <1>2, <1>4, <1>5 DEF InvJobPage, regle, Effectif
<1>10. InvJobPage(q)'
  BY <1>6, <1>7, <1>8, <1>9 DEF InvJobPage
<1> QED BY <1>7, <1>10

(* A job that Bull gives back                                               *)
LEMMA ResteRendu ==
  ASSUME TypeOK, TypeOK', NEW j \in jobs, InvReste(j.lot), ~OubliPossible(j.lot),
         UNCHANGED <<type, population, attendus>>, Reste(j.lot)' \subseteq Reste(j.lot),
         NEW k \in Rendu(j)
  PROVE  k.lot = j.lot /\ InvJobPage(k)'
<1>1. /\ InvJobPage(j) /\ j \in Job /\ Reste(j.lot) \subseteq population
  BY ResteJob
<1>2. /\ k.lot = j.lot /\ k.contenu = j.contenu /\ k.courant = j.contenu
      /\ k.etape = "attente" /\ k.page = {}
  BY <1>1 DEF Rendu, Job
<1>3. InvContenu(j.lot, j.contenu)'
  BY <1>1, PageReduite
<1> QED BY <1>2, <1>3 DEF InvJobPage

(* The steps of a job, on its own lot                                       *)
LEMMA RestePropre ==
  ASSUME TypeOK, TypeOK', NEW j \in jobs, InvReste(j.lot),
         Demarrer(j) \/ Executer(j) \/ Echec(j) \/ ArretWorker(j)
  PROVE  InvReste(j.lot)'
<1> DEFINE l == j.lot
<1>1. j \in Job /\ l \in 1 .. MaxLots /\ j.reprises \in 0 .. 1 /\ j.id \in 1 .. MaxJobs
  BY DEF TypeOK, TypeJob, Job
<1>2. lots' = lots /\ UNCHANGED <<type, population, attendus>>
  BY SuitJob DEF Suit
<1>3. perturbes[l] \subseteq perturbes'[l] /\ regle' = regle
  BY <1>1, <1>2, PerturbesJob DEF regle
<1>4. OubliPossible(l) => OubliPossible(l)'
  BY <1>3 DEF OubliPossible
<1> SUFFICES ASSUME ~OubliPossible(l), ~OubliPossible(l)'
             PROVE  InvReste(l)'
  BY <1>4 DEF InvReste
<1>5. ASSUME NEW js, jobs' = (jobs \ {j}) \cup js,
             Reste(l)' \subseteq Reste(l),
             \A k \in js : k.lot = l /\ InvJobPage(k)',
             js = {} => Reste(l)' = {}
      PROVE  InvReste(l)'
  BY <1>2, <1>5, ResteSuit
<1>6. ASSUME Reste(l)' \subseteq Reste(l),
             \E k : jobs' = (jobs \ {j}) \cup {k} /\ k.lot = l /\ InvJobPage(k)'
      PROVE  InvReste(l)'
  <2>1. PICK k : jobs' = (jobs \ {j}) \cup {k} /\ k.lot = l /\ InvJobPage(k)'
    BY <1>6
  <2>2. {k} # {} /\ \A q \in {k} : q.lot = l /\ InvJobPage(q)'
    BY <2>1
  <2> QED BY <1>5, <1>6, <2>1, <2>2
<1>7. (UNCHANGED traites) => Reste(l)' = Reste(l)
  BY <1>2 DEF Reste
<1>8. CASE Demarrer(j)
  BY <1>6, <1>7, <1>8, ResteDemarrer DEF Demarrer
<1>9. CASE LirePage(j)
  BY <1>6, <1>7, <1>9, ResteLirePage DEF LirePage
<1>10. CASE Traiter(j)
  BY <1>6, <1>10, ResteTraiter
<1>11. CASE Enchainer(j)
  <2>1. /\ Planifie(j) /\ jobs' = (jobs \ {j}) \cup Suites(j, j.id)
        /\ Reste(l)' = Reste(l)
    BY <1>7, <1>11 DEF Enchainer
  <2>2. \A k \in Suites(j, j.id) : k.lot = l /\ InvJobPage(k)'
    BY <1>2, <2>1, ResteSuites
  <2>3. ASSUME Suites(j, j.id) = {}
        PROVE  Reste(l)' = {}
    <3>1. Termine(j) /\ ~Fermee(j)
      BY <2>3 DEF Suites
    <3>2. InvPage(j) /\ j.page = {}
      BY <2>1, <3>1, ResteJob DEF Planifie, InvJobPage
    <3> QED BY <2>1, <3>1, <3>2 DEF InvPage
  <2> QED BY <1>5, <2>1, <2>2, <2>3
<1>12. CASE Boucler(j)
  BY <1>6, <1>7, <1>12, ResteBoucler DEF Boucler
<1>13. CASE Echec(j)
  <2>1. "echec" \in perturbes'[l]
    BY <1>1, <1>13 DEF Echec, Perturber
  <2> QED BY <2>1 DEF OubliPossible
<1>14. CASE ArretWorker(j)
  <2>1. j.reprises = 0
    <3> SUFFICES ASSUME j.reprises # 0 PROVE FALSE
      OBVIOUS
    <3>1. "echec" \in perturbes'[l]
      BY <1>1, <1>14 DEF ArretWorker, Perturber
    <3> QED BY <3>1 DEF OubliPossible
  <2>2. PICK ids \in Entames(j) : TraiterPage(l, ids)
    BY <1>14 DEF ArretWorker
  <2>3. Reste(l)' \subseteq Reste(l)
    BY <1>1, <1>2, <2>2, ResteTraite
  <2>4. Rendu(j) # {} /\ \A k \in Rendu(j) : k.lot = l /\ InvJobPage(k)'
    BY <1>2, <2>1, <2>3, ResteRendu DEF Rendu
  <2>5. CASE jobs' = (jobs \ {j}) \cup Rendu(j)
    BY <1>5, <2>3, <2>4, <2>5
  <2>6. CASE /\ Planifie(j)
             /\ jobs' = (jobs \ {j}) \cup Rendu(j) \cup Suites(j, NouvelId)
    <3>1. \A k \in Suites(j, NouvelId) : k.lot = l /\ InvJobPage(k)'
      BY <1>2, <2>3, <2>6, ResteSuites
    <3> DEFINE js == Rendu(j) \cup Suites(j, NouvelId)
    <3>2. /\ jobs' = (jobs \ {j}) \cup js /\ js # {}
          /\ \A k \in js : k.lot = l /\ InvJobPage(k)'
      BY <2>4, <2>6, <3>1
    <3> HIDE DEF js
    <3> QED BY <1>5, <2>3, <3>2
  <2> QED BY <1>14, <2>5, <2>6 DEF ArretWorker
<1> QED BY <1>8, <1>9, <1>10, <1>11, <1>12, <1>13, <1>14 DEF Executer

(* ... and on the others                                                    *)
LEMMA ResteJobs ==
  ASSUME TypeOK, TypeOK', NEW j \in jobs, NEW l \in 1 .. MaxLots, InvReste(l),
         Demarrer(j) \/ Executer(j) \/ Echec(j) \/ ArretWorker(j)
  PROVE  InvReste(l)'
<1>1. CASE l = j.lot
  BY <1>1, RestePropre
<1>2. CASE l # j.lot
  <2>1. PICK js : Remplace(j, js)
    BY SuitJob DEF Suit
  <2>2. \A k : k.lot = l => (k \in jobs' <=> k \in jobs)
    BY <1>2, <2>1 DEF Remplace
  <2>3. lots' = lots /\ type' = type /\ population' = population /\ attendus' = attendus
    BY SuitJob DEF Suit
  <2>4. perturbes[l] \subseteq perturbes'[l] /\ regle' = regle
    BY <2>3, PerturbesJob DEF regle
  <2>5. traites'[l] = traites[l]
    <3>1. j.lot \in 1 .. MaxLots
      BY DEF TypeOK, TypeJob, Job
    <3>2. ASSUME NEW ids, TraiterPage(j.lot, ids)
          PROVE  traites'[l] = traites[l]
      BY <1>2, <3>1, <3>2, TraiterEffet
    <3> QED BY <3>2
      DEF Demarrer, Executer, LirePage, Traiter, Enchainer, Boucler, Echec, ArretWorker
  <2>6. OubliPossible(l) => OubliPossible(l)'
    BY <2>4 DEF OubliPossible
  <2> QED BY <2>2, <2>3, <2>5, <2>6, ResteAilleurs
<1> QED BY <1>1, <1>2

LEMMA ResteMouvement ==
  ASSUME TypeOK, TypeOK', NEW l \in 1 .. MaxLots, InvReste(l),
         NEW i \in Ids, Entrer(i) \/ Sortir(i)
  PROVE  InvReste(l)'
<1>1. /\ jobs' = jobs /\ lots' = lots /\ traites' = traites /\ attendus' = attendus
      /\ type' = type /\ regle' = regle
  BY DEF Entrer, Sortir, regle
<1>2. perturbes[l] \subseteq perturbes'[l]
  BY DEF Entrer, Sortir, Perturber
<1>3. OubliPossible(l) => OubliPossible(l)'
  BY <1>1, <1>2 DEF OubliPossible
<1>4. CASE l \notin EnCours
  BY <1>1, <1>3, <1>4, ResteSansJob
<1>5. CASE Entrer(i) /\ l \in EnCours
  <2>1. "entree" \in perturbes'[l] /\ population \subseteq population'
    BY <1>5 DEF Entrer, Perturber
  <2>2. regle.arret = "total" => OubliPossible(l)'
    BY <1>1, <2>1 DEF OubliPossible
  <2> QED BY <1>1, <1>3, <2>1, <2>2, ResteAilleurs
<1>6. CASE Sortir(i) /\ l \in EnCours
  <2>1. "sortie" \in perturbes'[l]
    BY <1>6 DEF Sortir, Perturber
  <2> QED BY <2>1 DEF InvReste, OubliPossible
<1> QED BY <1>4, <1>5, <1>6

LEMMA ResteLancer ==
  ASSUME TypeOK, TypeOK', NEW l \in 1 .. MaxLots, InvReste(l), NEW id, NEW b,
         Lancement(id, b)
  PROVE  InvReste(l)'
<1>1. /\ UNCHANGED <<type, population, traites, perturbes>> /\ regle' = regle
      /\ lots' = lots + 1 /\ lots \in Nat /\ lots + 1 \in 1 .. MaxLots
      /\ attendus' = [attendus EXCEPT ![lots + 1] = population]
      /\ b \in Nat /\ (~SurCommande => b = Pagination)
      /\ jobs' = jobs \cup {NouveauJob(id, lots + 1, Debut(b))}
  BY DEF Lancement, regle, TypeOK
<1>2. OubliPossible(l)' <=> OubliPossible(l)
  BY <1>1 DEF OubliPossible
<1>3. CASE l # lots + 1
  <2>1. \A j : j.lot = l => (j \in jobs' <=> j \in jobs)
    BY <1>1, <1>3 DEF NouveauJob
  <2>2. attendus'[l] = attendus[l] /\ (l <= lots' => l <= lots)
    BY <1>1, <1>3 DEF TypeOK
  <2> QED BY <1>1, <1>2, <2>1, <2>2, ResteAilleurs
<1>4. CASE l = lots + 1
  <2>1. attendus'[l] = population' /\ Reste(l)' \subseteq population'
    BY <1>1, <1>4 DEF Reste, TypeOK
  <2>2. \A j \in jobs : j.lot # l
    BY <1>4 DEF TypeOK, TypeJob, Job
  <2> DEFINE n == NouveauJob(id, l, Debut(b))
  <2>3. PICK q : /\ jobs' = jobs \cup {q} /\ q.lot = l /\ q.etape = "attente" /\ q.page = {}
                 /\ q.courant = q.contenu /\ q.contenu = Debut(b)
    <3>1. /\ n.lot = l /\ n.etape = "attente" /\ n.page = {}
          /\ n.courant = n.contenu /\ n.contenu = Debut(b)
      BY DEF NouveauJob
    <3>2. jobs' = jobs \cup {n}
      BY <1>1, <1>4
    <3> QED BY <3>1, <3>2
  <2>4. l \in EnCours' /\ l \notin Termines'
    BY <2>3 DEF EnCours, Termines
  <2>5. InvContenu(l, q.contenu)'
    <3>1. /\ q.contenu.offset = 0 /\ q.contenu.nb = 0 /\ q.contenu.total = 0
          /\ q.contenu.batch = b
      BY <2>3 DEF Debut
    <3>2. regle'.arret # "total" => b > 0
      BY <1>1, RegleForme, ConstantsAssumption DEF TypeOK
    <3>3. \A i \in Reste(l)' : Rang(i)' >= 0
      <4>1. ASSUME NEW i \in population PROVE Rang(i) >= 0
        BY RangNombre
      <4>2. \A i \in population : Rang(i)' = Rang(i)
        BY <1>1 DEF Rang
      <4> QED BY <1>1, <2>1, <4>1, <4>2
    <3>4. Plafond(0, Effectif') = 0
      <4>1. Effectif' \in Nat
        BY <1>1, PopulationFinie DEF Effectif, TypeOK
      <4> QED BY <4>1 DEF Plafond
    <3> QED BY <3>1, <3>2, <3>3, <3>4 DEF InvContenu, Plafond
  <2>6. InvJobPage(q)'
    BY <2>3, <2>5 DEF InvJobPage
  <2>7. \A j \in jobs' : j.lot = l => j = q
    BY <2>2, <2>3
  <2> QED BY <2>1, <2>4, <2>6, <2>7 DEF InvReste
<1> QED BY <1>3, <1>4

LEMMA ResteAutres ==
  ASSUME TypeOK, TypeOK', NEW l \in 1 .. MaxLots, InvReste(l),
         (\E o \in Ops : Verifier(o)) \/ Ouvrir \/ Fermer \/ UNCHANGED vars
  PROVE  InvReste(l)'
<1>1. UNCHANGED <<type, population, traites, attendus, jobs, lots>> /\ regle' = regle
  BY DEF Verifier, Ouvrir, Fermer, vars, regle
<1>2. perturbes[l] \subseteq perturbes'[l]
  BY DEF Verifier, Ouvrir, Fermer, vars, Perturber
<1>3. OubliPossible(l) => OubliPossible(l)'
  BY <1>1, <1>2 DEF OubliPossible
<1> QED BY <1>1, <1>3, ResteAilleurs

LEMMA ResteNext == TypeOK /\ InvRestes /\ [Next]_vars => InvRestes'
<1> SUFFICES ASSUME TypeOK, InvRestes, [Next]_vars, NEW l \in 1 .. MaxLots
             PROVE  InvReste(l)'
  BY DEF InvRestes
<1>1. InvReste(l) /\ TypeOK'
  BY TypeNext DEF InvRestes
<1>2. CASE Programmer \/ (\E o \in Ops : Ajouter(o))
  BY <1>1, <1>2, LancementFait, ResteLancer
<1>3. CASE \E j \in jobs : Demarrer(j) \/ Executer(j) \/ Echec(j) \/ ArretWorker(j)
  BY <1>1, <1>3, ResteJobs
<1>4. CASE \E i \in Ids : Entrer(i) \/ Sortir(i)
  BY <1>1, <1>4, ResteMouvement
<1>5. CASE (\E o \in Ops : Verifier(o)) \/ Ouvrir \/ Fermer \/ UNCHANGED vars
  BY <1>1, <1>5, ResteAutres
<1> QED BY <1>2, <1>3, <1>4, <1>5 DEF Next

(* Whatever the sizes of the pages, the people and the failures, a lot that *)
(* ends has treated everybody who was there from its beginning to its end,  *)
(* unless somebody left while it went on, a page failed, or the offset grew *)
(* over a selection that what is treated leaves; the lot that stops on the  *)
(* total counted at first also forgets people when somebody came.           *)
THEOREM OublisToujoursExpliques == Spec => []OublisExpliques
<1>1. Init => InvRestes
  BY DEF Init, InvRestes, InvReste, EnCours, Termines
<1>2. TypeOK /\ InvRestes => OublisExpliques
  <2> SUFFICES ASSUME TypeOK, InvRestes, NEW l \in Termines, NEW i \in Ids,
                      i \in attendus[l] \cap population, traites[l][i] = 0,
                      ~OubliPossible(l)
               PROVE  FALSE
    BY DEF OublisExpliques, OubliPossible
  <2>1. Cardinality(commandes) \in Nat
    BY CommandesFinies DEF TypeOK
  <2>2. l \in 1 .. MaxLots
    BY <2>1, ConstantsAssumption DEF TypeOK, Termines
  <2>3. Reste(l) = {}
    BY <2>2 DEF InvRestes, InvReste
  <2> QED BY <2>3 DEF Reste
<1>3. TypeOK /\ InvRestes /\ [Next]_vars => TypeOK' /\ InvRestes'
  BY TypeNext, ResteNext
<1> QED BY <1>1, <1>2, <1>3, TypeInit, PTL DEF Spec
=============================================================================

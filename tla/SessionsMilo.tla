---------------------------- MODULE SessionsMilo ----------------------------
(***************************************************************************)
(* A session of Milo (a workshop, a meeting): who is registered, who came,  *)
(* whether it is visible and closed in the CEJ.                             *)
(*                                                                          *)
(* Milo holds the registrations and the number of places.  The CEJ holds    *)
(* the row of session_milo (visibility, self-registration, closure) and the *)
(* reminders.  Commands of the counsellor read Milo and the row, decide,    *)
(* then change Milo one young person at a time, and save the whole row at   *)
(* the end; a young person registers alone.  Looking at a session where     *)
(* nobody is left to mark plans the job that closes it.                     *)
(***************************************************************************)
EXTENDS Integers, FiniteSets

CONSTANTS
  Jeunes,       \* young people with a Milo file
  Capacite,     \* places of the session
  Ops,          \* commands that may be in flight together
  StatutsAvant, \* statuses of the registrations made before
  Reglages,     \* (visibility, self-registration) asked: values or Inchange
  MaxDemandes,  \* bound: number of commands
  MaxPannes,    \* bound: number of failures
  Inchange,     \* a field that the command leaves alone
  Absent        \* no row

VARIABLES
  inscriptions, \* Milo: the instance of session of each young person
  instances,    \* Milo: number of instances given to each young person
  passee,       \* the session has begun
  ligne,        \* row of session_milo
  aClore,       \* a job CLORE_SESSIONS waits
  rappels,      \* reminders of instances, in Redis
  ops,          \* commands in flight
  fond,         \* calls to the planner that are not awaited
  demandes,     \* number of commands received
  pannes,       \* number of failures
  perturbes     \* history: what overlapping or failed operations touched

vars == <<inscriptions, instances, passee, ligne, aClore, rappels, ops, fond,
          demandes, pannes, perturbes>>

-----------------------------------------------------------------------------
(* Registrations, row, commands                                             *)

Statuts == {"INSCRIT", "REFUS_JEUNE", "PRESENT"}

Aucune == [statut |-> "aucune", id |-> 0]
Inscription == [statut : Statuts, id : Nat \ {0}] \cup {Aucune}

Ligne == [visible : BOOLEAN, auto : BOOLEAN, close : BOOLEAN]

Choix == BOOLEAN \cup {Inchange}

ASSUME ConstantsAssumption ==
  /\ IsFiniteSet(Jeunes)
  /\ Capacite \in Nat
  /\ StatutsAvant \subseteq {"INSCRIT", "REFUS_JEUNE"}
  /\ Inchange \notin BOOLEAN
  /\ Absent \notin Ligne
  /\ Reglages \subseteq Choix \X Choix
  /\ MaxDemandes \in Nat
  /\ MaxPannes \in Nat

NonDemande == "rien"
Souhaits == {NonDemande, "DESINSCRIT"} \cup Statuts

(* etape: "lecture" of Milo, "ligne" of the row, "calcul", then the three   *)
(* kinds of changes at Milo in their order, and the save of the row.        *)
Etapes == {"libre", "lecture", "ligne", "calcul", "desinscription",
           "modification", "inscription", "sauvegarde"}
Commandes == {"modifier", "emarger", "autoinscrire", "consulter"}

Operation ==
  [etape : Etapes, cmd : Commandes, souhaits : [Jeunes -> Souhaits],
   reglage : Choix \X Choix, aLire : SUBSET {"places", "inscrits"},
   places : Int, lus : [Jeunes -> Inscription],
   lue : Ligne \cup {Absent}, aSauver : Ligne \cup {Absent},
   supprimer : SUBSET Jeunes, modifier : [Jeunes -> Statuts \cup {"aucune"}],
   inscrire : SUBSET Jeunes, inscrits : SUBSET Jeunes]

Libre ==
  [etape |-> "libre", cmd |-> "consulter",
   souhaits |-> [j \in Jeunes |-> NonDemande],
   reglage |-> <<Inchange, Inchange>>, aLire |-> {}, places |-> 0,
   lus |-> [j \in Jeunes |-> Aucune], lue |-> Absent, aSauver |-> Absent,
   supprimer |-> {}, modifier |-> [j \in Jeunes |-> "aucune"],
   inscrire |-> {}, inscrits |-> {}]

Appel == [op : {"planifier", "retirer"}, jeune : Jeunes, id : Nat \ {0}]

Inscrites == {Aucune} \cup {[statut |-> s, id |-> 1] : s \in StatutsAvant}

(* Registrations made before, at Milo or in the CEJ, and their reminders.   *)
Ayant(insc, statuts) == {j \in Jeunes : insc[j].statut \in statuts}

Depart ==
  {insc \in [Jeunes -> Inscrites] :
     Cardinality(Ayant(insc, {"INSCRIT"})) <= Capacite}

Init ==
  /\ inscriptions \in Depart
  /\ instances = [j \in Jeunes |-> inscriptions[j].id]
  /\ passee = FALSE
  /\ ligne = Absent
  /\ aClore = FALSE
  /\ rappels = Ayant(inscriptions, {"INSCRIT"}) \X {1}
  /\ ops = [o \in Ops |-> Libre]
  /\ fond = {}
  /\ demandes = 0
  /\ pannes = 0
  /\ perturbes = {}

-----------------------------------------------------------------------------
(* Milo                                                                     *)

Occupees == Cardinality(Ayant(inscriptions, {"INSCRIT", "PRESENT"}))

Commencer ==
  /\ ~passee
  /\ passee' = TRUE
  /\ UNCHANGED <<inscriptions, instances, ligne, aClore, rappels, ops, fond,
                 demandes, pannes, perturbes>>

-----------------------------------------------------------------------------
(* Commands: reading                                                        *)

(* A command, its calls to the planner or the closing job is going on.      *)
EnCours == aClore \/ fond # {} \/ \E o \in Ops : ops[o].etape # "libre"

SouhaitsDe(cmd) ==
  CASE cmd = "modifier" ->
         [Jeunes -> {NonDemande, "DESINSCRIT", "INSCRIT", "REFUS_JEUNE"}]
    [] cmd = "emarger" -> [Jeunes -> {NonDemande} \cup Statuts]
    [] cmd = "autoinscrire" ->
         {[j \in Jeunes |-> IF j = k THEN "INSCRIT" ELSE NonDemande] :
           k \in Jeunes}
    [] cmd = "consulter" -> {[j \in Jeunes |-> NonDemande]}

Demarrer(o, cmd) ==
  /\ ops[o].etape = "libre"
  /\ demandes < MaxDemandes
  /\ demandes' = demandes + 1
  /\ \E s \in SouhaitsDe(cmd),
        r \in IF cmd = "modifier" THEN Reglages ELSE {<<Inchange, Inchange>>} :
       ops' = [ops EXCEPT ![o] =
                 [Libre EXCEPT !.etape = "lecture", !.cmd = cmd,
                               !.souhaits = s, !.reglage = r,
                               !.aLire = {"places", "inscrits"}]]
  /\ perturbes' = IF EnCours THEN perturbes \cup {"session", "rappels"} ELSE perturbes
  /\ UNCHANGED <<inscriptions, instances, passee, ligne, aClore, rappels, fond,
                 pannes>>

(* getForConseiller and getForBeneficiaire: two requests to Milo, in either *)
(* order.                                                                   *)
LireMilo(o, quoi) ==
  LET reste == ops[o].aLire \ {quoi}
  IN /\ ops[o].etape = "lecture"
     /\ quoi \in ops[o].aLire
     /\ ops' = [ops EXCEPT
          ![o].places = IF quoi = "places" THEN Capacite - Occupees ELSE @,
          ![o].lus = IF quoi = "inscrits" THEN inscriptions ELSE @,
          ![o].aLire = reste,
          ![o].etape = IF reste # {} THEN "lecture"
                       ELSE IF ops[o].cmd = "autoinscrire" THEN "calcul"
                       ELSE "ligne"]
     /\ UNCHANGED <<inscriptions, instances, passee, ligne, aClore, rappels,
                    fond, demandes, pannes, perturbes>>

LireLigne(o) ==
  /\ ops[o].etape = "ligne"
  /\ ops' = [ops EXCEPT ![o].lue = ligne, ![o].etape = "calcul"]
  /\ UNCHANGED <<inscriptions, instances, passee, ligne, aClore, rappels,
                 fond, demandes, pannes, perturbes>>

-----------------------------------------------------------------------------
(* Commands: decision                                                       *)

(* dtoToSessionMilo: a session without a row is neither visible nor closed. *)
SansLigne == [visible |-> FALSE, auto |-> FALSE, close |-> FALSE]
Reglee(lue) == IF lue = Absent THEN SansLigne
               ELSE [lue EXCEPT !.visible = lue.visible \/ lue.auto]

(* SessionMilo.modifier: a session open to self-registration is visible.    *)
LigneModifiee(lue, reglage) ==
  LET s == Reglee(lue)
      auto == IF reglage[2] = Inchange THEN s.auto ELSE reglage[2]
      visible == IF reglage[1] = Inchange THEN s.visible ELSE reglage[1]
  IN [s EXCEPT !.auto = auto, !.visible = visible \/ auto]

(* trierInscriptionsATraiter                                                *)
AInscrire(op) ==
  {j \in Jeunes : op.souhaits[j] = "INSCRIT" /\ op.lus[j] = Aucune}
ASupprimer(op) ==
  {j \in Jeunes : op.souhaits[j] = "DESINSCRIT" /\ op.lus[j] # Aucune}
AModifier(op) ==
  [j \in Jeunes |->
    IF /\ op.souhaits[j] \in {"INSCRIT", "REFUS_JEUNE"}
       /\ op.lus[j] # Aucune
       /\ op.lus[j].statut # op.souhaits[j]
      THEN op.souhaits[j] ELSE "aucune"]

(* Variant: those who are registered again take no place.                   *)
PlacesSuffisantesSansReinscrits(op) ==
  op.places >= Cardinality(AInscrire(op))

(* verifierNombrePlaces                                                     *)
PlacesSuffisantes(op) ==
  LET inscrits == Ayant(op.lus, {"INSCRIT"})
      prises == AInscrire(op) \cup {j \in Jeunes : AModifier(op)[j] = "INSCRIT"}
      liberees == inscrits \cap
        (ASupprimer(op) \cup {j \in Jeunes : AModifier(op)[j] # "aucune"})
  IN op.places >= Cardinality(prises) - Cardinality(liberees)

(* The reminders that a step of the save starts to plan or to remove        *)
Appels(op, js, lus) == {[op |-> op, jeune |-> j, id |-> lus[j].id] : j \in js}

Refuser(o) ==
  /\ ops' = [ops EXCEPT ![o] = Libre]
  /\ UNCHANGED fond

(* save: what to do, and the removal of the reminders of those who leave.   *)
Sauver(o, supprimer, modifier, inscrire, aSauver) ==
  /\ ops' = [ops EXCEPT ![o].etape = "desinscription",
                        ![o].supprimer = supprimer, ![o].modifier = modifier,
                        ![o].inscrire = inscrire, ![o].aSauver = aSauver]
  /\ fond' = fond \cup Appels("retirer", supprimer, ops[o].lus)

DeciderModifier(o) ==
  /\ ops[o].cmd = "modifier"
  /\ IF PlacesSuffisantes(ops[o])
       THEN Sauver(o, ASupprimer(ops[o]), AModifier(ops[o]),
                   AInscrire(ops[o]),
                   LigneModifiee(ops[o].lue, ops[o].reglage))
       ELSE Refuser(o)

(* Variant: attendance is saved for whoever is on the list.                 *)
MemesInscritsInclus(op) ==
  {j \in Jeunes : op.souhaits[j] # NonDemande}
    \subseteq {j \in Jeunes : op.lus[j] # Aucune}

(* The list that is submitted is the list of those registered.              *)
MemesInscrits(op) ==
  {j \in Jeunes : op.souhaits[j] # NonDemande}
    = {j \in Jeunes : op.lus[j] # Aucune}

(* emarger: INSCRIT means did not come.                                     *)
Presences(op) ==
  [j \in Jeunes |->
    IF op.souhaits[j] = "INSCRIT" THEN "REFUS_JEUNE"
    ELSE IF op.souhaits[j] = "PRESENT" /\ op.lus[j].statut # "PRESENT"
           THEN "PRESENT" ELSE "aucune"]

DeciderEmarger(o) ==
  /\ ops[o].cmd = "emarger"
  /\ IF MemesInscrits(ops[o])
       THEN Sauver(o, {}, Presences(ops[o]), {},
                   [Reglee(ops[o].lue) EXCEPT !.close = TRUE])
       ELSE Refuser(o)

(* peutInscrireBeneficiaire: no place is left only when Milo says zero.     *)
PeutInscrire(op, j) ==
  op.lus[j].statut \notin {"INSCRIT", "PRESENT"} /\ op.places # 0

DeciderAutoinscrire(o) ==
  LET j == CHOOSE k \in Jeunes : ops[o].souhaits[k] = "INSCRIT"
  IN /\ ops[o].cmd = "autoinscrire"
     /\ IF PeutInscrire(ops[o], j)
          THEN ops' = [ops EXCEPT ![o].etape = "inscription",
                                  ![o].inscrire = {j}]
          ELSE ops' = [ops EXCEPT ![o] = Libre]
     /\ UNCHANGED fond

Decider(o) ==
  /\ ops[o].etape = "calcul"
  /\ DeciderModifier(o) \/ DeciderEmarger(o) \/ DeciderAutoinscrire(o)
  /\ UNCHANGED <<inscriptions, instances, passee, ligne, aClore, rappels,
                 demandes, pannes, perturbes>>

(* calculerStatut: begun, and nobody is left to mark.                       *)
EmargeeMaisPasClose(op) ==
  ~Reglee(op.lue).close /\ passee /\ Ayant(op.lus, {"INSCRIT"}) = {}

(* The queries of the counsellor plan the job that closes the session.      *)
Consulter(o) ==
  /\ ops[o].etape = "calcul"
  /\ ops[o].cmd = "consulter"
  /\ aClore' = (aClore \/ EmargeeMaisPasClose(ops[o]))
  /\ ops' = [ops EXCEPT ![o] = Libre]
  /\ UNCHANGED <<inscriptions, instances, passee, ligne, rappels, fond,
                 demandes, pannes, perturbes>>

-----------------------------------------------------------------------------
(* Commands: changes at Milo, one young person at a time                    *)

ATraiter(op) == {j \in Jeunes : op.modifier[j] # "aucune"}

(* Milo removes an instance of session.                                     *)
Desinscrire(o, j) ==
  /\ ops[o].etape = "desinscription"
  /\ j \in ops[o].supprimer
  /\ inscriptions[j].id = ops[o].lus[j].id
  /\ inscriptions' = [inscriptions EXCEPT ![j] = Aucune]
  /\ ops' = [ops EXCEPT ![o].supprimer = @ \ {j}]
  /\ UNCHANGED <<instances, passee, ligne, aClore, rappels, fond, demandes,
                 pannes, perturbes>>

(* Variant: the reminders of those who are registered again are forgotten.  *)
AppelsDesRefus(op) ==
  Appels("retirer", {j \in ATraiter(op) : op.modifier[j] # "INSCRIT"}, op.lus)

(* The reminders follow the status asked for, before Milo has accepted it.  *)
AppelsModifications(op) ==
  LET inscrits == {j \in ATraiter(op) : op.modifier[j] = "INSCRIT"}
  IN Appels("planifier", inscrits, op.lus)
       \cup Appels("retirer", ATraiter(op) \ inscrits, op.lus)

DemarrerModifications(o) ==
  /\ ops[o].etape = "desinscription"
  /\ ops[o].supprimer = {}
  /\ ops' = [ops EXCEPT ![o].etape = "modification"]
  /\ fond' = fond \cup AppelsModifications(ops[o])
  /\ UNCHANGED <<inscriptions, instances, passee, ligne, aClore, rappels,
                 demandes, pannes, perturbes>>

(* trierReinscriptionsEnDernier: those registered again come last.          *)
ModifierInscription(o, j) ==
  /\ ops[o].etape = "modification"
  /\ j \in ATraiter(ops[o])
  /\ ops[o].modifier[j] = "INSCRIT" =>
       \A k \in ATraiter(ops[o]) : ops[o].modifier[k] = "INSCRIT"
  /\ inscriptions[j].id = ops[o].lus[j].id
  /\ inscriptions' = [inscriptions EXCEPT ![j].statut = ops[o].modifier[j]]
  /\ ops' = [ops EXCEPT ![o].modifier[j] = "aucune"]
  /\ perturbes' = IF ops[o].cmd = "emarger" /\ Occupees' > Capacite
                    THEN perturbes \cup {"places"} ELSE perturbes
  /\ UNCHANGED <<instances, passee, ligne, aClore, rappels, fond, demandes,
                 pannes>>

DemarrerInscriptions(o) ==
  /\ ops[o].etape = "modification"
  /\ ATraiter(ops[o]) = {}
  /\ ops' = [ops EXCEPT ![o].etape = "inscription"]
  /\ UNCHANGED <<inscriptions, instances, passee, ligne, aClore, rappels,
                 fond, demandes, pannes, perturbes>>

(* Milo gives a new instance; it does not register twice.                   *)
Inscrire(o, j) ==
  /\ ops[o].etape = "inscription"
  /\ j \in ops[o].inscrire
  /\ inscriptions[j] = Aucune
  /\ instances' = [instances EXCEPT ![j] = @ + 1]
  /\ inscriptions' = [inscriptions EXCEPT
                        ![j] = [statut |-> "INSCRIT", id |-> instances[j] + 1]]
  /\ ops' = [ops EXCEPT ![o].inscrire = @ \ {j}, ![o].inscrits = @ \cup {j},
                        ![o].lus[j] = inscriptions'[j]]
  /\ UNCHANGED <<passee, ligne, aClore, rappels, fond, demandes, pannes,
                 perturbes>>

(* Once all are registered, their reminders are planned; a young person who *)
(* registers alone does not touch the row.                                  *)
TerminerInscriptions(o) ==
  /\ ops[o].etape = "inscription"
  /\ ops[o].inscrire = {}
  /\ fond' = fond \cup Appels("planifier", ops[o].inscrits, ops[o].lus)
  /\ ops' = IF ops[o].cmd = "autoinscrire"
              THEN [ops EXCEPT ![o] = Libre]
              ELSE [ops EXCEPT ![o].etape = "sauvegarde"]
  /\ UNCHANGED <<inscriptions, instances, passee, ligne, aClore, rappels,
                 demandes, pannes, perturbes>>

(* Variant: the closing date is left out of the row that is saved.          *)
EnregistrerSansCloture(o) ==
  ligne' = [ops[o].aSauver EXCEPT !.close = FALSE]

(* modifierOuCreer: the whole row, as it was read and changed.              *)
Enregistrer(o) == ligne' = ops[o].aSauver

SauverLigne(o) ==
  /\ ops[o].etape = "sauvegarde"
  /\ Enregistrer(o)
  /\ ops' = [ops EXCEPT ![o] = Libre]
  /\ UNCHANGED <<inscriptions, instances, passee, aClore, rappels, fond,
                 demandes, pannes, perturbes>>

(* Milo refuses or does not answer, or the process stops; Milo refuses what *)
(* is about an instance that is not there any more, and a second one.  The  *)
(* first failure ends the command: what is done stays, the row is not saved.*)
Echec(o) ==
  LET op == ops[o]
      refuse == \E j \in Jeunes :
        \/ /\ op.etape \in {"desinscription", "modification"}
           /\ j \in op.supprimer \cup ATraiter(op)
           /\ inscriptions[j].id # op.lus[j].id
        \/ /\ op.etape = "inscription"
           /\ j \in op.inscrire
           /\ inscriptions[j] # Aucune
  IN /\ op.etape # "libre"
     /\ refuse \/ pannes < MaxPannes
     /\ pannes' = IF refuse THEN pannes ELSE pannes + 1
     /\ ops' = [ops EXCEPT ![o] = Libre]
     /\ perturbes' = IF op.etape \in {"desinscription", "modification",
                                       "inscription"}
                       THEN perturbes \cup {"rappels"} ELSE perturbes
     /\ UNCHANGED <<inscriptions, instances, passee, ligne, aClore, rappels, fond,
                    demandes>>

-----------------------------------------------------------------------------
(* Jobs                                                                     *)

(* Calls to the planner; there is no reminder of a session that has begun.  *)
ExecuterAppel(a) ==
  /\ rappels' = IF a.op = "retirer" THEN rappels \ {<<a.jeune, a.id>>}
                ELSE IF passee THEN rappels ELSE rappels \cup {<<a.jeune, a.id>>}
  /\ fond' = fond \ {a}
  /\ UNCHANGED <<inscriptions, instances, passee, ligne, aClore, ops,
                 demandes, pannes, perturbes>>

EchecAppel(a) ==
  /\ pannes < MaxPannes
  /\ pannes' = pannes + 1
  /\ fond' = fond \ {a}
  /\ perturbes' = perturbes \cup {"rappels"}
  /\ UNCHANGED <<inscriptions, instances, passee, ligne, aClore, rappels,
                 ops, demandes>>

(* CLORE_SESSIONS: the row is created closed, or closed if it is not.       *)
CloreSession ==
  /\ aClore
  /\ aClore' = FALSE
  /\ ligne' = [Reglee(ligne) EXCEPT
                 !.visible = IF ligne = Absent THEN FALSE ELSE ligne.visible,
                 !.close = TRUE]
  /\ UNCHANGED <<inscriptions, instances, passee, rappels, ops, fond,
                 demandes, pannes, perturbes>>

-----------------------------------------------------------------------------
Next ==
  \/ Commencer
  \/ CloreSession
  \/ \E o \in Ops :
       \/ \E cmd \in Commandes : Demarrer(o, cmd)
       \/ \E quoi \in {"places", "inscrits"} : LireMilo(o, quoi)
       \/ LireLigne(o)
       \/ Decider(o)
       \/ Consulter(o)
       \/ \E j \in Jeunes : \/ Desinscrire(o, j)
                           \/ ModifierInscription(o, j)
                           \/ Inscrire(o, j)
       \/ DemarrerModifications(o)
       \/ DemarrerInscriptions(o)
       \/ TerminerInscriptions(o)
       \/ SauverLigne(o)
       \/ Echec(o)
  \/ \E a \in fond : ExecuterAppel(a) \/ EchecAppel(a)

Spec == Init /\ [][Next]_vars

-----------------------------------------------------------------------------
(* Properties                                                               *)

Calme == ~EnCours

(* Type correctness of the row, the registrations and the commands.         *)
TypeOK ==
  /\ inscriptions \in [Jeunes -> Inscription]
  /\ instances \in [Jeunes -> Nat]
  /\ \A j \in Jeunes : inscriptions[j].id <= instances[j]
  /\ passee \in BOOLEAN /\ aClore \in BOOLEAN
  /\ ligne \in Ligne \cup {Absent}
  /\ rappels \subseteq Jeunes \X (Nat \ {0})
  /\ ops \in [Ops -> Operation]
  /\ fond \subseteq Appel
  /\ {demandes, pannes} \subseteq Nat
  /\ perturbes \subseteq {"session", "rappels", "places"}

(* The places are never exceeded by a command alone, even one that fails    *)
(* half-way: verifierNombrePlaces counts those who leave as well, and they  *)
(* leave first.  Only attendance goes beyond: somebody who had refused and  *)
(* came anyway; then Milo gives a negative number, which autoinscrire does  *)
(* not take for zero.                                                       *)
PlacesRespectees ==
  Occupees > Capacite => {"session", "places"} \cap perturbes # {}

(* A session is closed, by the command that marks attendance or by the job, *)
(* once Milo knows who came: nobody stays merely registered, even when a    *)
(* marking failed half-way before, except somebody whom the list submitted  *)
(* says to have refused, whom emarger leaves as he is.                      *)
LaisseParLaListe(j) ==
  \E o \in Ops : /\ ops[o].etape = "sauvegarde"
                 /\ ops[o].cmd = "emarger"
                 /\ ops[o].souhaits[j] = "REFUS_JEUNE"
CloturePropre ==
  [][(ligne' # ligne /\ ligne' # Absent /\ ligne'.close
        /\ (ligne = Absent \/ ~ligne.close) /\ "session" \notin perturbes)
       => \A j \in Ayant(inscriptions, {"INSCRIT"}) : LaisseParLaListe(j)]_vars

(* What is closed stays closed, except when a command that read the row     *)
(* before saves it after.                                                   *)
ClotureDefinitive ==
  [][("session" \notin perturbes /\ ligne # Absent /\ ligne.close)
       => ligne' # Absent /\ ligne'.close]_vars

(* Before the session, those registered and nobody else have reminders,     *)
(* when no command failed half-way.                                         *)
RappelsDesInscrits ==
  (Calme /\ ~passee /\ "rappels" \notin perturbes) =>
    rappels = {<<j, inscriptions[j].id>> : j \in Ayant(inscriptions, {"INSCRIT"})}
=============================================================================

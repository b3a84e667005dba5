---------------------------- MODULE Portefeuille ----------------------------
(***************************************************************************)
(* Portfolios: which counsellor follows which young person, for good or for *)
(* a time, and what depends on it: the owner of the conversation in         *)
(* Firebase, the distribution lists, the group events of the agencies.      *)
(*                                                                          *)
(* A command reads rows, checks, and writes whole rows back one statement   *)
(* after another, without a transaction around them and without a lock.     *)
(* What it will read later in its course, it has not read yet.              *)
(***************************************************************************)
EXTENDS Naturals, Sequences, FiniteSets

CONSTANTS
  Jeunes, Conseillers, Agences, AC, Listes,
  Ops,          \* commands that may be in flight together
  Commandes,    \* bound: the kinds of commands that are received
  MaxDemandes,  \* bound: number of commands
  MaxPannes,    \* bound: number of failures
  SuiviInitial, \* the counsellor of each young person at first
  AgenceInitiale, \* the agency of each counsellor at first
  Aucun, Absent

VARIABLES
  jeunes,       \* table jeune
  chats,        \* Firebase: counsellor of each conversation
  transferts,   \* table transfert_conseiller, per young person, in order; Absent
                \* in the place of a row that was deleted
  conseillers,  \* table conseiller: the agency
  comptes,      \* accounts at the identity provider
  animations,   \* group events in rendez_vous
  listes,       \* table liste-de-diffusion with its associations
  archives,     \* table archive_jeune: whether each archive has the messages
  archivees,    \* history: whose row was removed by an archiving
  uuids,        \* ids already given to a group event or a list
  ops,          \* commands in flight
  demandes, pannes,
  perturbes     \* history: what overlapping or failed commands wrote

archivage == <<archives, archivees>>
donnees == <<jeunes, chats, transferts, conseillers, comptes, animations, listes,
             archivage>>
vars == <<jeunes, chats, transferts, conseillers, comptes, animations, listes,
          archives, archivees, uuids, ops, demandes, pannes, perturbes>>

-----------------------------------------------------------------------------
(* Rows                                                                     *)

LigneJeune == [conseiller : Conseillers, initial : Conseillers \cup {Aucun}]
Animation == [agence : Agences, createur : Conseillers, jeunes : SUBSET Jeunes]
Liste == [conseiller : Conseillers, jeunes : SUBSET Jeunes]
Transfert == [source : Conseillers, cible : Conseillers,
              type : {"temporaire", "definitif", "recuperation"}]
Entites == Jeunes \cup Conseillers \cup AC \cup Listes

ASSUME ConstantsAssumption ==
  /\ Jeunes \cap Conseillers = {} /\ AC \cap Listes = {}
  /\ (Jeunes \cup Conseillers) \cap (AC \cup Listes) = {}
  /\ SuiviInitial \in [Jeunes -> Conseillers]
  /\ AgenceInitiale \in [Conseillers -> Agences \cup {Aucun}]
  /\ Aucun \notin Agences \cup Conseillers \cup Entites
  /\ Absent \notin Agences \cup {Aucun} \cup Conseillers
  /\ Absent \notin LigneJeune \cup Animation \cup Liste \cup Transfert
  /\ MaxDemandes \in Nat /\ MaxPannes \in Nat

Existe(c) == conseillers[c] # Absent
Presents == {j \in Jeunes : jeunes[j] # Absent}
SuivisPar(c) == {j \in Presents : jeunes[j].conseiller = c}
Origine(c) == {j \in Presents : jeunes[j].initial = c}
AgenceDuJeune(j) == conseillers[jeunes[j].conseiller]

(* Young people, and those their rows name.                                 *)
Dossiers(js) ==
  js \cup {jeunes[j].conseiller : j \in js} \cup ({jeunes[j].initial : j \in js} \ {Aucun})

-----------------------------------------------------------------------------
(* Commands in flight.  ecritures: the writes that may come next, in any    *)
(* order or in parallel; each is one statement, or one transaction, on one  *)
(* store.  lit and ecrit: what the command has read, what it writes.        *)

Ecriture ==
  [table : {"chat"}, ligne : Transfert,
   lignes : SUBSET [id : Jeunes, ligne : LigneJeune]]
  \cup [table : {"transfert"}, ids : SUBSET Jeunes, ligne : Transfert]
  \cup [table : {"jeune"}, source : Conseillers \cup {Aucun}, id : Jeunes, ligne : LigneJeune]
  \cup [table : {"animation"}, id : AC, lignes : Seq(Animation) \ {<<>>}]
  \cup [table : {"liste"}, id : Listes, ligne : Liste]
  \cup [table : {"membres"}, id : Listes, jeunes : SUBSET Jeunes, ajout : BOOLEAN]
  \cup [table : {"conseiller"}, id : Conseillers, agence : Agences \cup {Aucun}]
  \cup [table : {"suppression conseiller"}, id : Conseillers]
  \cup [table : {"suppression liste"}, id : Listes]
  \cup [table : {"suppression jeune", "suppression chat", "suppression archives",
                 "archive"}, id : Jeunes]

Operation ==
  [cmd : {"transferer", "recuperer", "supprimerConseiller", "supprimerJeune",
          "archiverJeune", "archiverJeuneSupport", "creerListe", "modifierListe", "ajouterJeuneListe", 
          "supprimerListe", "creerAnimation", "modifierAnimation", "changerAgence", "modifierConseiller"},
   etape : {"libre", "jeunes", "animations", "listes", "initiaux", "compte",
            "conversation", "dossier", "conseillers", "fin"},
   messages : BOOLEAN,
   qui : Conseillers \cup {Aucun}, temporaire : BOOLEAN, jeunes : SUBSET Jeunes,
   quittee : Agences \cup {Aucun}, nouvelle : Agences \cup {Aucun},
   aFaire : SUBSET Conseillers, ecritures : SUBSET Ecriture,
   lit : SUBSET Entites, ecrit : SUBSET Entites]

Libre ==
  [cmd |-> "transferer", etape |-> "libre", qui |-> Aucun, temporaire |-> TRUE,
   jeunes |-> {}, quittee |-> Aucun, nouvelle |-> Aucun, aFaire |-> {},
   messages |-> FALSE, ecritures |-> {}, lit |-> {}, ecrit |-> {}]

(* A command that has read what it needs and only has writes left.          *)
Prete(cmd, ecritures, lit, ecrit) ==
  [Libre EXCEPT !.cmd = cmd, !.etape = "fin", !.ecritures = ecritures,
                !.lit = lit, !.ecrit = ecrit]

(* Variant: the lists of the former counsellor are forgotten.               *)
ResteAFaireSansListes(op) ==
  \/ op.etape \in {"initiaux", "compte", "conversation", "dossier"}
  \/ op.cmd = "transferer" /\ op.etape = "jeunes" /\ op.quittee # Aucun
  \/ op.cmd = "changerAgence" /\ op.etape = "animations"
  \/ op.etape = "conseillers" /\ op.aFaire # {}

(* What a command still has to do when its pending writes are done.         *)
ResteAFaire(op) ==
  \/ op.etape \in {"initiaux", "compte", "conversation", "dossier"}
  \/ op.cmd = "transferer" /\ op.etape = "jeunes" /\ op.quittee # Aucun
  \/ op.cmd = "transferer" /\ op.etape \in {"jeunes", "animations"} /\ ~op.temporaire
  \/ op.cmd = "changerAgence" /\ op.etape = "animations"
  \/ op.etape = "conseillers" /\ op.aFaire # {}

Poursuivre(op) == IF op.ecritures = {} /\ ~ResteAFaire(op) THEN Libre ELSE op

Departs == {"supprimerJeune", "archiverJeune", "archiverJeuneSupport"}

(* Two commands conflict when one writes what the other reads or writes,    *)
(* but two departures of one person do not.                                 *)
EnConflit(p, q) ==
  /\ {p.cmd, q.cmd} \subseteq Departs => p.jeunes # q.jeunes
  /\ \/ p.ecrit \cap (q.lit \cup q.ecrit) # {}
     \/ q.ecrit \cap p.lit # {}

Conflits(o, op) == {p \in Ops \ {o} : ops[p] # Libre /\ EnConflit(op, ops[p])}

PerturbesPar(o, op) ==
  perturbes \cup (UNION {ops[p].ecrit : p \in Conflits(o, op)})
            \cup (IF Conflits(o, op) = {} THEN {} ELSE op.ecrit)

(* A command reads: what it knows, and its conflicts, may grow.             *)
Lecture(o, op) ==
  /\ ops' = [ops EXCEPT ![o] = Poursuivre(op)]
  /\ perturbes' = PerturbesPar(o, op)
  /\ UNCHANGED <<donnees, pannes>>

Demarrer(o, op) ==
  /\ ops[o] = Libre
  /\ op.cmd \in Commandes
  /\ demandes < MaxDemandes
  /\ demandes' = demandes + 1
  /\ Lecture(o, op)

(* A further read of a command whose pending writes are done.               *)
Relire(o, op) ==
  /\ ops[o].ecritures = {}
  /\ Lecture(o, op)
  /\ UNCHANGED <<uuids, demandes>>

Init ==
  /\ jeunes = [j \in Jeunes |-> [conseiller |-> SuiviInitial[j], initial |-> Aucun]]
  /\ chats = SuiviInitial
  /\ transferts = [j \in Jeunes |-> <<>>]
  /\ conseillers = AgenceInitiale
  /\ comptes = Jeunes \cup Conseillers
  /\ animations = [a \in AC |-> Absent]
  /\ listes = [l \in Listes |-> Absent]
  /\ archives = [j \in Jeunes |-> {}]
  /\ archivees = {}
  /\ uuids = {}
  /\ ops = [o \in Ops |-> Libre]
  /\ demandes = 0
  /\ pannes = 0
  /\ perturbes = {}

-----------------------------------------------------------------------------
(* Transfers                                                                *)

(* Variant: the counsellor of origin is the last one.                       *)
mapConseillerInitialDernier(ligne, source, cible, temporaire) ==
  IF cible = ligne.initial \/ ~temporaire THEN Aucun ELSE source

(* The counsellor of origin is the first one a young person was lent by.    *)
mapConseillerInitial(ligne, source, cible, temporaire) ==
  IF cible = ligne.initial \/ ~temporaire THEN Aucun
  ELSE IF ligne.initial # Aucun THEN ligne.initial ELSE source

(* transferAndSaveAll: the conversations first.                             *)
EcritureChat(transfert, lignes) ==
  [table |-> "chat", ligne |-> transfert, lignes |-> lignes]

(* Variant: the group events of the agency the young people arrive in.      *)
AgenceQuitteeInverse(source, cible) ==
  IF /\ conseillers[source] # Aucun
     /\ conseillers[cible] \notin {Aucun, conseillers[source]}
  THEN conseillers[cible] ELSE Aucun

(* The agency the young people leave, if both counsellors have one.         *)
AgenceQuittee(source, cible) ==
  IF /\ conseillers[source] # Aucun
     /\ conseillers[cible] \notin {Aucun, conseillers[source]}
  THEN conseillers[source] ELSE Aucun

(* A supervisor, or the support, transfers young people of one portfolio to *)
(* another, for good or for a time.                                         *)
Transferer(o) ==
  \E source, cible \in {c \in Conseillers : Existe(c)}, temporaire \in BOOLEAN :
  \E js \in (SUBSET SuivisPar(source)) \ {{}} :
    LET ligne(j) == [conseiller |-> cible,
                     initial |-> mapConseillerInitial(jeunes[j], source, cible, temporaire)]
        transfert == [source |-> source, cible |-> cible,
                      type |-> IF temporaire THEN "temporaire" ELSE "definitif"]
    IN /\ Demarrer(o, [Libre EXCEPT
            !.cmd = "transferer", !.etape = "jeunes", !.qui = source,
            !.temporaire = temporaire, !.jeunes = js,
            !.quittee = AgenceQuittee(source, cible),
            !.ecritures = {EcritureChat(transfert, {[id |-> j, ligne |-> ligne(j)] : j \in js})},
            !.lit = Dossiers(js) \cup {cible}, !.ecrit = js])
       /\ UNCHANGED uuids

(* The counsellor of origin takes back everyone they lent, one lot per      *)
(* current counsellor, in parallel.                                         *)
Recuperer(o) ==
  \E c \in {d \in Conseillers : Existe(d) /\ Origine(d) # {}} :
    LET lot(d) == {j \in Origine(c) : jeunes[j].conseiller = d}
        transfert(d) == [source |-> d, cible |-> c, type |-> "recuperation"]
        rendu(j) == [id |-> j, ligne |-> [conseiller |-> c, initial |-> Aucun]]
    IN /\ Demarrer(o, Prete("recuperer",
            {EcritureChat(transfert(d), {rendu(j) : j \in lot(d)}) :
               d \in {e \in Conseillers : lot(e) # {}}},
            Dossiers(Origine(c)), Origine(c)))
       /\ UNCHANGED uuids

(* desinscrireJeunesDesAnimationsCollectivesDUnEtablissement: every event   *)
(* of the agency left is saved without them, concerned or not.              *)
LireAnimations(o) ==
  LET op == ops[o]
      acs == {a \in AC : animations[a] # Absent /\ animations[a].agence = op.quittee}
  IN /\ op.cmd = "transferer" /\ op.etape = "jeunes" /\ op.quittee # Aucun
     /\ Relire(o, [op EXCEPT !.etape = "animations",
          !.ecritures = {[table |-> "animation", id |-> a,
                          lignes |-> <<[animations[a] EXCEPT !.jeunes = @ \ op.jeunes]>>] : a \in acs},
          !.lit = @ \cup acs \cup Dossiers(UNION {animations[a].jeunes : a \in acs}),
          !.ecrit = @ \cup acs])

(* enleverLesJeunesDuConseiller: only the lists that hold one of them.      *)
LireListes(o) ==
  LET op == ops[o]
      concernees == {l \in Listes : /\ listes[l] # Absent
                                    /\ listes[l].conseiller = op.qui
                                    /\ listes[l].jeunes \cap op.jeunes # {}}
  IN /\ op.cmd = "transferer" /\ ~op.temporaire
     /\ \/ op.etape = "animations"
        \/ op.etape = "jeunes" /\ op.quittee = Aucun
     /\ Relire(o, [op EXCEPT !.etape = "listes",
          !.ecritures = {[table |-> "liste", id |-> l,
                          ligne |-> [listes[l] EXCEPT !.jeunes = @ \ op.jeunes]] : l \in concernees},
          !.lit = @ \cup concernees \cup Dossiers(UNION {listes[l].jeunes : l \in concernees}),
          !.ecrit = @ \cup concernees])

-----------------------------------------------------------------------------
(* Departures                                                               *)

(* Variant: those followed for a time do not count.                         *)
PortefeuilleDefinitifVide(c) == {j \in SuivisPar(c) : jeunes[j].initial = Aucun} = {}

PortefeuilleVide(c) == SuivisPar(c) = {}

SupprimerConseiller(o) ==
  /\ \E c \in {d \in Conseillers : Existe(d)} :
       /\ PortefeuilleVide(c)
       /\ Demarrer(o, [Libre EXCEPT !.cmd = "supprimerConseiller", !.etape = "initiaux",
                                    !.qui = c, !.lit = {c}, !.ecrit = {c}])
  /\ UNCHANGED uuids

(* Variant: the counsellor of origin is left on those they lent.            *)
InitiauxConserves(c) == {}

(* The rows of those the counsellor had lent, without counsellor of origin. *)
InitiauxEffaces(c) ==
  {[table |-> "jeune", source |-> Aucun, id |-> j,
    ligne |-> [jeunes[j] EXCEPT !.initial = Aucun]] : j \in Origine(c)}

LireInitiaux(o) ==
  /\ ops[o].etape = "initiaux"
  /\ Relire(o, [ops[o] EXCEPT !.etape = "compte",
       !.ecritures = InitiauxEffaces(ops[o].qui),
       !.lit = @ \cup Dossiers(Origine(ops[o].qui)),
       !.ecrit = @ \cup Origine(ops[o].qui)])

(* A young person leaves, or is archived by a counsellor or the support.    *)
Quitter(o, cmd) ==
  /\ \E j \in Presents :
       Demarrer(o, [Libre EXCEPT !.cmd = cmd, !.etape = "compte",
                                 !.jeunes = {j}, !.lit = {j}, !.ecrit = {j}])
  /\ UNCHANGED uuids

SupprimerJeune(o) == Quitter(o, "supprimerJeune")
ArchiverJeune(o) == Quitter(o, "archiverJeune")
ArchiverJeuneSupport(o) == Quitter(o, "archiverJeuneSupport")

Sur(table, js) == {[table |-> table, id |-> j] : j \in js}

(* deleteUtilisateurIdp, then the row, or the archive.                      *)
SupprimerCompte(o) ==
  LET op == ops[o]
  IN /\ op.etape = "compte" /\ op.ecritures = {}
     /\ comptes' = comptes \ (op.jeunes \cup {op.qui})
     /\ ops' = [ops EXCEPT ![o] = [op EXCEPT
          !.etape = IF op.cmd \in Departs \ {"supprimerJeune"} THEN "conversation"
                                                               ELSE "fin",
          !.ecritures =
            IF op.cmd = "supprimerConseiller" THEN Sur("suppression conseiller", {op.qui})
            ELSE IF op.cmd = "supprimerJeune" THEN Sur("suppression jeune", op.jeunes)
            ELSE {}]]
     /\ UNCHANGED <<jeunes, chats, transferts, conseillers, animations, listes,
                    archivage, uuids, demandes, pannes, perturbes>>

-----------------------------------------------------------------------------
(* Archives                                                                 *)

(* construire reads the conversation ...                                    *)
LireConversation(o) ==
  /\ ops[o].etape = "conversation"
  /\ ops' = [ops EXCEPT ![o] =
       [ops[o] EXCEPT !.etape = "dossier",
                      !.messages = \A j \in ops[o].jeunes : chats[j] # Absent]]
  /\ UNCHANGED <<donnees, uuids, demandes, pannes, perturbes>>

(* Variant: whoever is gone is archived all the same.                       *)
JamaisSupprime(js) == FALSE

DejaSupprime(js) == js \cap Presents = {}

(* ... then the row and what hangs from it.  Without a row there is no      *)
(* archive: the counsellor's command stops there, the support's ignores it. *)
LireDossier(o) ==
  LET op == ops[o]
      suite == IF ~DejaSupprime(op.jeunes) THEN Sur("suppression archives", op.jeunes)
               ELSE IF op.cmd = "archiverJeune" THEN {}
               ELSE Sur("suppression jeune", op.jeunes)
  IN /\ op.etape = "dossier"
     /\ ops' = [ops EXCEPT ![o] =
                  Poursuivre([op EXCEPT !.etape = "fin", !.ecritures = suite])]
     /\ UNCHANGED <<donnees, uuids, demandes, pannes, perturbes>>

-----------------------------------------------------------------------------
(* Distribution lists                                                       *)

EcritureListe(l, c, js) ==
  [table |-> "liste", id |-> l, ligne |-> [conseiller |-> c, jeunes |-> js]]

CreerListe(o) ==
  \E c \in {d \in Conseillers : Existe(d)}, l \in Listes \ uuids :
  \E js \in SUBSET SuivisPar(c) :
    /\ Demarrer(o, Prete("creerListe", {EcritureListe(l, c, js)}, Dossiers(js) \cup {c}, {l}))
    /\ uuids' = uuids \cup {l}

(* A counsellor may also keep those they have lent.                         *)
ModifierListe(o) ==
  \E l \in {k \in Listes : listes[k] # Absent} :
    LET c == listes[l].conseiller
    IN \E js \in SUBSET (SuivisPar(c) \cup Origine(c)) :
         /\ Demarrer(o, Prete("modifierListe", {EcritureListe(l, c, js)},
                              Dossiers(js) \cup {c, l}, {l}))
         /\ UNCHANGED uuids

AjouterJeuneListe(o) ==
  \E l \in {k \in Listes : listes[k] # Absent} :
  \E j \in SuivisPar(listes[l].conseiller) :
    /\ Demarrer(o, Prete("ajouterJeuneListe",
         {[table |-> "membres", id |-> l, jeunes |-> {j}, ajout |-> TRUE]},
         Dossiers({j}) \cup {l}, {l}))
    /\ UNCHANGED uuids

SupprimerListe(o) ==
  \E l \in {k \in Listes : listes[k] # Absent} :
    /\ Demarrer(o, Prete("supprimerListe",
         {[table |-> "suppression liste", id |-> l]}, {l}, {l}))
    /\ UNCHANGED uuids

-----------------------------------------------------------------------------
(* Group events and agencies                                                *)

EcritureAnimation(a, lignes) == [table |-> "animation", id |-> a, lignes |-> lignes]

(* verifierAgenceJeunes: anybody followed in the agency, whoever asks.      *)
JeunesDeLAgence(agence) == {j \in Presents : AgenceDuJeune(j) = agence}

CreerAnimation(o) ==
  \E c \in {d \in Conseillers : conseillers[d] \in Agences}, a \in AC \ uuids :
  \E js \in SUBSET JeunesDeLAgence(conseillers[c]) :
    /\ Demarrer(o, Prete("creerAnimation",
         {EcritureAnimation(a, <<[agence |-> conseillers[c], createur |-> c, jeunes |-> js]>>)},
         Dossiers(js) \cup {c}, {a}))
    /\ uuids' = uuids \cup {a}

ModifierAnimation(o) ==
  \E a \in {b \in AC : animations[b] # Absent} :
  \E js \in SUBSET JeunesDeLAgence(animations[a].agence) :
    /\ Demarrer(o, Prete("modifierAnimation",
         {EcritureAnimation(a, <<[animations[a] EXCEPT !.jeunes = js]>>)},
         Dossiers(js) \cup {a}, {a}))
    /\ UNCHANGED uuids

(* One counsellor to another agency, or all those of an agency one by one.  *)
ChangerAgence(o) ==
  \E nouvelle \in Agences, cs \in {{c} : c \in Conseillers}
        \cup {{c \in Conseillers : conseillers[c] = ancienne} : ancienne \in Agences} :
    /\ Demarrer(o, [Libre EXCEPT !.cmd = "changerAgence", !.etape = "conseillers",
                                 !.nouvelle = nouvelle, !.aFaire = cs])
    /\ UNCHANGED uuids

(* Variant: only the events the counsellor created are rewritten.           *)
ReecrituresDuCreateur(c, a, nouvelle) ==
  IF animations[a].createur # c THEN <<>>
  ELSE <<[animations[a] EXCEPT !.agence = nouvelle]>>

(* updateAnimationCollective: the rows written one after the other.  The    *)
(* second one of the creator is built from the row as it was read.          *)
Reecritures(c, a, nouvelle) ==
  LET lue == animations[a]
      autres == {j \in lue.jeunes : jeunes[j].conseiller # c}
      sans(js) == IF lue.jeunes \cap js = {} THEN <<>>
                  ELSE <<[lue EXCEPT !.jeunes = @ \ js]>>
  IN IF lue.createur = c
     THEN sans(autres) \o <<[lue EXCEPT !.agence = nouvelle]>>
     ELSE sans(SuivisPar(c))

LireConseiller(o) ==
  \E c \in ops[o].aFaire :
    LET op == [ops[o] EXCEPT !.aFaire = @ \ {c}]
        acs == {a \in AC : animations[a] # Absent /\ animations[a].agence = conseillers[c]}
        aEcrire == {a \in acs : Reecritures(c, a, op.nouvelle) # <<>>}
    IN /\ op.etape = "conseillers"
       /\ Relire(o, IF conseillers[c] \in {Absent, Aucun, op.nouvelle} THEN op
                    ELSE [op EXCEPT !.etape = "animations", !.qui = c,
            !.ecritures = {EcritureAnimation(a, Reecritures(c, a, op.nouvelle)) : a \in aEcrire},
            !.lit = @ \cup acs \cup {c} \cup Dossiers(UNION {animations[a].jeunes : a \in acs}),
            !.ecrit = @ \cup aEcrire \cup {c}])

(* The row of the counsellor, as it was read but for the agency.            *)
SauverAgence(o) ==
  LET op == ops[o]
  IN /\ op.cmd = "changerAgence" /\ op.etape = "animations" /\ op.ecritures = {}
     /\ conseillers' = [conseillers EXCEPT ![op.qui] = op.nouvelle]
     /\ ops' = [ops EXCEPT ![o] = Poursuivre([op EXCEPT !.etape = "conseillers"])]
     /\ UNCHANGED <<jeunes, chats, transferts, comptes, animations, listes,
                    archivage, uuids, demandes, pannes, perturbes>>

(* A counsellor outside the Milo structure may enter an agency by hand,     *)
(* without id (Aucun); the row is saved whole, even if nothing changes.     *)
ModifierConseiller(o) ==
  \E c \in {d \in Conseillers : Existe(d)}, agence \in Agences \cup {Aucun} :
    /\ agence = Aucun \/ conseillers[c] \in {Aucun, agence}
    /\ Demarrer(o, Prete("modifierConseiller",
         {[table |-> "conseiller", id |-> c, agence |-> agence]}, {c}, {c}))
    /\ UNCHANGED uuids

-----------------------------------------------------------------------------
(* Writes                                                                   *)

(* The foreign keys: a write that breaks one is refused by the database.    *)
(* Deleting a counsellor carries away those they follow, but is refused     *)
(* while they remain the counsellor of origin of somebody else.             *)
Possible(w) ==
  /\ w.table = "transfert" =>
       /\ w.ids \subseteq Presents
       /\ Existe(w.ligne.source) /\ Existe(w.ligne.cible)
  /\ w.table = "jeune" =>
       /\ Existe(w.ligne.conseiller)
       /\ w.ligne.initial # Aucun => Existe(w.ligne.initial)
  /\ w.table = "animation" => Head(w.lignes).jeunes \subseteq Presents
  /\ w.table = "liste" => Existe(w.ligne.conseiller)
  /\ w.table = "membres" =>
       w.jeunes = {} \/ (w.jeunes \subseteq Presents /\ listes[w.id] # Absent)
  /\ w.table = "suppression conseiller" => Origine(w.id) \subseteq SuivisPar(w.id)

(* Write w of command o succeeds; suites are the writes it opens.           *)
Ecrire(o, w, suites) ==
  /\ Possible(w)
  /\ ops' = [ops EXCEPT ![o] =
               Poursuivre([ops[o] EXCEPT !.ecritures = (@ \ {w}) \cup suites])]
  /\ UNCHANGED <<uuids, demandes, pannes, perturbes>>

EnAttente(o, table) == {w \in ops[o].ecritures : w.table = table}

(* Variant: no trace of the transfer.                                       *)
SuitesDuChatSansTrace(w) ==
  {[table |-> "jeune", source |-> w.ligne.source, id |-> l.id, ligne |-> l.ligne] :
     l \in w.lignes}

(* creerTransferts, and the rows of the young people one after the other.   *)
SuitesDuChat(w) ==
  {[table |-> "jeune", source |-> w.ligne.source, id |-> l.id, ligne |-> l.ligne] :
     l \in w.lignes}
  \cup {[table |-> "transfert", ids |-> {l.id : l \in w.lignes}, ligne |-> w.ligne]}

(* One Firestore transaction for all the conversations that exist.          *)
EcrireChat(o) ==
  \E w \in EnAttente(o, "chat") :
    /\ chats' = [j \in Jeunes |->
         IF chats[j] # Absent /\ \E l \in w.lignes : l.id = j
         THEN w.ligne.cible ELSE chats[j]]
    /\ Ecrire(o, w, SuitesDuChat(w))
    /\ UNCHANGED <<jeunes, transferts, conseillers, comptes, animations, listes, archivage>>

EcrireTransfert(o) ==
  \E w \in EnAttente(o, "transfert") :
    /\ transferts' = [j \in Jeunes |->
         IF j \in w.ids THEN Append(transferts[j], w.ligne) ELSE transferts[j]]
    /\ Ecrire(o, w, {})
    /\ UNCHANGED <<jeunes, chats, conseillers, comptes, animations, listes, archivage>>

(* An upsert: a row deleted in the meantime comes back.                     *)
EcrireJeune(o) ==
  \E w \in EnAttente(o, "jeune") :
    /\ jeunes' = [jeunes EXCEPT ![w.id] = w.ligne]
    /\ Ecrire(o, w, {})
    /\ UNCHANGED <<chats, transferts, conseillers, comptes, animations, listes, archivage>>

EcrireAnimation(o) ==
  \E w \in EnAttente(o, "animation") :
    /\ animations' = [animations EXCEPT ![w.id] = Head(w.lignes)]
    /\ Ecrire(o, w, IF Len(w.lignes) = 1 THEN {}
                    ELSE {EcritureAnimation(w.id, Tail(w.lignes))})
    /\ UNCHANGED <<jeunes, chats, transferts, conseillers, comptes, listes, archivage>>

(* The row of the list is written outside the transaction on its members.   *)
EcrireListe(o) ==
  \E w \in EnAttente(o, "liste") :
    /\ EnAttente(o, "membres") = {}
    /\ listes' = [listes EXCEPT ![w.id] =
         IF @ = Absent THEN [conseiller |-> w.ligne.conseiller, jeunes |-> {}] ELSE @]
    /\ Ecrire(o, w, {[table |-> "membres", id |-> w.id, jeunes |-> w.ligne.jeunes,
                      ajout |-> FALSE]})
    /\ UNCHANGED <<jeunes, chats, transferts, conseillers, comptes, animations, archivage>>

EcrireMembres(o) ==
  \E w \in EnAttente(o, "membres") :
    /\ listes' = [listes EXCEPT ![w.id] =
         IF @ = Absent THEN Absent
         ELSE [conseiller |-> @.conseiller,
               jeunes |-> w.jeunes \cup (IF w.ajout THEN @.jeunes ELSE {})]]
    /\ Ecrire(o, w, {})
    /\ UNCHANGED <<jeunes, chats, transferts, conseillers, comptes, animations, archivage>>

DetruireListe(o) ==
  \E w \in EnAttente(o, "suppression liste") :
    /\ listes' = [listes EXCEPT ![w.id] = Absent]
    /\ Ecrire(o, w, {})
    /\ UNCHANGED <<jeunes, chats, transferts, conseillers, comptes, animations, archivage>>

EcrireConseiller(o) ==
  \E w \in EnAttente(o, "conseiller") :
    /\ conseillers' = [conseillers EXCEPT ![w.id] = w.agence]
    /\ Ecrire(o, w, {})
    /\ UNCHANGED <<jeunes, chats, transferts, comptes, animations, listes, archivage>>

(* The counsellors that a row of the history of transfers names.            *)
Concernes(transfert) ==
  IF transfert = Absent THEN {} ELSE {transfert.source, transfert.cible}

(* Rows that disappear take with them, by the foreign keys, the rows that   *)
(* refer to them.                                                           *)
Effacer(js, cs) ==
  /\ jeunes' = [j \in Jeunes |-> IF j \in js THEN Absent ELSE jeunes[j]]
  /\ conseillers' = [c \in Conseillers |-> IF c \in cs THEN Absent ELSE conseillers[c]]
  /\ transferts' = [j \in Jeunes |->
       IF j \in js THEN <<>>
       ELSE [i \in 1..Len(transferts[j]) |->
               IF Concernes(transferts[j][i]) \cap cs = {} THEN transferts[j][i] ELSE Absent]]
  /\ listes' = [l \in Listes |->
       IF listes[l] = Absent THEN Absent
       ELSE IF listes[l].conseiller \in cs THEN Absent
       ELSE [listes[l] EXCEPT !.jeunes = @ \ js]]
  /\ animations' = [a \in AC |->
       IF animations[a] = Absent THEN Absent ELSE [animations[a] EXCEPT !.jeunes = @ \ js]]

(* Variant: those the counsellor follows stay.                              *)
PersonneEmporte(c) == {}

EmportesPar(c) == SuivisPar(c)

DetruireConseiller(o) ==
  \E w \in EnAttente(o, "suppression conseiller") :
    /\ Effacer(EmportesPar(w.id), {w.id})
    /\ Ecrire(o, w, {})
    /\ UNCHANGED <<chats, comptes, archivage>>

DetruireJeune(o) ==
  \E w \in EnAttente(o, "suppression jeune") :
    /\ Effacer({w.id}, {})
    /\ archivees' = archivees \cup
         {j \in {w.id} \cap Presents : ops[o].cmd # "supprimerJeune"}
    /\ Ecrire(o, w, Sur("suppression chat", {w.id}))
    /\ UNCHANGED <<chats, comptes, archives>>

DetruireChat(o) ==
  \E w \in EnAttente(o, "suppression chat") :
    /\ chats' = [chats EXCEPT ![w.id] = Absent]
    /\ Ecrire(o, w, {})
    /\ UNCHANGED <<jeunes, transferts, conseillers, comptes, animations, listes, archivage>>

(* The archives there are give way to the new one.                          *)
DetruireArchives(o) ==
  \E w \in EnAttente(o, "suppression archives") :
    /\ archives' = [archives EXCEPT ![w.id] = {}]
    /\ Ecrire(o, w, Sur("archive", {w.id}))
    /\ UNCHANGED <<jeunes, chats, transferts, conseillers, comptes, animations, listes,
                   archivees>>

EcrireArchive(o) ==
  \E w \in EnAttente(o, "archive") :
    /\ archives' = [archives EXCEPT ![w.id] = @ \cup {ops[o].messages}]
    /\ Ecrire(o, w, Sur("suppression jeune", {w.id}))
    /\ UNCHANGED <<jeunes, chats, transferts, conseillers, comptes, animations, listes,
                   archivees>>

-----------------------------------------------------------------------------
(* Failures                                                                 *)

(* What the counsellor's command does without: it logs an exception, and    *)
(* removes the young person all the same.                                   *)
EnArchivage(op) ==
  /\ op.cmd = "archiverJeune"
  /\ \/ op.etape \in {"conversation", "dossier"}
     \/ \E w \in op.ecritures : w.table \in {"suppression archives", "archive"}

PoursuivreSansArchive(o) ==
  /\ EnArchivage(ops[o])
  /\ pannes < MaxPannes
  /\ pannes' = pannes + 1
  /\ ops' = [ops EXCEPT ![o] =
       [ops[o] EXCEPT !.etape = "fin", !.ecritures = Sur("suppression jeune", ops[o].jeunes)]]
  /\ perturbes' = perturbes \cup ops[o].ecrit
  /\ UNCHANGED <<donnees, uuids, demandes>>

(* What goes on after w has failed: the writes already sent in parallel,    *)
(* not those the code would have sent after w.                              *)
Survivantes(op, w) ==
  IF op.cmd = "transferer" /\ w.table # "jeune" /\ w.table # "transfert" THEN {}
  ELSE {v \in op.ecritures \ {w} :
          ~(w.table = "jeune" /\ v.table = "jeune" /\ v.source = w.source)}

(* A write fails, refused by a key or because its store does: the command   *)
(* stops there.  Conversations that cannot be moved leave everything as it  *)
(* was.                                                                     *)
Echec(o) ==
  \E w \in ops[o].ecritures :
    /\ w.table = "liste" => EnAttente(o, "membres") = {}
    /\ ~EnArchivage(ops[o])
    /\ Possible(w) => pannes < MaxPannes
    /\ pannes' = IF Possible(w) THEN pannes + 1 ELSE pannes
    /\ ops' = [ops EXCEPT ![o] =
         Poursuivre([ops[o] EXCEPT !.etape = "fin", !.aFaire = {},
                                   !.ecritures = Survivantes(ops[o], w)])]
    /\ perturbes' = IF Possible(w) /\ w.table # "chat"
                    THEN perturbes \cup ops[o].ecrit ELSE perturbes
    /\ UNCHANGED <<donnees, uuids, demandes>>

(* The process stops, or a call outside the writes fails.                   *)
Abandon(o) ==
  /\ ops[o] # Libre
  /\ pannes < MaxPannes
  /\ pannes' = pannes + 1
  /\ ops' = [ops EXCEPT ![o] = Libre]
  /\ perturbes' = perturbes \cup ops[o].ecrit
  /\ UNCHANGED <<donnees, uuids, demandes>>

-----------------------------------------------------------------------------
Next ==
  \E o \in Ops :
    \/ Transferer(o) \/ LireAnimations(o) \/ LireListes(o)
    \/ Recuperer(o)
    \/ SupprimerConseiller(o) \/ LireInitiaux(o)
    \/ SupprimerJeune(o) \/ ArchiverJeune(o) \/ ArchiverJeuneSupport(o)
    \/ SupprimerCompte(o) \/ LireConversation(o) \/ LireDossier(o)
    \/ CreerListe(o) \/ ModifierListe(o) \/ AjouterJeuneListe(o) \/ SupprimerListe(o)
    \/ CreerAnimation(o) \/ ModifierAnimation(o)
    \/ ChangerAgence(o) \/ LireConseiller(o) \/ SauverAgence(o)
    \/ ModifierConseiller(o)
    \/ EcrireChat(o) \/ EcrireTransfert(o) \/ EcrireJeune(o) \/ EcrireAnimation(o)
    \/ EcrireListe(o) \/ EcrireMembres(o) \/ DetruireListe(o) \/ EcrireConseiller(o)
    \/ DetruireConseiller(o) \/ DetruireJeune(o) \/ DetruireChat(o)
    \/ DetruireArchives(o) \/ EcrireArchive(o) \/ PoursuivreSansArchive(o)
    \/ Echec(o) \/ Abandon(o)

Spec == Init /\ [][Next]_vars

-----------------------------------------------------------------------------
(* Properties                                                               *)

Tranquille(x) == \A o \in Ops : ops[o] = Libre \/ x \notin ops[o].ecrit

(* The rows that are left in the history of a young person, and the last.   *)
Restants(j) == {i \in 1..Len(transferts[j]) : transferts[j][i] # Absent}
Dernier(j) == transferts[j][CHOOSE i \in Restants(j) : \A k \in Restants(j) : k <= i]

(* The rows have their type and every reference leads to a row, whatever    *)
(* overlaps or fails: whoever a deleted counsellor followed is gone too.    *)
TypeOK ==
  /\ \A j \in Presents :
       /\ jeunes[j] \in LigneJeune
       /\ Existe(jeunes[j].conseiller)
       /\ jeunes[j].initial # Aucun => Existe(jeunes[j].initial)
  /\ chats \in [Jeunes -> Conseillers \cup {Absent}]
  /\ \A j \in Jeunes : \A i \in Restants(j) :
       LET t == transferts[j][i]
       IN t \in Transfert /\ j \in Presents /\ Existe(t.source) /\ Existe(t.cible)
  /\ conseillers \in [Conseillers -> Agences \cup {Aucun, Absent}]
  /\ comptes \subseteq Jeunes \cup Conseillers
  /\ \A a \in AC : animations[a] # Absent =>
       animations[a] \in Animation /\ animations[a].jeunes \subseteq Presents
  /\ \A l \in Listes : listes[l] # Absent =>
       /\ listes[l] \in Liste /\ listes[l].jeunes \subseteq Presents
       /\ Existe(listes[l].conseiller)
  /\ archives \in [Jeunes -> SUBSET BOOLEAN] /\ archivees \subseteq Jeunes
  /\ ops \in [Ops -> Operation]
  /\ perturbes \subseteq Entites

(* Firebase, the history of transfers and the row of a young person name    *)
(* the same counsellor once transferAndSaveAll is over, and nothing is left *)
(* of a conversation once its young person is deleted.  The history loses   *)
(* the transfers of a counsellor who was deleted, even one that an update   *)
(* in flight has brought back.                                              *)
SuiviCoherent ==
  \A j \in Jeunes \ perturbes : Tranquille(j) =>
    IF j \notin Presents THEN chats[j] = Absent
    ELSE /\ chats[j] = jeunes[j].conseiller
         /\ (\A c \in Conseillers : Existe(c) /\ c \notin perturbes) =>
              jeunes[j].conseiller = IF Restants(j) = {} THEN SuiviInitial[j]
                                     ELSE Dernier(j).cible

(* Whoever follows a young person, and for whom, changes as the commands    *)
(* promise, one hand-over at a time.                                        *)
S == INSTANCE Suivi WITH suivi <- jeunes, perturbes <- perturbes \cap Jeunes
ImplementeSuivi == S!Spec

(* The deletion of a counsellor carries nobody away: young people disappear *)
(* by their own departure only.                                             *)
DisparitionVoulue(j) ==
  \E o \in Ops : ops[o].cmd \in Departs /\ j \in ops[o].jeunes
AucunJeuneEfface ==
  [][\A j \in Presents \ perturbes' : jeunes'[j] = Absent => DisparitionVoulue(j)]_vars

(* Whoever was removed by an archiving has an archive with their messages,  *)
(* even when several departures overlap: the messages are read before the   *)
(* row, and removed after it.  Not so after an exception.                   *)
ArchiveConservee ==
  \A j \in archivees \ perturbes : Tranquille(j) => archives[j] = {TRUE}

(* The identity provider and the database agree on who has an account.      *)
ComptesCoherents ==
  \A x \in (Jeunes \cup Conseillers) \ perturbes : Tranquille(x) =>
    (x \in comptes <=> IF x \in Jeunes THEN x \in Presents ELSE Existe(x))

(* After a definitive transfer, no list of the former counsellor holds the  *)
(* young person, and none can take them again (enleverLesJeunesDuConseiller *)
(* and the authorizers of the list commands).  This is said as long as the  *)
(* history still has its last transfer: it loses those that name a deleted  *)
(* counsellor, and an older one is then no longer about the last hand-over. *)
ListesApresTransfert ==
  \A j \in Presents \ perturbes :
    /\ Tranquille(j) /\ Len(transferts[j]) \in Restants(j)
    /\ Dernier(j).type = "definitif" /\ Dernier(j).source # Dernier(j).cible
    => \A l \in Listes \ perturbes :
         listes[l] # Absent /\ listes[l].conseiller = Dernier(j).source
           => j \notin listes[l].jeunes

(* Those registered for a group event are followed in its agency            *)
(* (verifierAgenceJeunes, kept by the unregistrations of a transfer).       *)
ParticipantsDeLAgence ==
  \A a \in AC \ perturbes : animations[a] # Absent /\ Tranquille(a) =>
    \A j \in animations[a].jeunes \ perturbes :
      Tranquille(j) => AgenceDuJeune(j) = animations[a].agence

(* The command o gives its new agency to counsellor c in this step.         *)
Demenage(o, c) ==
  /\ ops[o].cmd = "changerAgence" /\ ops[o].etape = "animations" /\ ops[o].qui = c
  /\ ops'[o].etape # "animations" /\ conseillers'[c] # conseillers[c]
  /\ c \notin perturbes'

(* When a counsellor changes agency, their group events have followed, and  *)
(* those that stay hold none of the young people they follow.               *)
EtablissementQuitte ==
  [][\A o \in Ops, c \in Conseillers : Demenage(o, c) =>
       \A a \in AC \ perturbes :
         animations[a] # Absent /\ animations[a].agence = conseillers[c] =>
           /\ animations[a].createur # c
           /\ \A j \in animations[a].jeunes \ perturbes : jeunes[j].conseiller # c]_vars

=============================================================================

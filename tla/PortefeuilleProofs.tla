------------------------- MODULE PortefeuilleProofs -------------------------
(***************************************************************************)
(* Proofs about Portefeuille: the references of the rows stay whole, and    *)
(* whoever no overlap nor failure concerns is followed as Suivi promises,   *)
(* in the database and in Firebase, loses nothing to the deletion of a      *)
(* counsellor, and leaves an archive with their messages; a counsellor      *)
(* leaves nothing of theirs in the agency they move from.  What young       *)
(* people are registered in, lists and group events, is in                  *)
(* PortefeuilleGroupes.                                                     *)
(*                                                                          *)
(* A command that something concerns only in part would be hard to follow:  *)
(* a conflict marks all that both commands write, so a command is either    *)
(* sound (Saine), and then all it has read still holds (Lues), or nothing   *)
(* is promised any more of what it writes.                                  *)
(***************************************************************************)
EXTENDS Portefeuille, FiniteSetTheorems, SequenceTheorems, TLAPS

-----------------------------------------------------------------------------
(* Types and references                                                     *)

Types ==
  /\ jeunes \in [Jeunes -> LigneJeune \cup {Absent}]
  /\ chats \in [Jeunes -> Conseillers \cup {Absent}]
  /\ transferts \in [Jeunes -> Seq(Transfert \cup {Absent})]
  /\ conseillers \in [Conseillers -> Agences \cup {Aucun, Absent}]
  /\ comptes \subseteq Jeunes \cup Conseillers
  /\ animations \in [AC -> Animation \cup {Absent}]
  /\ listes \in [Listes -> Liste \cup {Absent}]
  /\ archives \in [Jeunes -> SUBSET BOOLEAN]
  /\ archivees \subseteq Jeunes
  /\ ops \in [Ops -> Operation]
  /\ perturbes \subseteq Entites

Nommes(ligne) ==
  Existe(ligne.conseiller) /\ (ligne.initial # Aucun => Existe(ligne.initial))

References ==
  /\ \A j \in Presents : Nommes(jeunes[j])
  /\ \A j \in Jeunes : \A i \in Restants(j) :
       j \in Presents /\ Existe(transferts[j][i].source) /\ Existe(transferts[j][i].cible)
  /\ \A a \in AC : animations[a] # Absent => animations[a].jeunes \subseteq Presents
  /\ \A l \in Listes : listes[l] # Absent =>
       listes[l].jeunes \subseteq Presents /\ Existe(listes[l].conseiller)

-----------------------------------------------------------------------------
(* What a command in flight can be, whatever the rows are                   *)

Mouvements == {"chat", "transfert", "jeune"}
Effacements == {"suppression jeune", "suppression chat", "suppression archives", "archive"}

(* A command holds what it writes, and has read what it names.              *)
Annoncee(op, w) ==
  /\ w.table = "chat" =>
       /\ w.ligne.source \in op.lit /\ w.ligne.cible \in op.lit
       /\ \A l \in w.lignes :
            /\ l.id \in op.ecrit
            /\ l.ligne.conseiller = w.ligne.cible
            /\ l.ligne.initial \in op.lit \cup {Aucun}
            /\ \A m \in w.lignes : m.id = l.id => m = l
  /\ w.table = "transfert" =>
       /\ w.ligne.source \in op.lit /\ w.ligne.cible \in op.lit
       /\ w.ids \subseteq op.ecrit
  /\ w.table = "jeune" =>
       /\ w.id \in op.ecrit
       /\ w.ligne.conseiller \in op.lit /\ w.ligne.initial \in op.lit \cup {Aucun}
       /\ op.cmd = "supprimerConseiller" => w.ligne.initial = Aucun
  /\ w.table = "conseiller" => op.cmd = "modifierConseiller" /\ w.id \in op.ecrit
  /\ w.table = "suppression conseiller" =>
       op.cmd = "supprimerConseiller" /\ op.etape = "fin" /\ w.id = op.qui
  /\ w.table \in Effacements => op.cmd \in Departs /\ w.id \in op.jeunes

(* The writes that each command has in its course.                          *)
Tables(op) ==
  IF op.cmd \in Departs THEN Effacements
  ELSE IF op.cmd = "supprimerConseiller" THEN {"jeune", "suppression conseiller"}
  ELSE IF op.cmd = "recuperer" THEN Mouvements
  ELSE IF op.cmd = "transferer"
    THEN IF op.etape = "jeunes" THEN Mouvements
         ELSE IF op.etape = "animations" THEN {"animation"}
         ELSE IF op.etape = "listes" THEN {"liste", "membres"}
         ELSE {"transfert", "jeune"}
  ELSE {"animation", "liste", "membres", "conseiller", "suppression liste"}

Etapes(op) ==
  IF op.cmd = "supprimerJeune" THEN {"compte", "fin"}
  ELSE IF op.cmd \in Departs THEN {"compte", "conversation", "dossier", "fin"}
  ELSE IF op.cmd = "supprimerConseiller" THEN {"initiaux", "compte", "fin"}
  ELSE IF op.cmd = "transferer" THEN {"libre", "jeunes", "animations", "listes", "fin"}
  ELSE IF op.cmd = "changerAgence" THEN {"conseillers", "animations", "fin"}
  ELSE {"fin"}

Reguliere(op) ==
  /\ op.etape = "libre" => op = Libre
  /\ op.etape \in Etapes(op)
  /\ \A w \in op.ecritures : w.table \in Tables(op) /\ Annoncee(op, w)
  /\ op.ecrit \cap (Jeunes \cup Conseillers) \subseteq op.lit
  /\ op.cmd \in Departs =>
       /\ \E j \in Jeunes : op.jeunes = {j} /\ op.lit = {j} /\ op.ecrit = {j}
       /\ op.qui = Aucun
       /\ op.etape # "fin" => op.ecritures = {}
  /\ op.cmd = "supprimerConseiller" =>
       /\ op.qui \in Conseillers \cap op.ecrit /\ op.jeunes = {}
       /\ op.etape = "initiaux" => op.ecritures = {}
  /\ op.cmd = "transferer" => op.jeunes = op.ecrit \cap Jeunes
  /\ op.cmd = "transferer" => \A w \in op.ecritures : w.table = "chat" => op.ecritures = {w}
  /\ op.cmd = "changerAgence" =>
       /\ op.nouvelle \in Agences
       /\ op.etape = "animations" => op.qui \in Conseillers \cap op.ecrit

-----------------------------------------------------------------------------
(* Commands that overlap                                                    *)

Isolement ==
  \A o, p \in Ops : o # p /\ EnConflit(ops[o], ops[p]) =>
    ops[o].ecrit \cup ops[p].ecrit \subseteq perturbes

(* Those for whom a command that moves young people was received: what it   *)
(* reads later in its course only adds to it.                               *)
Objet(op) ==
  IF op.cmd = "transferer" THEN op.jeunes
  ELSE IF op.cmd = "recuperer" THEN op.ecrit
  ELSE IF op.cmd = "supprimerConseiller" THEN {op.qui}
  ELSE {}

Saine(o) == ~(Objet(ops[o]) \subseteq perturbes)

(* All that a sound command has read is there, and who it leads to is read. *)
Lues(op) ==
  /\ \A j \in op.lit \cap Jeunes :
       /\ j \in Presents
       /\ jeunes[j].conseiller \in op.lit
       /\ jeunes[j].initial \in op.lit \cup {Aucun}
  /\ \A c \in op.lit \cap Conseillers : Existe(c)

(* The counsellor it deletes has nobody left but those it is about to free. *)
Liberes(op) ==
  /\ op.etape = "compte" => \A j \in Origine(op.qui) :
       \E w \in op.ecritures : w.table = "jeune" /\ w.id = j
  /\ op.etape = "fin" => Origine(op.qui) = {}
       /\ \A w \in op.ecritures : w.table = "suppression conseiller"

Lectures == \A o \in Ops : Saine(o) =>
  /\ Lues(ops[o])
  /\ ops[o].cmd = "supprimerConseiller" => Liberes(ops[o])

(* Whoever a deleted counsellor would carry away is known to be concerned.  *)
Abandonnes == \A o \in Ops : ops[o].cmd = "supprimerConseiller" =>
  /\ SuivisPar(ops[o].qui) \subseteq perturbes
  /\ \A w \in ops[o].ecritures :
       w.table = "jeune" => w.ligne.conseiller # ops[o].qui \/ w.id \in perturbes

-----------------------------------------------------------------------------
(* Each young person whom nothing concerns                                  *)

(* A row gives way to another as Suivi promises.                            *)
Passage(lue, ligne) ==
  \/ ligne.initial = Aucun
  \/ /\ ligne.conseiller # lue.initial
     /\ ligne.initial = IF lue.initial = Aucun THEN lue.conseiller ELSE lue.initial

(* Write w concerns young person j.                                         *)
SurChat(w, j) == w.table = "chat" /\ \E l \in w.lignes : l.id = j
SurRang(w, j) == w.table = "jeune" /\ w.id = j
SurTrace(w, j) == w.table = "transfert" /\ j \in w.ids
Concerne(w, j) == SurChat(w, j) \/ SurRang(w, j) \/ SurTrace(w, j)

(* What is left to write of j leads where it should.                        *)
EnCours(op, j, lue, chat) ==
  \A w \in op.ecritures :
    /\ Concerne(w, j) => lue # Absent
    /\ SurChat(w, j) =>
         /\ \A l \in w.lignes : l.id = j => Passage(lue, l.ligne)
         /\ \A v \in op.ecritures : Concerne(v, j) => v = w
    /\ SurRang(w, j) =>
         /\ Passage(lue, w.ligne) /\ w.ligne.conseiller = chat
         /\ \A v \in op.ecritures : SurRang(v, j) => v = w
         /\ op.cmd = "supprimerConseiller" => lue.conseiller = chat
    /\ SurTrace(w, j) =>
         /\ w.ligne.cible = chat
         /\ \A v \in op.ecritures : SurTrace(v, j) => v = w

TousLa == \A c \in Conseillers : Existe(c) /\ c \notin perturbes

Trace(j) == IF Restants(j) = {} THEN SuiviInitial[j] ELSE Dernier(j).cible

Suivie(j) ==
  /\ \A o \in Ops : EnCours(ops[o], j, jeunes[j], chats[j])
  /\ j \in Presents =>
       /\ chats[j] # Absent
       /\ (\A o \in Ops : \A w \in ops[o].ecritures : ~SurRang(w, j)) =>
            jeunes[j].conseiller = chats[j]
       /\ TousLa /\ (\A o \in Ops : \A w \in ops[o].ecritures : ~SurTrace(w, j)) =>
            Trace(j) = chats[j]

(* A departure of j, and what it still has to write.                        *)
Depart(op, j) == op.cmd \in Departs /\ j \in op.jeunes
Reste(op, table, j) == \E w \in op.ecritures : w.table = table /\ w.id = j

Inscrite(j) ==
  j \in comptes <=> j \in Presents /\ \A o \in Ops : Depart(ops[o], j) => ops[o].etape = "compte"

Effacee(j) ==
  /\ j \notin Presents => chats[j] = Absent \/ \E o \in Ops : Reste(ops[o], "suppression chat", j)
  /\ \A o \in Ops : Reste(ops[o], "suppression chat", j) => j \notin Presents

(* The messages were read, or there is nobody left to archive.              *)
Lus(op, j) ==
  /\ Depart(op, j) /\ op.etape = "dossier" /\ j \in Presents => op.messages
  /\ Reste(op, "suppression archives", j) \/ Reste(op, "archive", j) => op.messages

Archivee(j) ==
  /\ \A o \in Ops : Lus(ops[o], j)
  /\ FALSE \notin archives[j]
  /\ \/ j \in archivees
     \/ /\ j \in Presents
        /\ \E o \in Ops : ops[o].cmd # "supprimerJeune" /\ Reste(ops[o], "suppression jeune", j)
     => TRUE \in archives[j] \/ \E o \in Ops : Reste(ops[o], "archive", j)

Jeune(j) == Suivie(j) /\ Inscrite(j) /\ Effacee(j) /\ Archivee(j)

(* Each counsellor whom nothing concerns.                                   *)
Inscrit(c) ==
  /\ \A o \in Ops : c \in ops[o].ecrit => Existe(c)
  /\ c \in comptes <=> Existe(c) /\ \A o \in Ops :
       ops[o].cmd = "supprimerConseiller" /\ ops[o].qui = c => ops[o].etape # "fin"

Inv ==
  /\ Types /\ References
  /\ \A o \in Ops : Reguliere(ops[o])
  /\ Isolement /\ Lectures /\ Abandonnes
  /\ \A j \in Jeunes \ perturbes : Jeune(j)
  /\ \A c \in Conseillers \ perturbes : Inscrit(c)

-----------------------------------------------------------------------------
(* The writes and their types                                               *)

Rang(t) == [id : Jeunes, ligne : t]

LEMMA EcritureTypes ==
  ASSUME NEW w \in Ecriture
  PROVE  /\ w.table = "chat" => w.ligne \in Transfert /\ w.lignes \subseteq Rang(LigneJeune)
         /\ w.table = "transfert" => w.ids \subseteq Jeunes /\ w.ligne \in Transfert
         /\ w.table = "jeune" => w.id \in Jeunes /\ w.ligne \in LigneJeune
                                  /\ w.source \in Conseillers \cup {Aucun}
         /\ w.table = "animation" => w.id \in AC /\ w.lignes \in Seq(Animation) /\ w.lignes # <<>>
         /\ w.table = "liste" => w.id \in Listes /\ w.ligne \in Liste
         /\ w.table = "membres" => w.id \in Listes /\ w.jeunes \subseteq Jeunes /\ w.ajout \in BOOLEAN
         /\ w.table = "conseiller" => w.id \in Conseillers /\ w.agence \in Agences \cup {Aucun}
         /\ w.table = "suppression conseiller" => w.id \in Conseillers
         /\ w.table = "suppression liste" => w.id \in Listes
         /\ w.table \in Effacements => w.id \in Jeunes
<1>1. w \in [table : {"chat"}, ligne : Transfert, lignes : SUBSET Rang(LigneJeune)]
      => w.table = "chat" /\ w.ligne \in Transfert /\ w.lignes \subseteq Rang(LigneJeune)
  OBVIOUS
<1>2. w \in [table : {"transfert"}, ids : SUBSET Jeunes, ligne : Transfert]
      => w.table = "transfert" /\ w.ids \subseteq Jeunes /\ w.ligne \in Transfert
  OBVIOUS
<1>3. w \in [table : {"jeune"}, source : Conseillers \cup {Aucun}, id : Jeunes, ligne : LigneJeune]
      => w.table = "jeune" /\ w.id \in Jeunes /\ w.ligne \in LigneJeune
         /\ w.source \in Conseillers \cup {Aucun}
  OBVIOUS
<1>4. w \in [table : {"animation"}, id : AC, lignes : Seq(Animation) \ {<<>>}]
      => w.table = "animation" /\ w.id \in AC /\ w.lignes \in Seq(Animation) /\ w.lignes # <<>>
  OBVIOUS
<1>5. w \in [table : {"liste"}, id : Listes, ligne : Liste]
      => w.table = "liste" /\ w.id \in Listes /\ w.ligne \in Liste
  OBVIOUS
<1>6. w \in [table : {"membres"}, id : Listes, jeunes : SUBSET Jeunes, ajout : BOOLEAN]
      => w.table = "membres" /\ w.id \in Listes /\ w.jeunes \subseteq Jeunes /\ w.ajout \in BOOLEAN
  OBVIOUS
<1>7. w \in [table : {"conseiller"}, id : Conseillers, agence : Agences \cup {Aucun}]
      => w.table = "conseiller" /\ w.id \in Conseillers /\ w.agence \in Agences \cup {Aucun}
  OBVIOUS
<1>8. w \in [table : {"suppression conseiller"}, id : Conseillers]
      => w.table = "suppression conseiller" /\ w.id \in Conseillers
  OBVIOUS
<1>9. w \in [table : {"suppression liste"}, id : Listes]
      => w.table = "suppression liste" /\ w.id \in Listes
  OBVIOUS
<1>10. w \in [table : Effacements, id : Jeunes]
      => w.table \in Effacements /\ w.id \in Jeunes
  OBVIOUS
<1>11. \/ w \in [table : {"chat"}, ligne : Transfert, lignes : SUBSET Rang(LigneJeune)]
       \/ w \in [table : {"transfert"}, ids : SUBSET Jeunes, ligne : Transfert]
       \/ w \in [table : {"jeune"}, source : Conseillers \cup {Aucun}, id : Jeunes, ligne : LigneJeune]
       \/ w \in [table : {"animation"}, id : AC, lignes : Seq(Animation) \ {<<>>}]
       \/ w \in [table : {"liste"}, id : Listes, ligne : Liste]
       \/ w \in [table : {"membres"}, id : Listes, jeunes : SUBSET Jeunes, ajout : BOOLEAN]
       \/ w \in [table : {"conseiller"}, id : Conseillers, agence : Agences \cup {Aucun}]
       \/ w \in [table : {"suppression conseiller"}, id : Conseillers]
       \/ w \in [table : {"suppression liste"}, id : Listes]
       \/ w \in [table : Effacements, id : Jeunes]
  BY Zenon DEF Ecriture, Rang, Effacements
<1>12. {"chat", "transfert", "jeune", "animation", "liste", "membres", "conseiller",
        "suppression conseiller", "suppression liste"} \cap Effacements = {}
  BY DEF Effacements
<1> QED
  BY <1>1, <1>2, <1>3, <1>4, <1>5, <1>6, <1>7, <1>8, <1>9, <1>10, <1>11, <1>12

LEMMA EcrituresDeJeunes ==
  /\ \A t \in Transfert, ls \in SUBSET Rang(LigneJeune) :
       [table |-> "chat", ligne |-> t, lignes |-> ls] \in Ecriture
  /\ \A t \in Transfert, js \in SUBSET Jeunes :
       [table |-> "transfert", ids |-> js, ligne |-> t] \in Ecriture
  /\ \A s \in Conseillers \cup {Aucun}, j \in Jeunes, l \in LigneJeune :
       [table |-> "jeune", source |-> s, id |-> j, ligne |-> l] \in Ecriture
  /\ \A t \in Effacements, j \in Jeunes : [table |-> t, id |-> j] \in Ecriture
<1>1. \A t \in Transfert, ls \in SUBSET Rang(LigneJeune) :
       [table |-> "chat", ligne |-> t, lignes |-> ls] \in
          [table : {"chat"}, ligne : Transfert, lignes : SUBSET Rang(LigneJeune)]
  OBVIOUS
<1>2. \A t \in Transfert, js \in SUBSET Jeunes :
       [table |-> "transfert", ids |-> js, ligne |-> t] \in
          [table : {"transfert"}, ids : SUBSET Jeunes, ligne : Transfert]
  OBVIOUS
<1>3. \A s \in Conseillers \cup {Aucun}, j \in Jeunes, l \in LigneJeune :
       [table |-> "jeune", source |-> s, id |-> j, ligne |-> l] \in
          [table : {"jeune"}, source : Conseillers \cup {Aucun}, id : Jeunes, ligne : LigneJeune]
  OBVIOUS
<1>4. \A t \in Effacements, j \in Jeunes :
       [table |-> t, id |-> j] \in [table : Effacements, id : Jeunes]
  OBVIOUS
<1>5. /\ [table : {"chat"}, ligne : Transfert, lignes : SUBSET Rang(LigneJeune)] \subseteq Ecriture
      /\ [table : {"transfert"}, ids : SUBSET Jeunes, ligne : Transfert] \subseteq Ecriture
      /\ [table : {"jeune"}, source : Conseillers \cup {Aucun}, id : Jeunes, ligne : LigneJeune]
           \subseteq Ecriture
      /\ [table : Effacements, id : Jeunes] \subseteq Ecriture
  BY Zenon DEF Ecriture, Rang, Effacements
<1> QED
  BY <1>1, <1>2, <1>3, <1>4, <1>5, Zenon

LEMMA AutresEcritures ==
  /\ \A a \in AC, s \in Seq(Animation) \ {<<>>} :
       [table |-> "animation", id |-> a, lignes |-> s] \in Ecriture
  /\ \A l \in Listes, ligne \in Liste :
       [table |-> "liste", id |-> l, ligne |-> ligne] \in Ecriture
  /\ \A l \in Listes, js \in SUBSET Jeunes, b \in BOOLEAN :
       [table |-> "membres", id |-> l, jeunes |-> js, ajout |-> b] \in Ecriture
  /\ \A c \in Conseillers, a \in Agences \cup {Aucun} :
       [table |-> "conseiller", id |-> c, agence |-> a] \in Ecriture
  /\ \A c \in Conseillers : [table |-> "suppression conseiller", id |-> c] \in Ecriture
  /\ \A l \in Listes : [table |-> "suppression liste", id |-> l] \in Ecriture
<1>1. \A a \in AC, s \in Seq(Animation) \ {<<>>} :
       [table |-> "animation", id |-> a, lignes |-> s] \in
          [table : {"animation"}, id : AC, lignes : Seq(Animation) \ {<<>>}]
  OBVIOUS
<1>2. \A l \in Listes, ligne \in Liste :
       [table |-> "liste", id |-> l, ligne |-> ligne] \in
          [table : {"liste"}, id : Listes, ligne : Liste]
  OBVIOUS
<1>3. \A l \in Listes, js \in SUBSET Jeunes, b \in BOOLEAN :
       [table |-> "membres", id |-> l, jeunes |-> js, ajout |-> b] \in
          [table : {"membres"}, id : Listes, jeunes : SUBSET Jeunes, ajout : BOOLEAN]
  OBVIOUS
<1>4. \A c \in Conseillers, a \in Agences \cup {Aucun} :
       [table |-> "conseiller", id |-> c, agence |-> a] \in
          [table : {"conseiller"}, id : Conseillers, agence : Agences \cup {Aucun}]
  OBVIOUS
<1>5. /\ \A c \in Conseillers : [table |-> "suppression conseiller", id |-> c] \in
           [table : {"suppression conseiller"}, id : Conseillers]
      /\ \A l \in Listes : [table |-> "suppression liste", id |-> l] \in
           [table : {"suppression liste"}, id : Listes]
  OBVIOUS
<1>6. /\ [table : {"animation"}, id : AC, lignes : Seq(Animation) \ {<<>>}] \subseteq Ecriture
      /\ [table : {"liste"}, id : Listes, ligne : Liste] \subseteq Ecriture
      /\ [table : {"membres"}, id : Listes, jeunes : SUBSET Jeunes, ajout : BOOLEAN]
           \subseteq Ecriture
      /\ [table : {"conseiller"}, id : Conseillers, agence : Agences \cup {Aucun}]
           \subseteq Ecriture
      /\ [table : {"suppression conseiller"}, id : Conseillers] \subseteq Ecriture
      /\ [table : {"suppression liste"}, id : Listes] \subseteq Ecriture
  BY Zenon DEF Ecriture
<1> QED
  BY <1>1, <1>2, <1>3, <1>4, <1>5, <1>6, Zenon

LEMMA LibreOperation == Libre \in Operation /\ Libre.ecritures = {} /\ Libre.lit = {}
  /\ Libre.ecrit = {} /\ Libre.cmd = "transferer" /\ Libre.etape = "libre" /\ Libre.jeunes = {}
BY DEF Libre, Operation

LEMMA LibreReguliere == Reguliere(Libre)
BY DEF Libre, Reguliere, Etapes, Departs

-----------------------------------------------------------------------------
(* Steps of one command                                                     *)

(* Command o becomes q, and nothing is unmarked.                            *)
Pas(o, q) ==
  /\ q \in Operation /\ Reguliere(q)
  /\ ops' = [ops EXCEPT ![o] = q]
  /\ perturbes \subseteq perturbes'

LEMMA PasOps ==
  ASSUME Types, NEW o \in Ops, NEW q, Pas(o, q)
  PROVE  /\ ops' \in [Ops -> Operation]
         /\ ops'[o] = q
         /\ \A p \in Ops \ {o} : ops'[p] = ops[p]
         /\ ops[o] \in Operation
BY DEF Types, Pas

LEMMA PoursuivreSoit ==
  ASSUME NEW op \in Operation
  PROVE  /\ Poursuivre(op) \in Operation
         /\ \/ Poursuivre(op) = op
            \/ Poursuivre(op) = Libre /\ op.ecritures = {} /\ ~ResteAFaire(op)
         /\ Reguliere(op) => Reguliere(Poursuivre(op))
BY LibreOperation, LibreReguliere DEF Poursuivre

LEMMA RegulierePas ==
  ASSUME Types, \A p \in Ops : Reguliere(ops[p]), NEW o \in Ops, NEW q, Pas(o, q)
  PROVE  \A p \in Ops : Reguliere(ops'[p])
BY PasOps DEF Pas

LEMMA ConflitSymetrique ==
  ASSUME NEW p, NEW q, EnConflit(p, q)
  PROVE  EnConflit(q, p)
BY DEF EnConflit

LEMMA LibreSansConflit ==
  ASSUME NEW p
  PROVE  ~EnConflit(Libre, p) /\ ~EnConflit(p, Libre)
BY LibreOperation DEF EnConflit

(* A conflict of the command is known, or it was one already.               *)
LEMMA IsolementPas ==
  ASSUME Types, Isolement, NEW o \in Ops, NEW q, Pas(o, q),
         \A p \in Ops \ {o} : EnConflit(q, ops[p]) =>
           q.ecrit \cup ops[p].ecrit \subseteq perturbes'
  PROVE  Isolement'
<1> SUFFICES ASSUME NEW p \in Ops, NEW r \in Ops, p # r, EnConflit(ops'[p], ops'[r])
             PROVE  ops'[p].ecrit \cup ops'[r].ecrit \subseteq perturbes'
  BY DEF Isolement, EnConflit
<1>1. CASE p = o
  BY <1>1, PasOps
<1>2. CASE r = o
  <2>1. EnConflit(ops'[r], ops'[p])
    BY ConflitSymetrique
  <2> QED
    BY <1>2, <2>1, PasOps
<1>3. CASE p # o /\ r # o
  BY <1>3, PasOps DEF Isolement, Pas
<1> QED
  BY <1>1, <1>2, <1>3

(* What conflicts depend on is the same, or the command is over.            *)
Pareille(op, q) ==
  q = Libre \/ /\ q.cmd = op.cmd /\ q.jeunes = op.jeunes
               /\ q.lit = op.lit /\ q.ecrit = op.ecrit

LEMMA IsolementPareil ==
  ASSUME Types, Isolement, NEW o \in Ops, NEW q, Pas(o, q), Pareille(ops[o], q)
  PROVE  Isolement'
<1> SUFFICES ASSUME NEW p \in Ops \ {o}, EnConflit(q, ops[p])
             PROVE  q.ecrit \cup ops[p].ecrit \subseteq perturbes'
  BY IsolementPas
<1>1. q # Libre
  BY LibreSansConflit
<1>2. EnConflit(ops[o], ops[p])
  BY <1>1 DEF Pareille, EnConflit
<1> QED
  BY <1>1, <1>2 DEF Isolement, Pareille, Pas

LEMMA ToutEstMarque ==
  ASSUME NEW o, NEW op
  PROVE  /\ perturbes \subseteq PerturbesPar(o, op)
         /\ \A p \in Conflits(o, op) :
              /\ ops[p].ecrit \subseteq PerturbesPar(o, op)
              /\ op.ecrit \subseteq PerturbesPar(o, op)
<1> DEFINE autres == UNION {ops[p].ecrit : p \in Conflits(o, op)}
           propres == IF Conflits(o, op) = {} THEN {} ELSE op.ecrit
<1>1. PerturbesPar(o, op) = perturbes \cup autres \cup propres
  BY DEF PerturbesPar
<1>2. \A p \in Conflits(o, op) : ops[p].ecrit \subseteq autres
  OBVIOUS
<1>3. \A p \in Conflits(o, op) : op.ecrit \subseteq propres
  OBVIOUS
<1> HIDE DEF autres, propres
<1> QED
  BY <1>1, <1>2, <1>3

LEMMA IsolementLecture ==
  ASSUME Types, Isolement, NEW o \in Ops, NEW op, Lecture(o, op),
         Pas(o, Poursuivre(op)), op \in Operation
  PROVE  Isolement'
<1> SUFFICES ASSUME NEW p \in Ops \ {o}, EnConflit(Poursuivre(op), ops[p])
             PROVE  Poursuivre(op).ecrit \cup ops[p].ecrit \subseteq perturbes'
  BY IsolementPas
<1>1. Poursuivre(op) = op
  BY LibreSansConflit, PoursuivreSoit
<1>2. ops[p] # Libre
  BY LibreSansConflit
<1>3. p \in Conflits(o, op)
  BY <1>1, <1>2 DEF Conflits
<1>4. perturbes' = PerturbesPar(o, op)
  BY DEF Lecture
<1>5. ops[p].ecrit \subseteq perturbes'
  BY <1>3, <1>4, ToutEstMarque
<1>6. op.ecrit \subseteq perturbes'
  BY <1>3, <1>4, ToutEstMarque
<1> QED
  BY <1>1, <1>5, <1>6

(* Two commands of which one is sound and moves young people share nothing. *)
LEMMA Etrangeres ==
  ASSUME \A p \in Ops : Reguliere(ops[p]), Isolement, NEW o \in Ops, NEW p \in Ops, o # p,
         Saine(p)
  PROVE  /\ ops[o].ecrit \cap ops[p].lit = {}
         /\ ops[o].ecrit \cap ops[p].ecrit = {}
         /\ ops[p].ecrit \cap ops[o].lit = {}
<1>1. ops[p].cmd \in {"transferer", "recuperer", "supprimerConseiller"}
  BY DEF Saine, Objet
<1>2. Objet(ops[p]) \subseteq ops[p].ecrit
  BY <1>1 DEF Objet, Reguliere
<1>3. ~EnConflit(ops[o], ops[p])
  BY <1>2 DEF Isolement, Saine
<1>4. ops[p].cmd \notin Departs
  BY <1>1 DEF Departs
<1> QED
  BY <1>3, <1>4 DEF EnConflit

(* The young person of a command that is not a departure is held by it only. *)
LEMMA Seule ==
  ASSUME Isolement, NEW x, x \notin perturbes,
         NEW o \in Ops, NEW p \in Ops, x \in ops[o].ecrit, x \in ops[p].ecrit \cup ops[p].lit,
         ops[o].cmd \notin Departs \/ ops[p].cmd \notin Departs
  PROVE  o = p
BY DEF Isolement, EnConflit

(* A command that does not hold a young person writes nothing of them.      *)
Effacement(w, j) == w.table \in Effacements /\ w.id = j
LEMMA Ailleurs ==
  ASSUME NEW op, Reguliere(op), NEW j, j \notin op.ecrit
  PROVE  /\ \A w \in op.ecritures : ~Concerne(w, j) /\ ~Effacement(w, j)
         /\ ~Depart(op, j)
<1>1. ~Depart(op, j)
  BY DEF Depart, Reguliere
<1>2. \A w \in op.ecritures : ~Concerne(w, j)
  <2> SUFFICES ASSUME NEW w \in op.ecritures, Concerne(w, j) PROVE FALSE
    OBVIOUS
  <2>1. Annoncee(op, w)
    BY DEF Reguliere
  <2> QED
    BY <2>1, Zenon DEF Annoncee, Concerne, SurChat, SurRang, SurTrace
<1>3. \A w \in op.ecritures : ~Effacement(w, j)
  <2> SUFFICES ASSUME NEW w \in op.ecritures, Effacement(w, j) PROVE FALSE
    OBVIOUS
  <2>1. Annoncee(op, w)
    BY DEF Reguliere
  <2>2. op.cmd \in Departs /\ j \in op.jeunes
    BY <2>1 DEF Annoncee, Effacement
  <2> QED
    BY <1>1, <2>2 DEF Depart
<1> QED
  BY <1>1, <1>2, <1>3

-----------------------------------------------------------------------------
(* A step that leaves a young person alone                                  *)

MemeDossier(j) ==
  /\ j \in Presents' <=> j \in Presents
  /\ chats'[j] = chats[j] \/ j \in Presents
  /\ archives'[j] = archives[j]
  /\ j \in comptes' <=> j \in comptes
  /\ j \in archivees' <=> j \in archivees
MemeSuivi(j) ==
  /\ jeunes'[j] = jeunes[j] /\ chats'[j] = chats[j]
  /\ TousLa' => TousLa /\ transferts'[j] = transferts[j]
MemeJeune(j) == MemeSuivi(j) /\ MemeDossier(j)

(* The command writes the same of j before and after, and is no departure.  *)
SansDepart(op, j) == ~Depart(op, j) /\ \A w \in op.ecritures : ~Effacement(w, j)
MemesEcritures(op, q, j) ==
  /\ \A w \in q.ecritures : Concerne(w, j) => w \in op.ecritures /\ q.cmd = op.cmd
  /\ \A w \in op.ecritures : Concerne(w, j) => w \in q.ecritures
MemeVue(op, q, j) == SansDepart(op, j) /\ SansDepart(q, j) /\ MemesEcritures(op, q, j)

LEMMA MemeVueAilleurs ==
  ASSUME NEW op, NEW q, Reguliere(op), Reguliere(q), NEW j, j \notin op.ecrit, j \notin q.ecrit
  PROVE  MemeVue(op, q, j)
BY Ailleurs DEF MemeVue, SansDepart, MemesEcritures

LEMMA SansDepartAilleurs ==
  ASSUME NEW op, Reguliere(op), op.cmd \notin Departs, NEW j
  PROVE  SansDepart(op, j)
<1>1. \A w \in op.ecritures : w.table \notin Effacements
  BY DEF Reguliere, Annoncee
<1> QED
  BY <1>1 DEF SansDepart, Depart, Effacement

LEMMA EnCoursReduit ==
  ASSUME NEW op, NEW q, NEW j, NEW lue, NEW chat, EnCours(op, j, lue, chat),
         \A w \in q.ecritures : Concerne(w, j) => w \in op.ecritures /\ q.cmd = op.cmd
  PROVE  EnCours(q, j, lue, chat)
<1> SUFFICES ASSUME NEW w \in q.ecritures, Concerne(w, j)
             PROVE  /\ lue # Absent
                    /\ SurChat(w, j) =>
                         /\ \A l \in w.lignes : l.id = j => Passage(lue, l.ligne)
                         /\ \A v \in q.ecritures : Concerne(v, j) => v = w
                    /\ SurRang(w, j) =>
                         /\ Passage(lue, w.ligne) /\ w.ligne.conseiller = chat
                         /\ \A v \in q.ecritures : SurRang(v, j) => v = w
                         /\ q.cmd = "supprimerConseiller" => lue.conseiller = chat
                    /\ SurTrace(w, j) =>
                         /\ w.ligne.cible = chat
                         /\ \A v \in q.ecritures : SurTrace(v, j) => v = w
  BY Zenon DEF EnCours, Concerne
<1>1. w \in op.ecritures /\ q.cmd = op.cmd
  OBVIOUS
<1>2. \A v \in q.ecritures : Concerne(v, j) => v \in op.ecritures
  OBVIOUS
<1>3. \A v : SurRang(v, j) \/ SurTrace(v, j) => Concerne(v, j)
  BY DEF Concerne
<1> QED
  BY <1>1, <1>2, <1>3, Zenon DEF EnCours

LEMMA SuivieSuit ==
  ASSUME Types, NEW o \in Ops, NEW q, Pas(o, q), NEW j \in Jeunes, Suivie(j), MemeSuivi(j),
         MemesEcritures(ops[o], q, j)
  PROVE  Suivie(j)'
<1>1. \A p \in Ops : EnCours(ops'[p], j, jeunes[j], chats[j])
  <2> SUFFICES ASSUME NEW p \in Ops PROVE EnCours(ops'[p], j, jeunes[j], chats[j])
    OBVIOUS
  <2>1. EnCours(ops[p], j, jeunes[j], chats[j])
    BY DEF Suivie
  <2>2. CASE p = o
    BY <2>1, <2>2, PasOps, EnCoursReduit DEF MemesEcritures
  <2>3. CASE p # o
    BY <2>1, <2>3, PasOps
  <2> QED
    BY <2>2, <2>3
<1>2. \A p \in Ops : \A w : Concerne(w, j) => (w \in ops'[p].ecritures <=> w \in ops[p].ecritures)
  BY PasOps DEF MemesEcritures
<1>3. \A w : SurRang(w, j) \/ SurTrace(w, j) => Concerne(w, j)
  BY DEF Concerne
<1>4. (\A p \in Ops : \A w \in ops'[p].ecritures : ~SurRang(w, j))
      => \A p \in Ops : \A w \in ops[p].ecritures : ~SurRang(w, j)
  BY <1>2, <1>3
<1>5. (\A p \in Ops : \A w \in ops'[p].ecritures : ~SurTrace(w, j))
      => \A p \in Ops : \A w \in ops[p].ecritures : ~SurTrace(w, j)
  BY <1>2, <1>3
<1>6. TousLa' => TousLa /\ Trace(j)' = Trace(j)
  <2>1. ASSUME transferts'[j] = transferts[j]
        PROVE  Trace(j)' = Trace(j)
    <3>1. Restants(j)' = Restants(j)
      BY <2>1, Zenon DEF Restants
    <3>2. Dernier(j)' = Dernier(j)
      BY <2>1, <3>1, Zenon DEF Dernier
    <3> QED
      BY <3>1, <3>2, Zenon DEF Trace
  <2> QED
    BY <2>1 DEF MemeSuivi
<1>7. j \in Presents' <=> j \in Presents
  BY DEF MemeSuivi, Presents
<1> QED
  BY <1>1, <1>4, <1>5, <1>6, <1>7 DEF Suivie, MemeSuivi

LEMMA DossierSuit ==
  ASSUME Types, NEW o \in Ops, NEW q, Pas(o, q), NEW j \in Jeunes,
         Inscrite(j), Effacee(j), Archivee(j), MemeDossier(j),
         SansDepart(ops[o], j), SansDepart(q, j)
  PROVE  Inscrite(j)' /\ Effacee(j)' /\ Archivee(j)'
<1>1. \A p \in Ops : \A w : Effacement(w, j) => (w \in ops'[p].ecritures <=> w \in ops[p].ecritures)
  BY PasOps DEF SansDepart
<1>2. \A p \in Ops : Depart(ops[p], j) \/ Depart(ops'[p], j) => ops'[p] = ops[p]
  BY PasOps DEF SansDepart
<1>3. \A p \in Ops : \A t \in Effacements : Reste(ops'[p], t, j) <=> Reste(ops[p], t, j)
  BY <1>1 DEF Reste, Effacement
<1>4. j \in Presents' <=> j \in Presents
  BY DEF MemeDossier
<1>5. Inscrite(j)'
  BY <1>2, <1>4 DEF Inscrite, MemeDossier
<1>6. Effacee(j)'
  BY <1>3, <1>4 DEF Effacee, MemeDossier, Effacements
<1>7. Archivee(j)'
  <2>1. /\ \A p \in Ops : Lus(ops[p], j)
        /\ FALSE \notin archives[j]
        /\ \/ j \in archivees
           \/ /\ j \in Presents
              /\ \E p \in Ops : ops[p].cmd # "supprimerJeune" /\ Reste(ops[p], "suppression jeune", j)
           => TRUE \in archives[j] \/ \E p \in Ops : Reste(ops[p], "archive", j)
    BY DEF Archivee
  <2>2. \A p \in Ops : Lus(ops[p], j)'
    <3> SUFFICES ASSUME NEW p \in Ops PROVE Lus(ops[p], j)'
      OBVIOUS
    <3>1. CASE p = o
      BY <3>1, PasOps DEF SansDepart, Lus, Reste, Effacement, Effacements
    <3>2. CASE p # o
      BY <2>1, <3>2, <1>4, PasOps DEF Lus
    <3> QED
      BY <3>1, <3>2
  <2>3. \A p \in Ops : Reste(ops'[p], "suppression jeune", j) => ops'[p] = ops[p]
    <3> SUFFICES ASSUME NEW p \in Ops, Reste(ops'[p], "suppression jeune", j), ops'[p] # ops[p]
                 PROVE  FALSE
      OBVIOUS
    <3>1. p = o
      BY PasOps
    <3> QED
      BY <3>1, PasOps DEF SansDepart, Reste, Effacement, Effacements
  <2>4. (\E p \in Ops : Reste(ops[p], "archive", j)) => \E p \in Ops : Reste(ops'[p], "archive", j)
    BY <1>3 DEF Effacements
  <2>5. archives'[j] = archives[j] /\ (j \in archivees' <=> j \in archivees)
    BY DEF MemeDossier
  <2> QED
    BY <2>1, <2>2, <2>3, <2>4, <2>5, <1>4 DEF Archivee
<1> QED
  BY <1>5, <1>6, <1>7

LEMMA JeuneSuit ==
  ASSUME Types, NEW o \in Ops, NEW q, Pas(o, q), NEW j \in Jeunes, Jeune(j), MemeJeune(j),
         MemeVue(ops[o], q, j)
  PROVE  Jeune(j)'
<1>1. Suivie(j)'
  BY SuivieSuit DEF Jeune, MemeJeune, MemeVue
<1>2. Inscrite(j)' /\ Effacee(j)' /\ Archivee(j)'
  BY DossierSuit DEF Jeune, MemeJeune, MemeVue
<1> QED
  BY <1>1, <1>2 DEF Jeune

-----------------------------------------------------------------------------
(* A step that leaves a counsellor alone, or what a command has read        *)

Finit(op, c) == op.cmd = "supprimerConseiller" /\ op.qui = c /\ op.etape = "fin"

LEMMA InscritSuit ==
  ASSUME Types, NEW o \in Ops, NEW q, Pas(o, q), NEW c \in Conseillers, Inscrit(c),
         Existe(c)' <=> Existe(c), c \in comptes' <=> c \in comptes,
         c \in q.ecrit => Existe(c) \/ c \in ops[o].ecrit,
         Finit(q, c) <=> Finit(ops[o], c)
  PROVE  Inscrit(c)'
<1>1. \A p \in Ops : Finit(ops'[p], c) <=> Finit(ops[p], c)
  BY PasOps
<1>2. \A p \in Ops : c \in ops'[p].ecrit => Existe(c)
  BY PasOps DEF Inscrit
<1> QED
  BY <1>1, <1>2 DEF Inscrit, Finit

(* Rows change only where the command may write, towards whom it has read.  *)
Respecte(op) ==
  /\ \A j \in Presents :
       j \notin op.ecrit /\ jeunes[j].conseiller \notin op.ecrit => jeunes'[j] = jeunes[j]
  /\ \A c \in Conseillers \ op.ecrit : Existe(c) => Existe(c)'
  /\ \A j \in Jeunes : jeunes'[j] # Absent =>
       /\ \/ j \in Presents /\ jeunes'[j].initial = jeunes[j].initial
          \/ jeunes'[j].initial \in op.lit \cup {Aucun}
       /\ \/ j \in Presents /\ jeunes'[j].conseiller = jeunes[j].conseiller
          \/ j \in op.ecrit /\ jeunes'[j].conseiller \in op.lit

LEMMA RespecteIdentique ==
  ASSUME NEW op, UNCHANGED <<jeunes, conseillers>>
  PROVE  Respecte(op)
BY DEF Respecte, Presents, Existe

LEMMA SaineInchangee ==
  ASSUME Types, NEW o \in Ops, NEW q, Pas(o, q), NEW p \in Ops, p # o, Saine(p)'
  PROVE  Saine(p) /\ ops'[p] = ops[p]
BY PasOps DEF Saine, Pas

LEMMA LuesSuivent ==
  ASSUME Types, \A p \in Ops : Reguliere(ops[p]), Isolement, Lectures,
         NEW o \in Ops, Respecte(ops[o]), NEW p \in Ops, o # p, Saine(p), ops'[p] = ops[p]
  PROVE  Lues(ops[p])' /\ (ops[p].cmd = "supprimerConseiller" => Liberes(ops[p])')
<1>1. /\ ops[o].ecrit \cap ops[p].lit = {}
      /\ ops[p].ecrit \cap ops[o].lit = {}
  BY Etrangeres
<1>2. Lues(ops[p]) /\ (ops[p].cmd = "supprimerConseiller" => Liberes(ops[p]))
  BY DEF Lectures
<1>3. ASSUME NEW j \in ops[p].lit \cap Jeunes
      PROVE  /\ j \in Presents'
             /\ jeunes'[j].conseiller \in ops[p].lit
             /\ jeunes'[j].initial \in ops[p].lit \cup {Aucun}
  <2>1. j \in Presents /\ jeunes[j].conseiller \in ops[p].lit
        /\ jeunes[j].initial \in ops[p].lit \cup {Aucun}
    BY <1>2, <1>3 DEF Lues
  <2>2. j \notin ops[o].ecrit /\ jeunes[j].conseiller \notin ops[o].ecrit
    BY <1>1, <2>1
  <2>3. jeunes'[j] = jeunes[j]
    BY <2>1, <2>2 DEF Respecte
  <2> QED
    BY <2>1, <2>3 DEF Presents
<1>4. ASSUME NEW c \in ops[p].lit \cap Conseillers
      PROVE  Existe(c)'
  BY <1>1, <1>2 DEF Lues, Respecte
<1>5. Lues(ops[p])'
  BY <1>3, <1>4 DEF Lues
<1>6. ASSUME ops[p].cmd = "supprimerConseiller"
      PROVE  Origine(ops[p].qui)' \subseteq Origine(ops[p].qui)
  <2>1. ops[p].qui \in ops[p].ecrit /\ ops[p].qui \in Conseillers
    BY <1>6 DEF Reguliere
  <2>2. ops[p].qui \notin ops[o].lit /\ ops[p].qui # Aucun
    BY <1>1, <2>1, ConstantsAssumption
  <2> QED
    BY <2>2 DEF Origine, Presents, Respecte
<1>7. ASSUME ops[p].cmd = "supprimerConseiller"
      PROVE  Liberes(ops[p])'
  BY <1>2, <1>6, <1>7 DEF Liberes
<1> QED
  BY <1>5, <1>7

LEMMA LecturesPas ==
  ASSUME Types, \A p \in Ops : Reguliere(ops[p]), Isolement, Lectures,
         NEW o \in Ops, NEW q, Pas(o, q), Respecte(ops[o]),
         Saine(o)' => Lues(ops[o])' /\ (q.cmd = "supprimerConseiller" => Liberes(ops[o])')
  PROVE  Lectures'
<1> SUFFICES ASSUME NEW p \in Ops, Saine(p)'
             PROVE  /\ Lues(ops[p])'
                    /\ ops'[p].cmd = "supprimerConseiller" => Liberes(ops[p])'
  BY DEF Lectures
<1>1. CASE p = o
  BY <1>1, PasOps
<1>2. CASE p # o
  BY <1>2, SaineInchangee, LuesSuivent
<1> QED
  BY <1>1, <1>2

LEMMA AbandonnesPas ==
  ASSUME Types, \A p \in Ops : Reguliere(ops[p]), Isolement, Abandonnes,
         NEW o \in Ops, NEW q, Pas(o, q), Respecte(ops[o]),
         q.cmd = "supprimerConseiller" =>
           /\ \A j \in Jeunes :
                jeunes'[j] # Absent /\ jeunes'[j].conseiller = q.qui => j \in perturbes'
           /\ \A w \in q.ecritures :
                w.table = "jeune" => w.ligne.conseiller # q.qui \/ w.id \in perturbes'
  PROVE  Abandonnes'
<1> SUFFICES ASSUME NEW p \in Ops, ops'[p].cmd = "supprimerConseiller"
             PROVE  /\ \A j \in Jeunes :
                         jeunes'[j] # Absent /\ jeunes'[j].conseiller = ops'[p].qui => j \in perturbes'
                    /\ \A w \in ops'[p].ecritures :
                         w.table = "jeune" => w.ligne.conseiller # ops'[p].qui \/ w.id \in perturbes'
  BY DEF Abandonnes, SuivisPar, Presents
<1>1. CASE p = o
  BY <1>1, PasOps
<1>2. CASE p # o
  <2>1. ops'[p] = ops[p]
    BY <1>2, PasOps
  <2>2. /\ SuivisPar(ops[p].qui) \subseteq perturbes
        /\ \A w \in ops[p].ecritures :
             w.table = "jeune" => w.ligne.conseiller # ops[p].qui \/ w.id \in perturbes
    BY <2>1 DEF Abandonnes
  <2>3. ASSUME NEW j \in Jeunes, jeunes'[j] # Absent, jeunes'[j].conseiller = ops[p].qui
        PROVE  j \in perturbes
    <3>1. CASE j \in Presents /\ jeunes'[j].conseiller = jeunes[j].conseiller
      BY <2>2, <2>3, <3>1 DEF SuivisPar
    <3>2. CASE j \in ops[o].ecrit /\ jeunes'[j].conseiller \in ops[o].lit
      <4>1. ops[p].qui \in ops[p].ecrit
        BY <2>1 DEF Reguliere
      <4>2. EnConflit(ops[o], ops[p])
        BY <2>1, <2>3, <3>2, <4>1 DEF EnConflit, Departs
      <4> QED
        BY <1>2, <3>2, <4>2 DEF Isolement
    <3> QED
      BY <2>3, <3>1, <3>2 DEF Respecte
  <2> QED
    BY <2>1, <2>2, <2>3 DEF Pas
<1> QED
  BY <1>1, <1>2

-----------------------------------------------------------------------------
(* Reads                                                                    *)

LEMMA PerturbesTypes ==
  ASSUME Types, NEW o \in Ops, NEW op \in Operation
  PROVE  PerturbesPar(o, op) \subseteq Entites
<1>1. \A p \in Conflits(o, op) : ops[p].ecrit \subseteq Entites
  BY DEF Conflits, Types, Operation
<1>2. op.ecrit \subseteq Entites
  BY DEF Operation
<1> DEFINE autres == UNION {ops[p].ecrit : p \in Conflits(o, op)}
           propres == IF Conflits(o, op) = {} THEN {} ELSE op.ecrit
<1>3. PerturbesPar(o, op) = perturbes \cup autres \cup propres
  BY DEF PerturbesPar
<1>4. autres \subseteq Entites
  BY <1>1
<1>5. propres \subseteq Entites
  BY <1>2
<1> HIDE DEF autres, propres
<1> QED
  BY <1>3, <1>4, <1>5 DEF Types

(* The command is received, or goes on with what it had.                    *)
Suite(op, nouvelle) ==
  /\ op.ecritures = {} /\ op.cmd \notin Departs
  /\ op.cmd = "supprimerConseiller" => op.etape # "fin"
  /\ op.lit \subseteq nouvelle.lit /\ op.ecrit \subseteq nouvelle.ecrit
  /\ \/ op = Libre
     \/ /\ op.cmd = nouvelle.cmd /\ op.cmd # "recuperer" /\ nouvelle.cmd \notin Departs
        /\ op.jeunes = nouvelle.jeunes
        /\ op.cmd = "supprimerConseiller" => op.qui = nouvelle.qui

(* What it has just read is there, and what it will write of it is right.   *)
BienLue(o, op) ==
  /\ op.cmd \in {"transferer", "recuperer", "supprimerConseiller"} =>
       /\ \A j \in (op.lit \ ops[o].lit) \cap Jeunes :
            /\ j \in Presents /\ jeunes[j].conseiller \in op.lit
            /\ jeunes[j].initial \in op.lit \cup {Aucun}
       /\ \A c \in (op.lit \ ops[o].lit) \cap Conseillers : Existe(c)
  /\ op.cmd = "supprimerConseiller" =>
       /\ Liberes(op) /\ op.etape # "fin"
       /\ SuivisPar(op.qui) \subseteq perturbes
       /\ \A w \in op.ecritures :
            w.table = "jeune" => w.ligne.conseiller # op.qui \/ w.id \in perturbes
  /\ \A j \in Jeunes : EnCours(op, j, jeunes[j], jeunes[j].conseiller)
  /\ \A w \in op.ecritures : w.table # "transfert"
  /\ op.cmd # "supprimerConseiller" => \A w \in op.ecritures : w.table # "jeune"
  /\ \A c \in op.ecrit \cap Conseillers : Existe(c) \/ c \in ops[o].ecrit
  /\ op.cmd \in Departs => op.etape = "compte"

LectureValide(o, op) ==
  /\ op \in Operation /\ Reguliere(op) /\ Lecture(o, op)
  /\ Suite(ops[o], op) /\ BienLue(o, op)

LEMMA LecturePas ==
  ASSUME Types, NEW o \in Ops, NEW op, LectureValide(o, op)
  PROVE  Pas(o, Poursuivre(op))
BY PoursuivreSoit, ToutEstMarque DEF LectureValide, Lecture, Pas

LEMMA LectureStructure ==
  ASSUME Inv, NEW o \in Ops, NEW op, LectureValide(o, op)
  PROVE  /\ Types' /\ References'
         /\ \A p \in Ops : Reguliere(ops'[p])
         /\ Isolement' /\ Lectures' /\ Abandonnes'
<1> DEFINE q == Poursuivre(op)
<1>1. Pas(o, q)
  BY LecturePas DEF Inv
<1>2. q = op \/ q = Libre
  BY PoursuivreSoit DEF LectureValide
<1>3. /\ ops' = [ops EXCEPT ![o] = q] /\ perturbes' = PerturbesPar(o, op)
      /\ UNCHANGED donnees /\ op \in Operation
  BY DEF LectureValide, Lecture
<1> HIDE DEF q
<1>4. Types'
  <2>1. perturbes' \subseteq Entites
    BY <1>3, PerturbesTypes DEF Inv
  <2>2. ops' \in [Ops -> Operation]
    BY <1>1, PasOps DEF Inv
  <2> QED
    BY <1>3, <2>1, <2>2 DEF Inv, Types, donnees, archivage
<1>5. References'
  BY <1>3 DEF Inv, References, donnees, Presents, Existe, Nommes, Restants
<1>6. Isolement'
  BY IsolementLecture, LecturePas DEF LectureValide, Inv
<1>7. Respecte(ops[o])
  BY <1>3, RespecteIdentique DEF donnees
<1>8. Lectures'
  <2>1. ASSUME Saine(o)'
        PROVE  Lues(ops[o])' /\ (q.cmd = "supprimerConseiller" => Liberes(ops[o])')
    <3>1. ops'[o] = q
      BY <1>1, PasOps DEF Inv
    <3>2. q = op
      BY <1>2, <2>1, <3>1, LibreOperation DEF Saine, Objet
    <3>3. op.cmd \in {"transferer", "recuperer", "supprimerConseiller"}
      BY <2>1, <3>1, <3>2 DEF Saine, Objet
    <3>4. ops[o] # Libre => Saine(o)
      <4>1. ops[o] # Libre => Objet(ops[o]) = Objet(op)
        BY DEF LectureValide, Suite, Objet
      <4> QED
        BY <1>1, <2>1, <3>1, <3>2, <4>1 DEF Saine, Pas
    <3>5. ops[o] # Libre => Lues(ops[o])
      BY <3>4 DEF Inv, Lectures
    <3>6. ops[o].lit \subseteq op.lit
      BY DEF LectureValide, Suite
    <3>7. Lues(op)
      <4>1. ASSUME NEW j \in op.lit \cap Jeunes
            PROVE  /\ j \in Presents /\ jeunes[j].conseiller \in op.lit
                   /\ jeunes[j].initial \in op.lit \cup {Aucun}
        <5>1. CASE j \in ops[o].lit
          <6>1. ops[o] # Libre
            BY <5>1, LibreOperation
          <6> QED
            BY <3>5, <3>6, <5>1, <6>1, <4>1 DEF Lues
        <5>2. CASE j \notin ops[o].lit
          BY <3>3, <4>1, <5>2 DEF LectureValide, BienLue
        <5> QED
          BY <5>1, <5>2
      <4>2. ASSUME NEW c \in op.lit \cap Conseillers
            PROVE  Existe(c)
        <5>1. CASE c \in ops[o].lit
          <6>1. ops[o] # Libre
            BY <5>1, LibreOperation
          <6> QED
            BY <3>5, <5>1, <6>1, <4>2 DEF Lues
        <5>2. CASE c \notin ops[o].lit
          BY <3>3, <4>2, <5>2 DEF LectureValide, BienLue
        <5> QED
          BY <5>1, <5>2
      <4> QED
        BY <4>1, <4>2 DEF Lues
    <3>8. op.cmd = "supprimerConseiller" => Liberes(op)
      BY DEF LectureValide, BienLue
    <3> QED
      BY <1>3, <3>1, <3>2, <3>7, <3>8
      DEF Lues, Liberes, Origine, Presents, Existe, donnees
  <2> QED
    BY <1>1, <1>7, <2>1, LecturesPas DEF Inv
<1>9. Abandonnes'
  <2>1. perturbes \subseteq perturbes'
    BY <1>1 DEF Pas
  <2>2. q.cmd = "supprimerConseiller" => q = op
    BY <1>2, LibreOperation
  <2>3. op.cmd = "supprimerConseiller" =>
          /\ SuivisPar(op.qui) \subseteq perturbes
          /\ \A w \in op.ecritures :
               w.table = "jeune" => w.ligne.conseiller # op.qui \/ w.id \in perturbes
    BY DEF LectureValide, BienLue
  <2>4. q.cmd = "supprimerConseiller" =>
          /\ \A j \in Jeunes :
               jeunes'[j] # Absent /\ jeunes'[j].conseiller = q.qui => j \in perturbes'
          /\ \A w \in q.ecritures :
               w.table = "jeune" => w.ligne.conseiller # q.qui \/ w.id \in perturbes'
    BY <1>3, <2>1, <2>2, <2>3 DEF SuivisPar, Presents, donnees
  <2> QED
    BY <1>1, <1>7, <2>4, AbandonnesPas DEF Inv
<1> QED
  BY <1>1, <1>4, <1>5, <1>6, <1>8, <1>9, RegulierePas DEF Inv

LEMMA LectureJeune ==
  ASSUME Inv, NEW o \in Ops, NEW op, LectureValide(o, op), NEW j \in Jeunes, j \notin perturbes'
  PROVE  Jeune(j)'
<1> DEFINE q == Poursuivre(op)
<1>1. Pas(o, q)
  BY LecturePas DEF Inv
<1>2. q = op \/ (q = Libre /\ op.ecritures = {})
  BY PoursuivreSoit DEF LectureValide
<1>3. /\ ops' = [ops EXCEPT ![o] = q] /\ UNCHANGED donnees
      /\ op \in Operation /\ Reguliere(op)
  BY DEF LectureValide, Lecture
<1> HIDE DEF q
<1>4. j \notin perturbes /\ Jeune(j)
  BY <1>1 DEF Pas, Inv
<1>5. /\ ops'[o] = q /\ \A p \in Ops \ {o} : ops'[p] = ops[p]
      /\ ops[o].ecritures = {} /\ ops[o].cmd \notin Departs
  BY <1>1, PasOps DEF Inv, LectureValide, Suite
<1>6. /\ \A i \in Jeunes : EnCours(op, i, jeunes[i], jeunes[i].conseiller)
      /\ \A w \in op.ecritures : w.table # "transfert"
  BY DEF LectureValide, BienLue
<1>7. \A p \in Ops : EnCours(ops'[p], j, jeunes[j], chats[j])
  <2>1. ASSUME NEW w \in op.ecritures, Concerne(w, j)
        PROVE  jeunes[j].conseiller = chats[j]
    <3>1. j \in op.ecrit
      BY <1>3, <2>1, Ailleurs
    <3>2. op.cmd \notin Departs /\ q = op
      <4>1. w.table \in Mouvements
        BY <2>1 DEF Concerne, SurChat, SurRang, SurTrace, Mouvements
      <4>2. w.table \in Tables(op)
        BY <1>3, <2>1 DEF Reguliere
      <4>3. Mouvements \cap Effacements = {}
        BY DEF Mouvements, Effacements
      <4>4. op.cmd \notin Departs
        BY <4>1, <4>2, <4>3 DEF Tables
      <4> QED
        BY <1>2, <2>1, <4>4
    <3>3. Isolement'
      BY LectureStructure
    <3>4. ASSUME NEW p \in Ops, p # o, NEW v \in ops[p].ecritures
          PROVE  ~SurRang(v, j)
      <4>1. j \notin ops[p].ecrit
        <5> SUFFICES ASSUME j \in ops[p].ecrit PROVE FALSE
          OBVIOUS
        <5>1. EnConflit(op, ops[p])
          BY <3>1, <3>2 DEF EnConflit
        <5> QED
          BY <1>5, <3>1, <3>2, <3>3, <3>4, <5>1 DEF Isolement
      <4> QED
        BY <3>4, <4>1, Ailleurs DEF Inv, Concerne
    <3>5. \A p \in Ops : \A v \in ops[p].ecritures : ~SurRang(v, j)
      BY <1>5, <3>4
    <3>6. j \in Presents
      BY <1>6, <2>1 DEF EnCours, Presents
    <3> QED
      BY <1>4, <3>5, <3>6 DEF Jeune, Suivie
  <2>2. EnCours(op, j, jeunes[j], chats[j])
    <3>1. CASE \E w \in op.ecritures : Concerne(w, j)
      BY <1>6, <2>1, <3>1
    <3>2. CASE \A w \in op.ecritures : ~Concerne(w, j)
      BY <3>2 DEF EnCours, Concerne
    <3> QED
      BY <3>1, <3>2
  <2>3. EnCours(Libre, j, jeunes[j], chats[j])
    BY LibreOperation DEF EnCours
  <2>4. \A p \in Ops : EnCours(ops[p], j, jeunes[j], chats[j])
    BY <1>4 DEF Jeune, Suivie
  <2> QED
    BY <1>2, <1>5, <2>2, <2>3, <2>4
<1>8. \A w \in q.ecritures : ~Effacement(w, j) /\ ~SurTrace(w, j)
  <2>1. \A w \in op.ecritures : w.table \notin Effacements
    <3>1. CASE op.cmd \in Departs
      BY <1>3, <3>1 DEF LectureValide, BienLue, Reguliere
    <3>2. CASE op.cmd \notin Departs
      BY <1>3, <3>2, Zenon DEF Reguliere, Annoncee
    <3> QED
      BY <3>1, <3>2
  <2> QED
    BY <1>2, <1>6, <2>1, LibreOperation DEF Effacement, SurTrace
<1>9. Depart(q, j) => q.etape = "compte"
  BY <1>2, LibreOperation DEF Depart, LectureValide, BienLue, Departs
<1>10. \A p \in Ops : p # o => ops'[p] = ops[p]
  BY <1>5
<1>11. TousLa' => TousLa
  BY <1>1, <1>3 DEF TousLa, Existe, Pas, donnees
<1>12. Suivie(j)'
  <2>1. /\ (\A p \in Ops : \A w \in ops'[p].ecritures : ~SurRang(w, j))
           => \A p \in Ops : \A w \in ops[p].ecritures : ~SurRang(w, j)
        /\ (\A p \in Ops : \A w \in ops'[p].ecritures : ~SurTrace(w, j))
           => \A p \in Ops : \A w \in ops[p].ecritures : ~SurTrace(w, j)
    BY <1>5, <1>10
  <2> QED
    BY <1>3, <1>4, <1>7, <1>11, <2>1 DEF Jeune, Suivie, donnees, Presents, Trace, Restants, Dernier
<1>13. Inscrite(j)'
  <2>1. \A p \in Ops : (Depart(ops'[p], j) => ops'[p].etape = "compte")
                       <=> (Depart(ops[p], j) => ops[p].etape = "compte")
    BY <1>5, <1>9 DEF Depart
  <2> QED
    BY <1>3, <1>4, <2>1 DEF Jeune, Inscrite, donnees, Presents
<1>14. \A p \in Ops : \A t \in Effacements : Reste(ops'[p], t, j) <=> Reste(ops[p], t, j)
  BY <1>5, <1>8, <1>10 DEF Reste, Effacement
<1>15. Effacee(j)'
  BY <1>3, <1>4, <1>14 DEF Jeune, Effacee, donnees, Presents, Effacements
<1>16. Archivee(j)'
  <2>1. \A p \in Ops : Lus(ops[p], j)'
    <3>1. ASSUME NEW p \in Ops, p # o
          PROVE  Lus(ops[p], j)'
      BY <1>3, <1>4, <1>10, <3>1 DEF Jeune, Archivee, Lus, donnees, Presents
    <3>2. Lus(ops[o], j)'
      BY <1>5, <1>8, <1>9 DEF Lus, Reste, Effacement, Effacements
    <3> QED
      BY <3>1, <3>2
  <2>2. \A p \in Ops : Reste(ops'[p], "suppression jeune", j) => ops'[p] = ops[p]
    BY <1>5, <1>8, <1>10 DEF Reste, Effacement, Effacements
  <2>3. (\E p \in Ops : Reste(ops[p], "archive", j)) => \E p \in Ops : Reste(ops'[p], "archive", j)
    BY <1>14 DEF Effacements
  <2>4. j \in Presents' <=> j \in Presents
    BY <1>3 DEF donnees, Presents
  <2>5. archives' = archives /\ archivees' = archivees
    BY <1>3 DEF donnees, archivage
  <2> QED
    BY <1>4, <2>1, <2>2, <2>3, <2>4, <2>5 DEF Jeune, Archivee
<1> QED
  BY <1>12, <1>13, <1>15, <1>16 DEF Jeune

LEMMA LectureInv ==
  ASSUME Inv, NEW o \in Ops, NEW op, LectureValide(o, op)
  PROVE  Inv'
<1>1. ASSUME NEW c \in Conseillers, c \notin perturbes'
      PROVE  Inscrit(c)'
  <2> DEFINE q == Poursuivre(op)
  <2>1. Pas(o, q) /\ UNCHANGED donnees
    BY LecturePas DEF Inv, LectureValide, Lecture
  <2>2. q = op \/ q = Libre
    BY PoursuivreSoit DEF LectureValide
  <2> HIDE DEF q
  <2>3. c \notin perturbes /\ Inscrit(c)
    BY <1>1, <2>1 DEF Pas, Inv
  <2>4. c \in q.ecrit => Existe(c) \/ c \in ops[o].ecrit
    BY <2>2, LibreOperation DEF LectureValide, BienLue
  <2>5. ~Finit(q, c) /\ ~Finit(ops[o], c)
    BY <2>2, LibreOperation DEF Finit, LectureValide, BienLue, Suite
  <2> QED
    BY <2>1, <2>3, <2>4, <2>5, InscritSuit DEF Inv, donnees, Existe
<1>2. \A j \in Jeunes \ perturbes' : Jeune(j)'
  BY LectureJeune
<1> QED
  BY <1>1, <1>2, LectureStructure DEF Inv

-----------------------------------------------------------------------------
(* Commands that are received                                               *)

LEMMA SuiteLibre ==
  ASSUME NEW op
  PROVE  Suite(Libre, op)
BY LibreOperation DEF Suite, Departs

LEMMA DemarrerValide ==
  ASSUME NEW o \in Ops, NEW op \in Operation, Demarrer(o, op), Reguliere(op), BienLue(o, op)
  PROVE  LectureValide(o, op)
BY SuiteLibre DEF Demarrer, LectureValide

LEMMA DossiersLus ==
  ASSUME Types, References, NEW js \in SUBSET Presents
  PROVE  /\ Dossiers(js) \subseteq Jeunes \cup Conseillers
         /\ js \subseteq Dossiers(js)
         /\ \A j \in Dossiers(js) \cap Jeunes : j \in js
         /\ \A j \in js : /\ jeunes[j].conseiller \in Dossiers(js)
                          /\ jeunes[j].initial \in Dossiers(js) \cup {Aucun}
         /\ \A c \in Dossiers(js) \cap Conseillers : Existe(c)
<1>1. \A j \in js : /\ j \in Jeunes /\ jeunes[j] \in LigneJeune
                    /\ jeunes[j].conseiller \in Conseillers
                    /\ jeunes[j].initial \in Conseillers \cup {Aucun}
                    /\ Nommes(jeunes[j])
  BY DEF Types, Presents, LigneJeune, References
<1> DEFINE cs == {jeunes[j].conseiller : j \in js}
           is == {jeunes[j].initial : j \in js} \ {Aucun}
<1>2. Dossiers(js) = js \cup cs \cup is
  BY DEF Dossiers
<1>3. cs \subseteq Conseillers /\ \A c \in cs : Existe(c)
  BY <1>1 DEF Nommes
<1>4. is \subseteq Conseillers /\ \A c \in is : Existe(c)
  BY <1>1 DEF Nommes
<1>5. \A j \in js : jeunes[j].conseiller \in cs /\ jeunes[j].initial \in is \cup {Aucun}
  OBVIOUS
<1>6. Jeunes \cap Conseillers = {} /\ js \subseteq Jeunes
  BY <1>1, ConstantsAssumption
<1> HIDE DEF cs, is
<1> QED
  BY <1>2, <1>3, <1>4, <1>5, <1>6

LEMMA PreteChamps ==
  ASSUME NEW cmd, NEW ecritures, NEW lit, NEW ecrit
  PROVE  /\ Prete(cmd, ecritures, lit, ecrit).cmd = cmd
         /\ Prete(cmd, ecritures, lit, ecrit).etape = "fin"
         /\ Prete(cmd, ecritures, lit, ecrit).ecritures = ecritures
         /\ Prete(cmd, ecritures, lit, ecrit).lit = lit
         /\ Prete(cmd, ecritures, lit, ecrit).ecrit = ecrit
         /\ Prete(cmd, ecritures, lit, ecrit).jeunes = {}
BY DEF Prete, Libre

Autres == {"creerListe", "modifierListe", "ajouterJeuneListe", "supprimerListe",
           "creerAnimation", "modifierAnimation", "modifierConseiller"}

LEMMA PreteOperation ==
  ASSUME NEW cmd \in Autres \cup {"recuperer"}, NEW ecritures \in SUBSET Ecriture,
         NEW lit \in SUBSET Entites, NEW ecrit \in SUBSET Entites
  PROVE  Prete(cmd, ecritures, lit, ecrit) \in Operation
BY DEF Prete, Libre, Operation, Autres

(* A command on lists, group events or accounts: no young person moves.     *)
LEMMA AutreValide ==
  ASSUME NEW o \in Ops, NEW cmd \in Autres, NEW ecritures \in SUBSET Ecriture,
         NEW lit \in SUBSET Entites, NEW ecrit \in SUBSET Entites,
         ecrit \cap (Jeunes \cup Conseillers) \subseteq lit,
         \A c \in ecrit \cap Conseillers : Existe(c),
         \A w \in ecritures :
           /\ w.table \in {"animation", "liste", "membres", "conseiller", "suppression liste"}
           /\ w.table = "conseiller" => cmd = "modifierConseiller" /\ w.id \in ecrit,
         Demarrer(o, Prete(cmd, ecritures, lit, ecrit))
  PROVE  LectureValide(o, Prete(cmd, ecritures, lit, ecrit))
<1> DEFINE op == Prete(cmd, ecritures, lit, ecrit)
<1>0. /\ op \in Operation /\ Demarrer(o, op)
  BY PreteOperation
<1>1. /\ op.cmd = cmd /\ op.etape = "fin" /\ op.ecritures = ecritures
      /\ op.lit = lit /\ op.ecrit = ecrit /\ op.jeunes = {}
  BY DEF Prete, Libre
<1> HIDE DEF op
<1>2. /\ op.cmd \notin Departs /\ op.cmd # "supprimerConseiller" /\ op.cmd # "recuperer"
      /\ op.cmd # "transferer" /\ op.cmd # "changerAgence"
  BY <1>1 DEF Autres, Departs
<1>3. \A w \in op.ecritures : w.table \in Tables(op) /\ w.table \notin Mouvements
                              /\ w.table \notin Effacements
  BY <1>1, <1>2 DEF Tables, Mouvements, Effacements
<1>4. \A w \in op.ecritures : Annoncee(op, w)
  BY <1>1, <1>3 DEF Annoncee, Mouvements
<1>5. Reguliere(op)
  BY <1>0, <1>1, <1>2, <1>3, <1>4 DEF Reguliere, Etapes, Departs
<1>6. \A j \in Jeunes : EnCours(op, j, jeunes[j], jeunes[j].conseiller)
  BY <1>3 DEF EnCours, Concerne, SurChat, SurRang, SurTrace, Mouvements
<1>7. BienLue(o, op)
  BY <1>1, <1>2, <1>3, <1>6 DEF BienLue, Mouvements
<1>8. LectureValide(o, op)
  BY <1>0, <1>5, <1>7, DemarrerValide
<1> QED
  BY <1>8 DEF op

LEMMA AutreRecue ==
  ASSUME Inv, NEW o \in Ops, NEW cmd \in Autres, NEW w \in Ecriture, NEW x \in AC \cup Listes \cup Conseillers,
         NEW lit \in SUBSET Entites,
         x \in Conseillers => Existe(x) /\ x \in lit,
         \/ w.table \in {"animation", "liste", "membres", "suppression liste"}
         \/ w.table = "conseiller" /\ cmd = "modifierConseiller" /\ w.id = x,
         Demarrer(o, Prete(cmd, {w}, lit, {x}))
  PROVE  Inv'
<1>1. {x} \in SUBSET Entites /\ {x} \cap Jeunes = {}
  <2>1. x \in Entites
    BY DEF Entites
  <2>2. x \notin Jeunes
    BY ConstantsAssumption
  <2> QED
    BY <2>1, <2>2
<1>2. /\ {w} \in SUBSET Ecriture
      /\ {x} \cap (Jeunes \cup Conseillers) \subseteq lit
      /\ \A c \in {x} \cap Conseillers : Existe(c)
  BY <1>1
<1>3. \A v \in {w} :
        /\ v.table \in {"animation", "liste", "membres", "conseiller", "suppression liste"}
        /\ v.table = "conseiller" => cmd = "modifierConseiller" /\ v.id \in {x}
  OBVIOUS
<1>4. LectureValide(o, Prete(cmd, {w}, lit, {x}))
  BY <1>1, <1>2, <1>3, AutreValide
<1> QED
  BY <1>4, LectureInv

LEMMA EnsemblesLus ==
  ASSUME Inv
  PROVE  /\ \A js \in SUBSET Presents : Dossiers(js) \in SUBSET Entites
         /\ \A x \in Listes \cup AC \cup Conseillers : {x} \in SUBSET Entites
         /\ \A c \in Conseillers : SuivisPar(c) \subseteq Presents /\ Origine(c) \subseteq Presents
         /\ \A a : JeunesDeLAgence(a) \subseteq Presents
         /\ Presents \subseteq Jeunes
<1>1. \A js \in SUBSET Presents : Dossiers(js) \subseteq Jeunes \cup Conseillers
  BY DossiersLus DEF Inv
<1>2. Jeunes \cup Conseillers \subseteq Entites
  BY DEF Entites
<1> QED
  BY <1>1, <1>2 DEF Entites, SuivisPar, Origine, JeunesDeLAgence, Presents

LEMMA ListesRecues ==
  ASSUME Inv, NEW o \in Ops,
         CreerListe(o) \/ ModifierListe(o) \/ AjouterJeuneListe(o) \/ SupprimerListe(o)
  PROVE  Inv'
<1>1. \A l \in Listes, c \in Conseillers, js \in SUBSET Jeunes :
        EcritureListe(l, c, js) \in Ecriture /\ EcritureListe(l, c, js).table = "liste"
  <2>1. \A c \in Conseillers, js \in SUBSET Jeunes : [conseiller |-> c, jeunes |-> js] \in Liste
    BY DEF Liste
  <2> QED
    BY <2>1, AutresEcritures DEF EcritureListe
<1>2. \A l \in Listes : l \notin Conseillers /\ l \notin Jeunes
  BY ConstantsAssumption
<1>3. \A l \in Listes : listes[l] # Absent => listes[l].conseiller \in Conseillers
  BY DEF Inv, Types, Liste
<1>4. CASE CreerListe(o)
  <2>1a. PICK c \in {d \in Conseillers : Existe(d)}, l \in Listes \ uuids :
        \E js \in SUBSET SuivisPar(c) :
          Demarrer(o, Prete("creerListe", {EcritureListe(l, c, js)}, Dossiers(js) \cup {c}, {l}))
    BY <1>4 DEF CreerListe
  <2>1. PICK js \in SUBSET SuivisPar(c) :
          Demarrer(o, Prete("creerListe", {EcritureListe(l, c, js)}, Dossiers(js) \cup {c}, {l}))
    BY <2>1a
  <2>2. js \in SUBSET Presents /\ js \in SUBSET Jeunes /\ c \in Conseillers /\ l \in Listes
    BY EnsemblesLus
  <2>3. Dossiers(js) \cup {c} \in SUBSET Entites
    BY <2>2, EnsemblesLus
  <2> QED
    BY <1>1, <1>2, <2>1, <2>2, <2>3, AutreRecue DEF Autres
<1>5. CASE ModifierListe(o)
  <2>1. PICK l \in Listes : /\ listes[l] # Absent
          /\ \E js \in SUBSET (SuivisPar(listes[l].conseiller) \cup Origine(listes[l].conseiller)) :
               Demarrer(o, Prete("modifierListe", {EcritureListe(l, listes[l].conseiller, js)},
                                 Dossiers(js) \cup {listes[l].conseiller, l}, {l}))
    BY <1>5 DEF ModifierListe
  <2>2. PICK c \in Conseillers : c = listes[l].conseiller
    BY <1>3, <2>1
  <2>3. PICK js \in SUBSET (SuivisPar(c) \cup Origine(c)) :
               Demarrer(o, Prete("modifierListe", {EcritureListe(l, c, js)},
                                 Dossiers(js) \cup {c, l}, {l}))
    BY <2>1, <2>2
  <2>4. js \in SUBSET Presents /\ js \in SUBSET Jeunes
    BY EnsemblesLus
  <2>5. Dossiers(js) \cup {c, l} \in SUBSET Entites
    BY <2>4, EnsemblesLus
  <2> QED
    BY <1>1, <1>2, <2>3, <2>4, <2>5, AutreRecue DEF Autres
<1>6. CASE AjouterJeuneListe(o)
  <2>1. PICK l \in Listes : /\ listes[l] # Absent
          /\ \E j \in SuivisPar(listes[l].conseiller) :
               Demarrer(o, Prete("ajouterJeuneListe",
                 {[table |-> "membres", id |-> l, jeunes |-> {j}, ajout |-> TRUE]},
                 Dossiers({j}) \cup {l}, {l}))
    BY <1>6 DEF AjouterJeuneListe
  <2>2. PICK j \in SuivisPar(listes[l].conseiller) :
               Demarrer(o, Prete("ajouterJeuneListe",
                 {[table |-> "membres", id |-> l, jeunes |-> {j}, ajout |-> TRUE]},
                 Dossiers({j}) \cup {l}, {l}))
    BY <2>1
  <2>3. {j} \in SUBSET Presents /\ {j} \in SUBSET Jeunes
    BY <1>3, <2>1, <2>2, EnsemblesLus
  <2>4. Dossiers({j}) \cup {l} \in SUBSET Entites
    BY <2>3, EnsemblesLus
  <2> DEFINE w == [table |-> "membres", id |-> l, jeunes |-> {j}, ajout |-> TRUE]
  <2>5. w \in Ecriture /\ w.table = "membres"
    BY <2>3, AutresEcritures
  <2>6. Demarrer(o, Prete("ajouterJeuneListe", {w}, Dossiers({j}) \cup {l}, {l}))
    BY <2>2
  <2> HIDE DEF w
  <2> QED
    BY <1>2, <2>4, <2>5, <2>6, AutreRecue DEF Autres
<1>7. CASE SupprimerListe(o)
  <2>1. PICK l \in Listes :
          Demarrer(o, Prete("supprimerListe", {[table |-> "suppression liste", id |-> l]}, {l}, {l}))
    BY <1>7 DEF SupprimerListe
  <2> DEFINE w == [table |-> "suppression liste", id |-> l]
  <2>2. w \in Ecriture /\ w.table = "suppression liste"
    BY AutresEcritures
  <2>3. Demarrer(o, Prete("supprimerListe", {w}, {l}, {l})) /\ {l} \in SUBSET Entites
    BY <2>1, EnsemblesLus
  <2> HIDE DEF w
  <2> QED
    BY <1>2, <2>2, <2>3, AutreRecue DEF Autres
<1> QED
  BY <1>4, <1>5, <1>6, <1>7

LEMMA AnimationsRecues ==
  ASSUME Inv, NEW o \in Ops, CreerAnimation(o) \/ ModifierAnimation(o) \/ ModifierConseiller(o)
  PROVE  Inv'
<1>1. \A a \in AC, r \in Animation :
        /\ EcritureAnimation(a, <<r>>) \in Ecriture /\ EcritureAnimation(a, <<r>>).table = "animation"
  <2>1. \A r \in Animation : <<r>> \in Seq(Animation) \ {<<>>}
    OBVIOUS
  <2> QED
    BY <2>1, AutresEcritures DEF EcritureAnimation
<1>2. \A a \in AC : a \notin Conseillers /\ a \notin Jeunes
  BY ConstantsAssumption
<1>3. CASE CreerAnimation(o)
  <2>1a. PICK c \in {d \in Conseillers : conseillers[d] \in Agences}, a \in AC \ uuids :
        \E js \in SUBSET JeunesDeLAgence(conseillers[c]) :
          Demarrer(o, Prete("creerAnimation",
            {EcritureAnimation(a, <<[agence |-> conseillers[c], createur |-> c, jeunes |-> js]>>)},
            Dossiers(js) \cup {c}, {a}))
    BY <1>3 DEF CreerAnimation
  <2>1. PICK js \in SUBSET JeunesDeLAgence(conseillers[c]) :
          Demarrer(o, Prete("creerAnimation",
            {EcritureAnimation(a, <<[agence |-> conseillers[c], createur |-> c, jeunes |-> js]>>)},
            Dossiers(js) \cup {c}, {a}))
    BY <2>1a
  <2>2. js \in SUBSET Presents /\ js \in SUBSET Jeunes /\ c \in Conseillers /\ a \in AC
    BY EnsemblesLus
  <2> DEFINE r == [agence |-> conseillers[c], createur |-> c, jeunes |-> js]
  <2>3. r \in Animation
    BY <2>1, <2>2 DEF Animation
  <2>4. Demarrer(o, Prete("creerAnimation", {EcritureAnimation(a, <<r>>)}, Dossiers(js) \cup {c}, {a}))
    BY <2>1
  <2>5. Dossiers(js) \cup {c} \in SUBSET Entites
    BY <2>2, EnsemblesLus
  <2> HIDE DEF r
  <2> QED
    BY <1>1, <1>2, <2>2, <2>3, <2>4, <2>5, AutreRecue DEF Autres
<1>4. CASE ModifierAnimation(o)
  <2>1a. PICK a \in {b \in AC : animations[b] # Absent} :
        \E js \in SUBSET JeunesDeLAgence(animations[a].agence) :
          Demarrer(o, Prete("modifierAnimation",
            {EcritureAnimation(a, <<[animations[a] EXCEPT !.jeunes = js]>>)},
            Dossiers(js) \cup {a}, {a}))
    BY <1>4 DEF ModifierAnimation
  <2>1. PICK js \in SUBSET JeunesDeLAgence(animations[a].agence) :
          Demarrer(o, Prete("modifierAnimation",
            {EcritureAnimation(a, <<[animations[a] EXCEPT !.jeunes = js]>>)},
            Dossiers(js) \cup {a}, {a}))
    BY <2>1a
  <2>2. js \in SUBSET Presents /\ js \in SUBSET Jeunes /\ a \in AC
    BY EnsemblesLus
  <2> DEFINE r == [animations[a] EXCEPT !.jeunes = js]
  <2>3. r \in Animation
    BY <2>1, <2>2 DEF Inv, Types, Animation
  <2>4. Demarrer(o, Prete("modifierAnimation", {EcritureAnimation(a, <<r>>)}, Dossiers(js) \cup {a}, {a}))
    BY <2>1
  <2>5. Dossiers(js) \cup {a} \in SUBSET Entites
    BY <2>2, EnsemblesLus
  <2> HIDE DEF r
  <2> QED
    BY <1>1, <1>2, <2>2, <2>3, <2>4, <2>5, AutreRecue DEF Autres
<1>5. CASE ModifierConseiller(o)
  <2>1. PICK c \in {d \in Conseillers : Existe(d)}, agence \in Agences \cup {Aucun} :
          Demarrer(o, Prete("modifierConseiller",
            {[table |-> "conseiller", id |-> c, agence |-> agence]}, {c}, {c}))
    BY <1>5 DEF ModifierConseiller
  <2> DEFINE w == [table |-> "conseiller", id |-> c, agence |-> agence]
  <2>2. w \in Ecriture /\ w.table = "conseiller" /\ w.id = c
    BY AutresEcritures
  <2>3. Demarrer(o, Prete("modifierConseiller", {w}, {c}, {c})) /\ {c} \in SUBSET Entites
    BY <2>1, EnsemblesLus
  <2> HIDE DEF w
  <2> QED
    BY <2>2, <2>3, AutreRecue DEF Autres
<1> QED
  BY <1>3, <1>4, <1>5

(* The row a transfer writes names what it has read, and is a hand-over.    *)
LEMMA TransfertEstPassage ==
  ASSUME NEW lue, NEW source, NEW cible, NEW temporaire, lue.conseiller = source
  PROVE  LET i == mapConseillerInitial(lue, source, cible, temporaire)
         IN  /\ i \in {Aucun, source, lue.initial}
             /\ i = Aucun \/ (cible # lue.initial
                              /\ i = IF lue.initial = Aucun THEN lue.conseiller ELSE lue.initial)
BY DEF mapConseillerInitial

LEMMA TransfererRecu ==
  ASSUME Inv, NEW o \in Ops, Transferer(o)
  PROVE  Inv'
<1>1a. PICK source \in {c \in Conseillers : Existe(c)}, cible \in {c \in Conseillers : Existe(c)},
            temporaire \in BOOLEAN :
        \E js \in (SUBSET SuivisPar(source)) \ {{}} :
          LET ligne(j) == [conseiller |-> cible,
                           initial |-> mapConseillerInitial(jeunes[j], source, cible, temporaire)]
              transfert == [source |-> source, cible |-> cible,
                            type |-> IF temporaire THEN "temporaire" ELSE "definitif"]
          IN /\ Demarrer(o, [Libre EXCEPT
                  !.cmd = "transferer", !.etape = "jeunes", !.qui = source,
                  !.temporaire = temporaire, !.jeunes = js,
                  !.quittee = AgenceQuittee(source, cible),
                  !.ecritures = {EcritureChat(transfert, {[id |-> j, ligne |-> ligne(j)] : j \in js})},
                  !.lit = Dossiers(js) \cup {cible}, !.ecrit = js])
             /\ UNCHANGED uuids
  BY Zenon DEF Transferer
<1>1. /\ source \in Conseillers /\ cible \in Conseillers
      /\ Existe(source) /\ Existe(cible)
  OBVIOUS
<1> DEFINE ligne(j) == [conseiller |-> cible,
                        initial |-> mapConseillerInitial(jeunes[j], source, cible, temporaire)]
           transfert == [source |-> source, cible |-> cible,
                         type |-> IF temporaire THEN "temporaire" ELSE "definitif"]
           lignes(js) == {[id |-> j, ligne |-> ligne(j)] : j \in js}
           op(js) == [Libre EXCEPT
                  !.cmd = "transferer", !.etape = "jeunes", !.qui = source,
                  !.temporaire = temporaire, !.jeunes = js,
                  !.quittee = AgenceQuittee(source, cible),
                  !.ecritures = {EcritureChat(transfert, lignes(js))},
                  !.lit = Dossiers(js) \cup {cible}, !.ecrit = js]
<1>2. PICK js \in (SUBSET SuivisPar(source)) \ {{}} : Demarrer(o, op(js))
  BY <1>1a
<1>3. /\ js \in SUBSET Presents /\ js \in SUBSET Jeunes /\ js # {}
      /\ \A j \in js : jeunes[j].conseiller = source /\ jeunes[j] \in LigneJeune
  BY <1>2, EnsemblesLus DEF SuivisPar, Inv, Types, Presents
<1>4. /\ Dossiers(js) \subseteq Jeunes \cup Conseillers /\ js \subseteq Dossiers(js)
      /\ \A j \in Dossiers(js) \cap Jeunes : j \in js
      /\ \A j \in js : /\ jeunes[j].conseiller \in Dossiers(js)
                       /\ jeunes[j].initial \in Dossiers(js) \cup {Aucun}
      /\ \A c \in Dossiers(js) \cap Conseillers : Existe(c)
  BY <1>3, DossiersLus DEF Inv
<1>5. source \in Dossiers(js)
  BY <1>3, <1>4
<1>6. transfert \in Transfert
  BY DEF Transfert
<1>7. \A j \in js : ligne(j) \in LigneJeune
  <2> SUFFICES ASSUME NEW j \in js PROVE ligne(j) \in LigneJeune
    OBVIOUS
  <2>1. mapConseillerInitial(jeunes[j], source, cible, temporaire) \in Conseillers \cup {Aucun}
    BY <1>3, TransfertEstPassage DEF LigneJeune
  <2> QED
    BY <2>1 DEF LigneJeune
<1>8. lignes(js) \subseteq Rang(LigneJeune)
  BY <1>3, <1>7 DEF Rang
<1> DEFINE w == EcritureChat(transfert, lignes(js))
<1>9. /\ w \in Ecriture /\ w.table = "chat" /\ w.ligne = transfert /\ w.lignes = lignes(js)
      /\ transfert.source = source /\ transfert.cible = cible
  BY <1>6, <1>8, EcrituresDeJeunes DEF EcritureChat
<1>10. \A l \in lignes(js) : /\ l.id \in js /\ l.ligne.conseiller = cible
                             /\ l.ligne.initial = mapConseillerInitial(jeunes[l.id], source, cible, temporaire)
                             /\ \A m \in lignes(js) : m.id = l.id => m = l
  OBVIOUS
<1>11. AgenceQuittee(source, cible) \in Agences \cup {Aucun}
  BY <1>1 DEF AgenceQuittee, Inv, Types, Existe
<1>12. /\ op(js).cmd = "transferer" /\ op(js).etape = "jeunes" /\ op(js).jeunes = js
       /\ op(js).ecritures = {w} /\ op(js).lit = Dossiers(js) \cup {cible} /\ op(js).ecrit = js
  BY DEF Libre
<1>13. op(js) \in Operation
  <2>1. Dossiers(js) \cup {cible} \in SUBSET Entites /\ js \in SUBSET Entites
    BY <1>3, <1>4 DEF Entites
  <2> HIDE DEF lignes, transfert
  <2> QED
    BY <1>3, <1>9, <1>11, <2>1, ZenonT(60) DEF Operation, Libre
<1>14. Demarrer(o, op(js))
  BY <1>2
<1> HIDE DEF op, w, lignes, transfert, ligne
<1>15. PICK q \in Operation : q = op(js)
  BY <1>13
<1>16. Annoncee(q, w)
  <2>1. \A l \in w.lignes : l.ligne.initial \in q.lit \cup {Aucun}
    <3> SUFFICES ASSUME NEW l \in w.lignes PROVE l.ligne.initial \in q.lit \cup {Aucun}
      OBVIOUS
    <3>1. l.id \in js /\ l.ligne.initial = mapConseillerInitial(jeunes[l.id], source, cible, temporaire)
      BY <1>9, <1>10
    <3>2. l.ligne.initial \in {Aucun, source, jeunes[l.id].initial}
      BY <1>3, <3>1, TransfertEstPassage
    <3> QED
      BY <1>4, <1>5, <1>12, <1>15, <3>1, <3>2
  <2> QED
    BY <1>5, <1>9, <1>10, <1>12, <1>15, <2>1 DEF Annoncee, Effacements
<1>17. Reguliere(q)
  BY <1>3, <1>4, <1>9, <1>12, <1>15, <1>16 DEF Reguliere, Etapes, Departs, Tables, Mouvements
<1>18. \A j \in Jeunes : EnCours(q, j, jeunes[j], jeunes[j].conseiller)
  <2> SUFFICES ASSUME NEW j \in Jeunes, SurChat(w, j)
               PROVE  /\ jeunes[j] # Absent
                      /\ \A l \in w.lignes : l.id = j => Passage(jeunes[j], l.ligne)
    BY <1>9, <1>12, <1>15 DEF EnCours, Concerne, SurRang, SurTrace
  <2>1. j \in js
    BY <1>9, <1>10 DEF SurChat
  <2>2. ASSUME NEW l \in w.lignes, l.id = j
        PROVE  Passage(jeunes[j], l.ligne)
    BY <1>3, <1>9, <1>10, <2>1, <2>2, TransfertEstPassage DEF Passage
  <2> QED
    BY <1>3, <2>1, <2>2 DEF Presents
<1>19. BienLue(o, q)
  <2>1. \A j \in q.lit \cap Jeunes : j \in js
    BY <1>4, <1>12, <1>15, ConstantsAssumption
  <2>2. \A j \in js : /\ j \in Presents /\ jeunes[j].conseiller \in q.lit
                      /\ jeunes[j].initial \in q.lit \cup {Aucun}
    BY <1>3, <1>4, <1>12, <1>15
  <2>3. \A c \in q.lit \cap Conseillers : Existe(c)
    BY <1>1, <1>4, <1>12, <1>15
  <2>4. \A c \in q.ecrit \cap Conseillers : Existe(c)
    BY <1>3, <1>12, <1>15, ConstantsAssumption
  <2> QED
    BY <1>9, <1>12, <1>15, <1>18, <2>1, <2>2, <2>3, <2>4 DEF BienLue, Departs
<1>20. LectureValide(o, q)
  BY <1>14, <1>15, <1>17, <1>19, DemarrerValide
<1> QED
  BY <1>20, LectureInv

LEMMA RecupererRecu ==
  ASSUME Inv, NEW o \in Ops, Recuperer(o)
  PROVE  Inv'
<1> DEFINE lot(c, d) == {j \in Origine(c) : jeunes[j].conseiller = d}
           transfert(c, d) == [source |-> d, cible |-> c, type |-> "recuperation"]
           rendu(c, j) == [id |-> j, ligne |-> [conseiller |-> c, initial |-> Aucun]]
           ecrit(c, d) == EcritureChat(transfert(c, d), {rendu(c, j) : j \in lot(c, d)})
           ecritures(c) == {ecrit(c, d) : d \in {e \in Conseillers : lot(c, e) # {}}}
           op(c) == Prete("recuperer", ecritures(c), Dossiers(Origine(c)), Origine(c))
<1>1. PICK c \in Conseillers : Existe(c) /\ Origine(c) # {} /\ Demarrer(o, op(c))
  BY DEF Recuperer
<1> DEFINE js == Origine(c)
<1>2. /\ js \in SUBSET Presents /\ js \in SUBSET Jeunes
      /\ \A j \in js : jeunes[j].initial = c /\ jeunes[j] \in LigneJeune
  BY <1>1, EnsemblesLus DEF Origine, Inv, Types, Presents
<1>3. /\ Dossiers(js) \subseteq Jeunes \cup Conseillers /\ js \subseteq Dossiers(js)
      /\ \A j \in Dossiers(js) \cap Jeunes : j \in js
      /\ \A j \in js : /\ jeunes[j].conseiller \in Dossiers(js)
                       /\ jeunes[j].initial \in Dossiers(js) \cup {Aucun}
      /\ \A d \in Dossiers(js) \cap Conseillers : Existe(d)
  BY <1>2, DossiersLus DEF Inv
<1>4. c \in Dossiers(js)
  BY <1>1, <1>2, <1>3, ConstantsAssumption DEF Entites
<1>5. ASSUME NEW d \in Conseillers, lot(c, d) # {}
      PROVE  /\ ecrit(c, d) \in Ecriture /\ ecrit(c, d).table = "chat"
             /\ ecrit(c, d).ligne.source = d /\ ecrit(c, d).ligne.cible = c
             /\ d \in Dossiers(js)
             /\ \A l \in ecrit(c, d).lignes :
                  /\ l.id \in js /\ jeunes[l.id].conseiller = d
                  /\ l.ligne.conseiller = c /\ l.ligne.initial = Aucun
                  /\ \A m \in ecrit(c, d).lignes : m.id = l.id => m = l
  <2>1. transfert(c, d) \in Transfert /\ transfert(c, d).source = d /\ transfert(c, d).cible = c
    BY DEF Transfert
  <2> DEFINE rs == {rendu(c, j) : j \in lot(c, d)}
  <2>2. rs \subseteq Rang(LigneJeune)
    <3>1. [conseiller |-> c, initial |-> Aucun] \in LigneJeune
      BY DEF LigneJeune
    <3> QED
      BY <1>2, <3>1 DEF Rang
  <2>3. \A l \in rs : /\ l.id \in js /\ jeunes[l.id].conseiller = d
                      /\ l.ligne.conseiller = c /\ l.ligne.initial = Aucun
                      /\ \A m \in rs : m.id = l.id => m = l
    OBVIOUS
  <2>4. d \in Dossiers(js)
    BY <1>3, <1>5
  <2>5. ecrit(c, d) = EcritureChat(transfert(c, d), rs)
    OBVIOUS
  <2> HIDE DEF rs, transfert
  <2>6. /\ EcritureChat(transfert(c, d), rs) \in Ecriture
        /\ EcritureChat(transfert(c, d), rs).table = "chat"
        /\ EcritureChat(transfert(c, d), rs).ligne = transfert(c, d)
        /\ EcritureChat(transfert(c, d), rs).lignes = rs
    BY <2>1, <2>2, EcrituresDeJeunes DEF EcritureChat
  <2> HIDE DEF ecrit
  <2> QED
    BY <2>1, <2>3, <2>4, <2>5, <2>6
<1>6. \A w \in ecritures(c) : \E d \in Conseillers : lot(c, d) # {} /\ w = ecrit(c, d)
  OBVIOUS
<1> HIDE DEF ecrit
<1>7. ecritures(c) \in SUBSET Ecriture /\ \A w \in ecritures(c) : w.table = "chat"
  BY <1>5, <1>6
<1>8. op(c) \in Operation
  <2>1. Dossiers(js) \in SUBSET Entites /\ js \in SUBSET Entites
    BY <1>2, <1>3 DEF Entites
  <2> HIDE DEF ecritures
  <2> QED
    BY <1>7, <2>1, PreteOperation
<1>9. /\ op(c).cmd = "recuperer" /\ op(c).etape = "fin" /\ op(c).ecritures = ecritures(c)
      /\ op(c).lit = Dossiers(js) /\ op(c).ecrit = js
  BY DEF Prete, Libre
<1> HIDE DEF op, ecritures, js
<1>10. PICK q \in Operation : q = op(c)
  BY <1>8
<1>11. ASSUME NEW w \in q.ecritures PROVE Annoncee(q, w)
  <2>1. PICK d \in Conseillers : lot(c, d) # {} /\ w = ecrit(c, d)
    BY <1>6, <1>9, <1>10, <1>11
  <2> QED
    BY <1>4, <1>5, <1>9, <1>10, <2>1, ZenonT(60) DEF Annoncee, Effacements
<1>12. Reguliere(q)
  BY <1>3, <1>7, <1>9, <1>10, <1>11
  DEF Reguliere, Etapes, Departs, Tables, Mouvements
<1>13. \A j \in Jeunes : EnCours(q, j, jeunes[j], jeunes[j].conseiller)
  <2> SUFFICES ASSUME NEW j \in Jeunes, NEW w \in q.ecritures, SurChat(w, j)
               PROVE  /\ jeunes[j] # Absent
                      /\ \A l \in w.lignes : l.id = j => Passage(jeunes[j], l.ligne)
                      /\ \A v \in q.ecritures : SurChat(v, j) => v = w
    BY <1>7, <1>9, <1>10 DEF EnCours, Concerne, SurRang, SurTrace
  <2>1. PICK d \in Conseillers : lot(c, d) # {} /\ w = ecrit(c, d)
    BY <1>6, <1>9, <1>10
  <2>2. j \in js /\ jeunes[j].conseiller = d
    BY <1>5, <2>1 DEF SurChat
  <2>3. ASSUME NEW v \in q.ecritures, SurChat(v, j)
        PROVE  v = w
    <3>1. PICK e \in Conseillers : lot(c, e) # {} /\ v = ecrit(c, e)
      BY <1>6, <1>9, <1>10, <2>3
    <3>2. jeunes[j].conseiller = e
      BY <1>5, <2>3, <3>1 DEF SurChat
    <3> QED
      BY <2>1, <2>2, <3>1, <3>2
  <2> QED
    BY <1>2, <1>5, <2>1, <2>2, <2>3 DEF Presents, Passage, js
<1>14. BienLue(o, q)
  <2>1. \A d \in q.ecrit \cap Conseillers : Existe(d)
    BY <1>3, <1>9, <1>10
  <2> QED
    BY <1>2, <1>3, <1>7, <1>9, <1>10, <1>13, <2>1 DEF BienLue, Departs, js
<1>15. LectureValide(o, q)
  BY <1>1, <1>10, <1>12, <1>14, DemarrerValide
<1> QED
  BY <1>15, LectureInv

LEMMA SupprimerConseillerRecu ==
  ASSUME Inv, NEW o \in Ops, SupprimerConseiller(o)
  PROVE  Inv'
<1> DEFINE op(c) == [Libre EXCEPT !.cmd = "supprimerConseiller", !.etape = "initiaux",
                                  !.qui = c, !.lit = {c}, !.ecrit = {c}]
<1>1. PICK c \in Conseillers : Existe(c) /\ SuivisPar(c) = {} /\ Demarrer(o, op(c))
  BY DEF SupprimerConseiller, PortefeuilleVide
<1>2. /\ op(c).cmd = "supprimerConseiller" /\ op(c).etape = "initiaux" /\ op(c).qui = c
      /\ op(c).lit = {c} /\ op(c).ecrit = {c} /\ op(c).ecritures = {} /\ op(c).jeunes = {}
  BY DEF Libre
<1>3. op(c) \in Operation
  BY DEF Operation, Libre, Entites
<1> HIDE DEF op
<1>4. PICK q \in Operation : q = op(c)
  BY <1>3
<1>5. c \notin Jeunes
  BY ConstantsAssumption
<1>6. Reguliere(q)
  BY <1>2, <1>4, <1>5 DEF Reguliere, Etapes, Departs
<1>7. \A j \in Jeunes : EnCours(q, j, jeunes[j], jeunes[j].conseiller)
  BY <1>2, <1>4 DEF EnCours
<1>8. BienLue(o, q)
  BY <1>1, <1>2, <1>4, <1>5, <1>7 DEF BienLue, Liberes, Departs
<1>9. LectureValide(o, q)
  BY <1>1, <1>4, <1>6, <1>8, DemarrerValide
<1> QED
  BY <1>9, LectureInv

LEMMA QuitterRecu ==
  ASSUME Inv, NEW o \in Ops, NEW cmd \in Departs, Quitter(o, cmd)
  PROVE  Inv'
<1> DEFINE op(j) == [Libre EXCEPT !.cmd = cmd, !.etape = "compte",
                                  !.jeunes = {j}, !.lit = {j}, !.ecrit = {j}]
<1>1. PICK j \in Presents : Demarrer(o, op(j))
  BY DEF Quitter
<1>2. j \in Jeunes /\ j \notin Conseillers
  BY ConstantsAssumption DEF Presents
<1>3. /\ op(j).cmd = cmd /\ op(j).etape = "compte" /\ op(j).qui = Aucun
      /\ op(j).lit = {j} /\ op(j).ecrit = {j} /\ op(j).ecritures = {} /\ op(j).jeunes = {j}
  BY DEF Libre
<1>4. op(j) \in Operation
  BY <1>2 DEF Operation, Libre, Entites, Departs
<1> HIDE DEF op
<1>5. PICK q \in Operation : q = op(j)
  BY <1>4
<1>6. Reguliere(q)
  BY <1>2, <1>3, <1>5 DEF Reguliere, Etapes, Departs
<1>7. \A i \in Jeunes : EnCours(q, i, jeunes[i], jeunes[i].conseiller)
  BY <1>3, <1>5 DEF EnCours
<1>8. BienLue(o, q)
  BY <1>2, <1>3, <1>5, <1>7 DEF BienLue, Departs
<1>9. LectureValide(o, q)
  BY <1>1, <1>5, <1>6, <1>8, DemarrerValide
<1> QED
  BY <1>9, LectureInv

LEMMA ChangerAgenceRecu ==
  ASSUME Inv, NEW o \in Ops, ChangerAgence(o)
  PROVE  Inv'
<1> DEFINE op(n, cs) == [Libre EXCEPT !.cmd = "changerAgence", !.etape = "conseillers",
                                      !.nouvelle = n, !.aFaire = cs]
<1>1. PICK n \in Agences, cs \in SUBSET Conseillers : Demarrer(o, op(n, cs))
  <2>1. PICK n \in Agences, cs \in {{c} : c \in Conseillers}
          \cup {{c \in Conseillers : conseillers[c] = ancienne} : ancienne \in Agences} :
          Demarrer(o, op(n, cs))
    BY DEF ChangerAgence
  <2>2. cs \in SUBSET Conseillers
    OBVIOUS
  <2> QED
    BY <2>1, <2>2
<1>2. /\ op(n, cs).cmd = "changerAgence" /\ op(n, cs).etape = "conseillers"
      /\ op(n, cs).nouvelle = n /\ op(n, cs).lit = {} /\ op(n, cs).ecrit = {} /\ op(n, cs).ecritures = {}
  BY DEF Libre
<1>3. op(n, cs) \in Operation
  BY DEF Operation, Libre
<1> HIDE DEF op
<1>4. PICK q \in Operation : q = op(n, cs)
  BY <1>3
<1>5. Reguliere(q)
  BY <1>2, <1>4 DEF Reguliere, Etapes, Departs
<1>6. \A i \in Jeunes : EnCours(q, i, jeunes[i], jeunes[i].conseiller)
  BY <1>2, <1>4 DEF EnCours
<1>7. BienLue(o, q)
  BY <1>2, <1>4, <1>6 DEF BienLue, Departs
<1>8. LectureValide(o, q)
  BY <1>1, <1>4, <1>5, <1>7, DemarrerValide
<1> QED
  BY <1>8, LectureInv

-----------------------------------------------------------------------------
(* Commands that go on reading                                              *)

LEMMA RelireValide ==
  ASSUME NEW o \in Ops, NEW op \in Operation, Relire(o, op), Reguliere(op),
         Suite(ops[o], op), BienLue(o, op)
  PROVE  LectureValide(o, op)
BY DEF Relire, LectureValide

(* Group events and lists to rewrite: no more young people move.            *)
LEMMA RelireAutres ==
  ASSUME Inv, NEW o \in Ops, NEW op \in Operation, Relire(o, op),
         op.cmd = ops[o].cmd, op.cmd \in {"transferer", "changerAgence"},
         ops[o].jeunes = op.jeunes, op.etape \in Etapes(op) \ {"libre"},
         ops[o].lit \subseteq op.lit, ops[o].ecrit \subseteq op.ecrit,
         \A w \in op.ecritures : w.table \in Tables(op) /\ w.table \in {"animation", "liste", "membres"},
         op.ecrit \cap (Jeunes \cup Conseillers) \subseteq op.lit,
         op.nouvelle = ops[o].nouvelle,
         op.cmd = "changerAgence" /\ op.etape = "animations" => op.qui \in Conseillers \cap op.ecrit,
         op.ecrit \cap Jeunes \subseteq ops[o].ecrit,
         \A j \in (op.lit \ ops[o].lit) \cap Jeunes :
            /\ j \in Presents /\ jeunes[j].conseiller \in op.lit
            /\ jeunes[j].initial \in op.lit \cup {Aucun},
         \A c \in (op.lit \ ops[o].lit) \cap Conseillers : Existe(c),
         \A c \in op.ecrit \cap Conseillers : Existe(c) \/ c \in ops[o].ecrit
  PROVE  Inv'
<1>1. Reguliere(ops[o]) /\ ops[o].ecritures = {}
  BY DEF Inv, Relire
<1>2. op.cmd \notin Departs /\ op.cmd # "supprimerConseiller" /\ op.cmd # "recuperer"
  BY DEF Departs
<1>3. \A w \in op.ecritures : w.table \notin Mouvements /\ w.table \notin Effacements
                              /\ w.table # "conseiller" /\ w.table # "suppression conseiller"
  BY DEF Mouvements, Effacements
<1>4. \A w \in op.ecritures : Annoncee(op, w)
  BY <1>3 DEF Annoncee, Mouvements
<1>5. op.cmd = "transferer" => op.jeunes = op.ecrit \cap Jeunes
  BY <1>1 DEF Reguliere
<1>6. Reguliere(op)
  BY <1>1, <1>2, <1>3, <1>4, <1>5 DEF Reguliere, Mouvements
<1>7. \A j \in Jeunes : EnCours(op, j, jeunes[j], jeunes[j].conseiller)
  BY <1>3 DEF EnCours, Concerne, SurChat, SurRang, SurTrace, Mouvements
<1>8. BienLue(o, op)
  BY <1>2, <1>3, <1>7 DEF BienLue, Mouvements
<1>9. Suite(ops[o], op)
  BY <1>1, <1>2 DEF Suite
<1> QED
  BY <1>6, <1>8, <1>9, RelireValide, LectureInv

LEMMA AnimationsLues ==
  ASSUME Inv, NEW acs \in SUBSET AC, \A a \in acs : animations[a] # Absent
  PROVE  LET js == UNION {animations[a].jeunes : a \in acs} IN
         /\ js \in SUBSET Presents
         /\ Dossiers(js) \subseteq Jeunes \cup Conseillers
         /\ \A j \in Dossiers(js) \cap Jeunes :
              /\ j \in Presents
              /\ jeunes[j].conseiller \in Dossiers(js)
              /\ jeunes[j].initial \in Dossiers(js) \cup {Aucun}
         /\ \A c \in Dossiers(js) \cap Conseillers : Existe(c)
<1> DEFINE js == UNION {animations[a].jeunes : a \in acs}
<1>1. \A a \in acs : animations[a].jeunes \subseteq Presents
  BY DEF Inv, References
<1>2. js \in SUBSET Presents
  BY <1>1
<1> HIDE DEF js
<1>3. /\ Dossiers(js) \subseteq Jeunes \cup Conseillers
      /\ \A j \in Dossiers(js) \cap Jeunes : j \in js
      /\ \A j \in js : /\ jeunes[j].conseiller \in Dossiers(js)
                       /\ jeunes[j].initial \in Dossiers(js) \cup {Aucun}
      /\ \A c \in Dossiers(js) \cap Conseillers : Existe(c)
  BY <1>2, DossiersLus DEF Inv
<1>4. /\ js \in SUBSET Presents
      /\ Dossiers(js) \subseteq Jeunes \cup Conseillers
      /\ \A j \in Dossiers(js) \cap Jeunes :
              /\ j \in Presents
              /\ jeunes[j].conseiller \in Dossiers(js)
              /\ jeunes[j].initial \in Dossiers(js) \cup {Aucun}
      /\ \A c \in Dossiers(js) \cap Conseillers : Existe(c)
  BY <1>2, <1>3
<1> QED
  BY <1>4 DEF js

LEMMA LireAnimationsInv ==
  ASSUME Inv, NEW o \in Ops, LireAnimations(o)
  PROVE  Inv'
<1> DEFINE op == ops[o]
           acs == {a \in AC : animations[a] # Absent /\ animations[a].agence = op.quittee}
           js == UNION {animations[a].jeunes : a \in acs}
           ecritures == {[table |-> "animation", id |-> a,
                          lignes |-> <<[animations[a] EXCEPT !.jeunes = @ \ op.jeunes]>>] : a \in acs}
           suivante == [op EXCEPT !.etape = "animations", !.ecritures = ecritures,
                          !.lit = @ \cup acs \cup Dossiers(js), !.ecrit = @ \cup acs]
<1>1. /\ op.cmd = "transferer" /\ op.etape = "jeunes" /\ Relire(o, suivante)
  BY DEF LireAnimations
<1>2. op \in Operation /\ Reguliere(op)
  BY DEF Inv, Types
<1>3. /\ js \in SUBSET Presents
      /\ Dossiers(js) \subseteq Jeunes \cup Conseillers
      /\ \A j \in Dossiers(js) \cap Jeunes :
              /\ j \in Presents
              /\ jeunes[j].conseiller \in Dossiers(js)
              /\ jeunes[j].initial \in Dossiers(js) \cup {Aucun}
      /\ \A c \in Dossiers(js) \cap Conseillers : Existe(c)
  BY AnimationsLues
<1>4. ecritures \in SUBSET Ecriture /\ \A w \in ecritures : w.table = "animation"
  <2> DEFINE r(a) == <<[animations[a] EXCEPT !.jeunes = @ \ op.jeunes]>>
  <2>1. \A a \in acs : [animations[a] EXCEPT !.jeunes = @ \ op.jeunes] \in Animation
    BY DEF Inv, Types, Animation
  <2>2. \A a \in acs : r(a) \in Seq(Animation) \ {<<>>} /\ a \in AC
    BY <2>1
  <2>3. ecritures = {[table |-> "animation", id |-> a, lignes |-> r(a)] : a \in acs}
    OBVIOUS
  <2> HIDE DEF r, acs, ecritures
  <2>4. \A a \in acs : [table |-> "animation", id |-> a, lignes |-> r(a)] \in Ecriture
    BY <2>2, AutresEcritures
  <2> QED
    BY <2>3, <2>4
<1>5. acs \subseteq AC /\ acs \cap (Jeunes \cup Conseillers) = {}
  BY ConstantsAssumption
<1> HIDE DEF js, ecritures, acs
<1>6. suivante \in Operation
  <2>1. acs \cup Dossiers(js) \in SUBSET Entites /\ acs \in SUBSET Entites
    BY <1>3, <1>5 DEF Entites
  <2> HIDE DEF op
  <2> QED
    BY <1>2, <1>4, <2>1 DEF Operation
<1>7. /\ suivante.cmd = op.cmd /\ suivante.jeunes = op.jeunes /\ suivante.etape = "animations"
      /\ suivante.ecritures = ecritures /\ suivante.lit = op.lit \cup acs \cup Dossiers(js)
      /\ suivante.ecrit = op.ecrit \cup acs /\ suivante.nouvelle = op.nouvelle
  BY <1>2 DEF Operation
<1> HIDE DEF suivante
<1>8. PICK q \in Operation : q = suivante
  BY <1>6
<1>9. /\ q.cmd = "transferer" /\ q.etape \in Etapes(q) \ {"libre"} /\ Tables(q) = {"animation"}
  BY <1>1, <1>7, <1>8 DEF Etapes, Tables, Departs
<1>10. q.ecrit \cap (Jeunes \cup Conseillers) \subseteq q.lit
  BY <1>2, <1>5, <1>7, <1>8 DEF Reguliere
<1>11. \A j \in (q.lit \ op.lit) \cap Jeunes :
            /\ j \in Presents /\ jeunes[j].conseiller \in q.lit
            /\ jeunes[j].initial \in q.lit \cup {Aucun}
  BY <1>3, <1>5, <1>7, <1>8
<1>12. /\ \A c \in (q.lit \ op.lit) \cap Conseillers : Existe(c)
       /\ \A c \in q.ecrit \cap Conseillers : c \in op.ecrit
       /\ q.ecrit \cap Jeunes \subseteq op.ecrit
  BY <1>3, <1>5, <1>7, <1>8
<1> QED
  BY <1>1, <1>4, <1>7, <1>8, <1>9, <1>10, <1>11, <1>12, RelireAutres

LEMMA LireListesInv ==
  ASSUME Inv, NEW o \in Ops, LireListes(o)
  PROVE  Inv'
<1> DEFINE op == ops[o]
           concernees == {l \in Listes : /\ listes[l] # Absent
                                         /\ listes[l].conseiller = op.qui
                                         /\ listes[l].jeunes \cap op.jeunes # {}}
           js == UNION {listes[l].jeunes : l \in concernees}
           ecritures == {[table |-> "liste", id |-> l,
                          ligne |-> [listes[l] EXCEPT !.jeunes = @ \ op.jeunes]] : l \in concernees}
           suivante == [op EXCEPT !.etape = "listes", !.ecritures = ecritures,
                          !.lit = @ \cup concernees \cup Dossiers(js),
                          !.ecrit = @ \cup concernees]
<1>1. op.cmd = "transferer" /\ Relire(o, suivante)
  BY DEF LireListes
<1>2. op \in Operation /\ Reguliere(op)
  BY DEF Inv, Types
<1>3. js \in SUBSET Presents
  <2>1. \A l \in concernees : listes[l].jeunes \subseteq Presents
    BY DEF Inv, References
  <2> QED
    BY <2>1
<1>4. ecritures \in SUBSET Ecriture /\ \A w \in ecritures : w.table = "liste"
  <2> DEFINE r(l) == [listes[l] EXCEPT !.jeunes = @ \ op.jeunes]
  <2>1. \A l \in concernees : r(l) \in Liste /\ l \in Listes
    BY DEF Inv, Types, Liste
  <2>2. ecritures = {[table |-> "liste", id |-> l, ligne |-> r(l)] : l \in concernees}
    OBVIOUS
  <2> HIDE DEF r, concernees, ecritures
  <2>3. \A l \in concernees : [table |-> "liste", id |-> l, ligne |-> r(l)] \in Ecriture
    BY <2>1, AutresEcritures
  <2> QED
    BY <2>2, <2>3
<1>5. concernees \subseteq Listes /\ concernees \cap (Jeunes \cup Conseillers) = {}
  BY ConstantsAssumption
<1> HIDE DEF js, ecritures, concernees
<1>6. /\ Dossiers(js) \subseteq Jeunes \cup Conseillers
      /\ \A j \in Dossiers(js) \cap Jeunes : j \in js
      /\ \A j \in js : /\ jeunes[j].conseiller \in Dossiers(js)
                       /\ jeunes[j].initial \in Dossiers(js) \cup {Aucun}
      /\ \A c \in Dossiers(js) \cap Conseillers : Existe(c)
  BY <1>3, DossiersLus DEF Inv
<1>7. suivante \in Operation
  <2>1. concernees \cup Dossiers(js) \in SUBSET Entites /\ concernees \in SUBSET Entites
    BY <1>5, <1>6 DEF Entites
  <2> HIDE DEF op
  <2> QED
    BY <1>2, <1>4, <2>1 DEF Operation
<1>8. /\ suivante.cmd = op.cmd /\ suivante.jeunes = op.jeunes /\ suivante.etape = "listes"
      /\ suivante.ecritures = ecritures /\ suivante.lit = op.lit \cup concernees \cup Dossiers(js)
      /\ suivante.ecrit = op.ecrit \cup concernees /\ suivante.nouvelle = op.nouvelle
  BY <1>2 DEF Operation
<1> HIDE DEF suivante
<1>9. PICK q \in Operation : q = suivante
  BY <1>7
<1>10. /\ q.cmd = "transferer" /\ q.etape \in Etapes(q) \ {"libre"} /\ Tables(q) = {"liste", "membres"}
  BY <1>1, <1>8, <1>9 DEF Etapes, Tables, Departs
<1>11. q.ecrit \cap (Jeunes \cup Conseillers) \subseteq q.lit
  BY <1>2, <1>5, <1>8, <1>9 DEF Reguliere
<1>12. \A j \in (q.lit \ op.lit) \cap Jeunes :
            /\ j \in Presents /\ jeunes[j].conseiller \in q.lit
            /\ jeunes[j].initial \in q.lit \cup {Aucun}
  BY <1>3, <1>5, <1>6, <1>8, <1>9
<1>13. /\ \A c \in (q.lit \ op.lit) \cap Conseillers : Existe(c)
       /\ \A c \in q.ecrit \cap Conseillers : c \in op.ecrit
       /\ q.ecrit \cap Jeunes \subseteq op.ecrit
  BY <1>5, <1>6, <1>8, <1>9
<1> QED
  BY <1>1, <1>4, <1>8, <1>9, <1>10, <1>11, <1>12, <1>13, RelireAutres

LEMMA LireInitiauxInv ==
  ASSUME Inv, NEW o \in Ops, LireInitiaux(o)
  PROVE  Inv'
<1> DEFINE op == ops[o]
           js == Origine(op.qui)
           suivante == [op EXCEPT !.etape = "compte", !.ecritures = InitiauxEffaces(op.qui),
                          !.lit = @ \cup Dossiers(js), !.ecrit = @ \cup js]
<1>1. op.etape = "initiaux" /\ Relire(o, suivante)
  BY DEF LireInitiaux
<1>2. op \in Operation /\ Reguliere(op) /\ op.ecritures = {}
  BY <1>1 DEF Inv, Types, Relire
<1>3. /\ op.cmd = "supprimerConseiller" /\ op.qui \in Conseillers \cap op.ecrit /\ op.jeunes = {}
      /\ op.cmd \notin Departs
  BY <1>1, <1>2 DEF Reguliere, Etapes, Departs
<1>4. js \in SUBSET Presents /\ js \in SUBSET Jeunes
      /\ \A j \in js : jeunes[j] \in LigneJeune /\ jeunes[j].initial = op.qui
  BY <1>3, EnsemblesLus DEF Origine, Inv, Types, Presents
<1>5. /\ Dossiers(js) \subseteq Jeunes \cup Conseillers /\ js \subseteq Dossiers(js)
      /\ \A j \in Dossiers(js) \cap Jeunes : j \in js
      /\ \A j \in js : /\ jeunes[j].conseiller \in Dossiers(js)
                       /\ jeunes[j].initial \in Dossiers(js) \cup {Aucun}
      /\ \A c \in Dossiers(js) \cap Conseillers : Existe(c)
  BY <1>4, DossiersLus DEF Inv
<1> DEFINE r(j) == [jeunes[j] EXCEPT !.initial = Aucun]
<1>6. \A j \in js : /\ r(j) \in LigneJeune /\ r(j).initial = Aucun
                    /\ r(j).conseiller = jeunes[j].conseiller
  BY <1>4 DEF LigneJeune
<1>7. InitiauxEffaces(op.qui) = {[table |-> "jeune", source |-> Aucun, id |-> j, ligne |-> r(j)] : j \in js}
  BY DEF InitiauxEffaces
<1> HIDE DEF r, js
<1>8. \A j \in js : [table |-> "jeune", source |-> Aucun, id |-> j, ligne |-> r(j)] \in Ecriture
  BY <1>4, <1>6, EcrituresDeJeunes
<1> DEFINE ecritures == InitiauxEffaces(op.qui)
<1>9. /\ ecritures \in SUBSET Ecriture
      /\ \A w \in ecritures : /\ w.table = "jeune" /\ w.id \in js /\ w.ligne = r(w.id)
                              /\ \A v \in ecritures : v.id = w.id => v = w
      /\ \A j \in js : \E w \in ecritures : w.table = "jeune" /\ w.id = j
  <2>1. ecritures = {[table |-> "jeune", source |-> Aucun, id |-> j, ligne |-> r(j)] : j \in js}
    BY <1>7
  <2> HIDE DEF ecritures
  <2>2. \A w \in ecritures : \E j \in js :
          w = [table |-> "jeune", source |-> Aucun, id |-> j, ligne |-> r(j)]
    BY <2>1
  <2>3. \A w \in ecritures : w.table = "jeune" /\ w.id \in js /\ w.ligne = r(w.id)
    BY <2>2
  <2>4. \A v, w \in ecritures : v.id = w.id => v = w
    BY <2>2
  <2>5. ecritures \in SUBSET Ecriture
    BY <1>8, <2>2
  <2>6. \A j \in js : \E w \in ecritures : w.table = "jeune" /\ w.id = j
    <3> SUFFICES ASSUME NEW j \in js
                 PROVE  \E w \in ecritures : w.table = "jeune" /\ w.id = j
      OBVIOUS
    <3> DEFINE w == [table |-> "jeune", source |-> Aucun, id |-> j, ligne |-> r(j)]
    <3>1. w \in ecritures
      BY <2>1
    <3>2. w.table = "jeune" /\ w.id = j
      OBVIOUS
    <3> QED
      BY <3>1, <3>2
  <2> QED
    BY <2>3, <2>4, <2>5, <2>6
<1> HIDE DEF ecritures
<1>10. suivante = [op EXCEPT !.etape = "compte", !.ecritures = ecritures,
                          !.lit = @ \cup Dossiers(js), !.ecrit = @ \cup js]
  BY DEF ecritures
<1> HIDE DEF suivante
<1>11. suivante \in Operation
  <2>1. Dossiers(js) \in SUBSET Entites /\ js \in SUBSET Entites
    BY <1>4, <1>5 DEF Entites
  <2> HIDE DEF op
  <2> QED
    BY <1>2, <1>9, <1>10, <2>1 DEF Operation
<1>12. /\ suivante.cmd = op.cmd /\ suivante.jeunes = op.jeunes /\ suivante.etape = "compte"
       /\ suivante.ecritures = ecritures /\ suivante.lit = op.lit \cup Dossiers(js)
       /\ suivante.ecrit = op.ecrit \cup js /\ suivante.qui = op.qui
  BY <1>2, <1>10 DEF Operation
<1>13. PICK q \in Operation : q = suivante
  BY <1>11
<1>14. \A w \in q.ecritures : w.table \in Tables(q) /\ Annoncee(q, w)
  <2>1. Tables(q) = {"jeune", "suppression conseiller"}
    BY <1>3, <1>12, <1>13 DEF Tables
  <2>2. ASSUME NEW w \in q.ecritures
        PROVE  /\ w.table = "jeune" /\ w.id \in q.ecrit
               /\ w.ligne.conseiller \in q.lit /\ w.ligne.initial = Aucun
    <3>1. w.table = "jeune" /\ w.id \in js /\ w.ligne = r(w.id)
      BY <1>9, <1>12, <1>13, <2>2
    <3> QED
      BY <1>5, <1>6, <1>12, <1>13, <3>1
  <2> QED
    BY <2>1, <2>2 DEF Annoncee, Effacements
<1>15. Reguliere(q)
  BY <1>2, <1>3, <1>5, <1>12, <1>13, <1>14 DEF Reguliere, Etapes
<1>16. Suite(op, q)
  BY <1>1, <1>2, <1>3, <1>12, <1>13 DEF Suite
<1>17. \A j \in Jeunes : EnCours(q, j, jeunes[j], jeunes[j].conseiller)
  <2> SUFFICES ASSUME NEW j \in Jeunes, NEW w \in q.ecritures, SurRang(w, j)
               PROVE  /\ jeunes[j] # Absent
                      /\ Passage(jeunes[j], w.ligne) /\ w.ligne.conseiller = jeunes[j].conseiller
                      /\ \A v \in q.ecritures : SurRang(v, j) => v = w
    BY <1>9, <1>12, <1>13 DEF EnCours, Concerne, SurChat, SurTrace
  <2>1. j \in js /\ w.ligne = r(j) /\ w \in ecritures
    BY <1>9, <1>12, <1>13 DEF SurRang
  <2>2. \A v \in ecritures : v.id = j => v = w
    BY <1>9, <2>1 DEF SurRang
  <2> QED
    BY <1>4, <1>6, <1>12, <1>13, <2>1, <2>2 DEF Presents, Passage, SurRang
<1>18. BienLue(o, q)
  <2>1. Liberes(q)
    BY <1>9, <1>12, <1>13 DEF Liberes, js
  <2>2. SuivisPar(q.qui) \subseteq perturbes
    BY <1>3, <1>12, <1>13 DEF Inv, Abandonnes
  <2>3. \A w \in q.ecritures : w.ligne.conseiller # q.qui \/ w.id \in perturbes
    <3> SUFFICES ASSUME NEW w \in q.ecritures, w.ligne.conseiller = q.qui
                 PROVE  w.id \in perturbes
      OBVIOUS
    <3>1. w.id \in js /\ w.ligne = r(w.id)
      BY <1>9, <1>12, <1>13
    <3>2. jeunes[w.id].conseiller = q.qui
      BY <1>6, <3>1
    <3>3. w.id \in SuivisPar(q.qui)
      BY <1>4, <3>1, <3>2 DEF SuivisPar
    <3> QED
      BY <2>2, <3>3
  <2>4. /\ \A j \in (q.lit \ op.lit) \cap Jeunes :
              /\ j \in Presents /\ jeunes[j].conseiller \in q.lit
              /\ jeunes[j].initial \in q.lit \cup {Aucun}
        /\ \A c \in (q.lit \ op.lit) \cap Conseillers : Existe(c)
    BY <1>4, <1>5, <1>12, <1>13
  <2>5. \A c \in q.ecrit \cap Conseillers : c \in op.ecrit
    BY <1>4, <1>12, <1>13, ConstantsAssumption
  <2>6. \A w \in q.ecritures : w.table = "jeune"
    BY <1>9, <1>12, <1>13
  <2> QED
    BY <1>3, <1>12, <1>13, <1>17, <2>1, <2>2, <2>3, <2>4, <2>5, <2>6 DEF BienLue
<1>19. LectureValide(o, q)
  BY <1>1, <1>13, <1>15, <1>16, <1>18, RelireValide
<1> QED
  BY <1>19, LectureInv

LEMMA ReecrituresTypes ==
  ASSUME Types, NEW c \in Conseillers, NEW a \in AC, animations[a] # Absent, NEW n \in Agences
  PROVE  Reecritures(c, a, n) \in Seq(Animation)
<1> DEFINE lue == animations[a]
           sans(js) == IF lue.jeunes \cap js = {} THEN <<>> ELSE <<[lue EXCEPT !.jeunes = @ \ js]>>
           autres == {j \in lue.jeunes : jeunes[j].conseiller # c}
           deplacee == [lue EXCEPT !.agence = n]
<1>1. lue \in Animation
  BY DEF Types
<1>2. deplacee \in Animation
  BY <1>1 DEF Animation
<1>3. \A js : [lue EXCEPT !.jeunes = @ \ js] \in Animation
  BY <1>1 DEF Animation
<1>4. \A js : sans(js) \in Seq(Animation)
  BY <1>3
<1>5. Reecritures(c, a, n) =
        IF lue.createur = c THEN sans(autres) \o <<deplacee>> ELSE sans(SuivisPar(c))
  BY DEF Reecritures
<1> HIDE DEF sans, deplacee
<1>6. sans(autres) \o <<deplacee>> \in Seq(Animation)
  BY <1>2, <1>4
<1> QED
  BY <1>4, <1>5, <1>6

LEMMA LireConseillerInv ==
  ASSUME Inv, NEW o \in Ops, LireConseiller(o)
  PROVE  Inv'
<1> DEFINE op(c) == [ops[o] EXCEPT !.aFaire = @ \ {c}]
           acs(c) == {a \in AC : animations[a] # Absent /\ animations[a].agence = conseillers[c]}
           aEcrire(c) == {a \in acs(c) : Reecritures(c, a, op(c).nouvelle) # <<>>}
           js(c) == UNION {animations[a].jeunes : a \in acs(c)}
           ecritures(c) == {EcritureAnimation(a, Reecritures(c, a, op(c).nouvelle)) : a \in aEcrire(c)}
           suivante(c) == [op(c) EXCEPT !.etape = "animations", !.qui = c,
             !.ecritures = ecritures(c), !.lit = @ \cup acs(c) \cup {c} \cup Dossiers(js(c)),
             !.ecrit = @ \cup aEcrire(c) \cup {c}]
<1>1a. \E c \in ops[o].aFaire :
    LET op1 == [ops[o] EXCEPT !.aFaire = @ \ {c}]
        acs1 == {a \in AC : animations[a] # Absent /\ animations[a].agence = conseillers[c]}
        aEcrire1 == {a \in acs1 : Reecritures(c, a, op1.nouvelle) # <<>>}
    IN /\ op1.etape = "conseillers"
       /\ Relire(o, IF conseillers[c] \in {Absent, Aucun, op1.nouvelle} THEN op1
                    ELSE [op1 EXCEPT !.etape = "animations", !.qui = c,
            !.ecritures = {EcritureAnimation(a, Reecritures(c, a, op1.nouvelle)) : a \in aEcrire1},
            !.lit = @ \cup acs1 \cup {c} \cup Dossiers(UNION {animations[a].jeunes : a \in acs1}),
            !.ecrit = @ \cup aEcrire1 \cup {c}])
  <2>1. LireConseiller(o)
    OBVIOUS
  <2> HIDE DEF op, acs, aEcrire, js, ecritures, suivante
  <2> QED
    BY <2>1, Zenon DEF LireConseiller
<1>1. PICK c \in ops[o].aFaire :
        /\ op(c).etape = "conseillers"
        /\ Relire(o, IF conseillers[c] \in {Absent, Aucun, op(c).nouvelle} THEN op(c) ELSE suivante(c))
  BY <1>1a, Zenon
<1>2. /\ ops[o] \in Operation /\ Reguliere(ops[o]) /\ c \in Conseillers
  BY <1>1 DEF Inv, Types, Operation
<1>2a. ops[o].etape = "conseillers"
  BY <1>1, <1>2 DEF Operation
<1>3. ops[o].cmd = "changerAgence" /\ ops[o].nouvelle \in Agences
  BY <1>2, <1>2a DEF Reguliere, Etapes
<1>4. /\ op(c) \in Operation
      /\ op(c).cmd = "changerAgence" /\ op(c).jeunes = ops[o].jeunes /\ op(c).etape = "conseillers"
      /\ op(c).ecritures = ops[o].ecritures /\ op(c).lit = ops[o].lit
      /\ op(c).ecrit = ops[o].ecrit /\ op(c).nouvelle = ops[o].nouvelle
  BY <1>1, <1>2, <1>3 DEF Operation
<1>5. CASE conseillers[c] \in {Absent, Aucun, op(c).nouvelle}
  <2>1. PICK q \in Operation : q = op(c)
    BY <1>4
  <2>2. Relire(o, q)
    BY <1>1, <1>5, <2>1
  <2>3. ops[o].ecritures = {}
    BY <2>2 DEF Relire
  <2>4. q.etape \in Etapes(q) \ {"libre"}
    BY <1>4, <2>1 DEF Etapes, Departs
  <2>5. q.ecrit \cap (Jeunes \cup Conseillers) \subseteq q.lit
    BY <1>2, <1>4, <2>1 DEF Reguliere
  <2> HIDE DEF op
  <2> QED
    BY <1>3, <1>4, <2>1, <2>2, <2>3, <2>4, <2>5, RelireAutres
<1>6. CASE conseillers[c] \notin {Absent, Aucun, op(c).nouvelle}
  <2>1. acs(c) \subseteq AC /\ aEcrire(c) \subseteq acs(c) /\ \A a \in acs(c) : animations[a] # Absent
    OBVIOUS
  <2>2. \A a \in aEcrire(c) : Reecritures(c, a, op(c).nouvelle) \in Seq(Animation) \ {<<>>}
    BY <1>2, <1>3, <1>4, ReecrituresTypes DEF Inv
  <2>3. ecritures(c) \in SUBSET Ecriture /\ \A w \in ecritures(c) : w.table = "animation"
    <3> DEFINE r(a) == Reecritures(c, a, op(c).nouvelle)
    <3>1. \A a \in aEcrire(c) : r(a) \in Seq(Animation) \ {<<>>} /\ a \in AC
      BY <2>2
    <3>2. ecritures(c) = {EcritureAnimation(a, r(a)) : a \in aEcrire(c)}
      OBVIOUS
    <3> HIDE DEF r, aEcrire, ecritures
    <3>3. \A a \in aEcrire(c) : EcritureAnimation(a, r(a)) \in Ecriture
                                /\ EcritureAnimation(a, r(a)).table = "animation"
      BY <3>1, AutresEcritures DEF EcritureAnimation
    <3> QED
      BY <3>2, <3>3
  <2>4. /\ js(c) \in SUBSET Presents
        /\ Dossiers(js(c)) \subseteq Jeunes \cup Conseillers
        /\ \A j \in Dossiers(js(c)) \cap Jeunes :
              /\ j \in Presents
              /\ jeunes[j].conseiller \in Dossiers(js(c))
              /\ jeunes[j].initial \in Dossiers(js(c)) \cup {Aucun}
        /\ \A d \in Dossiers(js(c)) \cap Conseillers : Existe(d)
    BY AnimationsLues
  <2>5. acs(c) \cap (Jeunes \cup Conseillers) = {}
    BY <2>1, ConstantsAssumption
  <2>6. c \notin Jeunes /\ Existe(c)
    BY <1>2, <1>6, ConstantsAssumption DEF Existe
  <2> HIDE DEF op, acs, aEcrire, js, ecritures
  <2>7. suivante(c) \in Operation
    <3>1. /\ acs(c) \cup {c} \cup Dossiers(js(c)) \in SUBSET Entites
          /\ aEcrire(c) \cup {c} \in SUBSET Entites
      BY <1>2, <2>1, <2>4 DEF Entites
    <3> QED
      BY <1>2, <1>4, <2>3, <3>1 DEF Operation
  <2>8. /\ suivante(c).cmd = op(c).cmd /\ suivante(c).jeunes = op(c).jeunes
        /\ suivante(c).etape = "animations" /\ suivante(c).ecritures = ecritures(c)
        /\ suivante(c).lit = op(c).lit \cup acs(c) \cup {c} \cup Dossiers(js(c))
        /\ suivante(c).ecrit = op(c).ecrit \cup aEcrire(c) \cup {c}
        /\ suivante(c).nouvelle = op(c).nouvelle /\ suivante(c).qui = c
    BY <1>4 DEF Operation
  <2>9. Relire(o, suivante(c))
    BY <1>1, <1>6
  <2> HIDE DEF suivante
  <2>10. PICK q \in Operation : q = suivante(c)
    BY <2>7
  <2>11. /\ q.cmd = "changerAgence" /\ q.etape \in Etapes(q) \ {"libre"} /\ "animation" \in Tables(q)
    BY <1>3, <1>4, <2>8, <2>10 DEF Etapes, Tables, Departs
  <2>12. q.ecrit \cap (Jeunes \cup Conseillers) \subseteq q.lit
    BY <1>2, <1>4, <2>1, <2>5, <2>8, <2>10 DEF Reguliere
  <2>13. \A j \in (q.lit \ ops[o].lit) \cap Jeunes :
            /\ j \in Presents /\ jeunes[j].conseiller \in q.lit
            /\ jeunes[j].initial \in q.lit \cup {Aucun}
    BY <1>4, <2>4, <2>5, <2>6, <2>8, <2>10
  <2>14. /\ \A d \in (q.lit \ ops[o].lit) \cap Conseillers : Existe(d)
         /\ \A d \in q.ecrit \cap Conseillers : Existe(d) \/ d \in ops[o].ecrit
         /\ q.ecrit \cap Jeunes \subseteq ops[o].ecrit
    BY <1>4, <2>1, <2>4, <2>5, <2>6, <2>8, <2>10
  <2>15. q.qui \in Conseillers \cap q.ecrit
    BY <1>2, <2>8, <2>10
  <2>16. /\ Relire(o, q) /\ q.cmd = ops[o].cmd /\ ops[o].jeunes = q.jeunes
         /\ ops[o].lit \subseteq q.lit /\ ops[o].ecrit \subseteq q.ecrit /\ q.nouvelle = ops[o].nouvelle
         /\ \A w \in q.ecritures : w.table = "animation"
    BY <1>3, <1>4, <2>3, <2>8, <2>9, <2>10
  <2> QED
    BY <2>11, <2>12, <2>13, <2>14, <2>15, <2>16, RelireAutres
<1> QED
  BY <1>5, <1>6

-----------------------------------------------------------------------------
(* Steps that read nothing                                                  *)

LEMMA PasInv ==
  ASSUME Inv, NEW o \in Ops, NEW q, Pas(o, q), Pareille(ops[o], q), Respecte(ops[o]),
         Types', References',
         Saine(o)' => Lues(ops[o])' /\ (q.cmd = "supprimerConseiller" => Liberes(ops[o])'),
         q.cmd = "supprimerConseiller" =>
           /\ \A j \in Jeunes :
                jeunes'[j] # Absent /\ jeunes'[j].conseiller = q.qui => j \in perturbes'
           /\ \A w \in q.ecritures :
                w.table = "jeune" => w.ligne.conseiller # q.qui \/ w.id \in perturbes',
         \A j \in Jeunes \ perturbes' : Jeune(j)',
         \A c \in Conseillers \ perturbes' : Inscrit(c)'
  PROVE  Inv'
<1>1. \A p \in Ops : Reguliere(ops'[p])
  BY RegulierePas DEF Inv
<1>2. Isolement'
  BY IsolementPareil DEF Inv
<1>3. Lectures'
  BY LecturesPas DEF Inv
<1>4. Abandonnes'
  BY AbandonnesPas DEF Inv
<1> QED
  BY <1>1, <1>2, <1>3, <1>4 DEF Inv

(* A sound command stays so, with what it has read.                         *)
LEMMA LuesGardees ==
  ASSUME Inv, NEW o \in Ops, NEW q, Pas(o, q), Pareille(ops[o], q),
         ops[o].cmd # "supprimerConseiller", jeunes' = jeunes \/ ops[o].cmd \in Departs,
         \A c \in Conseillers : Existe(c) => Existe(c)',
         Saine(o)'
  PROVE  Lues(ops[o])' /\ q.cmd # "supprimerConseiller"
<1>1. ops'[o] = q
  BY PasOps DEF Inv
<1>2. q # Libre
  BY <1>1, LibreOperation DEF Saine, Objet
<1>3. q.cmd = ops[o].cmd /\ q.jeunes = ops[o].jeunes /\ q.lit = ops[o].lit /\ q.ecrit = ops[o].ecrit
  BY <1>2 DEF Pareille
<1>4. Objet(q) = Objet(ops[o])
  BY <1>3 DEF Objet
<1>5. Saine(o)
  BY <1>1, <1>4 DEF Saine, Pas
<1>6. jeunes' = jeunes
  BY <1>5 DEF Saine, Objet, Departs
<1>7. Lues(ops[o])
  BY <1>5 DEF Inv, Lectures
<1> QED
  BY <1>1, <1>3, <1>6, <1>7 DEF Lues, Presents

(* A command that is neither a departure nor a deletion of a counsellor,    *)
(* and touches no young person.                                             *)
LEMMA PasAilleurs ==
  ASSUME Inv, NEW o \in Ops, NEW q, Pas(o, q), Pareille(ops[o], q), perturbes' = perturbes,
         ops[o].cmd \notin Departs, ops[o].cmd # "supprimerConseiller",
         \A j \in Jeunes : MemesEcritures(ops[o], q, j),
         UNCHANGED <<jeunes, chats, transferts, comptes, archives, archivees>>,
         \A c \in Conseillers : Existe(c) => Existe(c)',
         \A c \in Conseillers : Existe(c)' => Existe(c) \/ c \in ops[o].ecrit,
         Types', References'
  PROVE  Inv'
<1>1. q.cmd \notin Departs /\ q.cmd # "supprimerConseiller" /\ q.ecrit \subseteq ops[o].ecrit
  BY LibreOperation DEF Pareille, Departs
<1>2. \A c \in Conseillers \ perturbes : Existe(c)' <=> Existe(c)
  BY DEF Inv, Inscrit
<1>3. TousLa' => TousLa
  BY <1>2 DEF TousLa
<1>4. ASSUME NEW j \in Jeunes \ perturbes'
      PROVE  Jeune(j)'
  <2>2. MemeVue(ops[o], q, j)
    BY <1>1, SansDepartAilleurs DEF MemeVue, Inv, Pas
  <2>3. MemeJeune(j)
    BY <1>3 DEF MemeJeune, MemeSuivi, MemeDossier, Presents
  <2>4. Jeune(j)
    BY DEF Inv
  <2> QED
    BY <2>2, <2>3, <2>4, JeuneSuit DEF Inv
<1>5. ASSUME NEW c \in Conseillers \ perturbes'
      PROVE  Inscrit(c)'
  <2>1. Inscrit(c)
    BY DEF Inv
  <2> QED
    BY <1>1, <1>2, <2>1, InscritSuit DEF Finit, Inv
<1>6. Respecte(ops[o])
  BY DEF Respecte, Presents
<1> QED
  BY <1>1, <1>4, <1>5, <1>6, LuesGardees, PasInv

-----------------------------------------------------------------------------
(* Writes                                                                   *)

MemesChamps(op, q) ==
  /\ q.cmd = op.cmd /\ q.etape = op.etape /\ q.messages = op.messages /\ q.qui = op.qui
  /\ q.jeunes = op.jeunes /\ q.lit = op.lit /\ q.ecrit = op.ecrit

(* Command o has written w, and is q.                                       *)
Ecrit(o, q, w, suites) ==
  /\ Pas(o, q) /\ perturbes' = perturbes
  /\ w \in Ecriture /\ w.table \in Tables(ops[o]) /\ Annoncee(ops[o], w) /\ Possible(w)
  /\ w \in ops[o].ecritures
  /\ q.ecritures = (ops[o].ecritures \ {w}) \cup suites
  /\ (q = Libre /\ ~ResteAFaire(ops[o])) \/ MemesChamps(ops[o], q)

LEMMA EcritPareille ==
  ASSUME NEW o, NEW q, NEW w, NEW suites, Ecrit(o, q, w, suites)
  PROVE  Pareille(ops[o], q)
BY DEF Ecrit, MemesChamps, Pareille

LEMMA EcritureFaite ==
  ASSUME Inv, NEW o \in Ops, NEW w \in ops[o].ecritures, NEW suites \in SUBSET Ecriture,
         \A v \in suites : v.table \in Tables(ops[o]) /\ v.table # "chat" /\ Annoncee(ops[o], v),
         Ecrire(o, w, suites)
  PROVE  \E q \in Operation : Ecrit(o, q, w, suites)
<1> DEFINE op == ops[o]
           reste == [op EXCEPT !.ecritures = (@ \ {w}) \cup suites]
           q == Poursuivre(reste)
<1>1. op \in Operation /\ Reguliere(op)
  BY DEF Inv, Types
<1>2. /\ w \in Ecriture /\ w.table \in Tables(op) /\ Annoncee(op, w)
  BY <1>1 DEF Operation, Reguliere
<1>3. /\ ops' = [ops EXCEPT ![o] = q] /\ perturbes' = perturbes /\ Possible(w)
  BY DEF Ecrire
<1>4. reste \in Operation
  BY <1>1 DEF Operation
<1>5. /\ reste.ecritures = (op.ecritures \ {w}) \cup suites
      /\ MemesChamps(op, reste) /\ reste.nouvelle = op.nouvelle /\ reste.temporaire = op.temporaire
      /\ reste.quittee = op.quittee /\ reste.aFaire = op.aFaire
  BY <1>1 DEF Operation, MemesChamps
<1>6. Reguliere(reste)
  <2> HIDE DEF reste
  <2>1. Tables(reste) = Tables(op)
    BY <1>5 DEF Tables, MemesChamps
  <2>2. \A v : Annoncee(op, v) => Annoncee(reste, v)
    BY <1>5, ZenonT(60) DEF Annoncee, MemesChamps
  <2>3. \A v \in reste.ecritures : v.table \in Tables(reste) /\ Annoncee(reste, v)
    BY <1>1, <1>5, <2>1, <2>2 DEF Reguliere
  <2>4. op.ecritures # {} /\ op.etape # "libre"
    BY <1>1, LibreOperation DEF Reguliere
  <2>5. Etapes(reste) = Etapes(op)
    BY <1>5 DEF Etapes, MemesChamps
  <2>6. op.cmd = "transferer" => \A v \in reste.ecritures : v.table = "chat" => reste.ecritures = {v}
    BY <1>1, <1>5 DEF Reguliere
  <2>7. op.cmd = "supprimerConseiller" => op.etape # "initiaux"
    BY <1>1, <2>4 DEF Reguliere
  <2>8. op.cmd \in Departs => op.etape = "fin"
    BY <1>1, <2>4 DEF Reguliere
  <2> HIDE DEF op
  <2> QED
    BY <1>1, <1>5, <2>3, <2>4, <2>5, <2>6, <2>7, <2>8 DEF Reguliere, MemesChamps
<1>7. ResteAFaire(reste) <=> ResteAFaire(op)
  BY <1>5 DEF ResteAFaire, MemesChamps
<1> HIDE DEF reste
<1>8. q \in Operation /\ Reguliere(q) /\ (q = reste \/ (q = Libre /\ reste.ecritures = {} /\ ~ResteAFaire(reste)))
  BY <1>4, <1>6, PoursuivreSoit
<1> HIDE DEF q
<1>9. q.ecritures = (op.ecritures \ {w}) \cup suites
  BY <1>5, <1>8, LibreOperation
<1>10. Ecrit(o, q, w, suites)
  BY <1>2, <1>3, <1>5, <1>7, <1>8, <1>9 DEF Ecrit, Pas
<1> QED
  BY <1>8, <1>10

(* What the writes on group events, lists and accounts have in common.      *)
Annexes == {"animation", "liste", "membres", "conseiller", "suppression liste"}

LEMMA EcritAilleurs ==
  ASSUME Inv, NEW o \in Ops, NEW w, NEW suites, NEW q, Ecrit(o, q, w, suites),
         w.table \in Annexes, \A v \in suites : v.table \in Annexes,
         UNCHANGED <<jeunes, chats, transferts, comptes, archives, archivees>>,
         \A c \in Conseillers : Existe(c) => Existe(c)',
         \A c \in Conseillers : Existe(c)' => Existe(c) \/ c \in ops[o].ecrit,
         Types', References'
  PROVE  Inv'
<1>1. Annexes \cap (Mouvements \cup Effacements \cup {"suppression conseiller"}) = {}
  BY DEF Annexes, Mouvements, Effacements
<1>2. ops[o].cmd \notin Departs /\ ops[o].cmd # "supprimerConseiller"
  BY <1>1 DEF Ecrit, Tables, Mouvements
<1>3. ASSUME NEW j \in Jeunes
      PROVE  MemesEcritures(ops[o], q, j)
  <2>1. \A v : Concerne(v, j) => v.table \in Mouvements
    BY DEF Concerne, SurChat, SurRang, SurTrace, Mouvements
  <2>2. \A v : Concerne(v, j) => v \notin suites /\ v # w
    BY <1>1, <2>1
  <2>3. q.cmd = ops[o].cmd \/ q.ecritures = {}
    BY LibreOperation DEF Ecrit, MemesChamps
  <2> QED
    BY <2>2, <2>3 DEF MemesEcritures, Ecrit
<1> QED
  BY <1>2, <1>3, EcritPareille, PasAilleurs DEF Ecrit

LEMMA EcritSeul ==
  ASSUME Inv, NEW o \in Ops, NEW w, NEW q, Ecrit(o, q, w, {}), w.table \in Annexes,
         UNCHANGED <<jeunes, chats, transferts, comptes, archives, archivees>>,
         \A c \in Conseillers : Existe(c) => Existe(c)',
         \A c \in Conseillers : Existe(c)' => Existe(c) \/ c \in ops[o].ecrit,
         Types', References'
  PROVE  Inv'
<1>1. PICK suites : suites = {}
  OBVIOUS
<1>2. Ecrit(o, q, w, suites) /\ \A v \in suites : v.table \in Annexes
  BY <1>1
<1> QED
  BY <1>2, EcritAilleurs

LEMMA EcrireAnimationInv ==
  ASSUME Inv, NEW o \in Ops, EcrireAnimation(o)
  PROVE  Inv'
<1> DEFINE suites(w) == IF Len(w.lignes) = 1 THEN {} ELSE {EcritureAnimation(w.id, Tail(w.lignes))}
<1>1. PICK w \in ops[o].ecritures :
        /\ w.table = "animation"
        /\ animations' = [animations EXCEPT ![w.id] = Head(w.lignes)]
        /\ Ecrire(o, w, suites(w))
        /\ UNCHANGED <<jeunes, chats, transferts, conseillers, comptes, listes, archivage>>
  BY DEF EcrireAnimation, EnAttente
<1>2. /\ w \in Ecriture /\ w.id \in AC /\ w.lignes \in Seq(Animation) /\ w.lignes # <<>>
      /\ w.table \in Tables(ops[o])
  BY <1>1, EcritureTypes DEF Inv, Types, Operation, Reguliere
<1>3. Head(w.lignes) \in Animation
  BY <1>2
<1>4. suites(w) \in SUBSET Ecriture /\ \A v \in suites(w) : v.table = "animation"
  <2>1. CASE Len(w.lignes) = 1
    BY <2>1
  <2>2. CASE Len(w.lignes) # 1
    <3>0. PICK s \in Seq(Animation) : s = w.lignes
      BY <1>2
    <3>1. s # <<>> /\ Len(s) # 1
      BY <1>2, <2>2, <3>0
    <3>2. Tail(s) \in Seq(Animation) /\ Tail(s) # <<>>
      <4>1. Len(s) \in Nat \ {0}
        BY <3>1, EmptySeq
      <4>2. Tail(s) \in Seq(Animation) /\ Len(Tail(s)) = Len(s) - 1
        BY <3>1, HeadTailProperties
      <4>3. Len(Tail(s)) # 0
        BY <3>1, <4>1, <4>2
      <4>4. Len(<<>>) = 0
        BY EmptySeq
      <4> QED
        BY <4>2, <4>3, <4>4
    <3>3. Tail(w.lignes) \in Seq(Animation) \ {<<>>}
      BY <3>0, <3>2
    <3>4. EcritureAnimation(w.id, Tail(w.lignes)) \in Ecriture
          /\ EcritureAnimation(w.id, Tail(w.lignes)).table = "animation"
      BY <1>2, <3>3, AutresEcritures DEF EcritureAnimation
    <3> QED
      BY <2>2, <3>4
  <2> QED
    BY <2>1, <2>2
<1> HIDE DEF suites
<1>5. \A v \in suites(w) : v.table \in Tables(ops[o]) /\ v.table # "chat" /\ Annoncee(ops[o], v)
  BY <1>1, <1>2, <1>4 DEF Annoncee, Effacements
<1>6. PICK q \in Operation : Ecrit(o, q, w, suites(w))
  BY <1>1, <1>4, <1>5, EcritureFaite
<1>7. Types'
  BY <1>1, <1>2, <1>3, <1>6, PasOps DEF Inv, Types, Ecrit, archivage
<1>8. References'
  <2>1. Head(w.lignes).jeunes \subseteq Presents
    BY <1>1, <1>6 DEF Ecrit, Possible
  <2>2. \A a \in AC : animations'[a] # Absent => animations'[a].jeunes \subseteq Presents
    BY <1>1, <1>2, <2>1 DEF Inv, References, Types
  <2> QED
    BY <1>1, <2>2 DEF Inv, References, Presents, Existe, Nommes, Restants
<1> QED
  BY <1>1, <1>4, <1>6, <1>7, <1>8, EcritAilleurs DEF Annexes, Existe, archivage

LEMMA EcrireListeInv ==
  ASSUME Inv, NEW o \in Ops, EcrireListe(o)
  PROVE  Inv'
<1> DEFINE membres(w) == [table |-> "membres", id |-> w.id, jeunes |-> w.ligne.jeunes, ajout |-> FALSE]
<1>1. PICK w \in ops[o].ecritures :
        /\ w.table = "liste"
        /\ listes' = [listes EXCEPT ![w.id] =
             IF @ = Absent THEN [conseiller |-> w.ligne.conseiller, jeunes |-> {}] ELSE @]
        /\ Ecrire(o, w, {membres(w)})
        /\ UNCHANGED <<jeunes, chats, transferts, conseillers, comptes, animations, archivage>>
  BY DEF EcrireListe, EnAttente
<1>2. /\ w \in Ecriture /\ w.id \in Listes /\ w.ligne \in Liste /\ w.table \in Tables(ops[o])
  BY <1>1, EcritureTypes DEF Inv, Types, Operation, Reguliere
<1>3. w.ligne.conseiller \in Conseillers /\ w.ligne.jeunes \in SUBSET Jeunes
  BY <1>2 DEF Liste
<1>4. [conseiller |-> w.ligne.conseiller, jeunes |-> {}] \in Liste
  BY <1>3 DEF Liste
<1>5. membres(w) \in Ecriture /\ membres(w).table = "membres"
  BY <1>2, <1>3, AutresEcritures
<1> HIDE DEF membres
<1>6. "membres" \in Tables(ops[o])
  BY <1>1, <1>2 DEF Tables, Effacements, Mouvements
<1>7. \A v \in {membres(w)} : v.table \in Tables(ops[o]) /\ v.table # "chat" /\ Annoncee(ops[o], v)
  BY <1>5, <1>6 DEF Annoncee, Effacements
<1>8. PICK q \in Operation : Ecrit(o, q, w, {membres(w)})
  BY <1>1, <1>5, <1>7, EcritureFaite
<1>9. Types'
  BY <1>1, <1>2, <1>4, <1>8, PasOps DEF Inv, Types, Ecrit, archivage
<1>10. References'
  <2>1. Existe(w.ligne.conseiller)
    BY <1>1, <1>8 DEF Ecrit, Possible
  <2>2. \A l \in Listes : listes'[l] # Absent =>
          listes'[l].jeunes \subseteq Presents /\ Existe(listes'[l].conseiller)
    BY <1>1, <1>2, <2>1 DEF Inv, References, Types
  <2> QED
    BY <1>1, <2>2 DEF Inv, References, Presents, Existe, Nommes, Restants
<1> QED
  BY <1>1, <1>5, <1>8, <1>9, <1>10, EcritAilleurs DEF Annexes, Existe, archivage

LEMMA EcrireMembresInv ==
  ASSUME Inv, NEW o \in Ops, EcrireMembres(o)
  PROVE  Inv'
<1>1. PICK w \in ops[o].ecritures :
        /\ w.table = "membres"
        /\ listes' = [listes EXCEPT ![w.id] =
             IF @ = Absent THEN Absent
             ELSE [conseiller |-> @.conseiller,
                   jeunes |-> w.jeunes \cup (IF w.ajout THEN @.jeunes ELSE {})]]
        /\ Ecrire(o, w, {})
        /\ UNCHANGED <<jeunes, chats, transferts, conseillers, comptes, animations, archivage>>
  BY DEF EcrireMembres, EnAttente
<1>2. /\ w \in Ecriture /\ w.id \in Listes /\ w.jeunes \subseteq Jeunes /\ w.table \in Tables(ops[o])
  BY <1>1, EcritureTypes DEF Inv, Types, Operation, Reguliere
<1>3. PICK q \in Operation : Ecrit(o, q, w, {})
  BY <1>1, EcritureFaite
<1> DEFINE l0 == listes[w.id]
           l1 == [conseiller |-> l0.conseiller, jeunes |-> w.jeunes \cup (IF w.ajout THEN l0.jeunes ELSE {})]
<1>4. l0 # Absent => l1 \in Liste
  <2>1. l0 # Absent => l0.conseiller \in Conseillers /\ l0.jeunes \subseteq Jeunes
    BY <1>2 DEF Inv, Types, Liste
  <2> HIDE DEF l0
  <2> QED
    BY <1>2, <2>1 DEF Liste
<1>5. listes' = [listes EXCEPT ![w.id] = IF l0 = Absent THEN Absent ELSE l1]
  BY <1>1
<1>6. /\ l1.conseiller = l0.conseiller
      /\ l1.jeunes \subseteq w.jeunes \cup l0.jeunes
  OBVIOUS
<1> HIDE DEF l1
<1>7. Types'
  <2>1. listes' \in [Listes -> Liste \cup {Absent}]
    BY <1>2, <1>4, <1>5 DEF Inv, Types
  <2> QED
    BY <1>1, <1>3, <2>1, PasOps DEF Inv, Types, Ecrit, archivage
<1>8. References'
  <2>1. l0 # Absent => w.jeunes \subseteq Presents
    BY <1>1, <1>3 DEF Ecrit, Possible
  <2>2. l0 # Absent => l0.jeunes \subseteq Presents /\ Existe(l0.conseiller)
    BY <1>2 DEF Inv, References
  <2>3. l0 # Absent => l1.jeunes \subseteq Presents /\ Existe(l1.conseiller)
    BY <1>6, <2>1, <2>2
  <2>4. \A l \in Listes : listes'[l] # Absent =>
          listes'[l].jeunes \subseteq Presents /\ Existe(listes'[l].conseiller)
    BY <1>2, <1>5, <2>3 DEF Inv, References, Types
  <2> QED
    BY <1>1, <2>4 DEF Inv, References, Presents, Existe, Nommes, Restants
<1> QED
  BY <1>1, <1>3, <1>7, <1>8, EcritSeul DEF Annexes, Existe, archivage

LEMMA DetruireListeInv ==
  ASSUME Inv, NEW o \in Ops, DetruireListe(o)
  PROVE  Inv'
<1>1. PICK w \in ops[o].ecritures :
        /\ w.table = "suppression liste"
        /\ listes' = [listes EXCEPT ![w.id] = Absent]
        /\ Ecrire(o, w, {})
        /\ UNCHANGED <<jeunes, chats, transferts, conseillers, comptes, animations, archivage>>
  BY DEF DetruireListe, EnAttente
<1>2. PICK q \in Operation : Ecrit(o, q, w, {})
  BY <1>1, EcritureFaite
<1>3. Types'
  BY <1>1, <1>2, PasOps DEF Inv, Types, Ecrit, archivage
<1>4. References'
  <2>1. \A l \in Listes : listes'[l] # Absent =>
          listes'[l].jeunes \subseteq Presents /\ Existe(listes'[l].conseiller)
    BY <1>1 DEF Inv, References, Types
  <2> QED
    BY <1>1, <2>1 DEF Inv, References, Presents, Existe, Nommes, Restants
<1> QED
  BY <1>1, <1>2, <1>3, <1>4, EcritSeul DEF Annexes, Existe, archivage

LEMMA PlusDeConseillers ==
  ASSUME Inv, UNCHANGED <<jeunes, transferts, animations, listes>>,
         \A c \in Conseillers : Existe(c) => Existe(c)'
  PROVE  References'
<1>1. \A j \in Presents : Nommes(jeunes[j])'
  BY DEF Inv, Types, References, Nommes, Presents, LigneJeune
<1>2. \A j \in Jeunes : \A i \in Restants(j) :
        j \in Presents /\ Existe(transferts[j][i].source)' /\ Existe(transferts[j][i].cible)'
  <2> SUFFICES ASSUME NEW j \in Jeunes, NEW i \in Restants(j)
               PROVE  j \in Presents /\ Existe(transferts[j][i].source)' /\ Existe(transferts[j][i].cible)'
    OBVIOUS
  <2>1. transferts[j][i] \in Transfert
    BY DEF Inv, Types, Restants
  <2> QED
    BY <2>1 DEF Inv, References, Transfert
<1>3. \A l \in Listes : listes[l] # Absent =>
        listes[l].jeunes \subseteq Presents /\ Existe(listes[l].conseiller)'
  BY DEF Inv, Types, References, Liste
<1> QED
  BY <1>1, <1>2, <1>3 DEF Inv, References, Presents, Restants

(* An agency that is written: the counsellor was there, or is concerned.    *)
LEMMA EcrireConseillerInv ==
  ASSUME Inv, NEW o \in Ops, EcrireConseiller(o)
  PROVE  Inv'
<1>1. PICK w \in ops[o].ecritures :
        /\ w.table = "conseiller"
        /\ conseillers' = [conseillers EXCEPT ![w.id] = w.agence]
        /\ Ecrire(o, w, {})
        /\ UNCHANGED <<jeunes, chats, transferts, comptes, animations, listes, archivage>>
  BY DEF EcrireConseiller, EnAttente
<1>2. /\ w \in Ecriture /\ w.id \in Conseillers /\ w.agence \in Agences \cup {Aucun}
  BY <1>1, EcritureTypes DEF Inv, Types, Operation
<1>3. PICK q \in Operation : Ecrit(o, q, w, {})
  BY <1>1, EcritureFaite
<1>4. w.id \in ops[o].ecrit
  BY <1>1, <1>3 DEF Ecrit, Annoncee
<1>5. Types'
  BY <1>1, <1>2, <1>3, PasOps DEF Inv, Types, Ecrit, archivage
<1>6. w.agence # Absent
  BY <1>2, ConstantsAssumption
<1>7. /\ \A c \in Conseillers : Existe(c) => Existe(c)'
      /\ \A c \in Conseillers : Existe(c)' => Existe(c) \/ c \in ops[o].ecrit
  BY <1>1, <1>2, <1>4, <1>6 DEF Existe, Inv, Types
<1>8. References'
  BY <1>1, <1>7, PlusDeConseillers
<1> QED
  BY <1>1, <1>3, <1>5, <1>7, <1>8, EcritSeul DEF Annexes, archivage

LEMMA SauverAgenceInv ==
  ASSUME Inv, NEW o \in Ops, SauverAgence(o)
  PROVE  Inv'
<1> DEFINE op == ops[o]
           suivante == [op EXCEPT !.etape = "conseillers"]
           q == Poursuivre(suivante)
<1>1. /\ op.cmd = "changerAgence" /\ op.etape = "animations" /\ op.ecritures = {}
      /\ conseillers' = [conseillers EXCEPT ![op.qui] = op.nouvelle]
      /\ ops' = [ops EXCEPT ![o] = q]
      /\ UNCHANGED <<jeunes, chats, transferts, comptes, animations, listes,
                     archivage, uuids, demandes, pannes, perturbes>>
  BY DEF SauverAgence
<1>2. op \in Operation /\ Reguliere(op)
  BY DEF Inv, Types
<1>3. op.qui \in Conseillers \cap op.ecrit /\ op.nouvelle \in Agences
  BY <1>1, <1>2 DEF Reguliere
<1>4. suivante \in Operation
  BY <1>2 DEF Operation
<1>5. /\ suivante.cmd = op.cmd /\ suivante.etape = "conseillers" /\ suivante.ecritures = {}
      /\ suivante.jeunes = op.jeunes /\ suivante.lit = op.lit /\ suivante.ecrit = op.ecrit
      /\ suivante.nouvelle = op.nouvelle
  BY <1>1, <1>2 DEF Operation
<1> HIDE DEF suivante
<1>6. Reguliere(suivante)
  BY <1>1, <1>2, <1>5 DEF Reguliere, Etapes, Departs
<1>7. /\ q \in Operation /\ Reguliere(q)
      /\ q = suivante \/ q = Libre
  BY <1>4, <1>6, PoursuivreSoit
<1> HIDE DEF q
<1>8. Pas(o, q)
  BY <1>1, <1>7 DEF Pas
<1>9. Pareille(op, q)
  BY <1>5, <1>7 DEF Pareille
<1>10. \A j \in Jeunes : MemesEcritures(op, q, j)
  BY <1>1, <1>5, <1>7, LibreOperation DEF MemesEcritures
<1>11. Types'
  BY <1>1, <1>3, <1>8, PasOps DEF Inv, Types, archivage
<1>12. op.nouvelle # Absent
  BY <1>3, ConstantsAssumption
<1>13. /\ \A c \in Conseillers : Existe(c) => Existe(c)'
       /\ \A c \in Conseillers : Existe(c)' => Existe(c) \/ c \in op.ecrit
  BY <1>1, <1>3, <1>12 DEF Existe, Inv, Types
<1>14. References'
  BY <1>1, <1>13, PlusDeConseillers
<1>15. op.cmd \notin Departs /\ op.cmd # "supprimerConseiller"
  BY <1>1 DEF Departs
<1> QED
  BY <1>1, <1>7, <1>8, <1>9, <1>10, <1>11, <1>13, <1>14, <1>15, PasAilleurs DEF archivage

-----------------------------------------------------------------------------
(* Writes that move young people                                            *)

LEMMA SeulMouvement ==
  ASSUME Inv, NEW o \in Ops, ops[o].cmd \notin Departs, NEW j, j \notin perturbes, j \in ops[o].ecrit
  PROVE  \A p \in Ops \ {o} : \A w \in ops[p].ecritures : ~Concerne(w, j)
<1> SUFFICES ASSUME NEW p \in Ops \ {o}
             PROVE  \A w \in ops[p].ecritures : ~Concerne(w, j)
  OBVIOUS
<1>1. j \notin ops[p].ecrit
  BY Seule DEF Inv
<1> QED
  BY <1>1, Ailleurs DEF Inv

(* The young person that a write concerns.                                  *)
LEMMA JeuneTouche ==
  ASSUME Inv, NEW o \in Ops, NEW q, Pas(o, q), ops[o].cmd \notin Departs, q.cmd \notin Departs,
         NEW j \in Jeunes, j \notin perturbes, j \in ops[o].ecrit, MemeDossier(j),
         EnCours(q, j, jeunes'[j], chats'[j]),
         j \in Presents' => chats'[j] # Absent,
         j \in Presents' /\ (\A w \in q.ecritures : ~SurRang(w, j)) => jeunes'[j].conseiller = chats'[j],
         j \in Presents' /\ TousLa' /\ (\A w \in q.ecritures : ~SurTrace(w, j)) => Trace(j)' = chats'[j]
  PROVE  Jeune(j)'
<1>1. ops'[o] = q /\ \A p \in Ops \ {o} : ops'[p] = ops[p]
  BY PasOps DEF Inv
<1>2. \A p \in Ops \ {o} : \A w \in ops[p].ecritures : ~Concerne(w, j)
  BY SeulMouvement
<1>3. \A p \in Ops : EnCours(ops'[p], j, jeunes'[j], chats'[j])
  <2> SUFFICES ASSUME NEW p \in Ops \ {o} PROVE EnCours(ops'[p], j, jeunes'[j], chats'[j])
    BY <1>1
  <2>1. \A w \in ops'[p].ecritures : ~Concerne(w, j)
    BY <1>1, <1>2
  <2> QED
    BY <2>1 DEF EnCours, Concerne
<1>4. Suivie(j)'
  BY <1>1, <1>3 DEF Suivie
<1>5. Jeune(j)
  BY DEF Inv
<1>6. SansDepart(ops[o], j) /\ SansDepart(q, j)
  BY SansDepartAilleurs DEF Inv, Pas
<1>7. Inscrite(j)' /\ Effacee(j)' /\ Archivee(j)'
  BY <1>5, <1>6, DossierSuit DEF Jeune, Inv
<1> QED
  BY <1>4, <1>7 DEF Jeune

(* The young person that a write does not concern.                          *)
LEMMA JeuneAilleurs ==
  ASSUME Inv, NEW o \in Ops, NEW w, NEW suites, NEW q, Ecrit(o, q, w, suites),
         ops[o].cmd \notin Departs,
         NEW j \in Jeunes, j \notin perturbes, MemeJeune(j),
         \A v \in suites \cup {w} : ~Concerne(v, j)
  PROVE  Jeune(j)'
<1>1. q.cmd = ops[o].cmd \/ (q = Libre /\ q.ecritures = {})
  BY LibreOperation DEF Ecrit, MemesChamps
<1>2. q.cmd \notin Departs
  BY <1>1, LibreOperation DEF Departs
<1>3. MemesEcritures(ops[o], q, j)
  BY <1>1 DEF MemesEcritures, Ecrit
<1>4. SansDepart(ops[o], j) /\ SansDepart(q, j)
  BY <1>2, SansDepartAilleurs DEF Inv, Pas, Ecrit
<1>5. Jeune(j)
  BY DEF Inv
<1> QED
  BY <1>3, <1>4, <1>5, JeuneSuit DEF MemeVue, Inv, Ecrit

LEMMA MouvementInv ==
  ASSUME Inv, NEW o \in Ops, NEW w, NEW suites, NEW q, Ecrit(o, q, w, suites),
         w.table \in Mouvements,
         UNCHANGED <<conseillers, comptes>>, Respecte(ops[o]), Types', References',
         Saine(o)' => Lues(ops[o])' /\ (q.cmd = "supprimerConseiller" => Liberes(ops[o])'),
         q.cmd = "supprimerConseiller" =>
           /\ \A j \in Jeunes :
                jeunes'[j] # Absent /\ jeunes'[j].conseiller = q.qui => j \in perturbes'
           /\ \A v \in q.ecritures :
                v.table = "jeune" => v.ligne.conseiller # q.qui \/ v.id \in perturbes',
         \A j \in Jeunes \ perturbes : Jeune(j)'
  PROVE  Inv'
<1>1. Pas(o, q) /\ Pareille(ops[o], q) /\ perturbes' = perturbes
  BY EcritPareille DEF Ecrit
<1>2. ASSUME NEW c \in Conseillers \ perturbes
      PROVE  Inscrit(c)'
  <2>1. Finit(q, c) <=> Finit(ops[o], c)
    <3>1. CASE MemesChamps(ops[o], q)
      BY <3>1 DEF Finit, MemesChamps
    <3>2. CASE q = Libre
      <4>1. ASSUME Finit(ops[o], c)
            PROVE  FALSE
        <5>1. Saine(o)
          BY <1>2, <4>1 DEF Finit, Saine, Objet
        <5>2. w.table = "suppression conseiller"
          BY <4>1, <5>1 DEF Finit, Inv, Lectures, Liberes, Ecrit
        <5> QED
          BY <5>2 DEF Mouvements
      <4> QED
        BY <3>2, <4>1, LibreOperation DEF Finit
    <3> QED
      BY <3>1, <3>2 DEF Ecrit
  <2>2. Inscrit(c)
    BY <1>2 DEF Inv
  <2>3. q.ecrit \subseteq ops[o].ecrit
    BY <1>1, LibreOperation DEF Pareille
  <2>4. Existe(c)' <=> Existe(c)
    BY DEF Existe
  <2> QED
    BY <1>1, <2>1, <2>2, <2>3, <2>4, InscritSuit DEF Inv
<1> QED
  BY <1>1, <1>2, PasInv

(* The row that follows is the one the conversation was handed over for.    *)
RangDuChat(w, l) ==
  [table |-> "jeune", source |-> w.ligne.source, id |-> l.id, ligne |-> l.ligne]
TraceDuChat(w) ==
  [table |-> "transfert", ids |-> {l.id : l \in w.lignes}, ligne |-> w.ligne]

LEMMA SuitesDuChatTypes ==
  ASSUME NEW w \in Ecriture, w.table = "chat"
  PROVE  /\ SuitesDuChat(w) = {RangDuChat(w, l) : l \in w.lignes} \cup {TraceDuChat(w)}
         /\ \A l \in w.lignes : /\ RangDuChat(w, l) \in Ecriture
                                /\ RangDuChat(w, l).table = "jeune"
                                /\ RangDuChat(w, l).id = l.id
                                /\ RangDuChat(w, l).ligne = l.ligne
         /\ TraceDuChat(w) \in Ecriture /\ TraceDuChat(w).table = "transfert"
         /\ TraceDuChat(w).ids = {l.id : l \in w.lignes} /\ TraceDuChat(w).ligne = w.ligne
         /\ SuitesDuChat(w) \in SUBSET Ecriture
<1>1. w.ligne \in Transfert /\ w.lignes \subseteq Rang(LigneJeune)
  BY EcritureTypes
<1>2. w.ligne.source \in Conseillers \cup {Aucun}
  BY <1>1 DEF Transfert
<1>3. SuitesDuChat(w) = {RangDuChat(w, l) : l \in w.lignes} \cup {TraceDuChat(w)}
  BY Zenon DEF SuitesDuChat, RangDuChat, TraceDuChat
<1>4. \A l \in w.lignes : RangDuChat(w, l) \in Ecriture
  <2>1. \A l \in w.lignes : l.id \in Jeunes /\ l.ligne \in LigneJeune
    BY <1>1 DEF Rang
  <2> QED
    BY <1>2, <2>1, EcrituresDeJeunes DEF RangDuChat
<1>5. TraceDuChat(w) \in Ecriture
  <2>1. {l.id : l \in w.lignes} \in SUBSET Jeunes
    BY <1>1 DEF Rang
  <2> QED
    BY <1>1, <2>1, EcrituresDeJeunes DEF TraceDuChat
<1>6. /\ \A l \in w.lignes : /\ RangDuChat(w, l).table = "jeune"
                             /\ RangDuChat(w, l).id = l.id
                             /\ RangDuChat(w, l).ligne = l.ligne
      /\ TraceDuChat(w).table = "transfert"
      /\ TraceDuChat(w).ids = {l.id : l \in w.lignes} /\ TraceDuChat(w).ligne = w.ligne
  BY DEF RangDuChat, TraceDuChat
<1> QED
  BY <1>3, <1>4, <1>5, <1>6

(* The conversations first: what follows is one row and one trace of the    *)
(* transfer for each young person.                                          *)
LEMMA SuitesDuChatConcernent ==
  ASSUME NEW w \in Ecriture, w.table = "chat", NEW j,
         NEW v \in SuitesDuChat(w), Concerne(v, j)
  PROVE  /\ SurChat(w, j) /\ v.table # "chat"
         /\ SurRang(v, j) => \E l \in w.lignes : l.id = j /\ v = RangDuChat(w, l)
         /\ SurTrace(v, j) => v = TraceDuChat(w)
<1>1. v.table # "chat" /\ (SurRang(v, j) \/ SurTrace(v, j))
  BY SuitesDuChatTypes DEF Concerne, SurChat
<1>2. CASE SurRang(v, j)
  <2>1. PICK l \in w.lignes : v = RangDuChat(w, l)
    BY <1>2, SuitesDuChatTypes DEF SurRang
  <2>2. l.id = j
    BY <1>2, <2>1, SuitesDuChatTypes DEF SurRang
  <2> QED
    BY <1>1, <1>2, <2>1, <2>2, SuitesDuChatTypes DEF SurChat, SurRang, SurTrace
<1>3. CASE SurTrace(v, j)
  <2>1. v = TraceDuChat(w)
    BY <1>3, SuitesDuChatTypes DEF SurTrace
  <2>2. \E l \in w.lignes : l.id = j
    BY <1>3, <2>1, SuitesDuChatTypes DEF SurTrace
  <2> QED
    BY <1>1, <1>3, <2>1, <2>2, SuitesDuChatTypes DEF SurChat, SurRang, SurTrace
<1> QED
  BY <1>1, <1>2, <1>3

LEMMA ChatEcrit ==
  ASSUME Inv, NEW o \in Ops, NEW w, w.table = "chat", NEW q, Ecrit(o, q, w, SuitesDuChat(w)),
         UNCHANGED jeunes, NEW j \in Jeunes, j \notin perturbes, SurChat(w, j),
         chats'[j] = w.ligne.cible, ops[o].cmd # "supprimerConseiller", ops[o].cmd \notin Departs,
         MemeDossier(j)
  PROVE  Jeune(j)'
<1>1. PICK l \in w.lignes : l.id = j
  BY DEF SurChat
<1>2. /\ w \in Ecriture /\ w \in ops[o].ecritures
      /\ q.ecritures = (ops[o].ecritures \ {w}) \cup SuitesDuChat(w)
      /\ Pas(o, q)
  BY DEF Ecrit
<1>3. /\ j \in ops[o].ecrit /\ l.ligne.conseiller = w.ligne.cible
      /\ \A m \in w.lignes : m.id = j => m = l
  BY <1>1 DEF Ecrit, Annoncee
<1>4. EnCours(ops[o], j, jeunes[j], chats[j])
  BY DEF Inv, Jeune, Suivie
<1>5. /\ jeunes[j] # Absent /\ Passage(jeunes[j], l.ligne)
      /\ \A v \in ops[o].ecritures : Concerne(v, j) => v = w
  BY <1>1, <1>2, <1>4 DEF EnCours, Concerne
<1>6. RangDuChat(w, l) \in q.ecritures /\ TraceDuChat(w) \in q.ecritures
  BY <1>2, SuitesDuChatTypes
<1>7. SurRang(RangDuChat(w, l), j) /\ SurTrace(TraceDuChat(w), j)
  BY <1>1, <1>2, SuitesDuChatTypes DEF SurRang, SurTrace
<1>8. q.cmd = ops[o].cmd
  <2>1. q # Libre
    BY <1>6, LibreOperation
  <2> QED
    BY <2>1 DEF Ecrit, MemesChamps
<1>9. \A v \in q.ecritures : Concerne(v, j) =>
        /\ v.table # "chat"
        /\ SurRang(v, j) => v = RangDuChat(w, l)
        /\ SurTrace(v, j) => v = TraceDuChat(w)
  <2> SUFFICES ASSUME NEW v \in q.ecritures, Concerne(v, j)
               PROVE  /\ v.table # "chat"
                      /\ SurRang(v, j) => v = RangDuChat(w, l)
                      /\ SurTrace(v, j) => v = TraceDuChat(w)
    OBVIOUS
  <2>1. v \in SuitesDuChat(w)
    BY <1>2, <1>5
  <2> QED
    BY <1>2, <1>3, <2>1, SuitesDuChatConcernent
<1>10. EnCours(q, j, jeunes[j], w.ligne.cible)
  <2> SUFFICES ASSUME NEW v \in q.ecritures, Concerne(v, j)
               PROVE  /\ ~SurChat(v, j)
                      /\ SurRang(v, j) =>
                           /\ Passage(jeunes[j], v.ligne) /\ v.ligne.conseiller = w.ligne.cible
                           /\ \A u \in q.ecritures : SurRang(u, j) => u = v
                      /\ SurTrace(v, j) =>
                           /\ v.ligne.cible = w.ligne.cible
                           /\ \A u \in q.ecritures : SurTrace(u, j) => u = v
    BY <1>5, <1>8 DEF EnCours, Concerne
  <2>1. ~SurChat(v, j)
    BY <1>9 DEF SurChat
  <2>2. \A u : SurRang(u, j) \/ SurTrace(u, j) => Concerne(u, j)
    BY DEF Concerne
  <2>3. RangDuChat(w, l).ligne = l.ligne /\ TraceDuChat(w).ligne = w.ligne
    BY <1>2, SuitesDuChatTypes
  <2> QED
    BY <1>3, <1>5, <1>9, <2>1, <2>2, <2>3
<1>11. j \in Presents /\ chats[j] # Absent
  BY <1>5 DEF Inv, Jeune, Suivie, Presents
<1>12. w.ligne.cible # Absent
  <2>1. w.ligne.cible \in Conseillers
    BY <1>2, EcritureTypes DEF Transfert
  <2> QED
    BY <2>1, ConstantsAssumption
<1>13. q.cmd \notin Departs
  BY <1>8
<1> QED
  BY <1>2, <1>3, <1>6, <1>7, <1>10, <1>12, <1>13, JeuneTouche

LEMMA EcrireChatInv ==
  ASSUME Inv, NEW o \in Ops, EcrireChat(o)
  PROVE  Inv'
<1>1. PICK w \in ops[o].ecritures :
    /\ w.table = "chat"
    /\ chats' = [j \in Jeunes |->
         IF chats[j] # Absent /\ \E l \in w.lignes : l.id = j
         THEN w.ligne.cible ELSE chats[j]]
    /\ Ecrire(o, w, SuitesDuChat(w))
    /\ UNCHANGED <<jeunes, transferts, conseillers, comptes, animations, listes, archivage>>
  BY DEF EcrireChat, EnAttente
<1>2. /\ w \in Ecriture /\ w.table \in Tables(ops[o]) /\ Annoncee(ops[o], w)
  BY DEF Inv, Types, Operation, Reguliere
<1>3. w.ligne \in Transfert /\ w.ligne.cible \in Conseillers /\ w.lignes \subseteq Rang(LigneJeune)
  BY <1>1, <1>2, EcritureTypes DEF Transfert
<1>4. /\ Tables(ops[o]) = Mouvements
      /\ ops[o].cmd # "supprimerConseiller" /\ ops[o].cmd \notin Departs
  BY <1>1, <1>2 DEF Tables, Mouvements, Effacements
<1>5. ASSUME NEW v \in SuitesDuChat(w)
      PROVE  v.table \in Tables(ops[o]) /\ v.table # "chat" /\ Annoncee(ops[o], v)
  <2>1. /\ w.ligne.source \in ops[o].lit /\ w.ligne.cible \in ops[o].lit
        /\ \A l \in w.lignes : /\ l.id \in ops[o].ecrit /\ l.ligne.conseiller = w.ligne.cible
                               /\ l.ligne.initial \in ops[o].lit \cup {Aucun}
    BY <1>1, <1>2 DEF Annoncee
  <2>2. CASE v = TraceDuChat(w)
    <3>1. v.table = "transfert" /\ v.ligne = w.ligne /\ v.ids = {l.id : l \in w.lignes}
      BY <1>1, <1>2, <2>2, SuitesDuChatTypes
    <3>2. v.ids \subseteq ops[o].ecrit
      BY <2>1, <3>1
    <3> QED
      BY <1>4, <2>1, <3>1, <3>2 DEF Annoncee, Mouvements, Effacements
  <2>3. CASE \E l \in w.lignes : v = RangDuChat(w, l)
    <3>1. PICK l \in w.lignes : v = RangDuChat(w, l)
      BY <2>3
    <3>2. v.table = "jeune" /\ v.id = l.id /\ v.ligne = l.ligne
      BY <1>1, <1>2, <3>1, SuitesDuChatTypes
    <3> QED
      BY <1>4, <2>1, <3>2 DEF Annoncee, Mouvements, Effacements
  <2> QED
    BY <1>1, <1>2, <2>2, <2>3, SuitesDuChatTypes
<1>6. PICK q \in Operation : Ecrit(o, q, w, SuitesDuChat(w))
  <2>1. SuitesDuChat(w) \in SUBSET Ecriture
    BY <1>1, <1>2, SuitesDuChatTypes
  <2> QED
    BY <1>1, <1>5, <2>1, EcritureFaite
<1>7. Types'
  <2>1. chats' \in [Jeunes -> Conseillers \cup {Absent}]
    BY <1>1, <1>3 DEF Inv, Types
  <2> QED
    BY <1>1, <1>6, <2>1, PasOps DEF Inv, Types, Ecrit, archivage
<1>8. References'
  BY <1>1 DEF Inv, References, Presents, Existe, Nommes, Restants
<1>9. ASSUME NEW j \in Jeunes \ perturbes
      PROVE  Jeune(j)'
  <2>1. MemeDossier(j)
    <3>1. chats'[j] = chats[j] \/ j \in Presents
      <4>1. CASE j \in Presents
        BY <4>1
      <4>2. CASE j \notin Presents
        <5>1. EnCours(ops[o], j, jeunes[j], chats[j])
          BY DEF Inv, Jeune, Suivie
        <5>2. ~SurChat(w, j)
          BY <4>2, <5>1 DEF EnCours, Presents, Concerne
        <5> QED
          BY <1>1, <5>2 DEF SurChat
      <4> QED
        BY <4>1, <4>2
    <3> QED
      BY <1>1, <3>1 DEF MemeDossier, Presents, archivage
  <2>2. CASE SurChat(w, j)
    <3>1. EnCours(ops[o], j, jeunes[j], chats[j])
      BY DEF Inv, Jeune, Suivie
    <3>2. j \in Presents
      BY <2>2, <3>1 DEF EnCours, Presents, Concerne
    <3>3. chats[j] # Absent
      BY <3>2 DEF Inv, Jeune, Suivie
    <3>4. chats'[j] = w.ligne.cible
      BY <1>1, <2>2, <3>3 DEF SurChat
    <3> QED
      BY <1>1, <1>4, <1>6, <1>9, <2>1, <2>2, <3>4, ChatEcrit
  <2>3. CASE ~SurChat(w, j)
    <3>1. chats'[j] = chats[j]
      BY <1>1, <1>9, <2>3 DEF SurChat
    <3>2. TousLa' => TousLa /\ transferts'[j] = transferts[j]
      BY <1>1, <1>6 DEF TousLa, Existe, Ecrit
    <3>3. MemeJeune(j)
      BY <1>1, <2>1, <3>1, <3>2 DEF MemeJeune, MemeSuivi
    <3>4. \A v \in SuitesDuChat(w) : ~Concerne(v, j)
      BY <1>1, <1>2, <2>3, SuitesDuChatConcernent
    <3>5. ~Concerne(w, j)
      BY <1>1, <2>3 DEF Concerne, SurRang, SurTrace
    <3> QED
      BY <1>4, <1>6, <1>9, <3>3, <3>4, <3>5, JeuneAilleurs
  <2> QED
    BY <2>2, <2>3
<1>10. Respecte(ops[o])
  BY <1>1, RespecteIdentique
<1>11. \A c \in Conseillers : Existe(c) => Existe(c)'
  BY <1>1 DEF Existe
<1>12. Saine(o)' => Lues(ops[o])'
  BY <1>1, <1>4, <1>6, <1>11, LuesGardees, EcritPareille DEF Ecrit
<1>13. q.cmd # "supprimerConseiller"
  BY <1>4, <1>6, LibreOperation DEF Ecrit, MemesChamps
<1> QED
  BY <1>1, <1>6, <1>7, <1>8, <1>9, <1>10, <1>12, <1>13, MouvementInv DEF Mouvements


(* The trace of a transfer comes last in the history.                       *)
LEMMA DernierAjoute ==
  ASSUME NEW j \in Jeunes, NEW s \in Seq(Transfert \cup {Absent}), NEW t \in Transfert,
         transferts'[j] = Append(s, t)
  PROVE  Restants(j)' # {} /\ Dernier(j)' = t
<1> DEFINE n == Len(s) + 1
<1>1. /\ n \in Nat /\ n \in 1..n
      /\ Len(transferts'[j]) = n /\ transferts'[j][n] = t
  OBVIOUS
<1>2. t # Absent
  BY ConstantsAssumption
<1> HIDE DEF n
<1>3. Restants(j)' = {i \in 1..n : transferts'[j][i] # Absent}
  BY <1>1, Zenon DEF Restants
<1>4. n \in Restants(j)' /\ \A k \in Restants(j)' : k \in 1..n
  BY <1>1, <1>2, <1>3
<1>5. (CHOOSE i \in Restants(j)' : \A k \in Restants(j)' : k <= i) = n
  BY <1>1, <1>4
<1>6. Dernier(j)' = transferts'[j][CHOOSE i \in Restants(j)' : \A k \in Restants(j)' : k <= i]
  BY Zenon DEF Dernier
<1> QED
  BY <1>1, <1>4, <1>5, <1>6

LEMMA TransfertReferences ==
  ASSUME Types, References, NEW js \in SUBSET Presents, NEW t \in Transfert,
         Existe(t.source), Existe(t.cible), UNCHANGED <<jeunes, conseillers, animations, listes>>,
         transferts' = [j \in Jeunes |->
           IF j \in js THEN Append(transferts[j], t) ELSE transferts[j]]
  PROVE  References'
<1>1. ASSUME NEW j \in Jeunes, NEW i \in Restants(j)'
      PROVE  /\ j \in Presents
             /\ Existe(transferts'[j][i].source) /\ Existe(transferts'[j][i].cible)
  <2>1. CASE j \in js
    <3>1. PICK s \in Seq(Transfert \cup {Absent}) : s = transferts[j]
      BY DEF Types
    <3>2. transferts'[j] = Append(s, t)
      BY <2>1, <3>1
    <3>3. i \in 1..Len(transferts'[j]) /\ transferts'[j][i] # Absent
      BY DEF Restants
    <3>4. i \in 1..Len(s) \/ transferts'[j][i] = t
      BY <3>2, <3>3
    <3>5. i \in 1..Len(s) => transferts'[j][i] = transferts[j][i] /\ i \in Restants(j)
      <4>1. i \in 1..Len(s) => transferts'[j][i] = s[i]
        BY <3>2
      <4> QED
        BY <3>1, <3>3, <4>1 DEF Restants
    <3>6. j \in Presents
      BY <2>1
    <3> QED
      BY <3>4, <3>5, <3>6 DEF References
  <2>2. CASE j \notin js
    <3>1. transferts'[j] = transferts[j]
      BY <2>2
    <3>2. i \in Restants(j)
      BY <3>1 DEF Restants
    <3> QED
      BY <3>1, <3>2 DEF References
  <2> QED
    BY <2>1, <2>2
<1>2. Presents' = Presents
  BY DEF Presents
<1>3. \A j \in Presents : Nommes(jeunes[j])'
  BY DEF References, Nommes, Existe
<1>4. \A a \in AC : animations'[a] # Absent => animations'[a].jeunes \subseteq Presents
  BY DEF References
<1>5. \A l \in Listes : listes'[l] # Absent =>
       listes'[l].jeunes \subseteq Presents /\ Existe(listes'[l].conseiller)
  BY DEF References
<1>6. \A c : Existe(c)' <=> Existe(c)
  BY DEF Existe
<1> QED
  BY <1>1, <1>2, <1>3, <1>4, <1>5, <1>6 DEF References

LEMMA EcrireTransfertInv ==
  ASSUME Inv, NEW o \in Ops, EcrireTransfert(o)
  PROVE  Inv'
<1>1. PICK w \in ops[o].ecritures :
    /\ w.table = "transfert"
    /\ transferts' = [j \in Jeunes |->
         IF j \in w.ids THEN Append(transferts[j], w.ligne) ELSE transferts[j]]
    /\ Ecrire(o, w, {})
    /\ UNCHANGED <<jeunes, chats, conseillers, comptes, animations, listes, archivage>>
  BY DEF EcrireTransfert, EnAttente
<1>2. /\ w \in Ecriture /\ w.table \in Tables(ops[o]) /\ Annoncee(ops[o], w)
  BY DEF Inv, Types, Operation, Reguliere
<1>3. w.ligne \in Transfert /\ w.ids \subseteq Jeunes
  BY <1>1, <1>2, EcritureTypes
<1>4. ops[o].cmd # "supprimerConseiller" /\ ops[o].cmd \notin Departs
  BY <1>1, <1>2 DEF Tables, Effacements
<1>5. PICK q \in Operation : Ecrit(o, q, w, {})
  BY <1>1, EcritureFaite
<1>6. Types'
  <2>1. \A j \in Jeunes : Append(transferts[j], w.ligne) \in Seq(Transfert \cup {Absent})
    BY <1>3 DEF Inv, Types
  <2>2. transferts' \in [Jeunes -> Seq(Transfert \cup {Absent})]
    BY <1>1, <2>1 DEF Inv, Types
  <2> QED
    BY <1>1, <1>5, <2>2, PasOps DEF Inv, Types, Ecrit, archivage
<1>7. References'
  <2>1. w.ids \in SUBSET Presents /\ Existe(w.ligne.source) /\ Existe(w.ligne.cible)
    BY <1>1, <1>5 DEF Ecrit, Possible
  <2> QED
    BY <1>1, <1>3, <2>1, TransfertReferences DEF Inv
<1>8. q.cmd \notin Departs /\ q.cmd # "supprimerConseiller"
  BY <1>4, <1>5, LibreOperation DEF Ecrit, MemesChamps, Departs
<1>9. ASSUME NEW j \in Jeunes \ perturbes
      PROVE  Jeune(j)'
  <2>1. MemeDossier(j)
    BY <1>1 DEF MemeDossier, Presents, archivage
  <2>2. EnCours(ops[o], j, jeunes[j], chats[j]) /\ Suivie(j)
    BY DEF Inv, Jeune, Suivie
  <2>3. CASE j \in w.ids
    <3>1. SurTrace(w, j) /\ j \in ops[o].ecrit
      BY <1>1, <1>2, <2>3 DEF SurTrace, Annoncee
    <3>2. w.ligne.cible = chats[j]
      BY <2>2, <3>1 DEF EnCours
    <3>3. Trace(j)' = chats[j]
      <4>1. PICK s \in Seq(Transfert \cup {Absent}) : s = transferts[j]
        BY DEF Inv, Types
      <4>2. transferts'[j] = Append(s, w.ligne)
        BY <1>1, <2>3, <4>1
      <4>3. Restants(j)' # {} /\ Dernier(j)' = w.ligne
        BY <1>3, <4>2, DernierAjoute
      <4> QED
        BY <3>2, <4>3 DEF Trace
    <3>4. \A v \in q.ecritures : v \in ops[o].ecritures /\ q.cmd = ops[o].cmd
      BY <1>5, LibreOperation DEF Ecrit, MemesChamps
    <3>5. EnCours(q, j, jeunes[j], chats[j])
      BY <2>2, <3>4, EnCoursReduit
    <3>6. ASSUME j \in Presents, \A v \in q.ecritures : ~SurRang(v, j)
          PROVE  jeunes[j].conseiller = chats[j]
      <4>1. \A v \in ops[o].ecritures : ~SurRang(v, j)
        BY <1>1, <1>5, <3>6 DEF Ecrit, SurRang
      <4>2. \A p \in Ops : \A v \in ops[p].ecritures : ~SurRang(v, j)
        BY <1>4, <3>1, <4>1, SeulMouvement DEF Concerne
      <4> QED
        BY <2>2, <3>6, <4>2 DEF Suivie
    <3>7. j \in Presents' => chats'[j] # Absent
      BY <1>1, <2>2 DEF Suivie, Presents
    <3> QED
      BY <1>1, <1>4, <1>5, <1>8, <2>1, <3>1, <3>3, <3>5, <3>6, <3>7, JeuneTouche
      DEF Ecrit, Presents
  <2>4. CASE j \notin w.ids
    <3>1. transferts'[j] = transferts[j]
      BY <1>1, <2>4
    <3>2. TousLa' => TousLa
      BY <1>1, <1>5 DEF TousLa, Existe, Ecrit
    <3>3. MemeJeune(j)
      BY <1>1, <2>1, <3>1, <3>2 DEF MemeJeune, MemeSuivi
    <3>4. ~Concerne(w, j)
      BY <1>1, <2>4 DEF Concerne, SurRang, SurTrace, SurChat
    <3>5. PICK suites : suites = {}
      OBVIOUS
    <3>6. Ecrit(o, q, w, suites) /\ \A v \in suites \cup {w} : ~Concerne(v, j)
      BY <1>5, <3>4, <3>5
    <3> QED
      BY <1>4, <3>3, <3>6, JeuneAilleurs
  <2> QED
    BY <2>3, <2>4
<1>10. Respecte(ops[o])
  BY <1>1, RespecteIdentique
<1>11. \A c \in Conseillers : Existe(c) => Existe(c)'
  BY <1>1 DEF Existe
<1>12. Saine(o)' => Lues(ops[o])'
  BY <1>1, <1>4, <1>5, <1>11, LuesGardees, EcritPareille DEF Ecrit
<1>13. PICK suites : suites = {}
  OBVIOUS
<1>14. Ecrit(o, q, w, suites)
  BY <1>5, <1>13
<1> QED
  BY <1>1, <1>6, <1>7, <1>8, <1>9, <1>10, <1>12, <1>14, MouvementInv DEF Mouvements

(* The row that is written leads where the conversation already is.         *)
LEMMA JeuneEcrit ==
  ASSUME Inv, NEW o \in Ops, NEW w, w.table = "jeune", NEW q, Ecrit(o, q, w, {}),
         ops[o].cmd \notin Departs, w.id \in Jeunes, w.id \notin perturbes, w.ligne # Absent,
         jeunes' = [jeunes EXCEPT ![w.id] = w.ligne],
         UNCHANGED <<chats, transferts, conseillers, comptes, archivage>>
  PROVE  Jeune(w.id)'
<1> DEFINE j == w.id
<1>1. /\ w \in ops[o].ecritures /\ q.ecritures = ops[o].ecritures \ {w}
      /\ Pas(o, q) /\ perturbes' = perturbes
  BY DEF Ecrit
<1>2. SurRang(w, j) /\ Concerne(w, j) /\ j \in ops[o].ecrit
  BY DEF SurRang, Concerne, Ecrit, Annoncee
<1>3. EnCours(ops[o], j, jeunes[j], chats[j]) /\ Suivie(j)
  BY DEF Inv, Jeune, Suivie
<1>4. /\ jeunes[j] # Absent /\ Passage(jeunes[j], w.ligne) /\ w.ligne.conseiller = chats[j]
      /\ \A v \in ops[o].ecritures : SurRang(v, j) => v = w
      /\ \A v \in ops[o].ecritures : SurChat(v, j) => v = w
  BY <1>1, <1>2, <1>3 DEF EnCours
<1>5. jeunes'[j] = w.ligne /\ j \in Presents /\ j \in Presents'
  BY <1>4 DEF Presents, Inv, Types
<1>6. \A v \in q.ecritures : ~SurChat(v, j) /\ ~SurRang(v, j)
  BY <1>1, <1>4
<1>7. \A v \in q.ecritures : SurTrace(v, j) =>
        /\ v.ligne.cible = chats[j]
        /\ \A u \in q.ecritures : SurTrace(u, j) => u = v
  BY <1>1, <1>3 DEF EnCours
<1>8. EnCours(q, j, w.ligne, chats[j])
  BY <1>6, <1>7 DEF EnCours, Concerne
<1>9. MemeDossier(j)
  BY <1>5 DEF MemeDossier, archivage
<1>10. ASSUME TousLa', \A v \in q.ecritures : ~SurTrace(v, j)
       PROVE  Trace(j)' = chats[j]
  <2>1. \A v \in ops[o].ecritures : ~SurTrace(v, j)
    BY <1>1, <1>10 DEF SurTrace
  <2>2. \A p \in Ops : \A v \in ops[p].ecritures : ~SurTrace(v, j)
    BY <1>2, <2>1, SeulMouvement DEF Concerne
  <2>3. TousLa
    BY <1>1, <1>10 DEF TousLa, Existe
  <2>4. Trace(j) = chats[j]
    BY <1>3, <1>5, <2>2, <2>3 DEF Suivie
  <2>5. Restants(j)' = Restants(j) /\ Dernier(j)' = Dernier(j)
    BY Zenon DEF Restants, Dernier
  <2> QED
    BY <2>4, <2>5 DEF Trace
<1>11. chats'[j] = chats[j] /\ chats[j] # Absent
  BY <1>3, <1>5 DEF Suivie
<1>12. q.cmd \notin Departs
  BY LibreOperation DEF Ecrit, MemesChamps, Departs
<1> HIDE DEF j
<1>13. j \in Jeunes /\ j \notin perturbes
  BY DEF j
<1>14. Jeune(j)'
  BY <1>1, <1>2, <1>4, <1>5, <1>8, <1>9, <1>10, <1>11, <1>12, <1>13, JeuneTouche
<1> QED
  BY <1>14 DEF j

LEMMA JeuneReferences ==
  ASSUME Types, References, NEW j \in Jeunes, NEW l \in LigneJeune, Nommes(l),
         jeunes' = [jeunes EXCEPT ![j] = l],
         UNCHANGED <<transferts, conseillers, animations, listes>>
  PROVE  References'
<1>1. l # Absent
  BY ConstantsAssumption
<1>2. Presents' = Presents \cup {j}
  BY <1>1 DEF Presents, Types
<1>3. \A c : Existe(c)' <=> Existe(c)
  BY DEF Existe
<1>4. \A i \in Presents' : Nommes(jeunes[i])'
  BY <1>2, <1>3 DEF References, Nommes, Types, Presents
<1>5. \A i \in Jeunes : Restants(i)' = Restants(i)
  BY DEF Restants
<1> QED
  BY <1>2, <1>3, <1>4, <1>5 DEF References

LEMMA EcrireJeuneInv ==
  ASSUME Inv, NEW o \in Ops, EcrireJeune(o)
  PROVE  Inv'
<1>1. PICK w \in ops[o].ecritures :
    /\ w.table = "jeune"
    /\ jeunes' = [jeunes EXCEPT ![w.id] = w.ligne]
    /\ Ecrire(o, w, {})
    /\ UNCHANGED <<chats, transferts, conseillers, comptes, animations, listes, archivage>>
  BY DEF EcrireJeune, EnAttente
<1>2. /\ w \in Ecriture /\ w.table \in Tables(ops[o]) /\ Annoncee(ops[o], w)
      /\ Reguliere(ops[o]) /\ ops[o] \in Operation
  BY DEF Inv, Types, Operation, Reguliere
<1>3. /\ w.id \in Jeunes /\ w.ligne \in LigneJeune /\ w.ligne # Absent
      /\ w.id \in ops[o].ecrit /\ w.id \in ops[o].lit
      /\ w.ligne.conseiller \in ops[o].lit /\ w.ligne.initial \in ops[o].lit \cup {Aucun}
      /\ ops[o].cmd = "supprimerConseiller" => w.ligne.initial = Aucun
  <2>1. w.id \in Jeunes /\ w.ligne \in LigneJeune
    BY <1>1, <1>2, EcritureTypes
  <2>2. w.ligne # Absent
    BY <2>1, ConstantsAssumption
  <2> QED
    BY <1>1, <1>2, <2>1, <2>2 DEF Annoncee, Reguliere
<1>4. ops[o].cmd \notin Departs
  BY <1>1, <1>2 DEF Tables, Effacements
<1>5. PICK q \in Operation : Ecrit(o, q, w, {})
  BY <1>1, EcritureFaite
<1>6. Types'
  <2>1. jeunes' \in [Jeunes -> LigneJeune \cup {Absent}]
    BY <1>1, <1>3 DEF Inv, Types
  <2> QED
    BY <1>1, <1>5, <2>1, PasOps DEF Inv, Types, Ecrit, archivage
<1>7. References'
  <2>1. Nommes(w.ligne)
    BY <1>1, <1>5 DEF Ecrit, Possible, Nommes
  <2> QED
    BY <1>1, <1>3, <2>1, JeuneReferences DEF Inv
<1>8. \A j \in Jeunes : j # w.id => jeunes'[j] = jeunes[j]
  BY <1>1 DEF Inv, Types
<1>9. jeunes'[w.id] = w.ligne
  BY <1>1, <1>3 DEF Inv, Types
<1>10. ASSUME NEW j \in Jeunes \ perturbes
       PROVE  Jeune(j)'
  <2>1. CASE j = w.id
    BY <1>1, <1>3, <1>4, <1>5, <1>10, <2>1, JeuneEcrit
  <2>2. CASE j # w.id
    <3>1. jeunes'[j] = jeunes[j]
      BY <1>8, <2>2
    <3>2. TousLa' => TousLa /\ transferts'[j] = transferts[j]
      BY <1>1, <1>5 DEF TousLa, Existe, Ecrit
    <3>3. MemeJeune(j)
      BY <1>1, <3>1, <3>2 DEF MemeJeune, MemeSuivi, MemeDossier, Presents, archivage
    <3>4. ~Concerne(w, j)
      BY <1>1, <2>2 DEF Concerne, SurRang, SurTrace, SurChat
    <3>5. PICK suites : suites = {}
      OBVIOUS
    <3>6. Ecrit(o, q, w, suites) /\ \A v \in suites \cup {w} : ~Concerne(v, j)
      BY <1>5, <3>4, <3>5
    <3> QED
      BY <1>4, <3>3, <3>6, JeuneAilleurs
  <2> QED
    BY <2>1, <2>2
<1>11. Respecte(ops[o])
  <2>1. \A c \in Conseillers : Existe(c) => Existe(c)'
    BY <1>1 DEF Existe
  <2> QED
    BY <1>3, <1>8, <1>9, <2>1 DEF Respecte, Presents
<1>12. ops'[o] = q
  BY <1>5, PasOps DEF Ecrit, Inv
<1>13. ASSUME Saine(o)'
       PROVE  Lues(ops[o])' /\ (q.cmd = "supprimerConseiller" => Liberes(ops[o])')
  <2>1. q # Libre
    BY <1>12, <1>13, LibreOperation DEF Saine, Objet
  <2>2. MemesChamps(ops[o], q)
    BY <1>5, <2>1 DEF Ecrit
  <2>3. Saine(o)
    BY <1>5, <1>12, <1>13, <2>2 DEF Saine, Objet, MemesChamps, Ecrit
  <2>4. Lues(ops[o]) /\ (ops[o].cmd = "supprimerConseiller" => Liberes(ops[o]))
    BY <2>3 DEF Inv, Lectures
  <2>5. Lues(q)'
    <3>1. q.lit = ops[o].lit
      BY <2>2 DEF MemesChamps
    <3>2. \A c \in Conseillers : Existe(c) => Existe(c)'
      BY <1>1 DEF Existe
    <3> QED
      BY <1>3, <1>8, <1>9, <2>4, <3>1, <3>2 DEF Lues, Presents
  <2>6. ASSUME q.cmd = "supprimerConseiller"
        PROVE  Liberes(q)'
    <3>1. ops[o].cmd = "supprimerConseiller" /\ q.qui = ops[o].qui /\ q.etape = ops[o].etape
          /\ q.ecritures = ops[o].ecritures \ {w}
      BY <1>5, <2>2, <2>6 DEF MemesChamps, Ecrit
    <3>2. q.etape # "fin"
      BY <1>1, <2>4, <3>1 DEF Liberes
    <3>3. q.qui # Aucun
      BY <1>2, <3>1, ConstantsAssumption DEF Reguliere
    <3>4. Origine(q.qui)' \subseteq Origine(q.qui) \ {w.id}
      BY <1>3, <1>8, <1>9, <3>1, <3>3 DEF Origine, Presents
    <3>5. ASSUME q.etape = "compte", NEW j \in Origine(q.qui)'
          PROVE  \E v \in q.ecritures : v.table = "jeune" /\ v.id = j
      <4>1. PICK v \in ops[o].ecritures : v.table = "jeune" /\ v.id = j
        BY <2>4, <3>1, <3>4, <3>5 DEF Liberes
      <4> QED
        BY <3>1, <3>4, <4>1
    <3> QED
      BY <3>2, <3>5 DEF Liberes
  <2> QED
    BY <1>12, <2>5, <2>6
<1>14. ASSUME q.cmd = "supprimerConseiller"
       PROVE  /\ \A j \in Jeunes :
                   jeunes'[j] # Absent /\ jeunes'[j].conseiller = q.qui => j \in perturbes'
              /\ \A v \in q.ecritures :
                   v.table = "jeune" => v.ligne.conseiller # q.qui \/ v.id \in perturbes'
  <2>1. /\ ops[o].cmd = "supprimerConseiller" /\ q.qui = ops[o].qui
        /\ q.ecritures = ops[o].ecritures \ {w} /\ perturbes' = perturbes
    BY <1>5, <1>14, LibreOperation DEF Ecrit, MemesChamps
  <2>2. /\ SuivisPar(q.qui) \subseteq perturbes
        /\ \A v \in ops[o].ecritures :
             v.table = "jeune" => v.ligne.conseiller # q.qui \/ v.id \in perturbes
    BY <2>1 DEF Inv, Abandonnes
  <2>3. ASSUME NEW j \in Jeunes, jeunes'[j] # Absent, jeunes'[j].conseiller = q.qui
        PROVE  j \in perturbes'
    <3>1. CASE j = w.id
      BY <1>1, <1>9, <2>1, <2>2, <2>3, <3>1
    <3>2. CASE j # w.id
      BY <1>8, <2>1, <2>2, <2>3, <3>2 DEF SuivisPar, Presents
    <3> QED
      BY <3>1, <3>2
  <2> QED
    BY <2>1, <2>2, <2>3
<1>15. PICK suites : suites = {}
  OBVIOUS
<1>16. Ecrit(o, q, w, suites)
  BY <1>5, <1>15
<1> QED
  BY <1>1, <1>6, <1>7, <1>10, <1>11, <1>13, <1>14, <1>16, MouvementInv DEF Mouvements

-----------------------------------------------------------------------------
(* Departures                                                               *)

LEMMA DepartMuet ==
  ASSUME NEW op, Reguliere(op), op.cmd \in Departs \/ op.ecritures = {}
  PROVE  \A w \in op.ecritures : \A j : ~Concerne(w, j)
<1>1. \A w \in op.ecritures : w.table \in Effacements
  BY DEF Reguliere, Tables
<1> QED
  BY <1>1 DEF Concerne, SurChat, SurRang, SurTrace, Effacements

LEMMA DepartSeul ==
  ASSUME NEW op, Reguliere(op), op.cmd \in Departs
  PROVE  \E x \in Jeunes : /\ op.jeunes = {x} /\ op.lit = {x} /\ op.ecrit = {x}
                           /\ op.qui = Aucun /\ Depart(op, x)
                           /\ \A w \in op.ecritures : w.table \in Effacements /\ w.id = x
<1>1. PICK x \in Jeunes : op.jeunes = {x} /\ op.lit = {x} /\ op.ecrit = {x}
  BY DEF Reguliere
<1>2. ASSUME NEW w \in op.ecritures
      PROVE  w.table \in Effacements /\ w.id = x
  <2>1. w.table \in Effacements /\ Annoncee(op, w)
    BY DEF Reguliere, Tables
  <2> QED
    BY <1>1, <2>1 DEF Annoncee
<1> QED
  BY <1>1, <1>2 DEF Reguliere, Depart

(* Whoever writes rows of somebody who leaves is known to overlap.          *)
LEMMA DepartIsole ==
  ASSUME Inv, NEW o \in Ops, NEW x, Depart(ops[o], x), x \notin perturbes
  PROVE  \A p \in Ops : \A w \in ops[p].ecritures : ~Concerne(w, x)
<1> SUFFICES ASSUME NEW p \in Ops, NEW w \in ops[p].ecritures, Concerne(w, x)
             PROVE  FALSE
  OBVIOUS
<1>1. ops[p].cmd \notin Departs
  BY DepartMuet DEF Inv
<1>2. x \in ops[p].ecrit
  BY Ailleurs DEF Inv
<1>3. x \in ops[o].ecrit
  BY Ailleurs DEF Inv
<1>4. o = p
  BY <1>1, <1>2, <1>3, Seule DEF Inv
<1> QED
  BY <1>1, <1>4 DEF Depart

(* A step of a departure: what it does to the others, and to the accounts   *)
(* of the counsellors.                                                      *)
LEMMA PasDepart ==
  ASSUME Inv, NEW o \in Ops, NEW q, Pas(o, q), Pareille(ops[o], q), perturbes' = perturbes,
         ops[o].cmd \in Departs, NEW x \in Jeunes, ops[o].ecrit = {x},
         jeunes'[x] = jeunes[x] \/ jeunes'[x] = Absent,
         \A j \in Jeunes \ {x} : MemeJeune(j),
         \A c \in Conseillers : Existe(c)' <=> Existe(c),
         \A c \in Conseillers : c \in comptes' <=> c \in comptes,
         Types', References',
         x \notin perturbes => Jeune(x)'
  PROVE  Inv'
<1>1. /\ q.cmd # "supprimerConseiller" /\ ops[o].cmd # "supprimerConseiller"
      /\ Objet(q) = {} /\ q.ecrit \subseteq {x}
  BY LibreOperation DEF Pareille, Departs, Objet
<1>2. ~Saine(o)'
  BY <1>1, PasOps DEF Saine, Inv
<1>3. Respecte(ops[o])
  <2>1. \A j \in Jeunes \ {x} : jeunes'[j] = jeunes[j]
    BY DEF MemeJeune, MemeSuivi
  <2>2. \A j \in Jeunes : jeunes'[j] # Absent => jeunes'[j] = jeunes[j] /\ j \in Presents
    BY <2>1 DEF Presents
  <2>3. \A j \in Presents : j \notin ops[o].ecrit => jeunes'[j] = jeunes[j]
    BY <2>1 DEF Presents
  <2> QED
    BY <2>2, <2>3 DEF Respecte
<1>4. ASSUME NEW j \in Jeunes \ perturbes'
      PROVE  Jeune(j)'
  <2>1. CASE j = x
    BY <1>4, <2>1
  <2>2. CASE j # x
    <3>1. MemeVue(ops[o], q, j)
      BY <1>1, <2>2, MemeVueAilleurs DEF Inv, Pas
    <3>2. Jeune(j) /\ MemeJeune(j)
      BY <1>4, <2>2 DEF Inv
    <3> QED
      BY <3>1, <3>2, JeuneSuit DEF Inv
  <2> QED
    BY <2>1, <2>2
<1>5. ASSUME NEW c \in Conseillers \ perturbes'
      PROVE  Inscrit(c)'
  <2>1. Inscrit(c)
    BY DEF Inv
  <2>2. c \notin q.ecrit
    BY <1>1, ConstantsAssumption
  <2> QED
    BY <1>1, <2>1, <2>2, InscritSuit DEF Finit, Inv
<1> QED
  BY <1>1, <1>2, <1>3, <1>4, <1>5, PasInv

(* What it does to the young person who leaves.                             *)
LEMMA SuivieDepart ==
  ASSUME Inv, NEW o \in Ops, NEW q, Pas(o, q), NEW x \in Jeunes, x \notin perturbes,
         Depart(ops[o], x), q.cmd \in Departs \/ q.ecritures = {}, MemeSuivi(x)
  PROVE  Suivie(x)'
<1>1. \A w \in q.ecritures : ~Concerne(w, x)
  BY DepartMuet DEF Pas
<1>2. \A w \in ops[o].ecritures : ~Concerne(w, x)
  BY DepartIsole
<1>3. MemesEcritures(ops[o], q, x)
  BY <1>1, <1>2 DEF MemesEcritures
<1>4. Suivie(x)
  BY DEF Inv, Jeune
<1> QED
  BY <1>3, <1>4, SuivieSuit DEF Inv

LEMMA SuivieApresDepart ==
  ASSUME Inv, NEW o \in Ops, NEW q, Pas(o, q), NEW x \in Jeunes, x \notin perturbes,
         Depart(ops[o], x), q.cmd \in Departs \/ q.ecritures = {}, x \notin Presents'
  PROVE  Suivie(x)'
<1>1. \A w \in q.ecritures : ~Concerne(w, x)
  BY DepartMuet DEF Pas
<1>2. \A p \in Ops : \A w \in ops[p].ecritures : ~Concerne(w, x)
  BY DepartIsole
<1>3. \A p \in Ops : \A w \in ops'[p].ecritures : ~Concerne(w, x)
  BY <1>1, <1>2, PasOps DEF Inv
<1>4. \A p \in Ops : EnCours(ops'[p], x, jeunes'[x], chats'[x])
  BY <1>3 DEF EnCours, Concerne
<1> QED
  BY <1>4 DEF Suivie

LEMMA InscriteDepart ==
  ASSUME Inv, NEW o \in Ops, NEW q, Pas(o, q), NEW x \in Jeunes, x \notin perturbes,
         Depart(ops[o], x), ops[o].etape # "compte" \/ x \notin comptes',
         x \in comptes' => x \in comptes,
         x \in Presents' => Depart(q, x) /\ q.etape # "compte"
  PROVE  Inscrite(x)'
<1>1. x \notin comptes'
  BY DEF Inv, Jeune, Inscrite
<1>2. x \in Presents' => \E p \in Ops : Depart(ops'[p], x) /\ ops'[p].etape # "compte"
  BY PasOps DEF Inv
<1> QED
  BY <1>1, <1>2 DEF Inscrite

LEMMA EffaceeDepart ==
  ASSUME Inv, NEW o \in Ops, NEW q, Pas(o, q), NEW x \in Jeunes, x \notin perturbes,
         x \in Presents' => x \in Presents,
         x \notin Presents' =>
           \/ chats'[x] = Absent
           \/ Reste(q, "suppression chat", x)
           \/ /\ x \notin Presents /\ chats'[x] = chats[x]
              /\ Reste(ops[o], "suppression chat", x) => Reste(q, "suppression chat", x),
         Reste(q, "suppression chat", x) => x \notin Presents'
  PROVE  Effacee(x)'
<1>1. /\ x \notin Presents => chats[x] = Absent \/ \E p \in Ops : Reste(ops[p], "suppression chat", x)
      /\ \A p \in Ops : Reste(ops[p], "suppression chat", x) => x \notin Presents
  BY DEF Inv, Jeune, Effacee
<1>2. ops'[o] = q /\ \A p \in Ops \ {o} : ops'[p] = ops[p]
  BY PasOps DEF Inv
<1>3. \A p \in Ops : Reste(ops'[p], "suppression chat", x) => x \notin Presents'
  BY <1>1, <1>2
<1>4. x \notin Presents' =>
        chats'[x] = Absent \/ \E p \in Ops : Reste(ops'[p], "suppression chat", x)
  BY <1>1, <1>2
<1> QED
  BY <1>3, <1>4 DEF Effacee

LEMMA ArchiveeDepart ==
  ASSUME Inv, NEW o \in Ops, NEW q, Pas(o, q), NEW x \in Jeunes, x \notin perturbes,
         x \in Presents' => x \in Presents, Lus(q, x)', FALSE \notin archives'[x],
         \/ TRUE \in archives'[x]
         \/ Reste(q, "archive", x)
         \/ /\ archives'[x] = archives[x]
            /\ Reste(ops[o], "archive", x) => Reste(q, "archive", x)
            /\ \/ x \in archivees'
               \/ x \in Presents' /\ q.cmd # "supprimerJeune" /\ Reste(q, "suppression jeune", x)
               => \/ x \in archivees
                  \/ /\ x \in Presents /\ ops[o].cmd # "supprimerJeune"
                     /\ Reste(ops[o], "suppression jeune", x)
            /\ x \in archivees => x \in archivees'
  PROVE  Archivee(x)'
<1>1. /\ \A p \in Ops : Lus(ops[p], x)
      /\ \/ x \in archivees
         \/ /\ x \in Presents
            /\ \E p \in Ops : ops[p].cmd # "supprimerJeune" /\ Reste(ops[p], "suppression jeune", x)
         => TRUE \in archives[x] \/ \E p \in Ops : Reste(ops[p], "archive", x)
  BY DEF Inv, Jeune, Archivee
<1>2. ops'[o] = q /\ \A p \in Ops \ {o} : ops'[p] = ops[p]
  BY PasOps DEF Inv
<1>3. \A p \in Ops : Lus(ops[p], x)'
  <2> SUFFICES ASSUME NEW p \in Ops PROVE Lus(ops[p], x)'
    OBVIOUS
  <2>1. CASE p = o
    BY <1>2, <2>1 DEF Lus
  <2>2. CASE p # o
    BY <1>1, <1>2, <2>2 DEF Lus
  <2> QED
    BY <2>1, <2>2
<1>4. (\E p \in Ops : Reste(ops[p], "archive", x)) /\ (Reste(ops[o], "archive", x) => Reste(q, "archive", x))
      => \E p \in Ops : Reste(ops'[p], "archive", x)
  BY <1>2
<1>5. Reste(q, "archive", x) => \E p \in Ops : Reste(ops'[p], "archive", x)
  BY <1>2
<1>6. (\E p \in Ops : ops'[p].cmd # "supprimerJeune" /\ Reste(ops'[p], "suppression jeune", x))
      => \/ q.cmd # "supprimerJeune" /\ Reste(q, "suppression jeune", x)
         \/ \E p \in Ops : ops[p].cmd # "supprimerJeune" /\ Reste(ops[p], "suppression jeune", x)
  BY <1>2
<1>7. \/ x \in archivees'
      \/ /\ x \in Presents'
         /\ \E p \in Ops : ops'[p].cmd # "supprimerJeune" /\ Reste(ops'[p], "suppression jeune", x)
      => TRUE \in archives'[x] \/ \E p \in Ops : Reste(ops'[p], "archive", x)
  BY <1>1, <1>4, <1>5, <1>6
<1> QED
  BY <1>3, <1>7 DEF Archivee

LEMMA CompteDuJeune ==
  ASSUME Inv, NEW o \in Ops, SupprimerCompte(o), ops[o].cmd \in Departs
  PROVE  Inv'
<1> DEFINE op == ops[o]
           etape == IF op.cmd \in Departs \ {"supprimerJeune"} THEN "conversation" ELSE "fin"
           ecritures == IF op.cmd = "supprimerConseiller" THEN Sur("suppression conseiller", {op.qui})
                        ELSE IF op.cmd = "supprimerJeune" THEN Sur("suppression jeune", op.jeunes)
                        ELSE {}
           q0 == [op EXCEPT !.etape = etape, !.ecritures = ecritures]
<1>1. /\ op.etape = "compte" /\ op.ecritures = {}
      /\ comptes' = comptes \ (op.jeunes \cup {op.qui})
      /\ ops' = [ops EXCEPT ![o] = q0]
      /\ UNCHANGED <<jeunes, chats, transferts, conseillers, animations, listes,
                     archivage, perturbes>>
  BY DEF SupprimerCompte
<1>2. op \in Operation /\ Reguliere(op)
  BY DEF Inv, Types
<1>3. PICK x \in Jeunes : /\ op.jeunes = {x} /\ op.lit = {x} /\ op.ecrit = {x} /\ op.qui = Aucun
                          /\ Depart(op, x)
  BY <1>2, DepartSeul
<1> DEFINE w == [table |-> "suppression jeune", id |-> x]
<1>4. ecritures = IF op.cmd = "supprimerJeune" THEN {w} ELSE {}
  <2>1. Sur("suppression jeune", op.jeunes) = {w}
    BY <1>3 DEF Sur
  <2>2. op.cmd # "supprimerConseiller"
    BY DEF Departs
  <2> HIDE DEF w, op
  <2> QED
    BY <2>1, <2>2
<1>5. w \in Ecriture /\ w.table = "suppression jeune" /\ w.id = x
  BY EcrituresDeJeunes DEF Effacements
<1> HIDE DEF w, ecritures, etape
<1>6. etape \in {"conversation", "fin"} /\ (op.cmd = "supprimerJeune" <=> etape = "fin")
  BY DEF etape
<1>7. /\ q0 \in Operation
      /\ q0.cmd = op.cmd /\ q0.jeunes = op.jeunes /\ q0.lit = op.lit /\ q0.ecrit = op.ecrit
      /\ q0.qui = op.qui /\ q0.etape = etape /\ q0.ecritures = ecritures
  BY <1>2, <1>4, <1>5, <1>6, ZenonT(60) DEF Operation
<1> HIDE DEF q0
<1>8. PICK q \in Operation : q = q0
  BY <1>7
<1>9. Reguliere(q)
  <2>1. \A v \in q.ecritures : v.table \in Tables(q) /\ Annoncee(q, v)
    BY <1>3, <1>4, <1>5, <1>7, <1>8 DEF Tables, Annoncee, Effacements
  <2>2. q.etape \in Etapes(q) /\ q.etape # "libre" /\ (q.etape # "fin" => q.ecritures = {})
    BY <1>4, <1>6, <1>7, <1>8 DEF Etapes
  <2>3. q.cmd \in Departs /\ q.cmd \notin {"transferer", "supprimerConseiller", "changerAgence"}
    BY <1>7, <1>8 DEF Departs
  <2> QED
    BY <1>3, <1>7, <1>8, <2>1, <2>2, <2>3 DEF Reguliere
<1>10. Pas(o, q) /\ Pareille(op, q)
  BY <1>1, <1>7, <1>8, <1>9 DEF Pas, Pareille
<1>11. Types'
  BY <1>1, <1>10, PasOps DEF Inv, Types, archivage
<1>12. References'
  BY <1>1 DEF Inv, References, Presents, Existe, Nommes, Restants
<1>13. x \notin Conseillers /\ Aucun \notin Jeunes /\ Aucun \notin Conseillers
  BY ConstantsAssumption DEF Entites
<1>14. /\ \A j \in Jeunes \ {x} : MemeJeune(j)
       /\ \A c \in Conseillers : c \in comptes' <=> c \in comptes
       /\ x \notin comptes'
  BY <1>1, <1>3, <1>13 DEF MemeJeune, MemeSuivi, MemeDossier, Presents, archivage, TousLa, Existe
<1>15. ASSUME x \notin perturbes
       PROVE  Jeune(x)'
  <2>1. Suivie(x)'
    BY <1>1, <1>3, <1>7, <1>8, <1>10, <1>15, SuivieDepart DEF MemeSuivi, TousLa, Existe
  <2>2. Depart(q, x) /\ q.etape # "compte"
    BY <1>3, <1>6, <1>7, <1>8 DEF Depart
  <2>3. Inscrite(x)'
    BY <1>3, <1>10, <1>14, <1>15, <2>2, InscriteDepart
  <2>4. \A t \in Effacements \ {"suppression jeune"} : ~Reste(q, t, x)
    BY <1>4, <1>5, <1>7, <1>8 DEF Reste
  <2>5. \A t \in Effacements : ~Reste(op, t, x)
    BY <1>1 DEF Reste
  <2>6. Effacee(x)'
    BY <1>1, <1>3, <1>10, <1>15, <2>4, <2>5, EffaceeDepart DEF Presents, Effacements, Inv, Jeune, Effacee
  <2>7. Lus(q, x)'
    BY <1>6, <1>7, <1>8, <2>4 DEF Lus, Effacements
  <2>8. FALSE \notin archives'[x]
    BY <1>1, <1>15 DEF Inv, Jeune, Archivee, archivage
  <2>9. Reste(q, "suppression jeune", x) => q.cmd = "supprimerJeune"
    BY <1>4, <1>7, <1>8 DEF Reste
  <2>10. archives'[x] = archives[x] /\ archivees' = archivees /\ (x \in Presents' => x \in Presents)
    BY <1>1 DEF archivage, Presents
  <2>11. Archivee(x)'
    BY <1>10, <1>15, <2>5, <2>7, <2>8, <2>9, <2>10, ArchiveeDepart DEF Effacements
  <2> QED
    BY <2>1, <2>3, <2>6, <2>11 DEF Jeune
<1> QED
  BY <1>1, <1>3, <1>10, <1>11, <1>12, <1>14, <1>15, PasDepart DEF Existe

(* Whoever the counsellor had lent is freed when the account goes.          *)
LEMMA CompteDuConseiller ==
  ASSUME Inv, NEW o \in Ops, SupprimerCompte(o), ops[o].cmd \notin Departs
  PROVE  Inv'
<1> DEFINE op == ops[o]
           etape == IF op.cmd \in Departs \ {"supprimerJeune"} THEN "conversation" ELSE "fin"
           ecritures == IF op.cmd = "supprimerConseiller" THEN Sur("suppression conseiller", {op.qui})
                        ELSE IF op.cmd = "supprimerJeune" THEN Sur("suppression jeune", op.jeunes)
                        ELSE {}
           q0 == [op EXCEPT !.etape = etape, !.ecritures = ecritures]
<1>1. /\ op.etape = "compte" /\ op.ecritures = {}
      /\ comptes' = comptes \ (op.jeunes \cup {op.qui})
      /\ ops' = [ops EXCEPT ![o] = q0]
      /\ UNCHANGED <<jeunes, chats, transferts, conseillers, animations, listes,
                     archivage, perturbes>>
  BY DEF SupprimerCompte
<1>2. op \in Operation /\ Reguliere(op)
  BY DEF Inv, Types
<1>3. /\ op.cmd = "supprimerConseiller" /\ op.qui \in Conseillers \cap op.ecrit /\ op.jeunes = {}
  <2>1. op.cmd = "supprimerConseiller"
    BY <1>1, <1>2 DEF Reguliere, Etapes, Departs
  <2> QED
    BY <1>2, <2>1 DEF Reguliere
<1>4. PICK c0 \in Conseillers : c0 = op.qui
  BY <1>3
<1> DEFINE w == [table |-> "suppression conseiller", id |-> c0]
<1>5. ecritures = {w} /\ etape = "fin"
  <2>1. Sur("suppression conseiller", {op.qui}) = {w}
    BY <1>4 DEF Sur
  <2>2. op.cmd \notin Departs
    OBVIOUS
  <2> HIDE DEF w, op
  <2> QED
    BY <1>3, <2>1, <2>2
<1>6. w \in Ecriture /\ w.table = "suppression conseiller" /\ w.id = c0
  BY AutresEcritures
<1> HIDE DEF w, ecritures, etape
<1>7. /\ q0 \in Operation
      /\ q0.cmd = op.cmd /\ q0.jeunes = op.jeunes /\ q0.lit = op.lit /\ q0.ecrit = op.ecrit
      /\ q0.qui = op.qui /\ q0.etape = "fin" /\ q0.ecritures = {w}
  BY <1>2, <1>5, <1>6 DEF Operation
<1> HIDE DEF q0
<1>8. PICK q \in Operation : q = q0
  BY <1>7
<1>9. Reguliere(q)
  <2>1. \A v \in q.ecritures : v.table \in Tables(q) /\ Annoncee(q, v)
    BY <1>3, <1>4, <1>6, <1>7, <1>8 DEF Tables, Annoncee, Effacements, Departs
  <2>2. q.etape \in Etapes(q) /\ q.etape # "libre" /\ q.etape # "initiaux"
    BY <1>3, <1>7, <1>8 DEF Etapes, Departs
  <2> QED
    BY <1>2, <1>3, <1>7, <1>8, <2>1, <2>2 DEF Reguliere
<1>10. Pas(o, q) /\ Pareille(op, q) /\ ops'[o] = q
  BY <1>1, <1>7, <1>8, <1>9, PasOps DEF Pas, Pareille, Inv
<1>11. Types'
  BY <1>1, <1>10, PasOps DEF Inv, Types, archivage
<1>12. References'
  BY <1>1 DEF Inv, References, Presents, Existe, Nommes, Restants
<1>13. Respecte(op)
  BY <1>1, RespecteIdentique
<1>14. ASSUME Saine(o)'
       PROVE  Lues(op)' /\ Liberes(op)'
  <2>1. Saine(o)
    BY <1>1, <1>3, <1>7, <1>8, <1>10, <1>14 DEF Saine, Objet
  <2>2. Lues(op) /\ Liberes(op)
    BY <1>3, <2>1 DEF Inv, Lectures
  <2>3. Origine(op.qui) = {}
    BY <1>1, <2>2 DEF Liberes
  <2>4. Lues(q)'
    BY <1>1, <1>7, <1>8, <2>2 DEF Lues, Presents, Existe
  <2>5. Liberes(q)'
    BY <1>1, <1>6, <1>7, <1>8, <2>3 DEF Liberes, Origine, Presents
  <2> QED
    BY <1>10, <2>4, <2>5
<1>15. /\ \A j \in Jeunes :
            jeunes'[j] # Absent /\ jeunes'[j].conseiller = q.qui => j \in perturbes'
       /\ \A v \in q.ecritures :
            v.table = "jeune" => v.ligne.conseiller # q.qui \/ v.id \in perturbes'
  BY <1>1, <1>3, <1>6, <1>7, <1>8 DEF Inv, Abandonnes, SuivisPar, Presents
<1>16. ASSUME NEW j \in Jeunes \ perturbes'
       PROVE  Jeune(j)'
  <2>1. MemesEcritures(op, q, j)
    BY <1>1, <1>6, <1>7, <1>8 DEF MemesEcritures, Concerne, SurChat, SurRang, SurTrace
  <2>2. SansDepart(op, j) /\ SansDepart(q, j)
    BY <1>2, <1>7, <1>8, <1>9, SansDepartAilleurs
  <2>3. MemeJeune(j)
    <3>1. j \in comptes' <=> j \in comptes
      BY <1>1, <1>3, ConstantsAssumption
    <3> QED
      BY <1>1, <3>1 DEF MemeJeune, MemeSuivi, MemeDossier, Presents, archivage, TousLa, Existe
  <2>4. Jeune(j)
    BY <1>1, <1>16 DEF Inv
  <2> QED
    BY <1>10, <2>1, <2>2, <2>3, <2>4, JeuneSuit DEF MemeVue, Inv
<1>17. ASSUME NEW c \in Conseillers \ perturbes'
       PROVE  Inscrit(c)'
  <2>1. Inscrit(c)
    BY <1>1, <1>17 DEF Inv
  <2>2. CASE c # c0
    <3>1. c \in comptes' <=> c \in comptes
      BY <1>1, <1>3, <1>4, <2>2
    <3>2. Finit(q, c) <=> Finit(op, c)
      BY <1>4, <1>7, <1>8, <2>2 DEF Finit
    <3> QED
      BY <1>1, <1>7, <1>8, <1>10, <2>1, <3>1, <3>2, InscritSuit DEF Inv, Existe
  <2>3. CASE c = c0
    <3>1. c \notin comptes'
      BY <1>1, <1>4, <2>3
    <3>2. ops'[o].cmd = "supprimerConseiller" /\ ops'[o].qui = c /\ ops'[o].etape = "fin"
      BY <1>3, <1>4, <1>7, <1>8, <1>10, <2>3
    <3>3. \A p \in Ops : ops'[p].ecrit = ops[p].ecrit
      BY <1>7, <1>8, <1>10, PasOps DEF Inv
    <3>4. \A p \in Ops : c \in ops'[p].ecrit => Existe(c)'
      BY <1>1, <2>1, <3>3 DEF Inscrit, Existe
    <3> QED
      BY <3>1, <3>2, <3>4 DEF Inscrit
  <2> QED
    BY <2>2, <2>3
<1> QED
  BY <1>10, <1>11, <1>12, <1>13, <1>14, <1>15, <1>16, <1>17, PasInv

LEMMA SupprimerCompteInv ==
  ASSUME Inv, NEW o \in Ops, SupprimerCompte(o)
  PROVE  Inv'
BY CompteDuJeune, CompteDuConseiller

(* The conversation is there as long as the young person is.                *)
LEMMA LireConversationInv ==
  ASSUME Inv, NEW o \in Ops, LireConversation(o)
  PROVE  Inv'
<1> DEFINE op == ops[o]
           lus == \A j \in op.jeunes : chats[j] # Absent
           q0 == [op EXCEPT !.etape = "dossier", !.messages = lus]
<1>1. /\ op.etape = "conversation" /\ ops' = [ops EXCEPT ![o] = q0]
      /\ UNCHANGED <<donnees, perturbes>>
  BY DEF LireConversation
<1>2. op \in Operation /\ Reguliere(op)
  BY DEF Inv, Types
<1>3. op.cmd \in Departs \ {"supprimerJeune"} /\ op.ecritures = {}
  <2>1. op.cmd \in Departs \ {"supprimerJeune"}
    BY <1>1, <1>2 DEF Reguliere, Etapes, Departs
  <2> QED
    BY <1>1, <1>2, <2>1 DEF Reguliere
<1>4. PICK x \in Jeunes : /\ op.jeunes = {x} /\ op.lit = {x} /\ op.ecrit = {x} /\ op.qui = Aucun
                          /\ Depart(op, x)
  BY <1>2, <1>3, DepartSeul
<1>5. lus \in BOOLEAN /\ (lus <=> chats[x] # Absent)
  BY <1>4
<1> HIDE DEF lus
<1>6. /\ q0 \in Operation
      /\ q0.cmd = op.cmd /\ q0.jeunes = op.jeunes /\ q0.lit = op.lit /\ q0.ecrit = op.ecrit
      /\ q0.qui = op.qui /\ q0.etape = "dossier" /\ q0.ecritures = {} /\ q0.messages = lus
  BY <1>2, <1>3, <1>5 DEF Operation
<1> HIDE DEF q0
<1>7. PICK q \in Operation : q = q0
  BY <1>6
<1>8. Reguliere(q)
  BY <1>3, <1>4, <1>6, <1>7 DEF Reguliere, Etapes, Departs
<1>9. Pas(o, q) /\ Pareille(op, q)
  BY <1>1, <1>6, <1>7, <1>8 DEF Pas, Pareille
<1>10. UNCHANGED <<jeunes, chats, transferts, conseillers, comptes, animations, listes, archives, archivees>>
  BY <1>1 DEF donnees, archivage
<1>11. Types'
  BY <1>1, <1>9, <1>10, PasOps DEF Inv, Types
<1>12. References'
  BY <1>10 DEF Inv, References, Presents, Existe, Nommes, Restants
<1>13. \A j \in Jeunes \ {x} : MemeJeune(j)
  BY <1>1, <1>10 DEF MemeJeune, MemeSuivi, MemeDossier, Presents, TousLa, Existe
<1>14. ASSUME x \notin perturbes
       PROVE  Jeune(x)'
  <2>1. Suivie(x)'
    BY <1>1, <1>3, <1>4, <1>6, <1>7, <1>9, <1>10, <1>14, SuivieDepart DEF MemeSuivi, TousLa, Existe
  <2>2. Depart(q, x) /\ q.etape # "compte"
    BY <1>3, <1>4, <1>6, <1>7 DEF Depart
  <2>3. Inscrite(x)'
    BY <1>1, <1>4, <1>9, <1>10, <1>14, <2>2, InscriteDepart
  <2>4. \A t \in Effacements : ~Reste(q, t, x) /\ ~Reste(op, t, x)
    BY <1>3, <1>6, <1>7 DEF Reste
  <2>5. Effacee(x)'
    BY <1>4, <1>9, <1>10, <1>14, <2>4, EffaceeDepart DEF Presents, Effacements, Inv, Jeune, Effacee
  <2>6. Lus(q, x)'
    <3>1. x \in Presents' => q.messages
      <4>1. x \in Presents' => chats[x] # Absent
        BY <1>10, <1>14 DEF Inv, Jeune, Suivie, Presents
      <4> QED
        BY <1>5, <1>6, <1>7, <4>1
    <3> QED
      BY <2>4, <3>1 DEF Lus, Effacements
  <2>7. FALSE \notin archives'[x]
    BY <1>10, <1>14 DEF Inv, Jeune, Archivee
  <2>8. Archivee(x)'
    BY <1>9, <1>10, <1>14, <2>4, <2>6, <2>7, ArchiveeDepart DEF Effacements, Presents
  <2> QED
    BY <2>1, <2>3, <2>5, <2>8 DEF Jeune
<1> QED
  BY <1>1, <1>3, <1>4, <1>9, <1>10, <1>11, <1>12, <1>13, <1>14, PasDepart DEF Existe

(* The archive is written if the row is still there, and only then.         *)
LEMMA LireDossierInv ==
  ASSUME Inv, NEW o \in Ops, LireDossier(o)
  PROVE  Inv'
<1> DEFINE op == ops[o]
           suite == IF ~DejaSupprime(op.jeunes) THEN Sur("suppression archives", op.jeunes)
                    ELSE IF op.cmd = "archiverJeune" THEN {}
                    ELSE Sur("suppression jeune", op.jeunes)
           q0 == [op EXCEPT !.etape = "fin", !.ecritures = suite]
           q1 == Poursuivre(q0)
<1>1. /\ op.etape = "dossier" /\ ops' = [ops EXCEPT ![o] = q1]
      /\ UNCHANGED <<donnees, perturbes>>
  BY DEF LireDossier
<1>2. op \in Operation /\ Reguliere(op)
  BY DEF Inv, Types
<1>3. op.cmd \in Departs \ {"supprimerJeune"} /\ op.ecritures = {}
  <2>1. op.cmd \in Departs \ {"supprimerJeune"}
    BY <1>1, <1>2 DEF Reguliere, Etapes, Departs
  <2> QED
    BY <1>1, <1>2, <2>1 DEF Reguliere
<1>4. PICK x \in Jeunes : /\ op.jeunes = {x} /\ op.lit = {x} /\ op.ecrit = {x} /\ op.qui = Aucun
                          /\ Depart(op, x)
  BY <1>2, <1>3, DepartSeul
<1> DEFINE a == [table |-> "suppression archives", id |-> x]
           s == [table |-> "suppression jeune", id |-> x]
<1>5. suite = IF x \in Presents THEN {a} ELSE IF op.cmd = "archiverJeune" THEN {} ELSE {s}
  <2>1. Sur("suppression archives", op.jeunes) = {a} /\ Sur("suppression jeune", op.jeunes) = {s}
    BY <1>4 DEF Sur
  <2>2. DejaSupprime(op.jeunes) <=> x \notin Presents
    BY <1>4 DEF DejaSupprime
  <2> HIDE DEF a, s, op
  <2> QED
    BY <2>1, <2>2
<1>6. /\ a \in Ecriture /\ a.table = "suppression archives" /\ a.id = x
      /\ s \in Ecriture /\ s.table = "suppression jeune" /\ s.id = x
  BY EcrituresDeJeunes DEF Effacements
<1> HIDE DEF a, s, suite
<1>7. /\ q0 \in Operation
      /\ q0.cmd = op.cmd /\ q0.jeunes = op.jeunes /\ q0.lit = op.lit /\ q0.ecrit = op.ecrit
      /\ q0.qui = op.qui /\ q0.etape = "fin" /\ q0.ecritures = suite /\ q0.messages = op.messages
  BY <1>2, <1>5, <1>6, ZenonT(60) DEF Operation
<1> HIDE DEF q0
<1>8. Reguliere(q0)
  <2>1. \A v \in q0.ecritures : v.table \in Tables(q0) /\ Annoncee(q0, v)
    BY <1>3, <1>4, <1>5, <1>6, <1>7, ZenonT(60) DEF Tables, Annoncee, Effacements
  <2>2. q0.etape \in Etapes(q0)
    BY <1>3, <1>7 DEF Etapes
  <2>3. q0.cmd \notin {"transferer", "supprimerConseiller", "changerAgence"}
    BY <1>3, <1>7 DEF Departs
  <2> QED
    BY <1>3, <1>4, <1>7, <2>1, <2>2, <2>3 DEF Reguliere
<1>9. /\ q1 \in Operation /\ Reguliere(q1)
      /\ q1 = q0 \/ (q1 = Libre /\ q0.ecritures = {})
  BY <1>7, <1>8, PoursuivreSoit
<1> HIDE DEF q1
<1>10. PICK q \in Operation : q = q1
  BY <1>9
<1>11. Pas(o, q) /\ Pareille(op, q)
  BY <1>1, <1>7, <1>9, <1>10 DEF Pas, Pareille
<1>12. UNCHANGED <<jeunes, chats, transferts, conseillers, comptes, animations, listes, archives, archivees>>
  BY <1>1 DEF donnees, archivage
<1>13. Types'
  BY <1>1, <1>11, <1>12, PasOps DEF Inv, Types
<1>14. References'
  BY <1>12 DEF Inv, References, Presents, Existe, Nommes, Restants
<1>15. \A j \in Jeunes \ {x} : MemeJeune(j)
  BY <1>1, <1>12 DEF MemeJeune, MemeSuivi, MemeDossier, Presents, TousLa, Existe
<1>16. ASSUME x \notin perturbes
       PROVE  Jeune(x)'
  <2>1. q.cmd \in Departs \/ q.ecritures = {}
    BY <1>3, <1>7, <1>9, <1>10, LibreOperation
  <2>2. Suivie(x)'
    BY <1>1, <1>4, <1>11, <1>12, <1>16, <2>1, SuivieDepart DEF MemeSuivi, TousLa, Existe
  <2>3. x \in Presents => q = q0
    BY <1>5, <1>7, <1>9, <1>10
  <2>4. x \in Presents => Depart(q, x) /\ q.etape # "compte"
    BY <1>3, <1>4, <1>7, <2>3 DEF Depart
  <2>5. x \in Presents' <=> x \in Presents
    BY <1>12 DEF Presents
  <2>6. Inscrite(x)'
    BY <1>1, <1>4, <1>11, <1>12, <1>16, <2>4, <2>5, InscriteDepart
  <2>7. \A t \in Effacements : ~Reste(op, t, x)
    BY <1>3 DEF Reste
  <2>8. /\ ~Reste(q, "suppression chat", x) /\ ~Reste(q, "archive", x)
        /\ Reste(q, "suppression archives", x) => x \in Presents
        /\ Reste(q, "suppression jeune", x) => x \notin Presents
    BY <1>5, <1>6, <1>7, <1>9, <1>10, LibreOperation DEF Reste
  <2>9. Effacee(x)'
    BY <1>4, <1>11, <1>12, <1>16, <2>5, <2>7, <2>8, EffaceeDepart DEF Effacements, Inv, Jeune, Effacee
  <2>10. Lus(q, x)'
    <3>1. x \in Presents => op.messages
      BY <1>1, <1>4, <1>16 DEF Inv, Jeune, Archivee, Lus
    <3>2. q.etape # "dossier"
      BY <1>7, <1>9, <1>10, LibreOperation
    <3>3. x \in Presents => q.messages
      BY <1>7, <2>3, <3>1
    <3> QED
      BY <2>8, <3>2, <3>3 DEF Lus
  <2>11. FALSE \notin archives'[x]
    BY <1>12, <1>16 DEF Inv, Jeune, Archivee
  <2>12. Archivee(x)'
    BY <1>11, <1>12, <1>16, <2>5, <2>7, <2>8, <2>10, <2>11, ArchiveeDepart DEF Effacements
  <2> QED
    BY <2>2, <2>6, <2>9, <2>12 DEF Jeune
<1> QED
  BY <1>1, <1>3, <1>4, <1>11, <1>12, <1>13, <1>14, <1>15, <1>16, PasDepart DEF Existe

(* Departure o of x has written w, and is q.                                *)
Efface(o, q, x, w, suites) ==
  /\ Pas(o, q) /\ Pareille(ops[o], q) /\ perturbes' = perturbes
  /\ w \in ops[o].ecritures /\ w.table \in Effacements /\ w.id = x
  /\ ops[o].cmd \in Departs /\ ops[o].ecrit = {x} /\ ops[o].etape = "fin" /\ Depart(ops[o], x)
  /\ q.ecritures = (ops[o].ecritures \ {w}) \cup suites
  /\ \/ q = Libre /\ q.ecritures = {}
     \/ /\ Depart(q, x) /\ q.etape = "fin" /\ q.cmd = ops[o].cmd
        /\ q.messages = ops[o].messages

LEMMA EffacementFait ==
  ASSUME Inv, NEW o \in Ops, NEW w \in ops[o].ecritures, w.table \in Effacements,
         NEW suites, \A v \in suites : v \in Ecriture /\ v.table \in Effacements /\ v.id = w.id,
         Ecrire(o, w, suites)
  PROVE  \E q \in Operation, x \in Jeunes : Efface(o, q, x, w, suites)
<1>1. ops[o] \in Operation /\ Reguliere(ops[o])
  BY DEF Inv, Types
<1>2. w.table \in Tables(ops[o]) /\ Annoncee(ops[o], w)
  BY <1>1 DEF Reguliere
<1>3. ops[o].cmd \in Departs /\ w.id \in ops[o].jeunes
  BY <1>2 DEF Annoncee
<1>4. PICK x \in Jeunes : /\ ops[o].jeunes = {x} /\ ops[o].ecrit = {x} /\ Depart(ops[o], x)
  BY <1>1, <1>3, DepartSeul
<1>5. w.id = x
  BY <1>3, <1>4
<1>6. ops[o].etape = "fin"
  BY <1>1, <1>3 DEF Reguliere
<1>7. \A v \in suites : v.table \in Tables(ops[o]) /\ v.table # "chat" /\ Annoncee(ops[o], v)
  BY <1>3, <1>4, <1>5 DEF Tables, Annoncee, Effacements
<1>8. PICK q \in Operation : Ecrit(o, q, w, suites)
  BY <1>7, EcritureFaite
<1>9. Pareille(ops[o], q)
  BY <1>8, EcritPareille
<1>10. \/ q = Libre /\ q.ecritures = {}
       \/ /\ Depart(q, x) /\ q.etape = "fin" /\ q.cmd = ops[o].cmd
          /\ q.messages = ops[o].messages
  BY <1>3, <1>4, <1>6, <1>8, LibreOperation DEF Ecrit, MemesChamps, Depart
<1>11. Efface(o, q, x, w, suites)
  BY <1>3, <1>4, <1>5, <1>6, <1>8, <1>9, <1>10 DEF Efface, Ecrit
<1> QED
  BY <1>11

LEMMA EffaceRestes ==
  ASSUME NEW o, NEW q, NEW x, NEW w, NEW suites, Efface(o, q, x, w, suites), NEW t
  PROVE  /\ t # w.table /\ Reste(ops[o], t, x) => Reste(q, t, x)
         /\ Reste(q, t, x) => Reste(ops[o], t, x) \/ \E v \in suites : v.table = t
         /\ Reste(ops[o], w.table, x)
BY DEF Efface, Reste

(* Between two writes nothing changes of who is there, but for the account. *)
LEMMA EffaceInv ==
  ASSUME Inv, NEW o \in Ops, NEW q, NEW x \in Jeunes, NEW w, NEW suites,
         Efface(o, q, x, w, suites),
         UNCHANGED <<jeunes, transferts, conseillers, comptes, animations, listes, archivees>>,
         chats' \in [Jeunes -> Conseillers \cup {Absent}], archives' \in [Jeunes -> SUBSET BOOLEAN],
         \A j \in Jeunes \ {x} : chats'[j] = chats[j] /\ archives'[j] = archives[j],
         x \notin perturbes /\ x \in Presents => q # Libre,
         x \notin perturbes => Suivie(x)' /\ Effacee(x)' /\ Archivee(x)'
  PROVE  Inv'
<1>1. Pas(o, q) /\ perturbes' = perturbes
  BY DEF Efface
<1>2. Types'
  BY <1>1, PasOps DEF Inv, Types
<1>3. References'
  BY DEF Inv, References, Presents, Existe, Nommes, Restants
<1>4. \A j \in Jeunes \ {x} : MemeJeune(j)
  BY <1>1 DEF MemeJeune, MemeSuivi, MemeDossier, Presents, TousLa, Existe
<1>5. ASSUME x \notin perturbes
      PROVE  Jeune(x)'
  <2>1. x \in Presents' => Depart(q, x) /\ q.etape # "compte"
    BY <1>5 DEF Efface, Presents
  <2>2. Inscrite(x)'
    BY <1>1, <1>5, <2>1, InscriteDepart DEF Efface
  <2> QED
    BY <1>5, <2>2 DEF Jeune
<1> QED
  BY <1>1, <1>2, <1>3, <1>4, <1>5, PasDepart DEF Efface, Existe

LEMMA DetruireChatInv ==
  ASSUME Inv, NEW o \in Ops, DetruireChat(o)
  PROVE  Inv'
<1>1. PICK w \in ops[o].ecritures :
        /\ w.table = "suppression chat"
        /\ chats' = [chats EXCEPT ![w.id] = Absent]
        /\ Ecrire(o, w, {})
        /\ UNCHANGED <<jeunes, transferts, conseillers, comptes, animations, listes, archivage>>
  BY DEF DetruireChat, EnAttente
<1>2. PICK suites : suites = {}
  OBVIOUS
<1>3. PICK q \in Operation, x \in Jeunes : Efface(o, q, x, w, suites)
  BY <1>1, <1>2, EffacementFait DEF Effacements
<1>4. /\ Pas(o, q) /\ Depart(ops[o], x) /\ w.id = x /\ w \in ops[o].ecritures
      /\ q.ecritures \subseteq ops[o].ecritures
      /\ q.cmd \in Departs \/ q.ecritures = {}
      /\ (q.etape # "dossier" /\ q.messages = ops[o].messages) \/ q.ecritures = {}
  BY <1>2, <1>3 DEF Efface, Depart
<1>5. chats'[x] = Absent /\ chats' \in [Jeunes -> Conseillers \cup {Absent}]
      /\ \A j \in Jeunes \ {x} : chats'[j] = chats[j]
  BY <1>1, <1>4 DEF Inv, Types
<1>6. UNCHANGED <<archives, archivees>> /\ (x \in Presents' <=> x \in Presents)
  BY <1>1 DEF archivage, Presents
<1>7. \A t : Reste(q, t, x) => Reste(ops[o], t, x)
  BY <1>2, <1>3, EffaceRestes
<1>8. /\ Reste(ops[o], "archive", x) => Reste(q, "archive", x)
      /\ Reste(ops[o], "suppression chat", x)
  <2>1. /\ "archive" # w.table /\ Reste(ops[o], "archive", x) => Reste(q, "archive", x)
        /\ Reste(ops[o], w.table, x)
    BY <1>3, EffaceRestes
  <2> QED
    BY <1>1, <2>1
<1>9. x \notin perturbes => x \notin Presents
  BY <1>8 DEF Inv, Jeune, Effacee
<1>10. ASSUME x \notin perturbes
       PROVE  Suivie(x)' /\ Effacee(x)' /\ Archivee(x)'
  <2>1. Suivie(x)'
    BY <1>4, <1>6, <1>9, <1>10, SuivieApresDepart
  <2>2. Effacee(x)'
    BY <1>4, <1>5, <1>6, <1>9, <1>10, EffaceeDepart
  <2>3. Lus(q, x)'
    <3>1. Lus(ops[o], x)
      BY <1>10 DEF Inv, Jeune, Archivee
    <3> QED
      BY <1>4, <1>6, <1>7, <1>9, <1>10, <3>1 DEF Lus, Reste
  <2>4. FALSE \notin archives'[x]
    BY <1>6, <1>10 DEF Inv, Jeune, Archivee
  <2>5. Archivee(x)'
    BY <1>4, <1>6, <1>7, <1>8, <1>9, <1>10, <2>3, <2>4, ArchiveeDepart
  <2> QED
    BY <2>1, <2>2, <2>5
<1>11. archives' \in [Jeunes -> SUBSET BOOLEAN]
  BY <1>6 DEF Inv, Types
<1> QED
  BY <1>1, <1>3, <1>5, <1>6, <1>9, <1>10, <1>11, EffaceInv

LEMMA DetruireArchivesInv ==
  ASSUME Inv, NEW o \in Ops, DetruireArchives(o)
  PROVE  Inv'
<1>1. PICK w \in ops[o].ecritures :
        /\ w.table = "suppression archives"
        /\ archives' = [archives EXCEPT ![w.id] = {}]
        /\ Ecrire(o, w, Sur("archive", {w.id}))
        /\ UNCHANGED <<jeunes, chats, transferts, conseillers, comptes, animations, listes,
                       archivees>>
  BY DEF DetruireArchives, EnAttente
<1>2. w.id \in Jeunes
  BY <1>1, EcritureTypes DEF Inv, Types, Operation, Effacements
<1> DEFINE v == [table |-> "archive", id |-> w.id]
<1>3. v \in Ecriture /\ v.table = "archive" /\ v.id = w.id
  BY <1>2, EcrituresDeJeunes DEF Effacements
<1>4. Sur("archive", {w.id}) = {v}
  BY DEF Sur
<1> HIDE DEF v
<1>5. PICK suites : suites = {v}
  OBVIOUS
<1>6. \A u \in suites : u \in Ecriture /\ u.table \in Effacements /\ u.id = w.id
  BY <1>3, <1>5 DEF Effacements
<1>7. w.table \in Effacements /\ Ecrire(o, w, suites)
  BY <1>1, <1>4, <1>5 DEF Effacements
<1>8. PICK q \in Operation, x \in Jeunes : Efface(o, q, x, w, suites)
  BY <1>6, <1>7, EffacementFait
<1>9. /\ Pas(o, q) /\ Depart(ops[o], x) /\ w.id = x /\ v \in q.ecritures
      /\ q.cmd = ops[o].cmd /\ q.messages = ops[o].messages /\ q.etape = "fin"
      /\ q.cmd \in Departs /\ q # Libre
  BY <1>5, <1>8, LibreOperation DEF Efface, Depart
<1>10. archives'[x] = {} /\ archives' \in [Jeunes -> SUBSET BOOLEAN]
       /\ \A j \in Jeunes \ {x} : archives'[j] = archives[j]
  BY <1>1, <1>9 DEF Inv, Types
<1>11. \A t : Reste(q, t, x) => Reste(ops[o], t, x) \/ t = "archive"
  <2>1. \A u \in suites : u.table = "archive"
    BY <1>3, <1>5
  <2>2. \A t : Reste(q, t, x) => Reste(ops[o], t, x) \/ \E u \in suites : u.table = t
    BY <1>8, EffaceRestes
  <2> QED
    BY <2>1, <2>2
<1>12. Reste(q, "archive", x)
  BY <1>3, <1>9 DEF Reste
<1>13. Reste(ops[o], "suppression chat", x) => Reste(q, "suppression chat", x)
  <2>1. "suppression chat" # w.table /\ Reste(ops[o], "suppression chat", x)
          => Reste(q, "suppression chat", x)
    BY <1>8, EffaceRestes
  <2> QED
    BY <1>1, <2>1
<1>14. x \in Presents' <=> x \in Presents
  BY <1>1 DEF Presents
<1>15. ASSUME x \notin perturbes
       PROVE  Suivie(x)' /\ Effacee(x)' /\ Archivee(x)'
  <2>1. Suivie(x)'
    BY <1>1, <1>8, <1>9, <1>15, SuivieDepart DEF MemeSuivi, TousLa, Existe, Efface
  <2>2. Effacee(x)'
    <3>1. x \notin Presents' => \/ chats'[x] = Absent
                                \/ /\ x \notin Presents /\ chats'[x] = chats[x]
                                   /\ Reste(ops[o], "suppression chat", x) => Reste(q, "suppression chat", x)
      BY <1>1, <1>13, <1>14
    <3>2. Reste(q, "suppression chat", x) => x \notin Presents'
      BY <1>11, <1>14, <1>15 DEF Inv, Jeune, Effacee
    <3> QED
      BY <1>9, <1>14, <1>15, <3>1, <3>2, EffaceeDepart
  <2>3. Lus(q, x)'
    <3>1. Lus(ops[o], x) /\ Reste(ops[o], "suppression archives", x)
      BY <1>1, <1>9, <1>15 DEF Inv, Jeune, Archivee, Reste
    <3> QED
      BY <1>9, <3>1 DEF Lus
  <2>4. Archivee(x)'
    BY <1>9, <1>10, <1>12, <1>14, <1>15, <2>3, ArchiveeDepart
  <2> QED
    BY <2>1, <2>2, <2>4
<1>16. chats' \in [Jeunes -> Conseillers \cup {Absent}]
  BY <1>1 DEF Inv, Types
<1> QED
  BY <1>1, <1>8, <1>9, <1>10, <1>15, <1>16, EffaceInv

LEMMA EcrireArchiveInv ==
  ASSUME Inv, NEW o \in Ops, EcrireArchive(o)
  PROVE  Inv'
<1>1. PICK w \in ops[o].ecritures :
        /\ w.table = "archive"
        /\ archives' = [archives EXCEPT ![w.id] = @ \cup {ops[o].messages}]
        /\ Ecrire(o, w, Sur("suppression jeune", {w.id}))
        /\ UNCHANGED <<jeunes, chats, transferts, conseillers, comptes, animations, listes,
                       archivees>>
  BY DEF EcrireArchive, EnAttente
<1>2. w.id \in Jeunes /\ ops[o].messages \in BOOLEAN
  BY <1>1, EcritureTypes DEF Inv, Types, Operation, Effacements
<1> DEFINE v == [table |-> "suppression jeune", id |-> w.id]
<1>3. v \in Ecriture /\ v.table = "suppression jeune" /\ v.id = w.id
  BY <1>2, EcrituresDeJeunes DEF Effacements
<1>4. Sur("suppression jeune", {w.id}) = {v}
  BY DEF Sur
<1> HIDE DEF v
<1>5. PICK suites : suites = {v}
  OBVIOUS
<1>6. \A u \in suites : u \in Ecriture /\ u.table \in Effacements /\ u.id = w.id
  BY <1>3, <1>5 DEF Effacements
<1>7. w.table \in Effacements /\ Ecrire(o, w, suites)
  BY <1>1, <1>4, <1>5 DEF Effacements
<1>8. PICK q \in Operation, x \in Jeunes : Efface(o, q, x, w, suites)
  BY <1>6, <1>7, EffacementFait
<1>9. /\ Pas(o, q) /\ Depart(ops[o], x) /\ w.id = x /\ v \in q.ecritures
      /\ q.cmd = ops[o].cmd /\ q.messages = ops[o].messages /\ q.etape = "fin"
      /\ q.cmd \in Departs /\ q # Libre
  BY <1>5, <1>8, LibreOperation DEF Efface, Depart
<1>10. /\ archives'[x] = archives[x] \cup {ops[o].messages}
       /\ archives' \in [Jeunes -> SUBSET BOOLEAN]
       /\ \A j \in Jeunes \ {x} : archives'[j] = archives[j]
  <2> DEFINE m == ops[o].messages
  <2>1. m \in BOOLEAN /\ archives \in [Jeunes -> SUBSET BOOLEAN]
    BY <1>2 DEF Inv, Types
  <2>2. archives' = [archives EXCEPT ![x] = @ \cup {m}]
    BY <1>1, <1>9
  <2> HIDE DEF m
  <2>3. archives'[x] = archives[x] \cup {m} /\ archives' \in [Jeunes -> SUBSET BOOLEAN]
        /\ \A j \in Jeunes \ {x} : archives'[j] = archives[j]
    BY <2>1, <2>2
  <2> QED
    BY <2>3 DEF m
<1>11. \A t : Reste(q, t, x) => Reste(ops[o], t, x) \/ t = "suppression jeune"
  <2>1. \A u \in suites : u.table = "suppression jeune"
    BY <1>3, <1>5
  <2>2. \A t : Reste(q, t, x) => Reste(ops[o], t, x) \/ \E u \in suites : u.table = t
    BY <1>8, EffaceRestes
  <2> QED
    BY <2>1, <2>2
<1>12. Reste(ops[o], "suppression chat", x) => Reste(q, "suppression chat", x)
  <2>1. "suppression chat" # w.table /\ Reste(ops[o], "suppression chat", x)
          => Reste(q, "suppression chat", x)
    BY <1>8, EffaceRestes
  <2> QED
    BY <1>1, <2>1
<1>13. x \in Presents' <=> x \in Presents
  BY <1>1 DEF Presents
<1>14. ASSUME x \notin perturbes
       PROVE  Suivie(x)' /\ Effacee(x)' /\ Archivee(x)'
  <2>1. Suivie(x)'
    BY <1>1, <1>8, <1>9, <1>14, SuivieDepart DEF MemeSuivi, TousLa, Existe, Efface
  <2>2. Effacee(x)'
    <3>1. x \notin Presents' => \/ chats'[x] = Absent
                                \/ /\ x \notin Presents /\ chats'[x] = chats[x]
                                   /\ Reste(ops[o], "suppression chat", x) => Reste(q, "suppression chat", x)
      BY <1>1, <1>12, <1>13
    <3>2. Reste(q, "suppression chat", x) => x \notin Presents'
      BY <1>11, <1>13, <1>14 DEF Inv, Jeune, Effacee
    <3> QED
      BY <1>9, <1>13, <1>14, <3>1, <3>2, EffaceeDepart
  <2>3. ops[o].messages = TRUE
    <3>1. Lus(ops[o], x) /\ Reste(ops[o], "archive", x)
      BY <1>1, <1>9, <1>14 DEF Inv, Jeune, Archivee, Reste
    <3> QED
      BY <1>2, <3>1 DEF Lus
  <2>4. Lus(q, x)'
    BY <1>9, <2>3 DEF Lus
  <2>5. TRUE \in archives'[x] /\ FALSE \notin archives'[x]
    <3>1. FALSE \notin archives[x]
      BY <1>14 DEF Inv, Jeune, Archivee
    <3> QED
      BY <1>10, <2>3, <3>1
  <2>6. Archivee(x)'
    BY <1>9, <1>13, <1>14, <2>4, <2>5, ArchiveeDepart
  <2> QED
    BY <2>1, <2>2, <2>6
<1>15. chats' \in [Jeunes -> Conseillers \cup {Absent}]
  BY <1>1 DEF Inv, Types
<1> QED
  BY <1>1, <1>8, <1>9, <1>10, <1>14, <1>15, EffaceInv

-----------------------------------------------------------------------------
(* Rows that disappear, with those that refer to them                       *)

LEMMA Suites ==
  ASSUME NEW E, NEW n \in Nat, NEW f \in [1..n -> E]
  PROVE  f \in Seq(E) /\ Len(f) = n
<1>1. f \in Seq(E)
  BY SeqDef
<1>2. Len(f) \in Nat /\ 1..Len(f) = 1..n
  BY <1>1, LenProperties
<1> QED
  BY <1>1, <1>2

(* The history without the transfers of those who are gone.                 *)
Reduite(s, cs) == [i \in 1..Len(s) |-> IF Concernes(s[i]) \cap cs = {} THEN s[i] ELSE Absent]

LEMMA HistoireReduite ==
  ASSUME NEW s \in Seq(Transfert \cup {Absent}), NEW cs, NEW f, f = Reduite(s, cs)
  PROVE  /\ f \in Seq(Transfert \cup {Absent}) /\ Len(f) = Len(s)
         /\ \A i \in 1..Len(s) : f[i] # Absent =>
              f[i] = s[i] /\ s[i] \in Transfert /\ s[i].source \notin cs /\ s[i].cible \notin cs
         /\ cs = {} => f = s
<1>1. Len(s) \in Nat /\ s \in [1..Len(s) -> Transfert \cup {Absent}]
  BY LenProperties
<1>2. /\ f \in [1..Len(s) -> Transfert \cup {Absent}]
      /\ \A i \in 1..Len(s) : f[i] = IF Concernes(s[i]) \cap cs = {} THEN s[i] ELSE Absent
  BY <1>1 DEF Reduite
<1>3. f \in Seq(Transfert \cup {Absent}) /\ Len(f) = Len(s)
  BY <1>1, <1>2, Suites
<1>4. ASSUME NEW i \in 1..Len(s), f[i] # Absent
      PROVE  f[i] = s[i] /\ s[i] \in Transfert /\ s[i].source \notin cs /\ s[i].cible \notin cs
  <2>1. Concernes(s[i]) \cap cs = {} /\ f[i] = s[i]
    BY <1>2, <1>4
  <2>2. s[i] # Absent /\ s[i] \in Transfert
    BY <1>1, <1>4, <2>1
  <2>3. Concernes(s[i]) = {s[i].source, s[i].cible}
    BY <2>2 DEF Concernes
  <2> QED
    BY <2>1, <2>2, <2>3
<1>5. ASSUME cs = {}
      PROVE  f = s
  <2>1. \A i \in 1..Len(s) : f[i] = s[i]
    BY <1>2, <1>5
  <2> QED
    BY <1>1, <1>2, <2>1
<1> QED
  BY <1>3, <1>4, <1>5

(* What is left when the rows of js and cs have gone.                       *)
ResteSans(js, cs) ==
  /\ Presents' = Presents \ js
  /\ \A j \in js : jeunes'[j] = Absent
  /\ \A j \in Jeunes \ js : jeunes'[j] = jeunes[j]
  /\ \A j \in Jeunes \ js : cs = {} => transferts'[j] = transferts[j]
  /\ \A c \in Conseillers : Existe(c)' <=> Existe(c) /\ c \notin cs
  /\ \A j \in Jeunes : \A i \in Restants(j)' :
       /\ j \notin js /\ i \in Restants(j) /\ transferts'[j][i] = transferts[j][i]
       /\ transferts[j][i] \in Transfert
       /\ transferts[j][i].source \notin cs /\ transferts[j][i].cible \notin cs
  /\ \A a \in AC : animations'[a] # Absent =>
       animations[a] # Absent /\ animations'[a].jeunes = animations[a].jeunes \ js
  /\ \A l \in Listes : listes'[l] # Absent =>
       /\ listes[l] # Absent /\ listes'[l].jeunes = listes[l].jeunes \ js
       /\ listes'[l].conseiller = listes[l].conseiller /\ listes[l].conseiller \notin cs

LEMMA LignesEffacees ==
  ASSUME Types, NEW js \in SUBSET Jeunes, NEW cs \in SUBSET Conseillers, Effacer(js, cs)
  PROVE  /\ jeunes' \in [Jeunes -> LigneJeune \cup {Absent}]
         /\ transferts' \in [Jeunes -> Seq(Transfert \cup {Absent})]
         /\ conseillers' \in [Conseillers -> Agences \cup {Aucun, Absent}]
         /\ animations' \in [AC -> Animation \cup {Absent}]
         /\ listes' \in [Listes -> Liste \cup {Absent}]
         /\ ResteSans(js, cs)
<1>1. /\ jeunes' = [j \in Jeunes |-> IF j \in js THEN Absent ELSE jeunes[j]]
      /\ conseillers' = [c \in Conseillers |-> IF c \in cs THEN Absent ELSE conseillers[c]]
      /\ transferts' = [j \in Jeunes |->
           IF j \in js THEN <<>>
           ELSE [i \in 1..Len(transferts[j]) |->
                   IF Concernes(transferts[j][i]) \cap cs = {} THEN transferts[j][i] ELSE Absent]]
      /\ listes' = [l \in Listes |->
           IF listes[l] = Absent THEN Absent
           ELSE IF listes[l].conseiller \in cs THEN Absent
           ELSE [listes[l] EXCEPT !.jeunes = @ \ js]]
      /\ animations' = [a \in AC |->
           IF animations[a] = Absent THEN Absent ELSE [animations[a] EXCEPT !.jeunes = @ \ js]]
  BY DEF Effacer
<1>2. /\ jeunes' \in [Jeunes -> LigneJeune \cup {Absent}] /\ Presents' = Presents \ js
      /\ \A j \in js : jeunes'[j] = Absent
      /\ \A j \in Jeunes \ js : jeunes'[j] = jeunes[j]
  BY <1>1 DEF Types, Presents
<1>3. /\ conseillers' \in [Conseillers -> Agences \cup {Aucun, Absent}]
      /\ \A c \in Conseillers : Existe(c)' <=> Existe(c) /\ c \notin cs
  BY <1>1 DEF Types, Existe
<1>4. ASSUME NEW j \in Jeunes
      PROVE  /\ transferts'[j] \in Seq(Transfert \cup {Absent})
             /\ j \notin js /\ cs = {} => transferts'[j] = transferts[j]
             /\ \A i \in Restants(j)' :
                  /\ j \notin js /\ i \in Restants(j) /\ transferts'[j][i] = transferts[j][i]
                  /\ transferts[j][i] \in Transfert
                  /\ transferts[j][i].source \notin cs /\ transferts[j][i].cible \notin cs
  <2>1. CASE j \in js
    <3>1. transferts'[j] = <<>>
      BY <1>1, <2>1
    <3>2. Len(transferts'[j]) = 0
      BY <3>1, EmptySeq
    <3>3. Restants(j)' = {}
      BY <3>2 DEF Restants
    <3>4. <<>> \in Seq(Transfert \cup {Absent})
      BY EmptySeq
    <3> QED
      BY <2>1, <3>1, <3>3, <3>4
  <2>2. CASE j \notin js
    <3>1. PICK s \in Seq(Transfert \cup {Absent}) : s = transferts[j]
      BY DEF Types
    <3>2. PICK f : f = transferts'[j]
      OBVIOUS
    <3>3. f = Reduite(s, cs)
      BY <1>1, <2>2, <3>1, <3>2 DEF Reduite
    <3>4. /\ f \in Seq(Transfert \cup {Absent}) /\ Len(f) = Len(s)
          /\ \A i \in 1..Len(s) : f[i] # Absent =>
              f[i] = s[i] /\ s[i] \in Transfert /\ s[i].source \notin cs /\ s[i].cible \notin cs
          /\ cs = {} => f = s
      BY <3>3, HistoireReduite
    <3>5. /\ Restants(j)' = {i \in 1..Len(f) : f[i] # Absent}
          /\ Restants(j) = {i \in 1..Len(s) : s[i] # Absent}
      BY <3>1, <3>2 DEF Restants
    <3>6. \A i \in Restants(j)' : i \in 1..Len(s) /\ f[i] # Absent
      BY <3>4, <3>5
    <3> QED
      BY <2>2, <3>1, <3>2, <3>4, <3>5, <3>6
  <2> QED
    BY <2>1, <2>2
<1>5. transferts' \in [Jeunes -> Seq(Transfert \cup {Absent})]
  <2> DEFINE h == [j \in Jeunes |->
           IF j \in js THEN <<>>
           ELSE [i \in 1..Len(transferts[j]) |->
                   IF Concernes(transferts[j][i]) \cap cs = {} THEN transferts[j][i] ELSE Absent]]
  <2>1. transferts' = h /\ DOMAIN h = Jeunes
    BY <1>1
  <2>2. h = [j \in Jeunes |-> h[j]]
    OBVIOUS
  <2> HIDE DEF h
  <2> QED
    BY <1>4, <2>1, <2>2
<1>6. ASSUME NEW a \in AC
      PROVE  /\ animations'[a] \in Animation \cup {Absent}
             /\ animations'[a] # Absent =>
                  animations[a] # Absent /\ animations'[a].jeunes = animations[a].jeunes \ js
  <2>1. animations[a] # Absent => animations[a] \in Animation
    BY DEF Types
  <2>2. animations'[a] = IF animations[a] = Absent THEN Absent
                         ELSE [animations[a] EXCEPT !.jeunes = @ \ js]
    BY <1>1
  <2>3. \A r \in Animation : [r EXCEPT !.jeunes = @ \ js] \in Animation
                             /\ [r EXCEPT !.jeunes = @ \ js].jeunes = r.jeunes \ js
    BY DEF Animation
  <2> QED
    BY <2>1, <2>2, <2>3
<1>7. ASSUME NEW l \in Listes
      PROVE  /\ listes'[l] \in Liste \cup {Absent}
             /\ listes'[l] # Absent =>
                  /\ listes[l] # Absent /\ listes'[l].jeunes = listes[l].jeunes \ js
                  /\ listes'[l].conseiller = listes[l].conseiller /\ listes[l].conseiller \notin cs
  <2>1. listes[l] # Absent => listes[l] \in Liste
    BY DEF Types
  <2>2. listes'[l] = IF listes[l] = Absent THEN Absent
                     ELSE IF listes[l].conseiller \in cs THEN Absent
                     ELSE [listes[l] EXCEPT !.jeunes = @ \ js]
    BY <1>1
  <2>3. \A r \in Liste : /\ [r EXCEPT !.jeunes = @ \ js] \in Liste
                         /\ [r EXCEPT !.jeunes = @ \ js].jeunes = r.jeunes \ js
                         /\ [r EXCEPT !.jeunes = @ \ js].conseiller = r.conseiller
    BY DEF Liste
  <2> QED
    BY <2>1, <2>2, <2>3
<1>8. animations' \in [AC -> Animation \cup {Absent}]
  <2>1. animations' = [a \in AC |-> animations'[a]]
    BY <1>1
  <2> QED
    BY <1>6, <2>1
<1>9. listes' \in [Listes -> Liste \cup {Absent}]
  <2>1. listes' = [l \in Listes |-> listes'[l]]
    BY <1>1
  <2> QED
    BY <1>7, <2>1
<1>10. \A j \in Jeunes : \A i \in Restants(j)' :
              /\ j \notin js /\ i \in Restants(j) /\ transferts'[j][i] = transferts[j][i]
              /\ transferts[j][i] \in Transfert
              /\ transferts[j][i].source \notin cs /\ transferts[j][i].cible \notin cs
  BY <1>4
<1>11. \A j \in Jeunes \ js : cs = {} => transferts'[j] = transferts[j]
  BY <1>4
<1>12. /\ \A a \in AC : animations'[a] # Absent =>
              animations[a] # Absent /\ animations'[a].jeunes = animations[a].jeunes \ js
       /\ \A l \in Listes : listes'[l] # Absent =>
              /\ listes[l] # Absent /\ listes'[l].jeunes = listes[l].jeunes \ js
              /\ listes'[l].conseiller = listes[l].conseiller /\ listes[l].conseiller \notin cs
  BY <1>6, <1>7
<1>13. ResteSans(js, cs)
  BY <1>2, <1>3, <1>10, <1>11, <1>12 DEF ResteSans
<1> QED
  BY <1>2, <1>3, <1>5, <1>8, <1>9, <1>13

LEMMA EffacerReferences ==
  ASSUME Types, References, NEW js \in SUBSET Jeunes, NEW cs \in SUBSET Conseillers,
         Effacer(js, cs), \A c \in cs : SuivisPar(c) \subseteq js /\ Origine(c) \subseteq js
  PROVE  References'
<1>0. ResteSans(js, cs)
  BY LignesEffacees
<1>1. ASSUME NEW j \in Presents'
      PROVE  Nommes(jeunes[j])'
  <2>1. j \in Jeunes \ js /\ j \in Presents /\ jeunes'[j] = jeunes[j] /\ jeunes[j] \in LigneJeune
    BY <1>0, <1>1 DEF ResteSans, Presents, Types
  <2>2. Nommes(jeunes[j]) /\ jeunes[j].conseiller \in Conseillers
        /\ jeunes[j].initial \in Conseillers \cup {Aucun}
    BY <2>1 DEF References, LigneJeune
  <2>3. jeunes[j].conseiller \notin cs /\ jeunes[j].initial \notin cs
    BY <2>1 DEF SuivisPar, Origine
  <2>4. \A c \in Conseillers : Existe(c) /\ c \notin cs => Existe(c)'
    BY <1>0 DEF ResteSans
  <2> QED
    BY <2>1, <2>2, <2>3, <2>4 DEF Nommes
<1>2. ASSUME NEW j \in Jeunes, NEW i \in Restants(j)'
      PROVE  /\ j \in Presents'
             /\ Existe(transferts[j][i].source)' /\ Existe(transferts[j][i].cible)'
  <2>1. /\ j \notin js /\ i \in Restants(j) /\ transferts'[j][i] = transferts[j][i]
        /\ transferts[j][i] \in Transfert
        /\ transferts[j][i].source \notin cs /\ transferts[j][i].cible \notin cs
    BY <1>0 DEF ResteSans
  <2>2. /\ j \in Presents /\ Existe(transferts[j][i].source) /\ Existe(transferts[j][i].cible)
        /\ transferts[j][i].source \in Conseillers /\ transferts[j][i].cible \in Conseillers
    BY <2>1 DEF References, Transfert
  <2>3. \A c \in Conseillers : Existe(c) /\ c \notin cs => Existe(c)'
    BY <1>0 DEF ResteSans
  <2>4. Presents' = Presents \ js
    BY <1>0 DEF ResteSans
  <2>5. /\ conseillers'[transferts[j][i].source] # Absent
        /\ conseillers'[transferts[j][i].cible] # Absent
    BY <2>1, <2>2, <2>3 DEF Existe
  <2> QED
    BY <2>1, <2>2, <2>4, <2>5 DEF Existe
<1>3. ASSUME NEW a \in AC, animations'[a] # Absent
      PROVE  animations'[a].jeunes \subseteq Presents'
  <2>1. animations[a] # Absent /\ animations'[a].jeunes = animations[a].jeunes \ js
        /\ Presents' = Presents \ js
    BY <1>0, <1>3 DEF ResteSans
  <2>2. animations[a].jeunes \subseteq Presents
    BY <2>1 DEF References
  <2> QED
    BY <2>1, <2>2
<1>4. ASSUME NEW l \in Listes, listes'[l] # Absent
      PROVE  listes'[l].jeunes \subseteq Presents' /\ Existe(listes[l].conseiller)'
  <2>1. /\ listes[l] # Absent /\ listes'[l].jeunes = listes[l].jeunes \ js
        /\ listes'[l].conseiller = listes[l].conseiller /\ listes[l].conseiller \notin cs
        /\ Presents' = Presents \ js
    BY <1>0, <1>4 DEF ResteSans
  <2>2. /\ listes[l].jeunes \subseteq Presents /\ Existe(listes[l].conseiller)
        /\ listes[l].conseiller \in Conseillers
    BY <2>1 DEF References, Types, Liste
  <2>3. \A c \in Conseillers : Existe(c) /\ c \notin cs => Existe(c)'
    BY <1>0 DEF ResteSans
  <2> QED
    BY <2>1, <2>2, <2>3
<1>5. /\ \A j \in Presents' : Nommes(jeunes[j])'
      /\ \A j \in Jeunes : \A i \in Restants(j)' :
           j \in Presents' /\ Existe(transferts[j][i].source)' /\ Existe(transferts[j][i].cible)'
      /\ \A a \in AC : animations'[a] # Absent => animations'[a].jeunes \subseteq Presents'
      /\ \A l \in Listes : listes'[l] # Absent =>
           listes'[l].jeunes \subseteq Presents' /\ Existe(listes[l].conseiller)'
  BY <1>1, <1>2, <1>3, <1>4
<1> QED
  BY <1>5 DEF References

LEMMA DetruireJeuneInv ==
  ASSUME Inv, NEW o \in Ops, DetruireJeune(o)
  PROVE  Inv'
<1>1. PICK w \in ops[o].ecritures :
        /\ w.table = "suppression jeune"
        /\ Effacer({w.id}, {})
        /\ archivees' = archivees \cup
             {j \in {w.id} \cap Presents : ops[o].cmd # "supprimerJeune"}
        /\ Ecrire(o, w, Sur("suppression chat", {w.id}))
        /\ UNCHANGED <<chats, comptes, archives>>
  BY DEF DetruireJeune, EnAttente
<1>2. w.id \in Jeunes
  BY <1>1, EcritureTypes DEF Inv, Types, Operation, Effacements
<1> DEFINE v == [table |-> "suppression chat", id |-> w.id]
<1>3. v \in Ecriture /\ v.table = "suppression chat" /\ v.id = w.id
  BY <1>2, EcrituresDeJeunes DEF Effacements
<1>4. Sur("suppression chat", {w.id}) = {v}
  BY DEF Sur
<1> HIDE DEF v
<1>5. PICK suites : suites = {v}
  OBVIOUS
<1>6. \A u \in suites : u \in Ecriture /\ u.table \in Effacements /\ u.id = w.id
  BY <1>3, <1>5 DEF Effacements
<1>7. w.table \in Effacements /\ Ecrire(o, w, suites)
  BY <1>1, <1>4, <1>5 DEF Effacements
<1>8. PICK q \in Operation, x \in Jeunes : Efface(o, q, x, w, suites)
  BY <1>6, <1>7, EffacementFait
<1>9. /\ Pas(o, q) /\ Depart(ops[o], x) /\ w.id = x /\ v \in q.ecritures
      /\ q.cmd = ops[o].cmd /\ q.messages = ops[o].messages /\ q.etape = "fin"
      /\ q.cmd \in Departs /\ q # Libre /\ ops[o].etape = "fin" /\ ops[o].cmd \in Departs
      /\ ops[o].ecrit = {x} /\ Pareille(ops[o], q) /\ perturbes' = perturbes
  BY <1>5, <1>8, LibreOperation DEF Efface, Depart
<1>10. \A t : Reste(q, t, x) => Reste(ops[o], t, x) \/ t = "suppression chat"
  <2>1. \A u \in suites : u.table = "suppression chat"
    BY <1>3, <1>5
  <2>2. \A t : Reste(q, t, x) => Reste(ops[o], t, x) \/ \E u \in suites : u.table = t
    BY <1>8, EffaceRestes
  <2> QED
    BY <2>1, <2>2
<1>11. Reste(q, "suppression chat", x) /\ Reste(ops[o], "suppression jeune", x)
  BY <1>1, <1>3, <1>9 DEF Reste
<1>12. Reste(ops[o], "archive", x) => Reste(q, "archive", x)
  <2>1. "archive" # w.table /\ Reste(ops[o], "archive", x) => Reste(q, "archive", x)
    BY <1>8, EffaceRestes
  <2> QED
    BY <1>1, <2>1
<1>13. PICK js \in SUBSET Jeunes, cs \in SUBSET Conseillers : js = {x} /\ cs = {}
  OBVIOUS
<1>14. Effacer(js, cs)
  BY <1>1, <1>9, <1>13
<1>15. Types /\ References
  BY DEF Inv
<1>16. ResteSans(js, cs)
  BY <1>14, <1>15, LignesEffacees
<1>17. Types'
  <2>1. /\ jeunes' \in [Jeunes -> LigneJeune \cup {Absent}]
        /\ transferts' \in [Jeunes -> Seq(Transfert \cup {Absent})]
        /\ conseillers' \in [Conseillers -> Agences \cup {Aucun, Absent}]
        /\ animations' \in [AC -> Animation \cup {Absent}]
        /\ listes' \in [Listes -> Liste \cup {Absent}]
    BY <1>14, <1>15, LignesEffacees
  <2>2. ops' \in [Ops -> Operation]
    BY <1>9, <1>15, PasOps
  <2>3. archivees' \subseteq Jeunes
    BY <1>1, <1>2, <1>15 DEF Types
  <2> QED
    BY <1>1, <1>9, <1>15, <2>1, <2>2, <2>3 DEF Types
<1>18. References'
  <2>1. \A c \in cs : SuivisPar(c) \subseteq js /\ Origine(c) \subseteq js
    BY <1>13
  <2> QED
    BY <1>14, <1>15, <2>1, EffacerReferences
<1>19. \A c \in Conseillers : Existe(c)' <=> Existe(c)
  BY <1>13, <1>16 DEF ResteSans
<1>20. /\ jeunes'[x] = Absent /\ x \notin Presents'
       /\ Presents' = Presents \ {x}
       /\ \A j \in Jeunes \ {x} : jeunes'[j] = jeunes[j] /\ transferts'[j] = transferts[j]
  BY <1>13, <1>16 DEF ResteSans
<1>21. \A j \in Jeunes \ {x} : MemeJeune(j)
  <2>1. TousLa' => TousLa
    BY <1>9, <1>19 DEF TousLa
  <2>2. \A j \in Jeunes \ {x} : j \in archivees' <=> j \in archivees
    BY <1>1, <1>9
  <2>3. \A j \in Jeunes \ {x} : j \in Presents' <=> j \in Presents
    BY <1>20
  <2> QED
    BY <1>1, <1>20, <2>1, <2>2, <2>3 DEF MemeJeune, MemeSuivi, MemeDossier
<1>22. ASSUME x \notin perturbes
       PROVE  Jeune(x)'
  <2>1. Suivie(x)'
    BY <1>9, <1>20, <1>22, SuivieApresDepart
  <2>2. Inscrite(x)'
    BY <1>1, <1>9, <1>20, <1>22, InscriteDepart
  <2>3. Effacee(x)'
    BY <1>9, <1>11, <1>20, <1>22, EffaceeDepart
  <2>4. Lus(q, x)'
    <3>1. Lus(ops[o], x)
      BY <1>22 DEF Inv, Jeune, Archivee
    <3>2. Reste(q, "suppression archives", x) => Reste(ops[o], "suppression archives", x)
      BY <1>10
    <3>3. Reste(q, "archive", x) => Reste(ops[o], "archive", x)
      BY <1>10
    <3> QED
      BY <1>9, <3>1, <3>2, <3>3 DEF Lus, Reste
  <2>5. FALSE \notin archives'[x]
    BY <1>1, <1>22 DEF Inv, Jeune, Archivee
  <2>6. x \in archivees' => \/ x \in archivees
                            \/ x \in Presents /\ ops[o].cmd # "supprimerJeune"
    BY <1>1, <1>9
  <2>7. x \in archivees => x \in archivees'
    BY <1>1
  <2>8. Archivee(x)'
    BY <1>1, <1>9, <1>11, <1>12, <1>20, <1>22, <2>4, <2>5, <2>6, <2>7, ArchiveeDepart
  <2> QED
    BY <2>1, <2>2, <2>3, <2>8 DEF Jeune
<1> QED
  BY <1>1, <1>9, <1>17, <1>18, <1>19, <1>20, <1>21, <1>22, PasDepart

(* The deletion of a counsellor is one write, determined by the counsellor. *)
LEMMA SeulementUnId ==
  ASSUME NEW u \in Ecriture, u.table = "suppression conseiller"
  PROVE  u = [table |-> "suppression conseiller", id |-> u.id]
<1>1. u \in [table : {"suppression conseiller"}, id : Conseillers]
      => u = [table |-> "suppression conseiller", id |-> u.id]
  OBVIOUS
<1>2. /\ u \in [table : {"chat"}, ligne : Transfert, lignes : SUBSET Rang(LigneJeune)]
           => u.table = "chat"
      /\ u \in [table : {"transfert"}, ids : SUBSET Jeunes, ligne : Transfert]
           => u.table = "transfert"
      /\ u \in [table : {"jeune"}, source : Conseillers \cup {Aucun}, id : Jeunes, ligne : LigneJeune]
           => u.table = "jeune"
      /\ u \in [table : {"animation"}, id : AC, lignes : Seq(Animation) \ {<<>>}]
           => u.table = "animation"
      /\ u \in [table : {"liste"}, id : Listes, ligne : Liste] => u.table = "liste"
      /\ u \in [table : {"membres"}, id : Listes, jeunes : SUBSET Jeunes, ajout : BOOLEAN]
           => u.table = "membres"
      /\ u \in [table : {"conseiller"}, id : Conseillers, agence : Agences \cup {Aucun}]
           => u.table = "conseiller"
      /\ u \in [table : {"suppression liste"}, id : Listes] => u.table = "suppression liste"
      /\ u \in [table : Effacements, id : Jeunes] => u.table \in Effacements
  OBVIOUS
<1>3. \/ u \in [table : {"chat"}, ligne : Transfert, lignes : SUBSET Rang(LigneJeune)]
      \/ u \in [table : {"transfert"}, ids : SUBSET Jeunes, ligne : Transfert]
      \/ u \in [table : {"jeune"}, source : Conseillers \cup {Aucun}, id : Jeunes, ligne : LigneJeune]
      \/ u \in [table : {"animation"}, id : AC, lignes : Seq(Animation) \ {<<>>}]
      \/ u \in [table : {"liste"}, id : Listes, ligne : Liste]
      \/ u \in [table : {"membres"}, id : Listes, jeunes : SUBSET Jeunes, ajout : BOOLEAN]
      \/ u \in [table : {"conseiller"}, id : Conseillers, agence : Agences \cup {Aucun}]
      \/ u \in [table : {"suppression conseiller"}, id : Conseillers]
      \/ u \in [table : {"suppression liste"}, id : Listes]
      \/ u \in [table : Effacements, id : Jeunes]
  BY Zenon DEF Ecriture, Rang, Effacements
<1>4. "suppression conseiller" \notin Effacements
  BY DEF Effacements
<1> QED
  BY <1>1, <1>2, <1>3, <1>4

(* The last write of a command is the end of it.                            *)
LEMMA DerniereEcriture ==
  ASSUME Types, NEW o \in Ops, NEW w, NEW suites, Ecrire(o, w, suites),
         NEW q, Pas(o, q), ops[o].etape = "fin", q.ecritures = {}
  PROVE  q = Libre
<1> DEFINE op == [ops[o] EXCEPT !.ecritures = (ops[o].ecritures \ {w}) \cup suites]
<1>1. ops[o] \in Operation /\ ops'[o] = q
  BY PasOps
<1>2. op.etape = "fin"
  BY <1>1 DEF Operation
<1>3. ops'[o] = Poursuivre(op)
  BY DEF Ecrire, Types
<1> HIDE DEF op
<1>4. ~ResteAFaire(op)
  BY <1>2 DEF ResteAFaire
<1> QED
  BY <1>1, <1>3, <1>4 DEF Poursuivre

LEMMA DetruireConseillerFait ==
  ASSUME Inv, NEW o \in Ops, DetruireConseiller(o)
  PROVE  \E w \in ops[o].ecritures, q \in Operation, c \in Conseillers, js \in SUBSET Jeunes,
            cs \in SUBSET Conseillers :
           /\ w.table = "suppression conseiller" /\ w.id = c
           /\ \E suites : suites = {} /\ Ecrit(o, q, w, suites)
           /\ js = SuivisPar(c) /\ cs = {c} /\ Origine(c) \subseteq js
           /\ Effacer(js, cs)
           /\ UNCHANGED <<chats, comptes, archives, archivees>>
           /\ ops[o].cmd = "supprimerConseiller" /\ ops[o].etape = "fin" /\ ops[o].qui = c
           /\ c \in ops[o].ecrit
           /\ q.ecritures = {} => q = Libre
<1>1. PICK w \in ops[o].ecritures :
        /\ w.table = "suppression conseiller"
        /\ Effacer(EmportesPar(w.id), {w.id})
        /\ Ecrire(o, w, {})
        /\ UNCHANGED <<chats, comptes, archivage>>
  BY DEF DetruireConseiller, EnAttente
<1>2. ops[o] \in Operation /\ Reguliere(ops[o]) /\ Types
  BY DEF Inv, Types
<1>3. Annoncee(ops[o], w) /\ w \in Ecriture
  BY <1>2 DEF Reguliere, Operation
<1>4. PICK c \in Conseillers : c = w.id
  BY <1>1, <1>3, EcritureTypes
<1>5. ops[o].cmd = "supprimerConseiller" /\ ops[o].etape = "fin" /\ ops[o].qui = c
  BY <1>1, <1>3, <1>4 DEF Annoncee
<1>6. c \in ops[o].ecrit
  BY <1>2, <1>5 DEF Reguliere
<1>7. PICK js \in SUBSET Jeunes, cs \in SUBSET Conseillers : js = SuivisPar(c) /\ cs = {c}
  BY <1>2, <1>4 DEF SuivisPar, Presents
<1>8. Effacer(js, cs)
  BY <1>1, <1>4, <1>7 DEF EmportesPar
<1>9. Possible(w)
  BY <1>1 DEF Ecrire
<1>10. Origine(c) \subseteq js
  BY <1>1, <1>4, <1>7, <1>9 DEF Possible
<1>11. PICK suites : suites = {}
  OBVIOUS
<1>12. suites \in SUBSET Ecriture
       /\ \A v \in suites : v.table \in Tables(ops[o]) /\ v.table # "chat" /\ Annoncee(ops[o], v)
  BY <1>11
<1>13. Ecrire(o, w, suites)
  BY <1>1, <1>11
<1>14. PICK q \in Operation : Ecrit(o, q, w, suites)
  BY <1>12, <1>13, EcritureFaite
<1>15. Pas(o, q)
  BY <1>14 DEF Ecrit
<1>16. q.ecritures = {} => q = Libre
  BY <1>2, <1>5, <1>13, <1>15, DerniereEcriture
<1>17. UNCHANGED <<chats, comptes, archives, archivees>>
  BY <1>1 DEF archivage
<1> QED
  BY <1>1, <1>4, <1>5, <1>6, <1>7, <1>8, <1>10, <1>11, <1>14, <1>16, <1>17

LEMMA DetruireConseillerInv ==
  ASSUME Inv, NEW o \in Ops, DetruireConseiller(o)
  PROVE  Inv'
<1>1. PICK w \in ops[o].ecritures, q \in Operation, c \in Conseillers, js \in SUBSET Jeunes,
            cs \in SUBSET Conseillers :
           /\ w.table = "suppression conseiller" /\ w.id = c
           /\ \E suites : suites = {} /\ Ecrit(o, q, w, suites)
           /\ js = SuivisPar(c) /\ cs = {c} /\ Origine(c) \subseteq js
           /\ Effacer(js, cs)
           /\ UNCHANGED <<chats, comptes, archives, archivees>>
           /\ ops[o].cmd = "supprimerConseiller" /\ ops[o].etape = "fin" /\ ops[o].qui = c
           /\ c \in ops[o].ecrit
           /\ q.ecritures = {} => q = Libre
  BY DetruireConseillerFait
<1>2. PICK suites : suites = {} /\ Ecrit(o, q, w, suites)
  BY <1>1
<1>3. /\ Pas(o, q) /\ perturbes' = perturbes /\ q.ecritures = ops[o].ecritures \ {w}
      /\ q = Libre \/ MemesChamps(ops[o], q)
  BY <1>2 DEF Ecrit
<1>4. Pareille(ops[o], q)
  BY <1>2, EcritPareille
<1>5. Types /\ References /\ Reguliere(ops[o]) /\ Isolement /\ Abandonnes
  BY DEF Inv
<1>6. ResteSans(js, cs)
  BY <1>1, <1>5, LignesEffacees
<1>7. /\ Presents' = Presents \ js
      /\ \A j \in js : jeunes'[j] = Absent
      /\ \A j \in Jeunes \ js : jeunes'[j] = jeunes[j]
      /\ \A d \in Conseillers : Existe(d)' <=> Existe(d) /\ d # c
  BY <1>1, <1>6 DEF ResteSans
<1>8. Types'
  <2>1. /\ jeunes' \in [Jeunes -> LigneJeune \cup {Absent}]
        /\ transferts' \in [Jeunes -> Seq(Transfert \cup {Absent})]
        /\ conseillers' \in [Conseillers -> Agences \cup {Aucun, Absent}]
        /\ animations' \in [AC -> Animation \cup {Absent}]
        /\ listes' \in [Listes -> Liste \cup {Absent}]
    BY <1>1, <1>5, LignesEffacees
  <2>2. ops' \in [Ops -> Operation]
    BY <1>3, <1>5, PasOps
  <2> QED
    BY <1>1, <1>3, <1>5, <2>1, <2>2 DEF Types
<1>9. References'
  <2>1. \A d \in cs : SuivisPar(d) \subseteq js /\ Origine(d) \subseteq js
    BY <1>1
  <2> QED
    BY <1>1, <1>5, <2>1, EffacerReferences
<1>10. Respecte(ops[o])
  <2>1. \A j \in Presents : j \in js => jeunes[j].conseiller \in ops[o].ecrit
    BY <1>1 DEF SuivisPar
  <2>2. \A j \in Presents : j \in Jeunes
    BY DEF Presents
  <2>3. \A j \in Jeunes : jeunes'[j] # Absent => jeunes'[j] = jeunes[j] /\ j \in Presents
    BY <1>7 DEF Presents
  <2> QED
    BY <1>1, <1>7, <2>1, <2>2, <2>3 DEF Respecte
<1>11. c \notin perturbes => q = Libre
  <2>1. Saine(o) \/ c \in perturbes
    BY <1>1 DEF Saine, Objet
  <2>2. Saine(o) => \A v \in ops[o].ecritures : v.table = "suppression conseiller"
    BY <1>1 DEF Inv, Lectures, Liberes
  <2>3. \A v \in ops[o].ecritures : v.table = "suppression conseiller" => v = w
    <3>1. SUFFICES ASSUME NEW v \in ops[o].ecritures, v.table = "suppression conseiller"
                   PROVE  v = w
      OBVIOUS
    <3>2. v \in Ecriture /\ w \in Ecriture
      BY <1>5 DEF Types, Operation
    <3>3. \A u \in Ecriture : u.table = "suppression conseiller" =>
            u = [table |-> "suppression conseiller", id |-> u.id]
      BY SeulementUnId
    <3>4. v.id = c /\ w.id = c
      BY <1>1, <1>5, <3>1 DEF Reguliere, Annoncee
    <3> QED
      BY <1>1, <3>1, <3>2, <3>3, <3>4
  <2> QED
    BY <1>1, <1>3, <2>1, <2>2, <2>3
<1>12. Saine(o)' => c \notin perturbes /\ q # Libre
  <2>1. ops'[o] = q
    BY <1>3, <1>5, PasOps
  <2>2. q = Libre => Objet(q) = {}
    BY LibreOperation DEF Objet
  <2>3. MemesChamps(ops[o], q) => Objet(q) = {c}
    BY <1>1 DEF MemesChamps, Objet
  <2> QED
    BY <1>3, <2>1, <2>2, <2>3 DEF Saine
<1>13. ~Saine(o)'
  BY <1>11, <1>12
<1>14. ASSUME q.cmd = "supprimerConseiller"
       PROVE  /\ \A j \in Jeunes :
                   jeunes'[j] # Absent /\ jeunes'[j].conseiller = q.qui => j \in perturbes'
              /\ \A v \in q.ecritures :
                   v.table = "jeune" => v.ligne.conseiller # q.qui \/ v.id \in perturbes'
  <2>1. q.qui = c
    BY <1>1, <1>3, <1>14, LibreOperation DEF MemesChamps
  <2>2. \A j \in Jeunes : jeunes'[j] # Absent => jeunes'[j].conseiller # c
    BY <1>1, <1>7 DEF SuivisPar, Presents
  <2> QED
    BY <1>1, <1>3, <1>5, <2>1, <2>2 DEF Abandonnes
<1>15. ASSUME NEW j \in Jeunes \ perturbes'
       PROVE  Jeune(j)'
  <2>1. j \notin js /\ j \notin perturbes
    BY <1>1, <1>3, <1>5, <1>15 DEF Abandonnes
  <2>2. ~TousLa'
    BY <1>7 DEF TousLa
  <2>3. MemeJeune(j)
    BY <1>1, <1>7, <2>1, <2>2 DEF MemeJeune, MemeSuivi, MemeDossier
  <2>4. Reguliere(q) /\ ops[o].cmd \notin Departs /\ q.cmd \notin Departs
    BY <1>1, <1>3, LibreOperation DEF Pas, MemesChamps, Departs
  <2>5. SansDepart(ops[o], j) /\ SansDepart(q, j)
    BY <1>5, <2>4, SansDepartAilleurs
  <2>6. MemesEcritures(ops[o], q, j)
    <3>1. ~Concerne(w, j)
      BY <1>1 DEF Concerne, SurChat, SurRang, SurTrace
    <3>2. \A v \in q.ecritures : v \in ops[o].ecritures /\ q.cmd = ops[o].cmd
      BY <1>3, LibreOperation DEF MemesChamps
    <3> QED
      BY <1>3, <3>1, <3>2 DEF MemesEcritures
  <2>7. Jeune(j)
    BY <2>1 DEF Inv
  <2> QED
    BY <1>3, <1>5, <2>3, <2>5, <2>6, <2>7, JeuneSuit DEF MemeVue
<1>16. ASSUME NEW d \in Conseillers \ perturbes'
       PROVE  Inscrit(d)'
  <2>1. Inscrit(d) /\ d \notin perturbes
    BY <1>3, <1>16 DEF Inv
  <2>2. CASE d # c
    <3>1. Existe(d)' <=> Existe(d)
      BY <1>7, <2>2
    <3>2. d \in q.ecrit => d \in ops[o].ecrit
      BY <1>3, LibreOperation DEF MemesChamps
    <3>3. ~Finit(q, d) /\ ~Finit(ops[o], d)
      BY <1>1, <1>3, <2>2, LibreOperation DEF Finit, MemesChamps
    <3> QED
      BY <1>1, <1>3, <1>5, <2>1, <3>1, <3>2, <3>3, InscritSuit
  <2>3. CASE d = c
    <3>1. q = Libre
      BY <1>11, <2>1, <2>3
    <3>2. ops'[o].ecrit = {}
      BY <1>3, <1>5, <3>1, PasOps, LibreOperation
    <3>3. \A p \in Ops \ {o} : ops'[p].ecrit = ops[p].ecrit
      BY <1>3, <1>5, PasOps
    <3>4. \A p \in Ops \ {o} : c \notin ops[p].ecrit
      <4>1. SUFFICES ASSUME NEW p \in Ops \ {o}, c \in ops[p].ecrit
                     PROVE  FALSE
        OBVIOUS
      <4>2. ops[o].cmd \notin Departs
        BY <1>1 DEF Departs
      <4>3. o = p
        BY <1>1, <1>5, <2>1, <2>3, <4>1, <4>2, Seule
      <4> QED
        BY <4>1, <4>3
    <3>5. c \notin comptes' /\ ~Existe(c)'
      BY <1>1, <1>7, <2>1, <2>3 DEF Inscrit
    <3> QED
      BY <2>3, <3>2, <3>3, <3>4, <3>5 DEF Inscrit
  <2> QED
    BY <2>2, <2>3
<1> QED
  BY <1>3, <1>4, <1>8, <1>9, <1>10, <1>13, <1>14, <1>15, <1>16, PasInv

-----------------------------------------------------------------------------
(* Failures                                                                 *)

LEMMA DonneesGardees ==
  ASSUME UNCHANGED donnees
  PROVE  /\ UNCHANGED <<jeunes, chats, transferts, conseillers, comptes, animations, listes,
                        archives, archivees>>
         /\ Presents' = Presents /\ \A c : Existe(c)' <=> Existe(c)
BY DEF donnees, archivage, Presents, Existe

(* A command that goes no further leaves what it does not write.            *)
LEMMA JeuneEpargne ==
  ASSUME Inv, NEW o \in Ops, NEW q, Pas(o, q), Pareille(ops[o], q), UNCHANGED donnees,
         NEW j \in Jeunes, j \notin perturbes', j \notin ops[o].ecrit
  PROVE  Jeune(j)'
<1>1. j \notin q.ecrit
  BY LibreOperation DEF Pareille
<1>2. Types /\ Reguliere(ops[o]) /\ Reguliere(q)
  BY DEF Inv, Pas
<1>3. MemeVue(ops[o], q, j)
  BY <1>1, <1>2, MemeVueAilleurs
<1>4. MemeJeune(j)
  BY DonneesGardees DEF MemeJeune, MemeSuivi, MemeDossier, TousLa, Pas
<1>5. Jeune(j)
  BY DEF Inv, Pas
<1> QED
  BY <1>2, <1>3, <1>4, <1>5, JeuneSuit

LEMMA InterruptionInv ==
  ASSUME Inv, NEW o \in Ops, NEW q, Pas(o, q), Pareille(ops[o], q), UNCHANGED donnees,
         perturbes' \subseteq Entites,
         Saine(o)' => Lues(ops[o])' /\ q.cmd # "supprimerConseiller",
         q.cmd = "supprimerConseiller" =>
           q.qui = ops[o].qui /\ \A w \in q.ecritures : w \in ops[o].ecritures,
         \A c \in Conseillers \ perturbes' : Finit(q, c) <=> Finit(ops[o], c),
         \A j \in Jeunes \ perturbes' : j \in ops[o].ecrit => Jeune(j)'
  PROVE  Inv'
<1>1. Types /\ References /\ Reguliere(ops[o]) /\ Abandonnes /\ perturbes \subseteq perturbes'
  BY DEF Inv, Pas
<1>2. Types'
  BY <1>1, PasOps, DonneesGardees DEF Types
<1>3. References'
  BY <1>1, DonneesGardees DEF References, Nommes, Existe, Presents, Restants
<1>4. Respecte(ops[o])
  BY RespecteIdentique, DonneesGardees
<1>5. ASSUME q.cmd = "supprimerConseiller"
      PROVE  /\ \A j \in Jeunes :
                  jeunes'[j] # Absent /\ jeunes'[j].conseiller = q.qui => j \in perturbes'
             /\ \A w \in q.ecritures :
                  w.table = "jeune" => w.ligne.conseiller # q.qui \/ w.id \in perturbes'
  <2>1. ops[o].cmd = "supprimerConseiller"
    BY <1>5, LibreOperation DEF Pareille
  <2>2. \A j \in Jeunes : jeunes[j] # Absent /\ jeunes[j].conseiller = q.qui => j \in perturbes
    BY <1>1, <1>5, <2>1 DEF Abandonnes, SuivisPar, Presents
  <2>3. \A w \in q.ecritures :
                  w.table = "jeune" => w.ligne.conseiller # q.qui \/ w.id \in perturbes
    BY <1>1, <1>5, <2>1 DEF Abandonnes
  <2> QED
    BY <1>1, <2>2, <2>3, DonneesGardees
<1>6. ASSUME NEW j \in Jeunes \ perturbes'
      PROVE  Jeune(j)'
  BY <1>6, JeuneEpargne
<1>7. ASSUME NEW c \in Conseillers \ perturbes'
      PROVE  Inscrit(c)'
  <2>1. Inscrit(c)
    BY <1>1, <1>7 DEF Inv
  <2>2. c \in q.ecrit => c \in ops[o].ecrit
    BY LibreOperation DEF Pareille
  <2>3. Finit(q, c) <=> Finit(ops[o], c)
    BY <1>7
  <2>4. (Existe(c)' <=> Existe(c)) /\ (c \in comptes' <=> c \in comptes)
    BY DonneesGardees
  <2> QED
    BY <1>1, <1>7, <2>1, <2>2, <2>3, <2>4, InscritSuit
<1> QED
  BY <1>2, <1>3, <1>4, <1>5, <1>6, <1>7, PasInv

(* All that the command writes is known to be concerned.                    *)
LEMMA MarqueInv ==
  ASSUME Inv, NEW o \in Ops, NEW q, Pas(o, q), Pareille(ops[o], q), UNCHANGED donnees,
         perturbes' = perturbes \cup ops[o].ecrit,
         q.cmd = "supprimerConseiller" =>
           q.qui = ops[o].qui /\ \A w \in q.ecritures : w \in ops[o].ecritures
  PROVE  Inv'
<1>1. Types /\ Reguliere(ops[o]) /\ Reguliere(q)
  BY DEF Inv, Pas
<1>2. ops'[o] = q /\ ops[o] \in Operation
  BY <1>1, PasOps
<1>3. perturbes' \subseteq Entites
  BY <1>1, <1>2 DEF Types, Operation
<1>4. Objet(q) \subseteq q.ecrit
  BY <1>1 DEF Reguliere, Objet
<1>5. q.ecrit \subseteq perturbes'
  BY LibreOperation DEF Pareille
<1>6. ~Saine(o)'
  BY <1>2, <1>4, <1>5 DEF Saine
<1>7. \A c \in Conseillers \ perturbes' : ~Finit(q, c) /\ ~Finit(ops[o], c)
  BY <1>1, <1>5 DEF Finit, Reguliere
<1> QED
  BY <1>3, <1>6, <1>7, InterruptionInv

LEMMA PoursuivreSansArchiveInv ==
  ASSUME Inv, NEW o \in Ops, PoursuivreSansArchive(o)
  PROVE  Inv'
<1>1. Types /\ Reguliere(ops[o]) /\ ops[o] \in Operation
  BY DEF Inv, Types
<1>2. ops[o].cmd = "archiverJeune"
  BY DEF PoursuivreSansArchive, EnArchivage
<1>3. PICK x \in Jeunes : ops[o].jeunes = {x} /\ ops[o].lit = {x} /\ ops[o].ecrit = {x} /\ ops[o].qui = Aucun
  BY <1>1, <1>2, DepartSeul DEF Departs
<1> DEFINE v == [table |-> "suppression jeune", id |-> x]
<1>4. v \in Ecriture /\ v.table = "suppression jeune" /\ v.id = x
  BY EcrituresDeJeunes DEF Effacements
<1>5. Sur("suppression jeune", ops[o].jeunes) = {v}
  BY <1>3 DEF Sur
<1> HIDE DEF v
<1>6. PICK q : q = [ops[o] EXCEPT !.etape = "fin", !.ecritures = {v}]
  OBVIOUS
<1>7. /\ q \in Operation /\ q.cmd = ops[o].cmd /\ q.jeunes = ops[o].jeunes /\ q.lit = ops[o].lit
      /\ q.ecrit = ops[o].ecrit /\ q.ecritures = {v} /\ q.etape = "fin" /\ q.qui = ops[o].qui
  BY <1>1, <1>4, <1>6 DEF Operation
<1>8. Reguliere(q)
  <2>1. \A w \in q.ecritures : w.table \in Tables(q) /\ Annoncee(q, w)
    BY <1>2, <1>3, <1>4, <1>7 DEF Tables, Annoncee, Departs, Effacements
  <2>2. q.etape \in Etapes(q)
    BY <1>2, <1>7 DEF Etapes, Departs
  <2> QED
    BY <1>2, <1>3, <1>7, <2>1, <2>2 DEF Reguliere
<1>9. ops' = [ops EXCEPT ![o] = q] /\ perturbes' = perturbes \cup ops[o].ecrit
      /\ UNCHANGED donnees
  BY <1>5, <1>6 DEF PoursuivreSansArchive
<1>10. Pas(o, q) /\ Pareille(ops[o], q)
  BY <1>7, <1>8, <1>9 DEF Pas, Pareille
<1> QED
  BY <1>2, <1>7, <1>9, <1>10, MarqueInv

LEMMA AbandonInv ==
  ASSUME Inv, NEW o \in Ops, Abandon(o)
  PROVE  Inv'
<1>1. PICK q : q = Libre
  OBVIOUS
<1>2. /\ ops' = [ops EXCEPT ![o] = q] /\ perturbes' = perturbes \cup ops[o].ecrit
      /\ UNCHANGED donnees
  BY <1>1 DEF Abandon
<1>3. Pas(o, q) /\ Pareille(ops[o], q)
  BY <1>1, <1>2, LibreOperation, LibreReguliere DEF Pas, Pareille
<1> QED
  BY <1>1, <1>2, <1>3, LibreOperation, MarqueInv

(* Write w of command o has failed, and o goes on as q.                     *)
Interrompt(o, q, w) ==
  /\ Pas(o, q) /\ Pareille(ops[o], q) /\ UNCHANGED donnees
  /\ w \in ops[o].ecritures /\ q.ecritures = Survivantes(ops[o], w)
  /\ q # Libre => q.cmd = ops[o].cmd /\ q.qui = ops[o].qui /\ q.etape = "fin"

LEMMA SurvivantesRegulieres ==
  ASSUME NEW op, Reguliere(op), NEW w \in op.ecritures, NEW q, q.cmd = op.cmd, q.etape = "fin",
         q.qui = op.qui, q.jeunes = op.jeunes, q.lit = op.lit, q.ecrit = op.ecrit,
         q.nouvelle = op.nouvelle, q.ecritures = Survivantes(op, w)
  PROVE  Reguliere(q)
<1>1. q.ecritures \subseteq op.ecritures \ {w}
  BY DEF Survivantes
<1>2. \A v \in q.ecritures : Annoncee(q, v)
  <2>1. SUFFICES ASSUME NEW v \in q.ecritures
                 PROVE  Annoncee(q, v)
    OBVIOUS
  <2>2. Annoncee(op, v)
    BY <1>1, <2>1 DEF Reguliere
  <2> QED
    BY <2>2 DEF Annoncee
<1>3. \A v \in q.ecritures : v.table \in Tables(q)
  <2>1. SUFFICES ASSUME NEW v \in q.ecritures
                 PROVE  v.table \in Tables(q)
    OBVIOUS
  <2>2. v.table \in Tables(op) /\ w.table \in Tables(op) /\ v \in op.ecritures /\ v # w
    BY <1>1, <2>1 DEF Reguliere
  <2>3. CASE op.cmd = "transferer"
    <3>1. w.table \in {"jeune", "transfert"}
      BY <2>1, <2>3 DEF Survivantes
    <3>2. v.table # "chat"
      BY <2>2, <2>3 DEF Reguliere
    <3>3. v.table \in {"transfert", "jeune"}
      BY <2>2, <2>3, <3>1, <3>2 DEF Tables, Departs, Mouvements
    <3> QED
      BY <2>3, <3>3 DEF Tables, Departs
  <2>4. CASE op.cmd # "transferer"
    BY <2>2, <2>4 DEF Tables
  <2> QED
    BY <2>3, <2>4
<1>4. q.etape \in Etapes(q)
  BY DEF Etapes
<1>5. op.cmd = "transferer" => \A v \in q.ecritures : v.table = "chat" => q.ecritures = {v}
  BY <1>3 DEF Tables, Departs
<1> QED
  BY <1>2, <1>3, <1>4, <1>5 DEF Reguliere

LEMMA EchecFait ==
  ASSUME Inv, NEW o \in Ops, Echec(o)
  PROVE  \E w \in ops[o].ecritures, q \in Operation :
           /\ Interrompt(o, q, w) /\ w \in Ecriture
           /\ w.table \in Tables(ops[o]) /\ Annoncee(ops[o], w)
           /\ perturbes' = IF Possible(w) /\ w.table # "chat"
                           THEN perturbes \cup ops[o].ecrit ELSE perturbes
<1>1. PICK w \in ops[o].ecritures :
    /\ ops' = [ops EXCEPT ![o] =
         Poursuivre([ops[o] EXCEPT !.etape = "fin", !.aFaire = {},
                                   !.ecritures = Survivantes(ops[o], w)])]
    /\ perturbes' = IF Possible(w) /\ w.table # "chat"
                    THEN perturbes \cup ops[o].ecrit ELSE perturbes
    /\ UNCHANGED donnees
  BY DEF Echec
<1>2. Types /\ Reguliere(ops[o]) /\ ops[o] \in Operation
  BY DEF Inv, Types
<1>3. PICK r : r = [ops[o] EXCEPT !.etape = "fin", !.aFaire = {},
                                  !.ecritures = Survivantes(ops[o], w)]
  OBVIOUS
<1>4. Survivantes(ops[o], w) \in SUBSET Ecriture
  BY <1>2 DEF Survivantes, Operation
<1>5. /\ r \in Operation /\ r.cmd = ops[o].cmd /\ r.jeunes = ops[o].jeunes /\ r.lit = ops[o].lit
      /\ r.ecrit = ops[o].ecrit /\ r.ecritures = Survivantes(ops[o], w) /\ r.etape = "fin"
      /\ r.qui = ops[o].qui /\ r.nouvelle = ops[o].nouvelle
  BY <1>2, <1>3, <1>4 DEF Operation
<1>6. Reguliere(r)
  BY <1>2, <1>5, SurvivantesRegulieres
<1>7. PICK q \in Operation : q = Poursuivre(r)
  BY <1>5, PoursuivreSoit
<1>8. Reguliere(q) /\ (q = r \/ (q = Libre /\ r.ecritures = {}))
  BY <1>5, <1>6, <1>7, PoursuivreSoit
<1>9. ops' = [ops EXCEPT ![o] = q]
  BY <1>1, <1>3, <1>7
<1>10. Pas(o, q)
  BY <1>1, <1>8, <1>9 DEF Pas
<1>11. Pareille(ops[o], q)
  BY <1>5, <1>8 DEF Pareille
<1>12. q.ecritures = Survivantes(ops[o], w)
  BY <1>5, <1>8, LibreOperation
<1>13. Interrompt(o, q, w)
  BY <1>1, <1>5, <1>8, <1>10, <1>11, <1>12 DEF Interrompt
<1>14. w \in Ecriture /\ w.table \in Tables(ops[o]) /\ Annoncee(ops[o], w)
  BY <1>2 DEF Reguliere, Operation
<1> QED
  BY <1>1, <1>13, <1>14

(* What goes on, of what was to be done.                                    *)
LEMMA InterromptReduit ==
  ASSUME NEW o, NEW q, NEW w, Interrompt(o, q, w)
  PROVE  /\ \A v \in q.ecritures : v \in ops[o].ecritures /\ q.cmd = ops[o].cmd
         /\ w.table # "jeune" /\ ops[o].cmd # "transferer" => q.ecritures = ops[o].ecritures \ {w}
         /\ w.table \in {"transfert", "jeune"} =>
              \A v \in ops[o].ecritures : v \in q.ecritures \/ v = w \/ v.table = "jeune"
<1>1. q = Libre => q.ecritures = {}
  BY LibreOperation
<1> QED
  BY <1>1 DEF Interrompt, Survivantes

(* What does not depend on the course of the command.                       *)
LEMMA InterromptInv ==
  ASSUME Inv, NEW o \in Ops, NEW q, NEW w, Interrompt(o, q, w), perturbes' = perturbes,
         Saine(o)' => Lues(ops[o])' /\ q.cmd # "supprimerConseiller",
         ops[o].cmd = "supprimerConseiller" => ops[o].qui \in perturbes,
         \A j \in Jeunes \ perturbes : j \in ops[o].ecrit => Jeune(j)'
  PROVE  Inv'
<1>1. Types
  BY DEF Inv
<1>2. perturbes' \subseteq Entites
  BY <1>1 DEF Types
<1>3. Pas(o, q) /\ Pareille(ops[o], q) /\ UNCHANGED donnees
  BY DEF Interrompt
<1>4. q.cmd = "supprimerConseiller" =>
        q.qui = ops[o].qui /\ \A v \in q.ecritures : v \in ops[o].ecritures
  BY InterromptReduit, LibreOperation DEF Interrompt
<1>5. \A c \in Conseillers \ perturbes' : ~Finit(q, c) /\ ~Finit(ops[o], c)
  BY LibreOperation DEF Finit, Interrompt
<1> QED
  BY <1>2, <1>3, <1>4, <1>5, InterruptionInv

(* Conversations that could not be moved leave everything as it was.        *)
LEMMA EchecDuChat ==
  ASSUME Inv, NEW o \in Ops, NEW q, NEW w, Interrompt(o, q, w), perturbes' = perturbes,
         w.table = "chat", w.table \in Tables(ops[o])
  PROVE  Inv'
<1>1. ops[o].cmd \in {"transferer", "recuperer"}
  BY DEF Tables, Effacements, Mouvements
<1>2. Pas(o, q) /\ Pareille(ops[o], q) /\ UNCHANGED donnees /\ w \in ops[o].ecritures
  BY DEF Interrompt
<1>3. Types /\ Reguliere(ops[o]) /\ Reguliere(q)
  BY <1>2 DEF Inv, Pas
<1>4. ops[o].cmd # "supprimerConseiller" /\ ops[o].cmd \notin Departs /\ q.cmd \notin Departs
  BY <1>1, <1>2, LibreOperation DEF Pareille, Departs
<1>5. Saine(o)' => Lues(ops[o])' /\ q.cmd # "supprimerConseiller"
  BY <1>2, <1>4, DonneesGardees, LuesGardees
<1>6. ASSUME NEW j \in Jeunes \ perturbes, j \in ops[o].ecrit
      PROVE  Jeune(j)'
  <2>1. /\ Suivie(j) /\ Jeune(j) /\ EnCours(ops[o], j, jeunes[j], chats[j])
        /\ j \notin perturbes /\ j \notin perturbes'
    BY <1>6 DEF Inv, Jeune, Suivie
  <2>2. MemeJeune(j)
    BY <1>2, DonneesGardees DEF MemeJeune, MemeSuivi, MemeDossier, TousLa, Pas
  <2>3. q.ecritures = ops[o].ecritures \ {w} \/ ops[o].ecritures = {w}
    BY <1>1, <1>2, <1>3, InterromptReduit DEF Reguliere
  <2>4. CASE ~SurChat(w, j)
    <3>1. ~Concerne(w, j)
      BY <2>4 DEF Concerne, SurRang, SurTrace
    <3>2. \A v \in q.ecritures : v \in ops[o].ecritures /\ q.cmd = ops[o].cmd
      BY InterromptReduit
    <3>3. MemesEcritures(ops[o], q, j)
      BY <2>3, <3>1, <3>2 DEF MemesEcritures
    <3>4. MemeVue(ops[o], q, j)
      BY <1>3, <1>4, <3>3, SansDepartAilleurs DEF MemeVue
    <3> QED
      BY <1>2, <1>3, <2>1, <2>2, <3>4, JeuneSuit
  <2>5. CASE SurChat(w, j)
    <3>1. \A v \in ops[o].ecritures : Concerne(v, j) => v = w
      BY <1>2, <2>1, <2>5 DEF EnCours
    <3>2. \A v \in ops[o].ecritures : ~SurRang(v, j) /\ ~SurTrace(v, j)
      BY <3>1 DEF Concerne, SurRang, SurTrace
    <3>3. \A p \in Ops \ {o} : \A v \in ops[p].ecritures : ~SurRang(v, j) /\ ~SurTrace(v, j)
      BY <1>4, <1>6, <2>1, SeulMouvement DEF Concerne
    <3>4. \A p \in Ops : \A v \in ops[p].ecritures : ~SurRang(v, j) /\ ~SurTrace(v, j)
      BY <3>2, <3>3
    <3>5. j \in Presents => /\ chats[j] # Absent /\ jeunes[j].conseiller = chats[j]
                            /\ TousLa => Trace(j) = chats[j]
      BY <2>1, <3>4 DEF Suivie
    <3>6. EnCours(q, j, jeunes[j], chats[j])
      BY <2>1, InterromptReduit, EnCoursReduit
    <3>7. UNCHANGED <<jeunes, chats, transferts>> /\ Presents' = Presents
      BY <1>2, DonneesGardees
    <3>8. Trace(j)' = Trace(j)
      BY <3>7 DEF Trace, Restants, Dernier
    <3>9. TousLa' => TousLa
      BY <2>2 DEF MemeJeune, MemeSuivi
    <3>10. MemeDossier(j)
      BY <2>2 DEF MemeJeune
    <3> QED
      BY <1>2, <1>4, <1>6, <2>1, <3>5, <3>6, <3>7, <3>8, <3>9, <3>10, JeuneTouche
  <2> QED
    BY <2>4, <2>5
<1> QED
  BY <1>4, <1>5, <1>6, InterromptInv

(* A row that a sound command names is there: no key can refuse its writes. *)
LEMMA MouvementPossible ==
  ASSUME Inv, NEW o \in Ops, NEW w \in Ecriture, Annoncee(ops[o], w), Saine(o),
         w.table \in {"transfert", "jeune"}
  PROVE  Possible(w)
<1>1. Lues(ops[o]) /\ Reguliere(ops[o])
  BY DEF Inv, Lectures
<1>2. CASE w.table = "transfert"
  <2>1. w.ids \subseteq Jeunes /\ w.ligne.source \in Conseillers /\ w.ligne.cible \in Conseillers
    BY <1>2, EcritureTypes DEF Transfert
  <2>2. w.ids \subseteq ops[o].lit /\ w.ligne.source \in ops[o].lit /\ w.ligne.cible \in ops[o].lit
    BY <1>1, <1>2, <2>1 DEF Annoncee, Reguliere
  <2>3. w.ids \subseteq Presents /\ Existe(w.ligne.source) /\ Existe(w.ligne.cible)
    BY <1>1, <2>1, <2>2 DEF Lues
  <2> QED
    BY <1>2, <2>3 DEF Possible
<1>3. CASE w.table = "jeune"
  <2>1. w.ligne.conseiller \in Conseillers /\ w.ligne.initial \in Conseillers \cup {Aucun}
    BY <1>3, EcritureTypes DEF LigneJeune
  <2>2. w.ligne.conseiller \in ops[o].lit /\ w.ligne.initial \in ops[o].lit \cup {Aucun}
    BY <1>3 DEF Annoncee
  <2>3. Existe(w.ligne.conseiller) /\ (w.ligne.initial # Aucun => Existe(w.ligne.initial))
    BY <1>1, <2>1, <2>2 DEF Lues
  <2> QED
    BY <1>3, <2>3 DEF Possible
<1> QED
  BY <1>2, <1>3

LEMMA PlusSaine ==
  ASSUME Types, NEW o \in Ops, NEW q, Pas(o, q), Pareille(ops[o], q), perturbes' = perturbes,
         q # Libre => q.qui = ops[o].qui, ~Saine(o)
  PROVE  ~Saine(o)'
<1>1. ops'[o] = q
  BY PasOps
<1>2. q = Libre => Objet(q) = {}
  BY LibreOperation DEF Objet
<1>3. q # Libre => Objet(q) = Objet(ops[o])
  BY DEF Objet, Pareille
<1> QED
  BY <1>1, <1>2, <1>3 DEF Saine

LEMMA EchecDUnMouvement ==
  ASSUME Inv, NEW o \in Ops, NEW q, NEW w \in Ecriture, Interrompt(o, q, w), perturbes' = perturbes,
         w.table \in Mouvements, ~Possible(w), Annoncee(ops[o], w),
         ops[o].cmd \in {"transferer", "recuperer"}
  PROVE  Inv'
<1>1. Pas(o, q) /\ Pareille(ops[o], q) /\ (q # Libre => q.qui = ops[o].qui)
  BY DEF Interrompt
<1>2. Types /\ Reguliere(ops[o])
  BY DEF Inv
<1>3. w.table \in {"transfert", "jeune"}
  BY DEF Mouvements, Possible
<1>4. ~Saine(o)
  BY <1>3, MouvementPossible
<1>5. ~Saine(o)'
  BY <1>1, <1>2, <1>4, PlusSaine
<1>6. ops[o].ecrit \cap Jeunes \subseteq perturbes
  BY <1>2, <1>4 DEF Saine, Objet, Reguliere
<1> QED
  BY <1>5, <1>6, InterromptInv

LEMMA EchecDuConseiller ==
  ASSUME Inv, NEW o \in Ops, NEW q, NEW w \in Ecriture, Interrompt(o, q, w), perturbes' = perturbes,
         ~Possible(w), w.table \in Tables(ops[o]), Annoncee(ops[o], w),
         ops[o].cmd = "supprimerConseiller"
  PROVE  Inv'
<1>1. /\ Pas(o, q) /\ Pareille(ops[o], q) /\ (q # Libre => q.qui = ops[o].qui)
      /\ UNCHANGED donnees /\ w \in ops[o].ecritures
  BY DEF Interrompt
<1>2. Types /\ Reguliere(ops[o])
  BY DEF Inv
<1>3. w.table \in {"jeune", "suppression conseiller"}
      /\ \A v \in ops[o].ecritures : v.table \in {"jeune", "suppression conseiller"}
  BY <1>2 DEF Tables, Departs, Reguliere
<1>4. ~Saine(o)
  <2>1. CASE w.table = "jeune"
    BY <2>1, MouvementPossible
  <2>2. CASE w.table = "suppression conseiller"
    <3>1. SUFFICES ASSUME Saine(o)
                   PROVE  Possible(w)
      OBVIOUS
    <3>2. w.id = ops[o].qui /\ ops[o].etape = "fin"
      BY <2>2 DEF Annoncee
    <3>3. Origine(w.id) = {}
      BY <3>1, <3>2 DEF Inv, Lectures, Liberes
    <3> QED
      BY <2>2, <3>3 DEF Possible
  <2> QED
    BY <1>3, <2>1, <2>2
<1>5. ~Saine(o)' /\ ops[o].qui \in perturbes
  BY <1>1, <1>2, <1>4, PlusSaine DEF Saine, Objet
<1>6. ops[o].cmd \notin Departs /\ q.cmd \notin Departs
  BY <1>1, LibreOperation DEF Pareille, Departs
<1>7. ASSUME NEW j \in Jeunes \ perturbes, j \in ops[o].ecrit
      PROVE  Jeune(j)'
  <2>1. /\ Suivie(j) /\ Jeune(j) /\ EnCours(ops[o], j, jeunes[j], chats[j])
        /\ j \notin perturbes /\ j \notin perturbes'
    BY <1>7 DEF Inv, Jeune, Suivie
  <2>2. MemeJeune(j)
    BY <1>1, DonneesGardees DEF MemeJeune, MemeSuivi, MemeDossier, TousLa, Pas
  <2>3. \A p \in Ops \ {o} : \A v \in ops[p].ecritures : ~Concerne(v, j)
    BY <1>6, <1>7, <2>1, SeulMouvement
  <2>4. j \in Presents => jeunes[j].conseiller = chats[j] /\ chats[j] # Absent
    <3>1. CASE \E v \in ops[o].ecritures : SurRang(v, j)
      BY <2>1, <3>1 DEF EnCours, Suivie
    <3>2. CASE \A v \in ops[o].ecritures : ~SurRang(v, j)
      <4>1. \A p \in Ops : \A v \in ops[p].ecritures : ~SurRang(v, j)
        BY <2>3, <3>2 DEF Concerne
      <4> QED
        BY <2>1, <4>1 DEF Suivie
    <3> QED
      BY <3>1, <3>2
  <2>5. j \in Presents => (TousLa => Trace(j) = chats[j])
    <3>1. \A v \in ops[o].ecritures : ~SurTrace(v, j)
      BY <1>3 DEF SurTrace
    <3>2. \A p \in Ops : \A v \in ops[p].ecritures : ~SurTrace(v, j)
      BY <2>3, <3>1 DEF Concerne
    <3> QED
      BY <2>1, <3>2 DEF Suivie
  <2>6. EnCours(q, j, jeunes[j], chats[j])
    BY <2>1, InterromptReduit, EnCoursReduit
  <2>7. UNCHANGED <<jeunes, chats, transferts>> /\ Presents' = Presents
    BY <1>1, DonneesGardees
  <2>8. Trace(j)' = Trace(j)
    BY <2>7 DEF Trace, Restants, Dernier
  <2>9. (TousLa' => TousLa) /\ MemeDossier(j)
    BY <2>2 DEF MemeJeune, MemeSuivi
  <2> QED
    BY <1>1, <1>2, <1>6, <1>7, <2>1, <2>4, <2>5, <2>6, <2>7, <2>8, <2>9, JeuneTouche
<1> QED
  BY <1>5, <1>7, InterromptInv

LEMMA EchecAnnexe ==
  ASSUME Inv, NEW o \in Ops, NEW q, NEW w \in Ecriture, Interrompt(o, q, w), perturbes' = perturbes,
         w.table \in Annexes, w.table \in Tables(ops[o])
  PROVE  Inv'
<1>1. Pas(o, q) /\ Pareille(ops[o], q) /\ UNCHANGED donnees
  BY DEF Interrompt
<1>2. Types /\ Reguliere(ops[o]) /\ References
  BY DEF Inv
<1>3. ops[o].cmd \notin Departs /\ ops[o].cmd # "supprimerConseiller"
      /\ \A v \in ops[o].ecritures : v.table \notin Mouvements
  BY <1>2 DEF Annexes, Tables, Effacements, Mouvements, Reguliere
<1>4. \A v \in ops[o].ecritures : \A j : ~Concerne(v, j)
  BY <1>3 DEF Mouvements, Concerne, SurChat, SurRang, SurTrace
<1>5. \A j \in Jeunes : MemesEcritures(ops[o], q, j)
  BY <1>4, InterromptReduit DEF MemesEcritures
<1>6. Types'
  BY <1>1, <1>2, PasOps, DonneesGardees DEF Types
<1>7. References'
  BY <1>1, <1>2, DonneesGardees DEF References, Nommes, Existe, Presents, Restants
<1>8. \A c \in Conseillers : Existe(c)' <=> Existe(c)
  BY <1>1, DonneesGardees
<1> QED
  BY <1>1, <1>3, <1>5, <1>6, <1>7, <1>8, PasAilleurs, DonneesGardees

LEMMA EchecInv ==
  ASSUME Inv, NEW o \in Ops, Echec(o)
  PROVE  Inv'
<1>1. PICK w \in ops[o].ecritures, q \in Operation :
           /\ Interrompt(o, q, w) /\ w \in Ecriture
           /\ w.table \in Tables(ops[o]) /\ Annoncee(ops[o], w)
           /\ perturbes' = IF Possible(w) /\ w.table # "chat"
                           THEN perturbes \cup ops[o].ecrit ELSE perturbes
  BY EchecFait
<1>2. CASE Possible(w) /\ w.table # "chat"
  <2>1. perturbes' = perturbes \cup ops[o].ecrit
    BY <1>1, <1>2
  <2>2. q.cmd = "supprimerConseiller" =>
          q.qui = ops[o].qui /\ \A v \in q.ecritures : v \in ops[o].ecritures
    BY <1>1, InterromptReduit, LibreOperation DEF Interrompt
  <2> QED
    BY <1>1, <2>1, <2>2, MarqueInv DEF Interrompt
<1>3. CASE w.table = "chat"
  BY <1>1, <1>3, EchecDuChat
<1>4. CASE ~Possible(w)
  <2>1. perturbes' = perturbes
    BY <1>1, <1>4
  <2>2. CASE w.table \in Annexes
    BY <1>1, <2>1, <2>2, EchecAnnexe
  <2>3. CASE ops[o].cmd = "supprimerConseiller"
    BY <1>1, <1>4, <2>1, <2>3, EchecDuConseiller
  <2>4. CASE w.table \in Mouvements /\ ops[o].cmd # "supprimerConseiller"
    <3>1. ops[o].cmd \in {"transferer", "recuperer"}
      BY <1>1, <2>4 DEF Tables, Mouvements, Effacements
    <3> QED
      BY <1>1, <1>4, <2>1, <2>4, <3>1, EchecDUnMouvement
  <2>5. w.table \notin Effacements
    BY <1>4 DEF Possible, Effacements
  <2>6. w.table \in Annexes \cup Mouvements \cup Effacements \/ ops[o].cmd = "supprimerConseiller"
    BY <1>1 DEF Tables, Annexes, Mouvements
  <2> QED
    BY <2>2, <2>3, <2>4, <2>5, <2>6
<1> QED
  BY <1>2, <1>3, <1>4

-----------------------------------------------------------------------------
(* The invariant                                                            *)

LEMMA InitTypes ==
  ASSUME Init
  PROVE  Types /\ Presents = Jeunes /\ \A c \in Conseillers : Existe(c)
<1>1. /\ SuiviInitial \in [Jeunes -> Conseillers]
      /\ AgenceInitiale \in [Conseillers -> Agences \cup {Aucun}]
      /\ Absent \notin Agences \cup {Aucun} \cup Conseillers
      /\ Absent \notin LigneJeune
  BY ConstantsAssumption
<1>2. jeunes \in [Jeunes -> LigneJeune]
  BY <1>1 DEF Init, LigneJeune
<1>3. Presents = Jeunes
  BY <1>1, <1>2 DEF Presents
<1>4. conseillers \in [Conseillers -> Agences \cup {Aucun}] /\ chats \in [Jeunes -> Conseillers]
  BY <1>1 DEF Init
<1>5. \A c \in Conseillers : Existe(c)
  BY <1>1, <1>4 DEF Existe
<1>6. transferts \in [Jeunes -> Seq(Transfert \cup {Absent})]
  <2>1. <<>> \in Seq(Transfert \cup {Absent})
    BY EmptySeq
  <2> QED
    BY <2>1 DEF Init
<1>7. ops \in [Ops -> Operation]
  BY LibreOperation DEF Init
<1>8. /\ comptes \subseteq Jeunes \cup Conseillers
      /\ animations \in [AC -> Animation \cup {Absent}]
      /\ listes \in [Listes -> Liste \cup {Absent}]
      /\ archives \in [Jeunes -> SUBSET BOOLEAN]
      /\ archivees \subseteq Jeunes
      /\ perturbes \subseteq Entites
  BY DEF Init
<1>9. Types
  BY <1>2, <1>4, <1>6, <1>7, <1>8 DEF Types
<1> QED
  BY <1>3, <1>5, <1>9

LEMMA InitInv ==
  ASSUME Init
  PROVE  Inv
<1>1. Types /\ Presents = Jeunes /\ \A c \in Conseillers : Existe(c)
  BY InitTypes
<1>2. \A j \in Jeunes : /\ jeunes[j] \in LigneJeune /\ jeunes[j].initial = Aucun
                        /\ jeunes[j].conseiller = SuiviInitial[j] /\ chats[j] = SuiviInitial[j]
                        /\ SuiviInitial[j] \in Conseillers
  BY <1>1, ConstantsAssumption DEF Init, Types, LigneJeune, Presents
<1>3. \A j \in Jeunes : Restants(j) = {}
  <2>1. \A j \in Jeunes : transferts[j] = <<>>
    BY DEF Init
  <2>2. Len(<<>>) = 0
    BY EmptySeq
  <2> QED
    BY <2>1, <2>2 DEF Restants
<1>4. References
  <2>1. \A a \in AC : animations[a] = Absent
    BY DEF Init
  <2>2. \A l \in Listes : listes[l] = Absent
    BY DEF Init
  <2>3. \A j \in Presents : Nommes(jeunes[j])
    BY <1>1, <1>2 DEF Nommes, LigneJeune
  <2> QED
    BY <1>3, <2>1, <2>2, <2>3 DEF References
<1>5. \A o \in Ops : ops[o] = Libre
  BY DEF Init
<1>6. \A o \in Ops : Reguliere(ops[o])
  BY <1>5, LibreReguliere
<1>7. Isolement
  BY <1>5, LibreSansConflit DEF Isolement
<1>8. Lectures
  <2>1. \A o \in Ops : ~Saine(o)
    BY <1>5, LibreOperation DEF Saine, Objet
  <2> QED
    BY <2>1 DEF Lectures
<1>9. Abandonnes
  BY <1>5, LibreOperation DEF Abandonnes
<1>10. ASSUME NEW j \in Jeunes
       PROVE  Jeune(j)
  <2>1. \A o \in Ops : ops[o].ecritures = {} /\ ops[o].cmd \notin Departs /\ ~Depart(ops[o], j)
    BY <1>5, LibreOperation DEF Departs, Depart
  <2>2. Absent \notin Conseillers
    BY ConstantsAssumption
  <2>3. Suivie(j)
    BY <1>2, <1>3, <2>1, <2>2 DEF Suivie, EnCours, Trace
  <2>4. Inscrite(j)
    BY <1>1, <2>1 DEF Inscrite, Init
  <2>5. Effacee(j)
    BY <1>1, <2>1 DEF Effacee, Reste
  <2>6. Archivee(j)
    <3>1. j \notin archivees /\ archives[j] = {}
      BY DEF Init
    <3> QED
      BY <2>1, <3>1 DEF Archivee, Reste, Lus
  <2> QED
    BY <2>3, <2>4, <2>5, <2>6 DEF Jeune
<1>11. ASSUME NEW c \in Conseillers
       PROVE  Inscrit(c)
  <2>1. c \in comptes /\ Existe(c)
    BY <1>1 DEF Init
  <2>2. \A o \in Ops : ops[o].ecrit = {} /\ ops[o].cmd = "transferer"
    BY <1>5, LibreOperation
  <2> QED
    BY <2>1, <2>2 DEF Inscrit
<1> QED
  BY <1>1, <1>4, <1>6, <1>7, <1>8, <1>9, <1>10, <1>11 DEF Inv

LEMMA BegaiementInv ==
  ASSUME Inv, UNCHANGED vars
  PROVE  Inv'
<1>1. /\ UNCHANGED <<jeunes, chats, transferts, conseillers, comptes, animations, listes>>
      /\ UNCHANGED <<archives, archivees, ops, perturbes>>
  BY DEF vars
<1>2. Types' <=> Types
  BY <1>1 DEF Types
<1>3. References' <=> References
  BY <1>1 DEF References, Nommes, Existe, Presents, Restants
<1>4. Isolement' <=> Isolement
  BY <1>1 DEF Isolement, EnConflit
<1>5. Lectures' <=> Lectures
  BY <1>1 DEF Lectures, Saine, Objet, Lues, Liberes, Presents, Existe, Origine
<1>6. Abandonnes' <=> Abandonnes
  BY <1>1 DEF Abandonnes, SuivisPar, Presents
<1>7. ASSUME NEW j \in Jeunes
      PROVE  Jeune(j)' <=> Jeune(j)
  <2>1. TousLa' <=> TousLa
    BY <1>1 DEF TousLa, Existe
  <2>2. Trace(j)' = Trace(j) /\ Presents' = Presents
    BY <1>1 DEF Trace, Restants, Dernier, Presents
  <2>3. Suivie(j)' <=> Suivie(j)
    BY <1>1, <2>1, <2>2 DEF Suivie
  <2>4. Inscrite(j)' <=> Inscrite(j)
    BY <1>1, <2>2 DEF Inscrite
  <2>5. Effacee(j)' <=> Effacee(j)
    BY <1>1, <2>2 DEF Effacee
  <2>6. Archivee(j)' <=> Archivee(j)
    BY <1>1, <2>2 DEF Archivee, Lus
  <2> QED
    BY <2>3, <2>4, <2>5, <2>6 DEF Jeune
<1>8. ASSUME NEW c \in Conseillers
      PROVE  Inscrit(c)' <=> Inscrit(c)
  BY <1>1 DEF Inscrit, Existe
<1> QED
  BY <1>1, <1>2, <1>3, <1>4, <1>5, <1>6, <1>7, <1>8 DEF Inv

LEMMA CommandesInv ==
  ASSUME Inv, NEW o \in Ops,
         \/ Transferer(o) \/ LireAnimations(o) \/ LireListes(o) \/ Recuperer(o)
         \/ SupprimerConseiller(o) \/ LireInitiaux(o)
         \/ SupprimerJeune(o) \/ ArchiverJeune(o) \/ ArchiverJeuneSupport(o)
         \/ SupprimerCompte(o) \/ LireConversation(o) \/ LireDossier(o)
         \/ CreerListe(o) \/ ModifierListe(o) \/ AjouterJeuneListe(o) \/ SupprimerListe(o)
         \/ CreerAnimation(o) \/ ModifierAnimation(o)
         \/ ChangerAgence(o) \/ LireConseiller(o) \/ SauverAgence(o)
         \/ ModifierConseiller(o)
  PROVE  Inv'
<1>1. CASE Transferer(o) \/ LireAnimations(o) \/ LireListes(o) \/ Recuperer(o)
  BY <1>1, TransfererRecu, LireAnimationsInv, LireListesInv, RecupererRecu
<1>2. CASE SupprimerConseiller(o) \/ LireInitiaux(o)
  BY <1>2, SupprimerConseillerRecu, LireInitiauxInv
<1>3. CASE SupprimerJeune(o) \/ ArchiverJeune(o) \/ ArchiverJeuneSupport(o)
  <2>1. \E cmd \in Departs : Quitter(o, cmd)
    BY <1>3 DEF SupprimerJeune, ArchiverJeune, ArchiverJeuneSupport, Departs
  <2> QED
    BY <2>1, QuitterRecu
<1>4. CASE SupprimerCompte(o) \/ LireConversation(o) \/ LireDossier(o)
  BY <1>4, SupprimerCompteInv, LireConversationInv, LireDossierInv
<1>5. CASE CreerListe(o) \/ ModifierListe(o) \/ AjouterJeuneListe(o) \/ SupprimerListe(o)
  BY <1>5, ListesRecues
<1>6. CASE CreerAnimation(o) \/ ModifierAnimation(o) \/ ModifierConseiller(o)
  BY <1>6, AnimationsRecues
<1>7. CASE ChangerAgence(o) \/ LireConseiller(o) \/ SauverAgence(o)
  BY <1>7, ChangerAgenceRecu, LireConseillerInv, SauverAgenceInv
<1> QED
  BY <1>1, <1>2, <1>3, <1>4, <1>5, <1>6, <1>7

LEMMA EcrituresInv ==
  ASSUME Inv, NEW o \in Ops,
         \/ EcrireChat(o) \/ EcrireTransfert(o) \/ EcrireJeune(o) \/ EcrireAnimation(o)
         \/ EcrireListe(o) \/ EcrireMembres(o) \/ DetruireListe(o) \/ EcrireConseiller(o)
         \/ DetruireConseiller(o) \/ DetruireJeune(o) \/ DetruireChat(o)
         \/ DetruireArchives(o) \/ EcrireArchive(o) \/ PoursuivreSansArchive(o)
         \/ Echec(o) \/ Abandon(o)
  PROVE  Inv'
<1>1. CASE EcrireChat(o) \/ EcrireTransfert(o) \/ EcrireJeune(o) \/ EcrireAnimation(o)
  BY <1>1, EcrireChatInv, EcrireTransfertInv, EcrireJeuneInv, EcrireAnimationInv
<1>2. CASE EcrireListe(o) \/ EcrireMembres(o) \/ DetruireListe(o) \/ EcrireConseiller(o)
  BY <1>2, EcrireListeInv, EcrireMembresInv, DetruireListeInv, EcrireConseillerInv
<1>3. CASE DetruireConseiller(o) \/ DetruireJeune(o) \/ DetruireChat(o)
           \/ DetruireArchives(o) \/ EcrireArchive(o)
  BY <1>3, DetruireConseillerInv, DetruireJeuneInv, DetruireChatInv, DetruireArchivesInv,
     EcrireArchiveInv
<1>4. CASE PoursuivreSansArchive(o) \/ Echec(o) \/ Abandon(o)
  BY <1>4, PoursuivreSansArchiveInv, EchecInv, AbandonInv
<1> QED
  BY <1>1, <1>2, <1>3, <1>4

LEMMA NextInv ==
  ASSUME Inv, [Next]_vars
  PROVE  Inv'
<1>1. CASE Next
  BY <1>1, CommandesInv, EcrituresInv DEF Next
<1>2. CASE UNCHANGED vars
  BY <1>2, BegaiementInv
<1> QED
  BY <1>1, <1>2

-----------------------------------------------------------------------------
(* What the invariant says of the rows                                      *)

(* A quiet person has nothing left to be written.                           *)
LEMMA QuandTranquille ==
  ASSUME Inv, NEW x, Tranquille(x)
  PROVE  \A o \in Ops :
           /\ x \notin ops[o].ecrit
           /\ \A w \in ops[o].ecritures : ~SurRang(w, x) /\ ~SurTrace(w, x)
           /\ \A t \in Effacements : ~Reste(ops[o], t, x)
           /\ ~Depart(ops[o], x)
<1>1. SUFFICES ASSUME NEW o \in Ops
               PROVE  /\ x \notin ops[o].ecrit
                      /\ \A w \in ops[o].ecritures : ~SurRang(w, x) /\ ~SurTrace(w, x)
                      /\ \A t \in Effacements : ~Reste(ops[o], t, x)
                      /\ ~Depart(ops[o], x)
  OBVIOUS
<1>2. x \notin ops[o].ecrit
  BY LibreOperation DEF Tranquille
<1>3. Reguliere(ops[o])
  BY DEF Inv
<1>4. \A w \in ops[o].ecritures : ~Concerne(w, x) /\ ~Effacement(w, x)
  BY <1>2, <1>3, Ailleurs
<1>5. ~Depart(ops[o], x)
  BY <1>2, <1>3, Ailleurs
<1> QED
  BY <1>2, <1>4, <1>5 DEF Concerne, Effacement, Reste

LEMMA InvTypeOK ==
  ASSUME Inv
  PROVE  TypeOK
<1>1. Types /\ References
  BY DEF Inv
<1>2. \A j \in Presents :
       /\ jeunes[j] \in LigneJeune
       /\ Existe(jeunes[j].conseiller)
       /\ jeunes[j].initial # Aucun => Existe(jeunes[j].initial)
  BY <1>1 DEF Types, References, Presents, Nommes
<1>3. \A j \in Jeunes : \A i \in Restants(j) :
       /\ transferts[j][i] \in Transfert /\ j \in Presents
       /\ Existe(transferts[j][i].source) /\ Existe(transferts[j][i].cible)
  <2>1. SUFFICES ASSUME NEW j \in Jeunes, NEW i \in Restants(j)
                 PROVE  transferts[j][i] \in Transfert
    BY <1>1 DEF References
  <2>2. transferts[j] \in Seq(Transfert \cup {Absent}) /\ i \in 1..Len(transferts[j])
        /\ transferts[j][i] # Absent
    BY <1>1, <2>1 DEF Types, Restants
  <2>3. transferts[j][i] \in Transfert \cup {Absent}
    BY <2>2
  <2> QED
    BY <2>2, <2>3
<1>4. \A a \in AC : animations[a] # Absent =>
       animations[a] \in Animation /\ animations[a].jeunes \subseteq Presents
  BY <1>1 DEF Types, References
<1>5. \A l \in Listes : listes[l] # Absent =>
       /\ listes[l] \in Liste /\ listes[l].jeunes \subseteq Presents
       /\ Existe(listes[l].conseiller)
  BY <1>1 DEF Types, References
<1> QED
  BY <1>1, <1>2, <1>3, <1>4, <1>5 DEF TypeOK, Types

LEMMA InvSuiviCoherent ==
  ASSUME Inv
  PROVE  SuiviCoherent
<1>1. SUFFICES ASSUME NEW j \in Jeunes \ perturbes, Tranquille(j)
               PROVE  IF j \notin Presents THEN chats[j] = Absent
                      ELSE /\ chats[j] = jeunes[j].conseiller
                           /\ (\A c \in Conseillers : Existe(c) /\ c \notin perturbes) =>
                                jeunes[j].conseiller = Trace(j)
  BY DEF SuiviCoherent, Trace
<1>2. Suivie(j) /\ Effacee(j)
  BY <1>1 DEF Inv, Jeune
<1>3. \A o \in Ops : /\ \A w \in ops[o].ecritures : ~SurRang(w, j) /\ ~SurTrace(w, j)
                     /\ ~Reste(ops[o], "suppression chat", j)
  BY <1>1, QuandTranquille DEF Effacements
<1>4. j \notin Presents => chats[j] = Absent
  BY <1>2, <1>3 DEF Effacee
<1>5. j \in Presents => chats[j] = jeunes[j].conseiller /\ (TousLa => Trace(j) = chats[j])
  BY <1>2, <1>3 DEF Suivie
<1> QED
  BY <1>4, <1>5 DEF TousLa

LEMMA InvComptesCoherents ==
  ASSUME Inv
  PROVE  ComptesCoherents
<1>1. SUFFICES ASSUME NEW x \in (Jeunes \cup Conseillers) \ perturbes, Tranquille(x)
               PROVE  x \in comptes <=> IF x \in Jeunes THEN x \in Presents ELSE Existe(x)
  BY DEF ComptesCoherents
<1>2. \A o \in Ops : x \notin ops[o].ecrit /\ ~Depart(ops[o], x)
  BY <1>1, QuandTranquille
<1>3. CASE x \in Jeunes
  <2>1. Inscrite(x)
    BY <1>1, <1>3 DEF Inv, Jeune
  <2> QED
    BY <1>2, <1>3, <2>1 DEF Inscrite
<1>4. CASE x \notin Jeunes
  <2>1. Inscrit(x) /\ \A o \in Ops : Reguliere(ops[o])
    BY <1>1, <1>4 DEF Inv
  <2>2. \A o \in Ops : ~(ops[o].cmd = "supprimerConseiller" /\ ops[o].qui = x)
    BY <1>2, <2>1 DEF Reguliere
  <2> QED
    BY <1>4, <2>1, <2>2 DEF Inscrit
<1> QED
  BY <1>3, <1>4

LEMMA InvArchiveConservee ==
  ASSUME Inv
  PROVE  ArchiveConservee
<1>1. SUFFICES ASSUME NEW j \in archivees \ perturbes, Tranquille(j)
               PROVE  archives[j] = {TRUE}
  BY DEF ArchiveConservee
<1>2. j \in Jeunes /\ archives[j] \subseteq BOOLEAN
  BY <1>1 DEF Inv, Types
<1>3. Archivee(j)
  BY <1>1, <1>2 DEF Inv, Jeune
<1>4. \A o \in Ops : ~Reste(ops[o], "archive", j)
  BY <1>1, QuandTranquille DEF Effacements
<1>5. TRUE \in archives[j] /\ FALSE \notin archives[j]
  BY <1>1, <1>3, <1>4 DEF Archivee
<1> QED
  BY <1>2, <1>5

-----------------------------------------------------------------------------
(* What a step does to the rows of the young people                         *)

LEMMA CommandesMuettes ==
  ASSUME NEW o \in Ops,
         \/ Transferer(o) \/ LireAnimations(o) \/ LireListes(o) \/ Recuperer(o)
         \/ SupprimerConseiller(o) \/ LireInitiaux(o)
         \/ SupprimerJeune(o) \/ ArchiverJeune(o) \/ ArchiverJeuneSupport(o)
         \/ SupprimerCompte(o) \/ LireConversation(o) \/ LireDossier(o)
         \/ CreerListe(o) \/ ModifierListe(o) \/ AjouterJeuneListe(o) \/ SupprimerListe(o)
         \/ CreerAnimation(o) \/ ModifierAnimation(o)
         \/ ChangerAgence(o) \/ LireConseiller(o) \/ SauverAgence(o)
         \/ ModifierConseiller(o)
  PROVE  jeunes' = jeunes /\ perturbes \subseteq perturbes'
<1>1. \A op : Lecture(o, op) => jeunes' = jeunes /\ perturbes \subseteq perturbes'
  BY ToutEstMarque DEF Lecture, donnees
<1>2. \A op : Demarrer(o, op) \/ Relire(o, op) => jeunes' = jeunes /\ perturbes \subseteq perturbes'
  BY <1>1 DEF Demarrer, Relire
<1>3. CASE Transferer(o) \/ Recuperer(o) \/ SupprimerConseiller(o) \/ ChangerAgence(o)
  BY <1>2, <1>3, ZenonT(60) DEF Transferer, Recuperer, SupprimerConseiller, ChangerAgence
<1>4. CASE LireAnimations(o) \/ LireListes(o) \/ LireInitiaux(o) \/ LireConseiller(o)
  BY <1>2, <1>4 DEF LireAnimations, LireListes, LireInitiaux, LireConseiller
<1>5. CASE SupprimerJeune(o) \/ ArchiverJeune(o) \/ ArchiverJeuneSupport(o)
  BY <1>2, <1>5 DEF SupprimerJeune, ArchiverJeune, ArchiverJeuneSupport, Quitter
<1>6. CASE SupprimerCompte(o) \/ LireConversation(o) \/ LireDossier(o) \/ SauverAgence(o)
  BY <1>6 DEF SupprimerCompte, LireConversation, LireDossier, SauverAgence, donnees
<1>7. CASE CreerListe(o) \/ ModifierListe(o) \/ AjouterJeuneListe(o) \/ SupprimerListe(o)
  BY <1>2, <1>7 DEF CreerListe, ModifierListe, AjouterJeuneListe, SupprimerListe
<1>8. CASE CreerAnimation(o) \/ ModifierAnimation(o) \/ ModifierConseiller(o)
  BY <1>2, <1>8 DEF CreerAnimation, ModifierAnimation, ModifierConseiller
<1> QED
  BY <1>3, <1>4, <1>5, <1>6, <1>7, <1>8

LEMMA EcrituresMuettes ==
  ASSUME NEW o \in Ops,
         \/ EcrireChat(o) \/ EcrireTransfert(o) \/ EcrireAnimation(o)
         \/ EcrireListe(o) \/ EcrireMembres(o) \/ DetruireListe(o) \/ EcrireConseiller(o)
         \/ DetruireChat(o) \/ DetruireArchives(o) \/ EcrireArchive(o)
         \/ PoursuivreSansArchive(o) \/ Echec(o) \/ Abandon(o)
  PROVE  jeunes' = jeunes /\ perturbes \subseteq perturbes'
<1>1. \A w, suites : Ecrire(o, w, suites) => perturbes' = perturbes
  BY DEF Ecrire
<1>2. CASE EcrireChat(o) \/ EcrireTransfert(o) \/ EcrireAnimation(o) \/ EcrireListe(o)
  BY <1>1, <1>2 DEF EcrireChat, EcrireTransfert, EcrireAnimation, EcrireListe
<1>3. CASE EcrireMembres(o) \/ DetruireListe(o) \/ EcrireConseiller(o)
  BY <1>1, <1>3 DEF EcrireMembres, DetruireListe, EcrireConseiller
<1>4. CASE DetruireChat(o) \/ DetruireArchives(o) \/ EcrireArchive(o)
  BY <1>1, <1>4, ZenonT(60) DEF DetruireChat, DetruireArchives, EcrireArchive
<1>5. CASE PoursuivreSansArchive(o) \/ Echec(o) \/ Abandon(o)
  BY <1>5 DEF PoursuivreSansArchive, Echec, Abandon, donnees
<1> QED
  BY <1>2, <1>3, <1>4, <1>5

(* The row of one young person gives way to the next, or disappears.        *)
RelevePour(j) ==
  /\ j \in Presents \ perturbes /\ UNCHANGED perturbes
  /\ \E l \in LigneJeune : Passage(jeunes[j], l) /\ jeunes' = [jeunes EXCEPT ![j] = l]
DepartDe(j) ==
  /\ j \in Presents /\ UNCHANGED perturbes /\ \E o \in Ops : Depart(ops[o], j)
  /\ jeunes' = [jeunes EXCEPT ![j] = Absent]
RienDAutre ==
  perturbes \subseteq perturbes' /\ \A j \in Jeunes \ perturbes' : jeunes'[j] = jeunes[j]

LEMMA EcrireJeuneEffet ==
  ASSUME Inv, NEW o \in Ops, EcrireJeune(o)
  PROVE  RienDAutre \/ \E j \in Jeunes : RelevePour(j)
<1>1. PICK w \in ops[o].ecritures :
        /\ w.table = "jeune" /\ jeunes' = [jeunes EXCEPT ![w.id] = w.ligne] /\ Ecrire(o, w, {})
  BY DEF EcrireJeune, EnAttente
<1>2. w.id \in Jeunes /\ w.ligne \in LigneJeune
  BY <1>1, EcritureTypes DEF Inv, Types, Operation
<1>3. perturbes' = perturbes
  BY <1>1 DEF Ecrire
<1>4. CASE w.id \in perturbes
  <2>1. \A j \in Jeunes \ perturbes : jeunes'[j] = jeunes[j]
    BY <1>1, <1>4 DEF Inv, Types
  <2> QED
    BY <1>3, <2>1 DEF RienDAutre
<1>5. CASE w.id \notin perturbes
  <2>1. EnCours(ops[o], w.id, jeunes[w.id], chats[w.id])
    BY <1>2, <1>5 DEF Inv, Jeune, Suivie
  <2>2. SurRang(w, w.id)
    BY <1>1 DEF SurRang
  <2>3. jeunes[w.id] # Absent /\ Passage(jeunes[w.id], w.ligne)
    BY <1>1, <2>1, <2>2 DEF EnCours, Concerne
  <2> QED
    BY <1>1, <1>2, <1>3, <1>5, <2>3 DEF RelevePour, Presents
<1> QED
  BY <1>4, <1>5

LEMMA DetruireConseillerEffet ==
  ASSUME Inv, NEW o \in Ops, DetruireConseiller(o)
  PROVE  RienDAutre
<1>1. PICK w \in ops[o].ecritures :
        /\ w.table = "suppression conseiller" /\ Effacer(EmportesPar(w.id), {w.id})
        /\ Ecrire(o, w, {})
  BY DEF DetruireConseiller, EnAttente
<1>2. Reguliere(ops[o])
  BY DEF Inv
<1>3. ops[o].cmd = "supprimerConseiller" /\ ops[o].qui = w.id
  BY <1>1, <1>2 DEF Reguliere, Annoncee
<1>4. EmportesPar(w.id) \subseteq perturbes
  BY <1>3 DEF Inv, Abandonnes, EmportesPar
<1>5. \A j \in Jeunes : j \notin EmportesPar(w.id) => jeunes'[j] = jeunes[j]
  BY <1>1 DEF Effacer
<1>6. perturbes' = perturbes
  BY <1>1 DEF Ecrire
<1> QED
  BY <1>4, <1>5, <1>6 DEF RienDAutre

LEMMA DetruireJeuneEffet ==
  ASSUME Inv, NEW o \in Ops, DetruireJeune(o)
  PROVE  RienDAutre \/ \E j \in Jeunes : DepartDe(j)
<1>1. PICK w \in ops[o].ecritures :
        /\ w.table = "suppression jeune" /\ Effacer({w.id}, {})
        /\ Ecrire(o, w, Sur("suppression chat", {w.id}))
  BY DEF DetruireJeune, EnAttente
<1>2. Reguliere(ops[o]) /\ w \in Ecriture /\ Types
  BY DEF Inv, Types, Operation
<1>3. Depart(ops[o], w.id)
  BY <1>1, <1>2 DEF Reguliere, Annoncee, Effacements, Depart
<1>4. w.id \in Jeunes
  BY <1>1, <1>2, EcritureTypes DEF Effacements
<1>5. perturbes' = perturbes
  BY <1>1 DEF Ecrire
<1>6. jeunes' = [j \in Jeunes |-> IF j \in {w.id} THEN Absent ELSE jeunes[j]]
  BY <1>1 DEF Effacer
<1>7. jeunes' = [jeunes EXCEPT ![w.id] = Absent]
  BY <1>2, <1>4, <1>6 DEF Types
<1>8. CASE w.id \in Presents
  BY <1>3, <1>4, <1>5, <1>7, <1>8 DEF DepartDe
<1>9. CASE w.id \notin Presents
  <2>1. jeunes[w.id] = Absent
    BY <1>4, <1>9 DEF Presents
  <2> QED
    BY <1>5, <1>6, <2>1 DEF RienDAutre
<1> QED
  BY <1>8, <1>9

LEMMA EffetSurLesJeunes ==
  ASSUME Inv, Next
  PROVE  RienDAutre \/ \E j \in Jeunes : RelevePour(j) \/ DepartDe(j)
<1>1. jeunes' = jeunes /\ perturbes \subseteq perturbes' => RienDAutre
  BY DEF RienDAutre
<1>2. PICK o \in Ops :
        \/ EcrireJeune(o) \/ DetruireConseiller(o) \/ DetruireJeune(o)
        \/ jeunes' = jeunes /\ perturbes \subseteq perturbes'
  BY CommandesMuettes, EcrituresMuettes DEF Next
<1> QED
  BY <1>1, <1>2, EcrireJeuneEffet, DetruireConseillerEffet, DetruireJeuneEffet

LEMMA SuiviInit ==
  ASSUME Init
  PROVE  S!Init
<1>1. jeunes \in [Jeunes -> S!LigneSuivi]
  BY ConstantsAssumption DEF Init, S!LigneSuivi
<1>2. \A j \in Jeunes : jeunes[j].initial = Aucun
  BY DEF Init
<1>3. perturbes \cap Jeunes = {}
  BY DEF Init
<1> QED
  BY <1>1, <1>2, <1>3 DEF S!Init

(* Every step hands one young person over, sees one leave, or is noticed.   *)
LEMMA SuiviNext ==
  ASSUME Inv, Next
  PROVE  S!Next
<1>1. CASE RienDAutre
  <2>1. /\ perturbes \cap Jeunes \subseteq perturbes' \cap Jeunes
        /\ perturbes' \cap Jeunes \subseteq Jeunes
        /\ \A j \in Jeunes \ (perturbes' \cap Jeunes) : jeunes'[j] = jeunes[j]
    BY <1>1 DEF RienDAutre
  <2>2. S!Perturber
    BY <2>1 DEF S!Perturber
  <2> QED
    BY <2>2 DEF S!Next
<1>2. ASSUME NEW j \in Jeunes, RelevePour(j)
      PROVE  S!Next
  <2>1. PICK l \in LigneJeune :
          Passage(jeunes[j], l) /\ jeunes' = [jeunes EXCEPT ![j] = l]
    BY <1>2 DEF RelevePour
  <2>2. jeunes[j] # Absent /\ (perturbes \cap Jeunes)' = perturbes \cap Jeunes
    BY <1>2 DEF RelevePour, Presents
  <2>3. PICK c \in Conseillers : c = l.conseiller
    BY DEF LigneJeune
  <2>4. l = [conseiller |-> c, initial |-> l.initial]
    BY <2>3 DEF LigneJeune
  <2>5. CASE l.initial = Aucun
    <3>1. S!Confier(j, c)
      BY <2>1, <2>4, <2>5 DEF S!Confier
    <3> QED
      BY <2>2, <3>1 DEF S!Next, S!Commande
  <2>6. CASE l.initial # Aucun
    <3>1. /\ c # jeunes[j].initial
          /\ l.initial = IF jeunes[j].initial = Aucun THEN jeunes[j].conseiller ELSE jeunes[j].initial
      BY <2>1, <2>3, <2>6 DEF Passage
    <3>2. S!Preter(j, c)
      BY <2>1, <2>4, <3>1 DEF S!Preter
    <3> QED
      BY <2>2, <3>2 DEF S!Next, S!Commande
  <2> QED
    BY <2>5, <2>6
<1>3. ASSUME NEW j \in Jeunes, DepartDe(j)
      PROVE  S!Next
  <2>1. /\ jeunes[j] # Absent /\ (perturbes \cap Jeunes)' = perturbes \cap Jeunes
        /\ jeunes' = [jeunes EXCEPT ![j] = Absent]
    BY <1>3 DEF DepartDe, Presents
  <2>2. S!Partir(j)
    BY <2>1 DEF S!Partir
  <2> QED
    BY <2>1, <2>2 DEF S!Next, S!Commande
<1> QED
  BY <1>1, <1>2, <1>3, EffetSurLesJeunes

LEMMA AucunEffacement ==
  ASSUME Inv, Next, NEW j \in Presents \ perturbes', jeunes'[j] = Absent
  PROVE  DisparitionVoulue(j)
<1>1. j \in Jeunes /\ jeunes[j] # Absent /\ jeunes \in [Jeunes -> LigneJeune \cup {Absent}]
  BY DEF Presents, Inv, Types
<1>2. CASE RienDAutre
  BY <1>1, <1>2 DEF RienDAutre
<1>3. ASSUME NEW k \in Jeunes, RelevePour(k)
      PROVE  FALSE
  <2>1. PICK l \in LigneJeune : jeunes' = [jeunes EXCEPT ![k] = l]
    BY <1>3 DEF RelevePour
  <2>2. l # Absent
    BY ConstantsAssumption
  <2> QED
    BY <1>1, <2>1, <2>2
<1>4. ASSUME NEW k \in Jeunes, DepartDe(k)
      PROVE  DisparitionVoulue(j)
  <2>1. jeunes' = [jeunes EXCEPT ![k] = Absent] /\ \E o \in Ops : Depart(ops[o], k)
    BY <1>4 DEF DepartDe
  <2>2. j = k
    BY <1>1, <2>1
  <2> QED
    BY <2>1, <2>2 DEF DisparitionVoulue, Depart
<1> QED
  BY <1>2, <1>3, <1>4, EffetSurLesJeunes

-----------------------------------------------------------------------------
(* The agency a counsellor leaves                                           *)

(* A row of a group event which is not, in the agency of counsellor c,      *)
(* theirs or for those they follow.                                         *)
Etrangere(ligne, c) ==
  ligne.agence = conseillers[c] =>
    ligne.createur # c /\ ligne.jeunes \cap SuivisPar(c) = {}

(* A pending write of a group event: the command has read who is in it and  *)
(* who follows them; it has read its creator too, or leaves it, and its     *)
(* agency, as they are.                                                     *)
Preparee(op, w) ==
  /\ w.id \in op.ecrit
  /\ w.id \notin perturbes =>
       /\ \A i \in 1..Len(w.lignes) : \A j \in w.lignes[i].jeunes :
            j \in op.lit /\ (j \in Presents => jeunes[j].conseiller \in op.lit)
       /\ \/ \A i \in 1..Len(w.lignes) : w.lignes[i].createur \in op.lit
          \/ /\ animations[w.id] # Absent
             /\ \A i \in 1..Len(w.lignes) :
                  /\ w.lignes[i].createur = animations[w.id].createur
                  /\ w.lignes[i].agence = animations[w.id].agence

Programme(op) ==
  \A w \in op.ecritures :
    /\ op.cmd = "changerAgence" => w.table = "animation"
    /\ w.table = "animation" =>
         /\ Preparee(op, w)
         /\ \A v \in op.ecritures : v.table = "animation" /\ (v.id = w.id => v = w)

(* Between the read of a counsellor and the write of their new agency: the  *)
(* group events of the agency they leave, once written, are not theirs.     *)
Quittee(op) ==
  op.cmd = "changerAgence" /\ op.etape = "animations" /\ op.qui \notin perturbes =>
    \A a \in AC \ perturbes :
      /\ \A w \in op.ecritures : w.id = a => Etrangere(w.lignes[Len(w.lignes)], op.qui)
      /\ (\A w \in op.ecritures : w.id # a) /\ animations[a] # Absent =>
           Etrangere(animations[a], op.qui)

Etablie(op) == Programme(op) /\ Quittee(op)
InvEtablissements == \A o \in Ops : Etablie(ops[o])

(* What a step of command o may change of the rows that matter here.        *)
Effets(o) ==
  /\ \A j \in Jeunes :
       \/ jeunes'[j] = jeunes[j] \/ jeunes'[j] = Absent
       \/ j \in ops[o].ecrit /\ jeunes'[j].conseiller \in ops[o].lit
  /\ \A c \in Conseillers : conseillers'[c] = conseillers[c] \/ c \in ops[o].ecrit
  /\ \A a \in AC :
       \/ animations'[a] = animations[a]
       \/ /\ animations[a] # Absent /\ animations'[a] # Absent
          /\ animations'[a].createur = animations[a].createur
          /\ animations'[a].agence = animations[a].agence
          /\ animations'[a].jeunes \subseteq animations[a].jeunes
       \/ \E w \in ops[o].ecritures :
            /\ w.table = "animation" /\ w.id = a /\ 1 \in 1..Len(w.lignes)
            /\ animations'[a] = w.lignes[1]

Isole(o) ==
  /\ \A p \in Ops \ {o} : ops'[p] = ops[p]
  /\ perturbes \subseteq perturbes'

LEMMA SansEffet ==
  ASSUME NEW o, UNCHANGED <<jeunes, conseillers, animations>>
  PROVE  Effets(o)
BY DEF Effets

(* The pending writes of the other commands stay prepared.                  *)
LEMMA ProgrammeDesAutres ==
  ASSUME Inv, InvEtablissements, NEW o \in Ops, Isole(o), Effets(o), NEW p \in Ops \ {o}
  PROVE  Programme(ops[p])'
<1>1. ops'[p] = ops[p] /\ perturbes \subseteq perturbes' /\ Reguliere(ops[p]) /\ Programme(ops[p])
      /\ ops[p] \in Operation /\ Programme(ops[o])
  BY DEF Isole, Inv, InvEtablissements, Etablie, Types
<1>2. SUFFICES ASSUME NEW w \in ops[p].ecritures, w.table = "animation"
               PROVE  Preparee(ops[p], w)'
  BY <1>1 DEF Programme
<1>3. Preparee(ops[p], w)
  BY <1>1, <1>2 DEF Programme
<1>4. w \in Ecriture /\ w.id \in AC /\ w.lignes \in Seq(Animation) /\ w.table \in Tables(ops[p])
  BY <1>1, <1>2, EcritureTypes DEF Operation, Reguliere
<1>5. ops[p].cmd \notin Departs
  BY <1>2, <1>4 DEF Tables, Effacements
<1>6. w.id \notin perturbes =>
        /\ ops[o].ecrit \cap (ops[p].lit \cup ops[p].ecrit) = {}
        /\ ops[p].ecrit \cap ops[o].lit = {}
  <2>1. w.id \in ops[p].ecrit
    BY <1>3 DEF Preparee
  <2>2. w.id \notin perturbes => ~EnConflit(ops[o], ops[p])
    BY <2>1 DEF Inv, Isolement
  <2> QED
    BY <1>5, <2>2 DEF EnConflit
<1>7. SUFFICES ASSUME w.id \notin perturbes'
               PROVE  /\ \A i \in 1..Len(w.lignes) : \A j \in w.lignes[i].jeunes :
                           j \in ops[p].lit /\ (j \in Presents' => jeunes'[j].conseiller \in ops[p].lit)
                      /\ \/ \A i \in 1..Len(w.lignes) : w.lignes[i].createur \in ops[p].lit
                         \/ /\ animations'[w.id] # Absent
                            /\ \A i \in 1..Len(w.lignes) :
                                 /\ w.lignes[i].createur = animations'[w.id].createur
                                 /\ w.lignes[i].agence = animations'[w.id].agence
  BY <1>1, <1>3 DEF Preparee
<1>8. w.id \notin perturbes
  BY <1>1, <1>7
<1>9. /\ \A i \in 1..Len(w.lignes) : \A j \in w.lignes[i].jeunes :
           j \in ops[p].lit /\ (j \in Presents => jeunes[j].conseiller \in ops[p].lit)
      /\ \/ \A i \in 1..Len(w.lignes) : w.lignes[i].createur \in ops[p].lit
         \/ /\ animations[w.id] # Absent
            /\ \A i \in 1..Len(w.lignes) :
                 /\ w.lignes[i].createur = animations[w.id].createur
                 /\ w.lignes[i].agence = animations[w.id].agence
  BY <1>3, <1>7, <1>8 DEF Preparee
<1>10. \A i \in 1..Len(w.lignes) : w.lignes[i] \in Animation
  BY <1>4, <1>7
<1>11. ASSUME NEW i \in 1..Len(w.lignes), NEW j \in w.lignes[i].jeunes
       PROVE  j \in ops[p].lit /\ (j \in Presents' => jeunes'[j].conseiller \in ops[p].lit)
  <2>1. j \in Jeunes /\ j \in ops[p].lit
    BY <1>9, <1>10, <1>11 DEF Animation
  <2>2. j \notin ops[o].ecrit
    BY <1>6, <1>8, <2>1
  <2>3. jeunes'[j] = jeunes[j] \/ jeunes'[j] = Absent
    BY <2>1, <2>2 DEF Effets
  <2> QED
    BY <1>9, <1>11, <2>1, <2>3 DEF Presents
<1>12. ASSUME animations[w.id] # Absent
       PROVE  /\ animations'[w.id] # Absent
              /\ animations'[w.id].createur = animations[w.id].createur
              /\ animations'[w.id].agence = animations[w.id].agence
  <2>1. w.id \notin ops[o].ecrit
    BY <1>3, <1>6, <1>8 DEF Preparee
  <2>2. \A v \in ops[o].ecritures : v.table = "animation" => v.id # w.id
    BY <1>1, <2>1 DEF Programme, Preparee
  <2>3. \/ animations'[w.id] = animations[w.id]
        \/ /\ animations'[w.id] # Absent
           /\ animations'[w.id].createur = animations[w.id].createur
           /\ animations'[w.id].agence = animations[w.id].agence
    BY <1>4, <2>2 DEF Effets
  <2> QED
    BY <1>12, <2>3
<1> QED
  BY <1>9, <1>11, <1>12

(* ... and the agency another command has left stays left.                  *)
LEMMA QuitteeDesAutres ==
  ASSUME Inv, InvEtablissements, NEW o \in Ops, Isole(o), Effets(o), NEW p \in Ops \ {o}
  PROVE  Quittee(ops[p])'
<1>1. /\ ops'[p] = ops[p] /\ perturbes \subseteq perturbes' /\ Reguliere(ops[p])
      /\ Quittee(ops[p]) /\ Programme(ops[o]) /\ ops[o] \in Operation /\ Types
  BY DEF Isole, Inv, InvEtablissements, Etablie, Types
<1>2. SUFFICES ASSUME ops[p].cmd = "changerAgence", ops[p].etape = "animations",
                      ops[p].qui \notin perturbes', NEW a \in AC \ perturbes',
                      NEW c, c = ops[p].qui
               PROVE  /\ \A w \in ops[p].ecritures :
                           w.id = a => Etrangere(w.lignes[Len(w.lignes)], c)'
                      /\ (\A w \in ops[p].ecritures : w.id # a) /\ animations'[a] # Absent =>
                           Etrangere(animations[a], c)'
  BY <1>1 DEF Quittee, Etrangere, SuivisPar
<1>3. c \in Conseillers /\ c \in ops[p].ecrit /\ c \notin perturbes /\ a \in AC /\ a \notin perturbes
  BY <1>1, <1>2 DEF Reguliere
<1>4. c \notin ops[o].lit /\ c \notin ops[o].ecrit
  <2>1. ~EnConflit(ops[o], ops[p])
    BY <1>3 DEF Inv, Isolement
  <2>2. ops[p].cmd \notin Departs
    BY <1>2 DEF Departs
  <2> QED
    BY <1>3, <2>1, <2>2 DEF EnConflit
<1>5. conseillers'[c] = conseillers[c]
  BY <1>3, <1>4 DEF Effets
<1>6. SuivisPar(c)' \subseteq SuivisPar(c)
  <2>1. ASSUME NEW j \in Jeunes, jeunes'[j] # Absent, jeunes'[j].conseiller = c
        PROVE  jeunes[j] # Absent /\ jeunes[j].conseiller = c
    BY <1>4, <2>1 DEF Effets
  <2> QED
    BY <2>1 DEF SuivisPar, Presents
<1>7. /\ \A w \in ops[p].ecritures : w.id = a => Etrangere(w.lignes[Len(w.lignes)], c)
      /\ (\A w \in ops[p].ecritures : w.id # a) /\ animations[a] # Absent =>
           Etrangere(animations[a], c)
  BY <1>1, <1>2, <1>3 DEF Quittee
<1>8. ASSUME NEW w \in ops[p].ecritures, w.id = a
      PROVE  Etrangere(w.lignes[Len(w.lignes)], c)'
  BY <1>5, <1>6, <1>7, <1>8 DEF Etrangere
<1>9. ASSUME \A w \in ops[p].ecritures : w.id # a, animations'[a] # Absent
      PROVE  Etrangere(animations[a], c)'
  <2>1. CASE animations'[a] = animations[a]
    BY <1>5, <1>6, <1>7, <1>9, <2>1 DEF Etrangere
  <2>2. CASE /\ animations[a] # Absent
             /\ animations'[a].createur = animations[a].createur
             /\ animations'[a].agence = animations[a].agence
             /\ animations'[a].jeunes \subseteq animations[a].jeunes
    BY <1>5, <1>6, <1>7, <1>9, <2>2 DEF Etrangere
  <2>3. ASSUME NEW w \in ops[o].ecritures, w.table = "animation", w.id = a, 1 \in 1..Len(w.lignes),
               animations'[a] = w.lignes[1]
        PROVE  Etrangere(animations[a], c)'
    <3>1. /\ \A j \in w.lignes[1].jeunes : j \in Presents => jeunes[j].conseiller \in ops[o].lit
          /\ \/ w.lignes[1].createur \in ops[o].lit
             \/ /\ animations[a] # Absent
                /\ w.lignes[1].createur = animations[a].createur
                /\ w.lignes[1].agence = animations[a].agence
      BY <1>1, <1>3, <2>3 DEF Programme, Preparee
    <3>2. w.lignes[1].jeunes \cap SuivisPar(c) = {}
      BY <1>4, <3>1 DEF SuivisPar
    <3>3. w.lignes[1].agence = conseillers[c] => w.lignes[1].createur # c
      BY <1>4, <1>7, <1>9, <3>1 DEF Etrangere
    <3> QED
      BY <1>5, <1>6, <2>3, <3>2, <3>3 DEF Etrangere
  <2> QED
    BY <1>3, <2>1, <2>2, <2>3 DEF Effets
<1> QED
  BY <1>8, <1>9

LEMMA EtablissementsSuivent ==
  ASSUME Inv, InvEtablissements, NEW o \in Ops, Isole(o), Effets(o), Etablie(ops[o])'
  PROVE  InvEtablissements'
<1>1. \A p \in Ops \ {o} : Etablie(ops[p])'
  BY ProgrammeDesAutres, QuitteeDesAutres DEF Etablie
<1> QED
  BY <1>1 DEF InvEtablissements

(* A command that writes no group event, and moves nobody.                  *)
SansEvenement(op) ==
  /\ \A w \in op.ecritures : w.table # "animation"
  /\ op.cmd = "changerAgence" => op.ecritures = {} /\ op.etape # "animations"

LEMMA SansEvenementEtablie ==
  ASSUME NEW op, SansEvenement(op)
  PROVE  Etablie(op) /\ (Etablie(op))'
BY DEF SansEvenement, Etablie, Programme, Quittee

LEMMA SansEvenementSuit ==
  ASSUME Inv, InvEtablissements, NEW o \in Ops, Isole(o), Effets(o), SansEvenement(ops'[o])
  PROVE  InvEtablissements'
<1>1. Etablie(ops[o])'
  BY DEF SansEvenement, Etablie, Programme, Quittee
<1> QED
  BY <1>1, EtablissementsSuivent

(* Most commands have no group event in their course.                       *)
LEMMA CoursSansEvenement ==
  ASSUME NEW op, Reguliere(op), 
         \/ op.cmd \in Departs \cup {"supprimerConseiller", "recuperer"}
         \/ op.cmd = "transferer" /\ op.etape # "animations"
  PROVE  SansEvenement(op)
BY DEF Reguliere, Tables, SansEvenement, Departs, Effacements, Mouvements

LEMMA LibreSansEvenement == SansEvenement(Libre)
BY LibreOperation DEF SansEvenement

(* A command that reads touches no row.                                     *)
LEMMA LectureSobre ==
  ASSUME Types, NEW o \in Ops, NEW op, Lecture(o, op)
  PROVE  Isole(o) /\ Effets(o) /\ ops'[o] = Poursuivre(op)
         /\ UNCHANGED <<jeunes, conseillers, animations>>
<1>1. UNCHANGED <<jeunes, conseillers, animations>>
  BY DEF Lecture, donnees
<1>2. ops' = [ops EXCEPT ![o] = Poursuivre(op)] /\ perturbes \subseteq perturbes'
  BY ToutEstMarque DEF Lecture
<1>3. Isole(o) /\ ops'[o] = Poursuivre(op)
  BY <1>2 DEF Isole, Types
<1> QED
  BY <1>1, <1>3, SansEffet

LEMMA PoursuivreSansEvenement ==
  ASSUME NEW op, SansEvenement(op)
  PROVE  SansEvenement(Poursuivre(op))
BY LibreSansEvenement DEF Poursuivre

LEMMA LectureSansEvenement ==
  ASSUME Inv, InvEtablissements, NEW o \in Ops, NEW op, Demarrer(o, op) \/ Relire(o, op),
         SansEvenement(op)
  PROVE  InvEtablissements'
BY LectureSobre, PoursuivreSansEvenement, SansEvenementSuit DEF Demarrer, Relire, Inv

LEMMA CoursLecture ==
  ASSUME Inv, Inv', InvEtablissements, NEW o \in Ops, NEW op, Demarrer(o, op) \/ Relire(o, op),
         \/ op.cmd \in Departs \cup {"supprimerConseiller", "recuperer"}
         \/ op.cmd = "transferer" /\ op.etape # "animations"
  PROVE  InvEtablissements'
<1>1. Types /\ Reguliere(ops'[o])
  BY DEF Inv
<1>2. Isole(o) /\ Effets(o) /\ ops'[o] = Poursuivre(op)
  BY <1>1, LectureSobre DEF Demarrer, Relire
<1>3. SansEvenement(ops'[o])
  BY <1>1, <1>2, CoursSansEvenement, LibreSansEvenement DEF Poursuivre
<1> QED
  BY <1>2, <1>3, SansEvenementSuit

LEMMA PreteSansEvenement ==
  ASSUME Inv, InvEtablissements, NEW o \in Ops, NEW cmd, NEW w, NEW lit, NEW ecrit,
         Demarrer(o, Prete(cmd, {w}, lit, ecrit)), cmd # "changerAgence", w.table # "animation"
  PROVE  InvEtablissements'
<1>1. SansEvenement(Prete(cmd, {w}, lit, ecrit))
  BY PreteChamps DEF SansEvenement
<1> QED
  BY <1>1, LectureSansEvenement

LEMMA CommandesSansEvenement ==
  ASSUME Inv, Inv', InvEtablissements, NEW o \in Ops,
         \/ Transferer(o) \/ LireListes(o) \/ Recuperer(o) \/ SupprimerConseiller(o)
         \/ LireInitiaux(o) \/ SupprimerJeune(o) \/ ArchiverJeune(o) \/ ArchiverJeuneSupport(o)
         \/ ChangerAgence(o) \/ ModifierConseiller(o)
         \/ CreerListe(o) \/ ModifierListe(o) \/ AjouterJeuneListe(o) \/ SupprimerListe(o)
  PROVE  InvEtablissements'
<1>1. ops[o] \in Operation /\ Reguliere(ops[o])
  BY DEF Inv, Types
<1>2. \A op : /\ Demarrer(o, op)
              /\ \/ op.cmd = "transferer" /\ op.etape = "jeunes"
                 \/ op.cmd \in Departs \cup {"supprimerConseiller", "recuperer"}
              => InvEtablissements'
  BY CoursLecture
<1>3. \A op : /\ Relire(o, op)
              /\ \/ op.cmd = "transferer" /\ op.etape = "listes"
                 \/ op.cmd = "supprimerConseiller"
              => InvEtablissements'
  BY CoursLecture
<1>5. CASE Transferer(o)
  <2>1. PICK source \in {c \in Conseillers : Existe(c)}, cible \in {c \in Conseillers : Existe(c)},
            temporaire \in BOOLEAN :
        \E js \in (SUBSET SuivisPar(source)) \ {{}} :
          LET ligne(j) == [conseiller |-> cible,
                           initial |-> mapConseillerInitial(jeunes[j], source, cible, temporaire)]
              transfert == [source |-> source, cible |-> cible,
                            type |-> IF temporaire THEN "temporaire" ELSE "definitif"]
          IN /\ Demarrer(o, [Libre EXCEPT
                  !.cmd = "transferer", !.etape = "jeunes", !.qui = source,
                  !.temporaire = temporaire, !.jeunes = js,
                  !.quittee = AgenceQuittee(source, cible),
                  !.ecritures = {EcritureChat(transfert, {[id |-> j, ligne |-> ligne(j)] : j \in js})},
                  !.lit = Dossiers(js) \cup {cible}, !.ecrit = js])
             /\ UNCHANGED uuids
    BY <1>5, Zenon DEF Transferer
  <2> DEFINE op(js, ecritures) ==
        [Libre EXCEPT
           !.cmd = "transferer", !.etape = "jeunes", !.qui = source,
           !.temporaire = temporaire, !.jeunes = js, !.quittee = AgenceQuittee(source, cible),
           !.ecritures = ecritures, !.lit = Dossiers(js) \cup {cible}, !.ecrit = js]
  <2>2. PICK js, ecritures : Demarrer(o, op(js, ecritures))
    <3> DEFINE chat(js) == {EcritureChat([source |-> source, cible |-> cible,
                              type |-> IF temporaire THEN "temporaire" ELSE "definitif"],
                           {[id |-> j, ligne |-> [conseiller |-> cible, initial |->
                              mapConseillerInitial(jeunes[j], source, cible, temporaire)]] : j \in js})}
    <3>1. \E js \in (SUBSET SuivisPar(source)) \ {{}} : Demarrer(o, op(js, chat(js)))
      BY <2>1
    <3> HIDE DEF chat, op
    <3> QED
      BY <3>1
  <2>3. op(js, ecritures).cmd = "transferer" /\ op(js, ecritures).etape = "jeunes"
    BY DEF Libre
  <2> HIDE DEF op
  <2> QED
    BY <1>2, <2>2, <2>3
<1>6. CASE Recuperer(o)
  BY <1>2, <1>6, PreteChamps DEF Recuperer
<1>7. CASE LireListes(o)
  BY <1>1, <1>3, <1>7 DEF LireListes, Operation
<1>8. CASE SupprimerConseiller(o)
  BY <1>2, <1>8 DEF SupprimerConseiller, Libre
<1>9. CASE LireInitiaux(o)
  <2>1. ops[o].cmd = "supprimerConseiller"
    BY <1>1, <1>9 DEF LireInitiaux, Reguliere, Etapes, Departs
  <2> QED
    BY <1>1, <1>3, <1>9, <2>1 DEF LireInitiaux, Operation
<1>10. CASE SupprimerJeune(o) \/ ArchiverJeune(o) \/ ArchiverJeuneSupport(o)
  BY <1>2, <1>10 DEF SupprimerJeune, ArchiverJeune, ArchiverJeuneSupport, Quitter, Departs, Libre
<1>11. CASE ChangerAgence(o)
  <2>1. \A op : Demarrer(o, op) /\ op.ecritures = {} /\ op.etape = "conseillers"
               => InvEtablissements'
    BY LectureSansEvenement DEF SansEvenement
  <2> QED
    BY <1>11, <2>1 DEF ChangerAgence, Libre
<1>12. CASE ModifierConseiller(o)
  <2>1. PICK c \in Conseillers, agence \in Agences \cup {Aucun} :
          Demarrer(o, Prete("modifierConseiller",
            {[table |-> "conseiller", id |-> c, agence |-> agence]}, {c}, {c}))
    BY <1>12 DEF ModifierConseiller
  <2> DEFINE w == [table |-> "conseiller", id |-> c, agence |-> agence]
  <2>2. Demarrer(o, Prete("modifierConseiller", {w}, {c}, {c})) /\ w.table # "animation"
    BY <2>1
  <2> HIDE DEF w
  <2> QED
    BY <2>2, PreteSansEvenement
<1>13. CASE CreerListe(o)
  <2>1. PICK c \in {d \in Conseillers : Existe(d)}, l \in Listes \ uuids :
        \E js \in SUBSET SuivisPar(c) :
          Demarrer(o, Prete("creerListe", {EcritureListe(l, c, js)}, Dossiers(js) \cup {c}, {l}))
    BY <1>13 DEF CreerListe
  <2>2. PICK js \in SUBSET SuivisPar(c) :
          Demarrer(o, Prete("creerListe", {EcritureListe(l, c, js)}, Dossiers(js) \cup {c}, {l}))
    BY <2>1
  <2>3. EcritureListe(l, c, js).table # "animation"
    BY DEF EcritureListe
  <2> QED
    BY <2>2, <2>3, PreteSansEvenement
<1>14. CASE ModifierListe(o)
  <2>1. PICK l \in Listes :
          \E js \in SUBSET (SuivisPar(listes[l].conseiller) \cup Origine(listes[l].conseiller)) :
            Demarrer(o, Prete("modifierListe", {EcritureListe(l, listes[l].conseiller, js)},
                              Dossiers(js) \cup {listes[l].conseiller, l}, {l}))
    BY <1>14 DEF ModifierListe
  <2>2. PICK js : Demarrer(o, Prete("modifierListe", {EcritureListe(l, listes[l].conseiller, js)},
                              Dossiers(js) \cup {listes[l].conseiller, l}, {l}))
    BY <2>1
  <2>3. EcritureListe(l, listes[l].conseiller, js).table # "animation"
    BY DEF EcritureListe
  <2> QED
    BY <2>2, <2>3, PreteSansEvenement
<1>15. CASE AjouterJeuneListe(o)
  <2>1. PICK l \in Listes :
          \E j \in SuivisPar(listes[l].conseiller) :
            Demarrer(o, Prete("ajouterJeuneListe",
              {[table |-> "membres", id |-> l, jeunes |-> {j}, ajout |-> TRUE]},
              Dossiers({j}) \cup {l}, {l}))
    BY <1>15 DEF AjouterJeuneListe
  <2>2. PICK j : Demarrer(o, Prete("ajouterJeuneListe",
              {[table |-> "membres", id |-> l, jeunes |-> {j}, ajout |-> TRUE]},
              Dossiers({j}) \cup {l}, {l}))
    BY <2>1
  <2> DEFINE w == [table |-> "membres", id |-> l, jeunes |-> {j}, ajout |-> TRUE]
  <2>3. Demarrer(o, Prete("ajouterJeuneListe", {w}, Dossiers({j}) \cup {l}, {l}))
        /\ w.table # "animation"
    BY <2>2
  <2> HIDE DEF w
  <2> QED
    BY <2>3, PreteSansEvenement
<1>16. CASE SupprimerListe(o)
  <2>1. PICK l \in Listes :
          Demarrer(o, Prete("supprimerListe", {[table |-> "suppression liste", id |-> l]}, {l}, {l}))
    BY <1>16 DEF SupprimerListe
  <2> DEFINE w == [table |-> "suppression liste", id |-> l]
  <2>2. Demarrer(o, Prete("supprimerListe", {w}, {l}, {l})) /\ w.table # "animation"
    BY <2>1
  <2> HIDE DEF w
  <2> QED
    BY <2>2, PreteSansEvenement
<1> QED
  BY <1>5, <1>6, <1>7, <1>8, <1>9, <1>10, <1>11, <1>12, <1>13, <1>14, <1>15, <1>16

LEMMA DepartsSansEvenement ==
  ASSUME Inv, Inv', InvEtablissements, NEW o \in Ops,
         SupprimerCompte(o) \/ LireConversation(o) \/ LireDossier(o) \/ PoursuivreSansArchive(o)
  PROVE  InvEtablissements'
<1>1. ops[o] \in Operation /\ Reguliere(ops[o]) /\ Types /\ Reguliere(ops'[o])
  BY DEF Inv, Types
<1>2. UNCHANGED <<jeunes, conseillers, animations>>
  BY DEF SupprimerCompte, LireConversation, LireDossier, PoursuivreSansArchive, donnees
<1>3. perturbes \subseteq perturbes' /\ \A p \in Ops \ {o} : ops'[p] = ops[p]
  BY <1>1 DEF SupprimerCompte, LireConversation, LireDossier, PoursuivreSansArchive, Types
<1>4. ops[o].cmd \in Departs \cup {"supprimerConseiller"}
  BY <1>1 DEF SupprimerCompte, LireConversation, LireDossier, PoursuivreSansArchive, EnArchivage,
     Reguliere, Etapes, Departs
<1>5. ops'[o].cmd = ops[o].cmd \/ ops'[o] = Libre
  <2>1. CASE SupprimerCompte(o)
    BY <1>1, <2>1 DEF SupprimerCompte, Operation, Types
  <2>2. CASE LireConversation(o) 
    BY <1>1, <2>2 DEF LireConversation, Operation, Types
  <2>3. CASE LireDossier(o)
    BY <1>1, <2>3 DEF LireDossier, Poursuivre, Operation, Types
  <2>4. CASE PoursuivreSansArchive(o)
    BY <1>1, <2>4 DEF PoursuivreSansArchive, Operation, Types
  <2> QED
    BY <2>1, <2>2, <2>3, <2>4
<1>6. SansEvenement(ops'[o])
  BY <1>1, <1>4, <1>5, CoursSansEvenement, LibreSansEvenement
<1>7. Isole(o) /\ Effets(o)
  BY <1>2, <1>3, SansEffet DEF Isole
<1> QED
  BY <1>6, <1>7, SansEvenementSuit

(* A write on anything but a group event.                                   *)
LEMMA EcrireSansEvenement ==
  ASSUME Inv, InvEtablissements, NEW o \in Ops, NEW w \in ops[o].ecritures, w.table # "animation",
         NEW suites, \A v \in suites : v.table # "animation", Ecrire(o, w, suites), Effets(o)
  PROVE  InvEtablissements'
<1>1. ops[o] \in Operation /\ Programme(ops[o]) /\ Types
  BY DEF Inv, Types, InvEtablissements, Etablie
<1>2. ops[o].cmd # "changerAgence" /\ \A v \in ops[o].ecritures : v.table # "animation"
  BY <1>1 DEF Programme
<1> DEFINE r == [ops[o] EXCEPT !.ecritures = (@ \ {w}) \cup suites]
<1>3. ops' = [ops EXCEPT ![o] = Poursuivre(r)] /\ perturbes' = perturbes
  BY DEF Ecrire
<1>4. r.cmd = ops[o].cmd /\ r.ecritures = (ops[o].ecritures \ {w}) \cup suites
  BY <1>1 DEF Operation
<1> HIDE DEF r
<1>5. SansEvenement(r)
  BY <1>2, <1>4 DEF SansEvenement
<1>6. ops'[o] = Poursuivre(r) /\ Isole(o)
  BY <1>1, <1>3 DEF Isole, Types
<1> QED
  BY <1>5, <1>6, PoursuivreSansEvenement, SansEvenementSuit

(* Rows that disappear leave those of the group events as they are, but for *)
(* the young people who are gone.                                           *)
LEMMA EffacerEffets ==
  ASSUME Types, NEW o, NEW js, NEW cs, Effacer(js, cs), cs \subseteq ops[o].ecrit
  PROVE  Effets(o)
<1>1. \A j \in Jeunes : jeunes'[j] = jeunes[j] \/ jeunes'[j] = Absent
  BY DEF Effacer
<1>2. \A c \in Conseillers : conseillers'[c] = conseillers[c] \/ c \in ops[o].ecrit
  BY DEF Effacer
<1>3. ASSUME NEW a \in AC
      PROVE  \/ animations'[a] = animations[a]
             \/ /\ animations[a] # Absent /\ animations'[a] # Absent
                /\ animations'[a].createur = animations[a].createur
                /\ animations'[a].agence = animations[a].agence
                /\ animations'[a].jeunes \subseteq animations[a].jeunes
  <2>1. animations'[a] = IF animations[a] = Absent THEN Absent
                         ELSE [animations[a] EXCEPT !.jeunes = @ \ js]
    BY <1>3 DEF Effacer
  <2>2. CASE animations[a] = Absent
    BY <2>1, <2>2
  <2>3. CASE animations[a] # Absent
    <3>1. animations[a] \in Animation
      BY <1>3, <2>3 DEF Types
    <3>2. PICK r : r = [animations[a] EXCEPT !.jeunes = @ \ js]
      OBVIOUS
    <3>3. /\ r \in Animation /\ r.createur = animations[a].createur
          /\ r.agence = animations[a].agence /\ r.jeunes = animations[a].jeunes \ js
      BY <3>1, <3>2 DEF Animation
    <3>4. r # Absent
      BY <3>3, ConstantsAssumption
    <3> QED
      BY <2>1, <2>3, <3>2, <3>3, <3>4
  <2> QED
    BY <2>2, <2>3
<1> QED
  BY <1>1, <1>2, <1>3 DEF Effets

LEMMA SurUneTable ==
  ASSUME NEW table, NEW js
  PROVE  \A v \in Sur(table, js) : v.table = table
BY DEF Sur

LEMMA EcrituresSansEvenement ==
  ASSUME Inv, InvEtablissements, NEW o \in Ops,
         \/ EcrireChat(o) \/ EcrireTransfert(o) \/ EcrireJeune(o) \/ EcrireListe(o)
         \/ EcrireMembres(o) \/ DetruireListe(o) \/ EcrireConseiller(o)
         \/ DetruireConseiller(o) \/ DetruireJeune(o) \/ DetruireChat(o)
         \/ DetruireArchives(o) \/ EcrireArchive(o)
  PROVE  InvEtablissements'
<1>1. Types /\ ops[o] \in Operation /\ Reguliere(ops[o])
  BY DEF Inv, Types
<1>2. \A w \in ops[o].ecritures : w \in Ecriture /\ Annoncee(ops[o], w)
  BY <1>1 DEF Operation, Reguliere
<1>3. UNCHANGED <<jeunes, conseillers, animations>> => Effets(o)
  BY SansEffet
<1>4. CASE EcrireChat(o)
  <2>1. PICK w \in ops[o].ecritures :
          w.table = "chat" /\ Ecrire(o, w, SuitesDuChat(w))
          /\ UNCHANGED <<jeunes, conseillers, animations>>
    BY <1>4 DEF EcrireChat, EnAttente
  <2>2. \A v \in SuitesDuChat(w) : v.table # "animation"
    BY DEF SuitesDuChat
  <2> QED
    BY <1>3, <2>1, <2>2, EcrireSansEvenement
<1>5. CASE EcrireTransfert(o) \/ EcrireMembres(o) \/ DetruireListe(o) \/ DetruireChat(o)
  <2>1. PICK w \in ops[o].ecritures :
          w.table # "animation" /\ Ecrire(o, w, {})
          /\ UNCHANGED <<jeunes, conseillers, animations>>
    BY <1>5 DEF EcrireTransfert, EcrireMembres, DetruireListe, DetruireChat, EnAttente
  <2> QED
    BY <1>3, <2>1, EcrireSansEvenement
<1>6. CASE EcrireListe(o)
  <2>1. PICK w \in ops[o].ecritures :
          w.table = "liste" /\ Ecrire(o, w, {[table |-> "membres", id |-> w.id,
                                   jeunes |-> w.ligne.jeunes, ajout |-> FALSE]})
          /\ UNCHANGED <<jeunes, conseillers, animations>>
    BY <1>6 DEF EcrireListe, EnAttente
  <2> DEFINE suites == {[table |-> "membres", id |-> w.id, jeunes |-> w.ligne.jeunes, ajout |-> FALSE]}
  <2>2. \A v \in suites : v.table # "animation"
    OBVIOUS
  <2>3. Ecrire(o, w, suites)
    BY <2>1
  <2> HIDE DEF suites
  <2> QED
    BY <1>3, <2>1, <2>2, <2>3, EcrireSansEvenement
<1>7. CASE DetruireArchives(o) \/ EcrireArchive(o)
  <2>1. PICK w \in ops[o].ecritures, table \in {"archive", "suppression jeune"} :
          w.table # "animation" /\ Ecrire(o, w, Sur(table, {w.id}))
          /\ UNCHANGED <<jeunes, conseillers, animations>>
    BY <1>7 DEF DetruireArchives, EcrireArchive, EnAttente
  <2>2. \A v \in Sur(table, {w.id}) : v.table # "animation"
    BY SurUneTable
  <2> QED
    BY <1>3, <2>1, <2>2, EcrireSansEvenement
<1>8. CASE EcrireJeune(o)
  <2>1. PICK w \in ops[o].ecritures :
          w.table = "jeune" /\ Ecrire(o, w, {}) /\ jeunes' = [jeunes EXCEPT ![w.id] = w.ligne]
          /\ UNCHANGED <<conseillers, animations>>
    BY <1>8 DEF EcrireJeune, EnAttente
  <2>2. w.id \in ops[o].ecrit /\ w.ligne.conseiller \in ops[o].lit
    BY <1>2, <2>1 DEF Annoncee
  <2>3. \A j \in Jeunes : jeunes'[j] = jeunes[j] \/ (j = w.id /\ jeunes'[j] = w.ligne)
    BY <1>1, <2>1 DEF Types
  <2>4. Effets(o)
    BY <2>1, <2>2, <2>3 DEF Effets
  <2> QED
    BY <2>1, <2>4, EcrireSansEvenement
<1>9. CASE EcrireConseiller(o)
  <2>1. PICK w \in ops[o].ecritures :
          w.table = "conseiller" /\ Ecrire(o, w, {})
          /\ conseillers' = [conseillers EXCEPT ![w.id] = w.agence]
          /\ UNCHANGED <<jeunes, animations>>
    BY <1>9 DEF EcrireConseiller, EnAttente
  <2>2. w.id \in ops[o].ecrit
    BY <1>2, <2>1 DEF Annoncee
  <2>3. \A c \in Conseillers : conseillers'[c] = conseillers[c] \/ c = w.id
    BY <1>1, <2>1 DEF Types
  <2>4. Effets(o)
    BY <2>1, <2>2, <2>3 DEF Effets
  <2> QED
    BY <2>1, <2>4, EcrireSansEvenement
<1>10. CASE DetruireConseiller(o)
  <2>1. PICK w \in ops[o].ecritures :
          w.table = "suppression conseiller" /\ Ecrire(o, w, {})
          /\ Effacer(EmportesPar(w.id), {w.id})
    BY <1>10 DEF DetruireConseiller, EnAttente
  <2>2. {w.id} \subseteq ops[o].ecrit
    BY <1>1, <1>2, <2>1 DEF Annoncee, Reguliere
  <2>3. Effets(o)
    BY <1>1, <2>1, <2>2, EffacerEffets
  <2>4. w.table # "animation" /\ Ecrire(o, w, {})
    BY <2>1
  <2> QED
    BY <2>3, <2>4, EcrireSansEvenement
<1>11. CASE DetruireJeune(o)
  <2>1. PICK w \in ops[o].ecritures :
          w.table = "suppression jeune" /\ Ecrire(o, w, Sur("suppression chat", {w.id}))
          /\ Effacer({w.id}, {})
    BY <1>11 DEF DetruireJeune, EnAttente
  <2>2. \A v \in Sur("suppression chat", {w.id}) : v.table # "animation"
    BY SurUneTable
  <2>3. Effets(o)
    BY <1>1, <2>1, EffacerEffets
  <2> QED
    BY <2>1, <2>2, <2>3, EcrireSansEvenement
<1> QED
  BY <1>4, <1>5, <1>6, <1>7, <1>8, <1>9, <1>10, <1>11

LEMMA SauverAgenceEtablie ==
  ASSUME Inv, InvEtablissements, NEW o \in Ops, SauverAgence(o)
  PROVE  InvEtablissements'
<1>1. Types /\ ops[o] \in Operation /\ Reguliere(ops[o])
  BY DEF Inv, Types
<1>2. /\ ops[o].ecritures = {} /\ ops[o].qui \in ops[o].ecrit
      /\ conseillers' = [conseillers EXCEPT ![ops[o].qui] = ops[o].nouvelle]
      /\ UNCHANGED <<jeunes, animations, perturbes>>
  BY <1>1 DEF SauverAgence, Reguliere
<1>3. Effets(o)
  BY <1>1, <1>2 DEF Effets, Types
<1> DEFINE r == [ops[o] EXCEPT !.etape = "conseillers"]
<1>4. ops' = [ops EXCEPT ![o] = Poursuivre(r)]
  BY DEF SauverAgence
<1>5. r.ecritures = {} /\ r.etape = "conseillers"
  BY <1>1, <1>2 DEF Operation
<1> HIDE DEF r
<1>6. SansEvenement(Poursuivre(r))
  BY <1>5, PoursuivreSansEvenement DEF SansEvenement
<1>7. Isole(o) /\ SansEvenement(ops'[o])
  BY <1>1, <1>2, <1>4, <1>6 DEF Isole, Types
<1> QED
  BY <1>3, <1>7, SansEvenementSuit

(* A failure leaves a part of the writes, and the command has no agency to  *)
(* change any more.                                                         *)
LEMMA InterruptionEtablie ==
  ASSUME Inv, InvEtablissements, NEW o \in Ops, Echec(o) \/ Abandon(o)
  PROVE  InvEtablissements'
<1>1. Types /\ ops[o] \in Operation /\ Programme(ops[o])
  BY DEF Inv, Types, InvEtablissements, Etablie
<1>2. UNCHANGED <<jeunes, conseillers, animations>> /\ perturbes \subseteq perturbes'
  BY DEF Echec, Abandon, donnees
<1>3. CASE Abandon(o)
  <2>1. Isole(o) /\ ops'[o] = Libre
    BY <1>1, <1>2, <1>3 DEF Abandon, Isole, Types
  <2> QED
    BY <1>2, <2>1, SansEffet, LibreSansEvenement, SansEvenementSuit
<1>4. CASE Echec(o)
  <2>1. PICK w \in ops[o].ecritures, q \in Operation : Interrompt(o, q, w)
    BY <1>4, EchecFait
  <2>2. /\ Isole(o) /\ ops'[o] = q
    BY <1>1, <1>2, <2>1 DEF Interrompt, Pas, Isole, Types
  <2>3. \A v \in q.ecritures : v \in ops[o].ecritures /\ q.cmd = ops[o].cmd
    BY <2>1, InterromptReduit
  <2>4. q # Libre => q.etape = "fin" /\ q.lit = ops[o].lit /\ q.ecrit = ops[o].ecrit
    BY <2>1 DEF Interrompt, Pareille
  <2>5. q = Libre => Etablie(q)'
    BY LibreSansEvenement, SansEvenementEtablie
  <2>6. ASSUME q # Libre
        PROVE  Etablie(q)'
    <3>1. ASSUME NEW v \in q.ecritures
          PROVE  /\ q.cmd = "changerAgence" => v.table = "animation"
                 /\ v.table = "animation" =>
                      /\ Preparee(q, v)'
                      /\ \A u \in q.ecritures : u.table = "animation" /\ (u.id = v.id => u = v)
      <4>1. v.table = "animation" => Preparee(ops[o], v)
        BY <1>1, <2>3, <3>1 DEF Programme
      <4>2. Preparee(ops[o], v) => Preparee(q, v)'
        BY <1>2, <2>4, <2>6 DEF Preparee, Presents
      <4> QED
        BY <1>1, <2>3, <3>1, <4>1, <4>2 DEF Programme
    <3>2. Programme(q)'
      BY <3>1 DEF Programme
    <3>3. Quittee(q)'
      BY <2>4, <2>6 DEF Quittee
    <3> QED
      BY <3>2, <3>3 DEF Etablie
  <2>7. Etablie(ops[o])'
    BY <2>2, <2>5, <2>6 DEF Etablie, Programme, Preparee, Quittee, Etrangere
  <2> QED
    BY <1>2, <2>2, <2>7, SansEffet, EtablissementsSuivent
<1> QED
  BY <1>3, <1>4

-----------------------------------------------------------------------------
(* Commands that write group events                                         *)

LEMMA UnEvenementEtabli ==
  ASSUME Inv, InvEtablissements, NEW o \in Ops, NEW cmd, cmd # "changerAgence", NEW a, NEW ligne,
         NEW js \in SUBSET Presents, NEW lit, NEW autres, lit = Dossiers(js) \cup autres,
         Demarrer(o, Prete(cmd, {EcritureAnimation(a, <<ligne>>)}, lit, {a})),
         ligne.jeunes = js,
         \/ ligne.createur \in lit
         \/ /\ animations[a] # Absent /\ ligne.createur = animations[a].createur
            /\ ligne.agence = animations[a].agence
  PROVE  InvEtablissements'
<1> DEFINE w == EcritureAnimation(a, <<ligne>>)
           q == Prete(cmd, {w}, lit, {a})
<1>1. w.table = "animation" /\ w.id = a /\ w.lignes = <<ligne>>
  BY DEF EcritureAnimation
<1>2. Demarrer(o, q)
  OBVIOUS
<1> HIDE DEF w
<1>3. q.cmd = cmd /\ q.ecritures = {w} /\ q.lit = lit /\ q.ecrit = {a}
  BY PreteChamps
<1> HIDE DEF q
<1>4. Isole(o) /\ Effets(o) /\ ops'[o] = Poursuivre(q) /\ UNCHANGED <<jeunes, conseillers, animations>>
  BY <1>2, LectureSobre DEF Demarrer, Inv
<1>5. ops'[o] = q
  BY <1>3, <1>4 DEF Poursuivre
<1>6. \A j \in js : j \in lit /\ jeunes[j].conseiller \in lit
  BY DossiersLus DEF Inv
<1>7. \A i \in 1..Len(w.lignes) : w.lignes[i] = ligne
  BY <1>1
<1>8. Preparee(q, w)'
  BY <1>1, <1>3, <1>4, <1>6, <1>7 DEF Preparee, Presents
<1>9. Programme(ops[o])'
  BY <1>1, <1>3, <1>5, <1>8 DEF Programme, Preparee, Presents
<1>10. Quittee(ops[o])'
  BY <1>3, <1>5 DEF Quittee
<1> QED
  BY <1>4, <1>9, <1>10, EtablissementsSuivent DEF Etablie

LEMMA CreerAnimationEtablie ==
  ASSUME Inv, InvEtablissements, NEW o \in Ops, CreerAnimation(o)
  PROVE  InvEtablissements'
<1>1. PICK c \in {d \in Conseillers : conseillers[d] \in Agences}, a \in AC \ uuids :
        \E js \in SUBSET JeunesDeLAgence(conseillers[c]) :
          Demarrer(o, Prete("creerAnimation",
            {EcritureAnimation(a, <<[agence |-> conseillers[c], createur |-> c, jeunes |-> js]>>)},
            Dossiers(js) \cup {c}, {a}))
  BY DEF CreerAnimation
<1> DEFINE ligne(js) == [agence |-> conseillers[c], createur |-> c, jeunes |-> js]
<1>2. PICK js \in SUBSET JeunesDeLAgence(conseillers[c]) :
        Demarrer(o, Prete("creerAnimation", {EcritureAnimation(a, <<ligne(js)>>)},
                          Dossiers(js) \cup {c}, {a}))
  BY <1>1
<1>3. js \in SUBSET Presents
  BY EnsemblesLus
<1>4. ligne(js).createur = c /\ ligne(js).jeunes = js
  OBVIOUS
<1> HIDE DEF ligne
<1> QED
  BY <1>2, <1>3, <1>4, UnEvenementEtabli

LEMMA ModifierAnimationEtablie ==
  ASSUME Inv, InvEtablissements, NEW o \in Ops, ModifierAnimation(o)
  PROVE  InvEtablissements'
<1>1. PICK a \in {b \in AC : animations[b] # Absent} :
        \E js \in SUBSET JeunesDeLAgence(animations[a].agence) :
          Demarrer(o, Prete("modifierAnimation",
            {EcritureAnimation(a, <<[animations[a] EXCEPT !.jeunes = js]>>)},
            Dossiers(js) \cup {a}, {a}))
  BY DEF ModifierAnimation
<1> DEFINE ligne(js) == [animations[a] EXCEPT !.jeunes = js]
<1>2. PICK js \in SUBSET JeunesDeLAgence(animations[a].agence) :
        Demarrer(o, Prete("modifierAnimation", {EcritureAnimation(a, <<ligne(js)>>)},
                          Dossiers(js) \cup {a}, {a}))
  BY <1>1
<1>3. js \in SUBSET Presents
  BY EnsemblesLus
<1>4. animations[a] \in Animation
  BY DEF Inv, Types
<1>5. /\ ligne(js).createur = animations[a].createur /\ ligne(js).jeunes = js
      /\ ligne(js).agence = animations[a].agence
  BY <1>4 DEF Animation
<1> HIDE DEF ligne
<1> QED
  BY <1>2, <1>3, <1>5, UnEvenementEtabli

(* What updateAnimationCollective writes: the rows keep their creator, lose *)
(* young people only, and stay in the agency unless counsellor c made them. *)
(* The last one is none of c's business any more, nor is one left unwritten.*)
LEMMA ReecrituresLignes ==
  ASSUME Types, NEW c \in Conseillers, NEW a \in AC, animations[a] # Absent, NEW n \in Agences,
         n # conseillers[c]
  PROVE  /\ \A i \in 1..Len(Reecritures(c, a, n)) :
              LET ligne == Reecritures(c, a, n)[i]
              IN /\ ligne.jeunes \subseteq animations[a].jeunes
                 /\ ligne.createur = animations[a].createur
                 /\ ligne.agence = animations[a].agence \/ ligne.createur = c
         /\ IF Reecritures(c, a, n) = <<>> THEN Etrangere(animations[a], c)
            ELSE Etrangere(Reecritures(c, a, n)[Len(Reecritures(c, a, n))], c)
<1> DEFINE lue == animations[a]
           sans(js) == IF lue.jeunes \cap js = {} THEN <<>> ELSE <<[lue EXCEPT !.jeunes = @ \ js]>>
           autres == {j \in lue.jeunes : jeunes[j].conseiller # c}
           deplacee == [lue EXCEPT !.agence = n]
           r == Reecritures(c, a, n)
<1>1. lue \in Animation
  BY DEF Types
<1>2. /\ deplacee \in Animation /\ deplacee.agence = n /\ deplacee.jeunes = lue.jeunes
      /\ deplacee.createur = lue.createur
  BY <1>1 DEF Animation
<1>3. \A js : LET l == [lue EXCEPT !.jeunes = @ \ js]
              IN /\ l \in Animation /\ l.jeunes = lue.jeunes \ js
                 /\ l.createur = lue.createur /\ l.agence = lue.agence
  BY <1>1 DEF Animation
<1>4. r = IF lue.createur = c THEN sans(autres) \o <<deplacee>> ELSE sans(SuivisPar(c))
  BY DEF Reecritures
<1> HIDE DEF deplacee, autres, r
<1>5. CASE lue.createur = c
  <2>1. CASE lue.jeunes \cap autres = {}
    <3>1. r = <<deplacee>>
      BY <1>4, <1>5, <2>1
    <3>2. Len(r) = 1 /\ r[1] = deplacee /\ r # <<>>
      BY <3>1
    <3> QED
      BY <1>2, <1>5, <3>2 DEF Etrangere, r
  <2>2. CASE lue.jeunes \cap autres # {}
    <3>1. PICK l : l = [lue EXCEPT !.jeunes = @ \ autres]
      OBVIOUS
    <3>2. r = <<l>> \o <<deplacee>>
      BY <1>4, <1>5, <2>2, <3>1
    <3>3. l \in Animation /\ l.jeunes = lue.jeunes \ autres /\ l.createur = lue.createur
          /\ l.agence = lue.agence
      BY <1>3, <3>1
    <3>4. <<l>> \in Seq(Animation) /\ <<deplacee>> \in Seq(Animation)
      BY <1>2, <3>3
    <3>5. Len(r) = 2 /\ r[1] = l /\ r[2] = deplacee /\ r # <<>>
      BY <3>2, <3>4
    <3>6. \A i \in 1..Len(r) : r[i] = l \/ r[i] = deplacee
      BY <3>5
    <3> QED
      BY <1>2, <1>5, <3>3, <3>5, <3>6 DEF Etrangere, r
  <2> QED
    BY <2>1, <2>2
<1>6. CASE lue.createur # c
  <2>1. CASE lue.jeunes \cap SuivisPar(c) = {}
    <3>1. r = <<>>
      BY <1>4, <1>6, <2>1
    <3>2. Len(r) = 0
      BY <3>1
    <3> QED
      BY <1>6, <2>1, <3>1, <3>2 DEF Etrangere, r
  <2>2. CASE lue.jeunes \cap SuivisPar(c) # {}
    <3>1. PICK l : l = [lue EXCEPT !.jeunes = @ \ SuivisPar(c)]
      OBVIOUS
    <3>2. r = <<l>>
      BY <1>4, <1>6, <2>2, <3>1
    <3>3. l.jeunes = lue.jeunes \ SuivisPar(c) /\ l.createur = lue.createur
          /\ l.agence = lue.agence
      BY <1>3, <3>1
    <3>4. Len(r) = 1 /\ r[1] = l /\ r # <<>>
      BY <3>2
    <3> QED
      BY <1>6, <3>3, <3>4 DEF Etrangere, r
  <2> QED
    BY <2>1, <2>2
<1> QED
  BY <1>5, <1>6

LEMMA LireAnimationsEtablie ==
  ASSUME Inv, InvEtablissements, NEW o \in Ops, LireAnimations(o)
  PROVE  InvEtablissements'
<1> DEFINE op == ops[o]
           acs == {a \in AC : animations[a] # Absent /\ animations[a].agence = op.quittee}
           js == UNION {animations[a].jeunes : a \in acs}
           ligne(a) == [animations[a] EXCEPT !.jeunes = @ \ op.jeunes]
           ecritures == {[table |-> "animation", id |-> a, lignes |-> <<ligne(a)>>] : a \in acs}
           suivante == [op EXCEPT !.etape = "animations", !.ecritures = ecritures,
                          !.lit = @ \cup acs \cup Dossiers(js), !.ecrit = @ \cup acs]
<1>1. op.cmd = "transferer" /\ Relire(o, suivante)
  BY DEF LireAnimations
<1>2. op \in Operation /\ Types
  BY DEF Inv, Types
<1>3. /\ js \in SUBSET Presents
      /\ \A j \in Dossiers(js) \cap Jeunes : jeunes[j].conseiller \in Dossiers(js)
      /\ js \subseteq Dossiers(js)
  BY AnimationsLues DEF Dossiers
<1>4. \A a \in acs : /\ ligne(a).jeunes \subseteq js /\ animations[a] # Absent
                      /\ ligne(a).createur = animations[a].createur
                      /\ ligne(a).agence = animations[a].agence
  BY DEF Inv, Types, Animation
<1>5. /\ suivante.cmd = "transferer" /\ suivante.etape = "animations"
      /\ suivante.ecritures = ecritures /\ Dossiers(js) \subseteq suivante.lit
      /\ acs \subseteq suivante.ecrit
  BY <1>1, <1>2 DEF Operation
<1>6. \A w \in ecritures : /\ w.table = "animation" /\ w.id \in acs /\ w.lignes = <<ligne(w.id)>>
                           /\ w = [table |-> "animation", id |-> w.id, lignes |-> <<ligne(w.id)>>]
  OBVIOUS
<1>7. js \subseteq Jeunes
  BY <1>3 DEF Presents
<1> HIDE DEF suivante, ecritures, ligne, acs, js
<1>8. Isole(o) /\ Effets(o) /\ ops'[o] = Poursuivre(suivante)
      /\ UNCHANGED <<jeunes, conseillers, animations>>
  BY <1>1, <1>2, LectureSobre DEF Relire
<1>9. PICK q : q = suivante
  OBVIOUS
<1>10. ASSUME NEW w \in q.ecritures
       PROVE  Preparee(q, w)' /\ w.table = "animation"
  <2>1. w.table = "animation" /\ w.id \in acs /\ w.lignes = <<ligne(w.id)>>
    BY <1>5, <1>6, <1>9, <1>10
  <2>2. w.id \in q.ecrit
    BY <1>5, <1>9, <2>1
  <2>3. \A i \in 1..Len(w.lignes) : w.lignes[i] = ligne(w.id)
    BY <2>1
  <2>4. \A j \in ligne(w.id).jeunes : j \in q.lit /\ jeunes[j].conseiller \in q.lit
    BY <1>3, <1>4, <1>5, <1>7, <1>9, <2>1
  <2>5. /\ animations[w.id] # Absent /\ ligne(w.id).createur = animations[w.id].createur
        /\ ligne(w.id).agence = animations[w.id].agence
    BY <1>4, <2>1
  <2> QED
    BY <1>8, <2>1, <2>2, <2>3, <2>4, <2>5 DEF Preparee
<1>10a. \A v, w \in q.ecritures : v.id = w.id => v = w
  BY <1>5, <1>6, <1>9
<1>11. Etablie(q)' /\ q.cmd = "transferer"
  BY <1>5, <1>9, <1>10, <1>10a DEF Etablie, Programme, Quittee
<1>12. Etablie(Libre)'
  BY LibreSansEvenement, SansEvenementEtablie
<1>13. PICK r : r = ops'[o]
  OBVIOUS
<1>14. Etablie(r)'
  <2>1. CASE r = q
    BY <1>11, <2>1
  <2>2. CASE r = Libre
    BY <1>12, <2>2
  <2> QED
    BY <1>8, <1>9, <1>13, <2>1, <2>2 DEF Poursuivre
<1>15. Etablie(ops[o])'
  BY <1>13, <1>14 DEF Etablie, Programme, Preparee, Quittee, Etrangere
<1> QED
  BY <1>8, <1>15, EtablissementsSuivent

LEMMA LireConseillerEtablie ==
  ASSUME Inv, InvEtablissements, NEW o \in Ops, LireConseiller(o)
  PROVE  InvEtablissements'
<1> DEFINE op(c) == [ops[o] EXCEPT !.aFaire = @ \ {c}]
           acs(c) == {a \in AC : animations[a] # Absent /\ animations[a].agence = conseillers[c]}
           ecrites(c) == {a \in acs(c) : Reecritures(c, a, op(c).nouvelle) # <<>>}
           js(c) == UNION {animations[a].jeunes : a \in acs(c)}
           ecritures(c) == {EcritureAnimation(a, Reecritures(c, a, op(c).nouvelle)) : a \in ecrites(c)}
           suivante(c) == [op(c) EXCEPT !.etape = "animations", !.qui = c,
             !.ecritures = ecritures(c), !.lit = @ \cup acs(c) \cup {c} \cup Dossiers(js(c)),
             !.ecrit = @ \cup ecrites(c) \cup {c}]
<1>1a. \E c \in ops[o].aFaire :
    LET op1 == [ops[o] EXCEPT !.aFaire = @ \ {c}]
        acs1 == {a \in AC : animations[a] # Absent /\ animations[a].agence = conseillers[c]}
        aEcrire1 == {a \in acs1 : Reecritures(c, a, op1.nouvelle) # <<>>}
    IN /\ op1.etape = "conseillers"
       /\ Relire(o, IF conseillers[c] \in {Absent, Aucun, op1.nouvelle} THEN op1
                    ELSE [op1 EXCEPT !.etape = "animations", !.qui = c,
            !.ecritures = {EcritureAnimation(a, Reecritures(c, a, op1.nouvelle)) : a \in aEcrire1},
            !.lit = @ \cup acs1 \cup {c} \cup Dossiers(UNION {animations[a].jeunes : a \in acs1}),
            !.ecrit = @ \cup aEcrire1 \cup {c}])
  <2>1. LireConseiller(o)
    OBVIOUS
  <2> HIDE DEF op, acs, ecrites, js, ecritures, suivante
  <2> QED
    BY <2>1, Zenon DEF LireConseiller
<1>1. PICK c \in ops[o].aFaire :
        /\ op(c).etape = "conseillers"
        /\ Relire(o, IF conseillers[c] \in {Absent, Aucun, op(c).nouvelle} THEN op(c) ELSE suivante(c))
  BY <1>1a, Zenon
<1>2. /\ ops[o] \in Operation /\ Reguliere(ops[o]) /\ c \in Conseillers /\ Types
  BY <1>1 DEF Inv, Types, Operation
<1>3. ops[o].cmd = "changerAgence" /\ ops[o].nouvelle \in Agences
  BY <1>1, <1>2 DEF Reguliere, Etapes, Operation, Departs
<1>4. /\ op(c) \in Operation /\ op(c).cmd = "changerAgence" /\ op(c).etape = "conseillers"
      /\ op(c).ecritures = ops[o].ecritures /\ op(c).nouvelle = ops[o].nouvelle
  BY <1>1, <1>2, <1>3 DEF Operation
<1>5. ops[o].ecritures = {}
  BY <1>1 DEF Relire
<1>6. CASE conseillers[c] \in {Absent, Aucun, op(c).nouvelle}
  <2>1. Relire(o, op(c)) /\ SansEvenement(op(c))
    BY <1>1, <1>4, <1>5, <1>6 DEF SansEvenement
  <2> HIDE DEF op
  <2> QED
    BY <2>1, LectureSansEvenement
<1>7. CASE conseillers[c] \notin {Absent, Aucun, op(c).nouvelle}
  <2>1. PICK n \in Agences : n = op(c).nouvelle
    BY <1>3, <1>4
  <2>2. n # conseillers[c]
    BY <1>7, <2>1
  <2>3. Relire(o, suivante(c))
    BY <1>1, <1>7
  <2>4. /\ suivante(c).cmd = "changerAgence" /\ suivante(c).qui = c
        /\ suivante(c).etape = "animations"
        /\ suivante(c).ecritures = ecritures(c) /\ Dossiers(js(c)) \cup {c} \subseteq suivante(c).lit
        /\ ecrites(c) \subseteq suivante(c).ecrit
    BY <1>4 DEF Operation
  <2>5. \A w \in ecritures(c) : /\ w.table = "animation" /\ w.id \in ecrites(c)
                                /\ w.lignes = Reecritures(c, w.id, n)
                                /\ w = EcritureAnimation(w.id, Reecritures(c, w.id, n))
    BY <2>1 DEF EcritureAnimation
  <2>6. /\ js(c) \in SUBSET Presents
        /\ \A j \in Dossiers(js(c)) \cap Jeunes : jeunes[j].conseiller \in Dossiers(js(c))
        /\ js(c) \subseteq Dossiers(js(c))
    BY AnimationsLues DEF Dossiers
  <2>7. js(c) \subseteq Jeunes
    BY <2>6 DEF Presents
  <2>8. \A a \in acs(c) : a \in AC /\ animations[a] # Absent /\ animations[a].jeunes \subseteq js(c)
    OBVIOUS
  <2>9. /\ \A a \in ecrites(c) : a \in acs(c) /\ Reecritures(c, a, n) # <<>>
        /\ \A a \in acs(c) : a \notin ecrites(c) => Reecritures(c, a, n) = <<>>
        /\ \A a \in AC : animations[a] # Absent /\ animations[a].agence = conseillers[c] => a \in acs(c)
    BY <2>1
  <2>9a. \A a \in ecrites(c) : \E w \in ecritures(c) : w.id = a
    <3>1. SUFFICES ASSUME NEW a \in ecrites(c)
                   PROVE  \E w \in ecritures(c) : w.id = a
      OBVIOUS
    <3>2. EcritureAnimation(a, Reecritures(c, a, op(c).nouvelle)) \in ecritures(c)
      OBVIOUS
    <3>3. EcritureAnimation(a, Reecritures(c, a, op(c).nouvelle)).id = a
      BY DEF EcritureAnimation
    <3> HIDE DEF ecritures
    <3> QED
      BY <3>2, <3>3
  <2> HIDE DEF op, acs, ecrites, js, ecritures, suivante
  <2>10. PICK q : q = suivante(c)
    OBVIOUS
  <2>11. /\ Isole(o) /\ Effets(o) /\ ops'[o] = Poursuivre(q)
         /\ UNCHANGED <<jeunes, conseillers, animations>>
    BY <1>2, <2>3, <2>10, LectureSobre DEF Relire
  <2>12. ops'[o] = q
    BY <2>4, <2>10, <2>11 DEF Poursuivre, ResteAFaire
  <2>13. ASSUME NEW w \in q.ecritures
         PROVE  Preparee(q, w)' /\ w.table = "animation" /\ Etrangere(w.lignes[Len(w.lignes)], c)
    <3>1. /\ w.table = "animation" /\ w.id \in ecrites(c) /\ w.lignes = Reecritures(c, w.id, n)
      BY <2>4, <2>5, <2>10, <2>13
    <3>2. w.id \in q.ecrit
      BY <2>4, <2>10, <3>1
    <3>3. w.id \in AC /\ animations[w.id] # Absent /\ animations[w.id].jeunes \subseteq js(c)
          /\ w.lignes # <<>>
      BY <2>8, <2>9, <3>1
    <3>4. /\ \A i \in 1..Len(w.lignes) :
               /\ w.lignes[i].jeunes \subseteq animations[w.id].jeunes
               /\ w.lignes[i].createur = animations[w.id].createur
               /\ w.lignes[i].agence = animations[w.id].agence \/ w.lignes[i].createur = c
          /\ Etrangere(w.lignes[Len(w.lignes)], c)
      BY <1>2, <2>2, <3>1, <3>3, ReecrituresLignes
    <3>5. \A j \in js(c) : j \in q.lit /\ jeunes[j].conseiller \in q.lit
      BY <2>4, <2>6, <2>7, <2>10
    <3>6. c \in q.lit
      BY <2>4, <2>10
    <3>7. /\ \A i \in 1..Len(w.lignes) : \A j \in w.lignes[i].jeunes :
               j \in q.lit /\ jeunes[j].conseiller \in q.lit
          /\ \/ \A i \in 1..Len(w.lignes) : w.lignes[i].createur \in q.lit
             \/ /\ animations[w.id] # Absent
                /\ \A i \in 1..Len(w.lignes) :
                     /\ w.lignes[i].createur = animations[w.id].createur
                     /\ w.lignes[i].agence = animations[w.id].agence
      BY <3>3, <3>4, <3>5, <3>6
    <3>8. Preparee(q, w)'
      BY <2>11, <3>2, <3>7 DEF Preparee
    <3> QED
      BY <3>1, <3>4, <3>8
  <2>13a. \A v, w \in q.ecritures : v.id = w.id => v = w
    BY <2>4, <2>5, <2>10
  <2>14. Programme(ops[o])'
    BY <2>12, <2>13, <2>13a DEF Programme, Preparee, Presents
  <2>15. ASSUME NEW a \in AC, \A w \in q.ecritures : w.id # a, animations[a] # Absent
         PROVE  Etrangere(animations[a], c)
    <3>1. a \notin ecrites(c)
      BY <2>4, <2>9a, <2>10, <2>15
    <3>2. CASE a \in acs(c)
      <4>1. Reecritures(c, a, n) = <<>>
        BY <2>9, <3>1, <3>2
      <4> QED
        BY <1>2, <2>2, <2>15, <4>1, ReecrituresLignes
    <3>3. CASE a \notin acs(c)
      BY <2>9, <2>15, <3>3 DEF Etrangere
    <3> QED
      BY <3>2, <3>3
  <2>16. \A ligne : Etrangere(ligne, c) => Etrangere(ligne, c)'
    BY <2>11 DEF Etrangere, SuivisPar, Presents
  <2>17. q.qui = c
    BY <2>4, <2>10
  <2>18. Quittee(ops[o])'
    <3>1. ASSUME NEW w \in q.ecritures
          PROVE  Etrangere(w.lignes[Len(w.lignes)], c)'
      BY <2>13, <2>16, <3>1
    <3>2. ASSUME NEW a \in AC, \A w \in q.ecritures : w.id # a, animations'[a] # Absent
          PROVE  Etrangere(animations[a], c)'
      BY <2>11, <2>15, <3>2 DEF Etrangere, SuivisPar, Presents
    <3> QED
      BY <2>12, <2>17, <3>1, <3>2 DEF Quittee, Etrangere, SuivisPar, Presents
  <2> QED
    BY <2>11, <2>14, <2>18, EtablissementsSuivent DEF Etablie
<1> QED
  BY <1>6, <1>7

LEMMA TailLignes ==
  ASSUME NEW s \in Seq(Animation), s # <<>>, Len(s) # 1
  PROVE  /\ \A i \in 1..Len(Tail(s)) : i + 1 \in 1..Len(s) /\ Tail(s)[i] = s[i + 1]
         /\ Tail(s)[Len(Tail(s))] = s[Len(s)]
         /\ Len(s) > 1
<1>1. Len(s) \in Nat \ {0}
  BY EmptySeq
<1>2. Tail(s) \in Seq(Animation) /\ Len(Tail(s)) = Len(s) - 1
      /\ \A i \in 1..Len(Tail(s)) : Tail(s)[i] = s[i + 1]
  BY HeadTailProperties
<1> QED
  BY <1>1, <1>2

LEMMA EcrireAnimationEtablie ==
  ASSUME Inv, InvEtablissements, NEW o \in Ops, EcrireAnimation(o)
  PROVE  InvEtablissements'
<1> DEFINE suites(w) == IF Len(w.lignes) = 1 THEN {} ELSE {EcritureAnimation(w.id, Tail(w.lignes))}
<1>1. PICK w \in ops[o].ecritures :
        /\ w.table = "animation"
        /\ animations' = [animations EXCEPT ![w.id] = Head(w.lignes)]
        /\ Ecrire(o, w, suites(w))
        /\ UNCHANGED <<jeunes, conseillers>>
  BY DEF EcrireAnimation, EnAttente
<1>2. /\ Types /\ ops[o] \in Operation /\ Programme(ops[o]) /\ Quittee(ops[o])
      /\ Reguliere(ops[o])
  BY DEF Inv, Types, InvEtablissements, Etablie
<1>3. /\ w.id \in AC /\ w.lignes \in Seq(Animation) /\ w.lignes # <<>>
  BY <1>1, <1>2, EcritureTypes DEF Operation
<1>4. Len(w.lignes) \in Nat \ {0} /\ Head(w.lignes) = w.lignes[1] /\ w.lignes[1] \in Animation
  BY <1>3, EmptySeq
<1>5. /\ \A a \in AC : animations'[a] = IF a = w.id THEN w.lignes[1] ELSE animations[a]
      /\ perturbes' = perturbes
  BY <1>1, <1>2, <1>3, <1>4 DEF Types, Ecrire
<1>6. Effets(o)
  BY <1>1, <1>4, <1>5 DEF Effets
<1>7. w.lignes[1] # Absent
  BY <1>4, ConstantsAssumption
<1>8. /\ Len(w.lignes) = 1 => suites(w) = {}
      /\ Len(w.lignes) # 1 => suites(w) = {EcritureAnimation(w.id, Tail(w.lignes))}
  OBVIOUS
<1> DEFINE s == EcritureAnimation(w.id, Tail(w.lignes))
<1>9. s.table = "animation" /\ s.id = w.id /\ s.lignes = Tail(w.lignes)
  BY DEF EcritureAnimation
<1> HIDE DEF s
<1>9a. /\ \A v \in suites(w) : v = s /\ Len(w.lignes) # 1
       /\ Len(w.lignes) # 1 => s \in suites(w)
  BY <1>8 DEF s
<1> HIDE DEF suites
<1> DEFINE r == [ops[o] EXCEPT !.ecritures = (@ \ {w}) \cup suites(w)]
<1>10. /\ r.ecritures = (ops[o].ecritures \ {w}) \cup suites(w) /\ r.cmd = ops[o].cmd
       /\ r.etape = ops[o].etape /\ r.qui = ops[o].qui /\ r.lit = ops[o].lit
       /\ r.ecrit = ops[o].ecrit
  BY <1>2 DEF Operation
<1>11. ops' = [ops EXCEPT ![o] = Poursuivre(r)]
  BY <1>1 DEF Ecrire
<1> HIDE DEF r
<1>12. PICK q : q = r
  OBVIOUS
<1>13. Isole(o) /\ (ops'[o] = q \/ ops'[o] = Libre)
  BY <1>2, <1>5, <1>11, <1>12 DEF Isole, Types, Poursuivre
<1>14. /\ q.ecritures = (ops[o].ecritures \ {w}) \cup suites(w) /\ q.cmd = ops[o].cmd
       /\ q.etape = ops[o].etape /\ q.qui = ops[o].qui /\ q.lit = ops[o].lit
       /\ q.ecrit = ops[o].ecrit
  BY <1>10, <1>12
<1>15. UNCHANGED <<jeunes, conseillers, perturbes>>
  BY <1>1, <1>5
<1>16. /\ \A v \in ops[o].ecritures : /\ v.table = "animation" /\ Preparee(ops[o], v)
                                      /\ v.id = w.id => v = w
       /\ \A u, v \in ops[o].ecritures : u.id = v.id => u = v
  BY <1>1, <1>2 DEF Programme
<1>17. \A v \in q.ecritures : \/ v = s /\ v.id = w.id /\ Len(w.lignes) # 1
                              \/ v \in ops[o].ecritures /\ v.id # w.id
  BY <1>9, <1>9a, <1>14, <1>16
<1>18. ASSUME NEW v \in q.ecritures
       PROVE  Preparee(q, v)' /\ v.table = "animation"
  <2>1. CASE v \in ops[o].ecritures /\ v.id # w.id
    <3>1. Preparee(ops[o], v) /\ v.table = "animation"
      BY <1>16, <2>1
    <3>2. v.id \in AC
      BY <1>2, <2>1, <3>1, EcritureTypes DEF Operation
    <3>3. animations'[v.id] = animations[v.id]
      BY <1>5, <2>1, <3>2
    <3> QED
      BY <1>14, <1>15, <3>1, <3>3 DEF Preparee, Presents
  <2>2. CASE v = s /\ Len(w.lignes) # 1
    <3>1. v.id = w.id /\ v.lignes = Tail(w.lignes) /\ v.table = "animation"
      BY <1>9, <2>2
    <3>2. \A i \in 1..Len(v.lignes) : i + 1 \in 1..Len(w.lignes) /\ v.lignes[i] = w.lignes[i + 1]
      BY <1>3, <2>2, <3>1, TailLignes
    <3>3. Preparee(ops[o], w)
      BY <1>16
    <3>4. v.id \in q.ecrit
      BY <1>14, <3>1, <3>3 DEF Preparee
    <3>5. animations'[w.id] = w.lignes[1] /\ 1 \in 1..Len(w.lignes)
      BY <1>3, <1>4, <1>5
    <3>6. w.id \notin perturbes =>
            \A i \in 1..Len(v.lignes) : \A j \in v.lignes[i].jeunes :
              j \in q.lit /\ (j \in Presents' => jeunes'[j].conseiller \in q.lit)
      BY <1>14, <1>15, <3>2, <3>3 DEF Preparee, Presents
    <3>7. w.id \notin perturbes =>
            \/ \A i \in 1..Len(v.lignes) : v.lignes[i].createur \in q.lit
            \/ \A i \in 1..Len(v.lignes) : /\ v.lignes[i].createur = w.lignes[1].createur
                                            /\ v.lignes[i].agence = w.lignes[1].agence
      <4>1. SUFFICES ASSUME w.id \notin perturbes
                     PROVE  \/ \A i \in 1..Len(v.lignes) : v.lignes[i].createur \in q.lit
                            \/ \A i \in 1..Len(v.lignes) :
                                 /\ v.lignes[i].createur = w.lignes[1].createur
                                 /\ v.lignes[i].agence = w.lignes[1].agence
        OBVIOUS
      <4>2. CASE \A i \in 1..Len(w.lignes) : w.lignes[i].createur \in ops[o].lit
        BY <1>14, <3>2, <4>2
      <4>3. CASE \A i \in 1..Len(w.lignes) : /\ w.lignes[i].createur = animations[w.id].createur
                                             /\ w.lignes[i].agence = animations[w.id].agence
        BY <3>2, <3>5, <4>3, ZenonT(60)
      <4> QED
        BY <3>3, <4>1, <4>2, <4>3 DEF Preparee
    <3> QED
      BY <1>7, <1>15, <3>1, <3>4, <3>5, <3>6, <3>7 DEF Preparee
  <2> QED
    BY <1>17, <2>1, <2>2
<1>19. \A u, v \in q.ecritures : u.id = v.id => u = v
  BY <1>16, <1>17
<1>20. Programme(q)'
  BY <1>18, <1>19 DEF Programme
<1>21. ASSUME q.cmd = "changerAgence", q.etape = "animations", q.qui \notin perturbes,
              NEW a \in AC \ perturbes, NEW c, c = q.qui
       PROVE  /\ \A v \in q.ecritures : v.id = a => Etrangere(v.lignes[Len(v.lignes)], c)'
              /\ (\A v \in q.ecritures : v.id # a) /\ animations'[a] # Absent =>
                   Etrangere(animations[a], c)'
  <2>1. \A ligne : Etrangere(ligne, c) => Etrangere(ligne, c)'
    BY <1>15 DEF Etrangere, SuivisPar, Presents
  <2>2. /\ \A v \in ops[o].ecritures : v.id = a => Etrangere(v.lignes[Len(v.lignes)], c)
        /\ (\A v \in ops[o].ecritures : v.id # a) /\ animations[a] # Absent =>
             Etrangere(animations[a], c)
    BY <1>2, <1>14, <1>21 DEF Quittee
  <2>3. ASSUME NEW v \in q.ecritures, v.id = a
        PROVE  Etrangere(v.lignes[Len(v.lignes)], c)
    <3>1. CASE v \in ops[o].ecritures
      BY <2>2, <2>3, <3>1
    <3>2. CASE v = s /\ v.id = w.id /\ Len(w.lignes) # 1
      <4>1. v.lignes[Len(v.lignes)] = w.lignes[Len(w.lignes)]
        BY <1>3, <1>9, <3>2, TailLignes
      <4> QED
        BY <2>2, <2>3, <3>2, <4>1
    <3> QED
      BY <1>17, <3>1, <3>2
  <2>4. ASSUME \A v \in q.ecritures : v.id # a, animations'[a] # Absent
        PROVE  Etrangere(animations'[a], c)
    <3>1. CASE a = w.id
      <4>1. Len(w.lignes) = 1
        BY <1>9, <1>9a, <1>14, <2>4, <3>1
      <4>2. animations'[a] = w.lignes[Len(w.lignes)]
        BY <1>5, <3>1, <4>1
      <4> QED
        BY <2>2, <3>1, <4>2
    <3>2. CASE a # w.id
      <4>1. animations'[a] = animations[a]
        BY <1>5, <1>21, <3>2
      <4>2. \A v \in ops[o].ecritures : v.id # a
        BY <1>14, <2>4, <3>2
      <4> QED
        BY <2>2, <2>4, <4>1, <4>2
    <3> QED
      BY <3>1, <3>2
  <2>5. Etrangere(animations'[a], c) => Etrangere(animations[a], c)'
    BY <1>15 DEF Etrangere, SuivisPar, Presents
  <2> QED
    BY <2>1, <2>3, <2>4, <2>5
<1>22. Quittee(q)'
  BY <1>15, <1>21 DEF Quittee, Etrangere, SuivisPar, Presents
<1>23. Etablie(Libre)'
  BY LibreSansEvenement, SansEvenementEtablie
<1>24. Etablie(ops[o])'
  <2>1. CASE ops'[o] = q
    BY <1>20, <1>22, <2>1 DEF Etablie, Programme, Preparee, Quittee, Etrangere
  <2>2. CASE ops'[o] = Libre
    BY <1>23, <2>2 DEF Etablie, Programme, Preparee, Quittee, Etrangere
  <2> QED
    BY <1>13, <2>1, <2>2
<1> QED
  BY <1>6, <1>13, <1>24, EtablissementsSuivent

LEMMA EtablissementsInit ==
  ASSUME Init
  PROVE  InvEtablissements
<1>1. \A o \in Ops : ops[o] = Libre
  BY DEF Init
<1> QED
  BY <1>1, LibreSansEvenement, SansEvenementEtablie DEF InvEtablissements

LEMMA EtablissementsNext ==
  ASSUME Inv, Inv', InvEtablissements, [Next]_vars
  PROVE  InvEtablissements'
<1>1. CASE Next
  <2>1. PICK o \in Ops :
          \/ Transferer(o) \/ LireAnimations(o) \/ LireListes(o)
          \/ Recuperer(o)
          \/ SupprimerConseiller(o) \/ LireInitiaux(o)
          \/ SupprimerJeune(o) \/ ArchiverJeune(o) \/ ArchiverJeuneSupport(o)
          \/ SupprimerCompte(o) \/ LireConversation(o) \/ LireDossier(o)
          \/ CreerListe(o) \/ ModifierListe(o) \/ AjouterJeuneListe(o) \/ SupprimerListe(o)
          \/ CreerAnimation(o) \/ ModifierAnimation(o)
          \/ ChangerAgence(o) \/ LireConseiller(o) \/ SauverAgence(o)
          \/ ModifierConseiller(o)
          \/ EcrireChat(o) \/ EcrireTransfert(o) \/ EcrireJeune(o) \/ EcrireAnimation(o)
          \/ EcrireListe(o) \/ EcrireMembres(o) \/ DetruireListe(o) \/ EcrireConseiller(o)
          \/ DetruireConseiller(o) \/ DetruireJeune(o) \/ DetruireChat(o)
          \/ DetruireArchives(o) \/ EcrireArchive(o) \/ PoursuivreSansArchive(o)
          \/ Echec(o) \/ Abandon(o)
    BY <1>1 DEF Next
  <2> QED
    BY <2>1, CommandesSansEvenement, DepartsSansEvenement, EcrituresSansEvenement,
       LireAnimationsEtablie, LireConseillerEtablie, SauverAgenceEtablie, CreerAnimationEtablie,
       ModifierAnimationEtablie, EcrireAnimationEtablie, InterruptionEtablie
<1>2. CASE UNCHANGED vars
  BY <1>2 DEF vars, InvEtablissements, Etablie, Programme, Preparee, Quittee, Etrangere, SuivisPar,
     Presents
<1> QED
  BY <1>1, <1>2

(* Only three writes change the row of a counsellor.                        *)
LEMMA ConseillersMuets ==
  ASSUME Inv, Next, NEW o \in Ops, NEW c \in Conseillers, Demenage(o, c)
  PROVE  SauverAgence(o)
<1>1. Types /\ ops[o].etape = "animations" /\ ops'[o].etape # "animations"
      /\ ops[o].cmd = "changerAgence" /\ conseillers' # conseillers
  BY DEF Inv, Demenage
<1>2. \A p \in Ops : \A q : ops' = [ops EXCEPT ![p] = q] => p = o
  BY <1>1 DEF Types
<1>3. \A p \in Ops : \A op : ~Lecture(p, op)
  BY <1>1 DEF Lecture, donnees
<1>4. \A p \in Ops : \A op : ~Demarrer(p, op) /\ ~Relire(p, op)
  BY <1>3 DEF Demarrer, Relire
<1>5. \A w \in ops[o].ecritures : w.table \notin {"conseiller", "suppression conseiller"}
  BY <1>1, ZenonT(60) DEF Inv, Reguliere, Annoncee
<1>6. \A p \in Ops : \A w, suites : Ecrire(p, w, suites) => p = o
  BY <1>2 DEF Ecrire
<1>7. PICK p \in Ops :
        \/ EcrireConseiller(p) \/ DetruireConseiller(p) \/ DetruireJeune(p) \/ SauverAgence(p)
  <2>1. ASSUME NEW p \in Ops
        PROVE  ~(Transferer(p) \/ Recuperer(p) \/ SupprimerConseiller(p) \/ ChangerAgence(p)
                 \/ SupprimerJeune(p) \/ ArchiverJeune(p) \/ ArchiverJeuneSupport(p))
    BY <1>4, ZenonT(60) DEF Transferer, Recuperer, SupprimerConseiller, ChangerAgence, SupprimerJeune,
       ArchiverJeune, ArchiverJeuneSupport, Quitter
  <2>2. ASSUME NEW p \in Ops
        PROVE  ~(LireAnimations(p) \/ LireListes(p) \/ LireInitiaux(p) \/ LireConseiller(p))
    BY <1>4 DEF LireAnimations, LireListes, LireInitiaux, LireConseiller
  <2>3. ASSUME NEW p \in Ops
        PROVE  ~(CreerListe(p) \/ ModifierListe(p) \/ AjouterJeuneListe(p) \/ SupprimerListe(p)
                 \/ CreerAnimation(p) \/ ModifierAnimation(p) \/ ModifierConseiller(p))
    BY <1>4 DEF CreerListe, ModifierListe, AjouterJeuneListe, SupprimerListe, CreerAnimation,
       ModifierAnimation, ModifierConseiller
  <2>4. ASSUME NEW p \in Ops
        PROVE  ~(SupprimerCompte(p) \/ LireConversation(p) \/ LireDossier(p)
                 \/ PoursuivreSansArchive(p) \/ Echec(p) \/ Abandon(p))
    BY <1>1 DEF SupprimerCompte, LireConversation, LireDossier, PoursuivreSansArchive, Echec,
       Abandon, donnees
  <2>5. ASSUME NEW p \in Ops
        PROVE  ~(EcrireChat(p) \/ EcrireTransfert(p) \/ EcrireJeune(p) \/ EcrireAnimation(p)
                 \/ EcrireListe(p) \/ EcrireMembres(p) \/ DetruireListe(p) \/ DetruireChat(p)
                 \/ DetruireArchives(p) \/ EcrireArchive(p))
    BY <1>1 DEF EcrireChat, EcrireTransfert, EcrireJeune, EcrireAnimation, EcrireListe,
       EcrireMembres, DetruireListe, DetruireChat, DetruireArchives, EcrireArchive
  <2> QED
    BY <2>1, <2>2, <2>3, <2>4, <2>5 DEF Next
<1>8. CASE EcrireConseiller(p) \/ DetruireConseiller(p)
  BY <1>5, <1>6, <1>8 DEF EcrireConseiller, DetruireConseiller, EnAttente
<1>9. CASE DetruireJeune(p)
  <2>1. Effacer({}, {}) \/ \E x : Effacer({x}, {})
    BY <1>9 DEF DetruireJeune
  <2>2. \A d \in Conseillers : conseillers'[d] = conseillers[d]
    BY <2>1 DEF Effacer
  <2> QED
    BY <2>2 DEF Demenage
<1>10. CASE SauverAgence(p)
  BY <1>2, <1>10 DEF SauverAgence
<1> QED
  BY <1>7, <1>8, <1>9, <1>10

LEMMA AgenceQuitteeVide ==
  ASSUME Inv, InvEtablissements, Next, NEW o \in Ops, NEW c \in Conseillers, Demenage(o, c),
         NEW a \in AC \ perturbes, animations[a] # Absent, animations[a].agence = conseillers[c]
  PROVE  /\ animations[a].createur # c
         /\ \A j \in animations[a].jeunes \ perturbes : jeunes[j].conseiller # c
<1>1. SauverAgence(o)
  BY ConseillersMuets
<1>2. /\ ops[o].cmd = "changerAgence" /\ ops[o].etape = "animations" /\ ops[o].qui = c
      /\ ops[o].ecritures = {} /\ c \notin perturbes
  BY <1>1 DEF Demenage, SauverAgence
<1>3. Etrangere(animations[a], c)
  BY <1>2 DEF InvEtablissements, Etablie, Quittee
<1>4. animations[a].jeunes \subseteq Presents
  BY DEF Inv, References
<1> QED
  BY <1>3, <1>4 DEF Etrangere, SuivisPar

-----------------------------------------------------------------------------
(* Theorems                                                                 *)

(* What a command has read, and what is left of its writes, agrees with the *)
(* rows, as long as no overlap nor failure concerns all that it moves.      *)
THEOREM InvToujours == Spec => []Inv
<1>1. Init => Inv
  BY InitInv
<1>2. Inv /\ [Next]_vars => Inv'
  BY NextInv
<1> QED
  BY <1>1, <1>2, PTL DEF Spec

(* The rows keep their types, and no reference of a row dangles, whatever   *)
(* commands overlap, fail or stop half-way: the deletion of a counsellor    *)
(* (DeleteConseillerCommandHandler) is refused or takes all with it.        *)
THEOREM Typage == Spec => []TypeOK
<1>1. Inv => TypeOK
  BY InvTypeOK
<1> QED
  BY <1>1, InvToujours, PTL

(* For whoever nothing in flight concerns, the conversation in Firebase,    *)
(* the row and the history of transfers name the same counsellor.           *)
THEOREM SuivisCoherents == Spec => []SuiviCoherent
<1>1. Inv => SuiviCoherent
  BY InvSuiviCoherent
<1> QED
  BY <1>1, InvToujours, PTL

(* The identity provider has an account for those the database has a row    *)
(* of, and for nobody else, once the command that creates the gap is over.  *)
THEOREM ComptesToujoursCoherents == Spec => []ComptesCoherents
<1>1. Inv => ComptesCoherents
  BY InvComptesCoherents
<1> QED
  BY <1>1, InvToujours, PTL

(* Nobody is removed by an archiving without an archive that holds their    *)
(* messages, however many departures of the same person overlap.            *)
THEOREM ArchivesConservees == Spec => []ArchiveConservee
<1>1. Inv => ArchiveConservee
  BY InvArchiveConservee
<1> QED
  BY <1>1, InvToujours, PTL

(* A young person disappears by a departure of their own, never by the      *)
(* deletion of the counsellor who follows them.                             *)
THEOREM AucunJeuneEmporte == Spec => AucunJeuneEfface
<1>1. Inv /\ [Next]_vars =>
        [\A j \in Presents \ perturbes' : jeunes'[j] = Absent => DisparitionVoulue(j)]_vars
  BY AucunEffacement
<1> QED
  BY <1>1, InvToujours, PTL DEF AucunJeuneEfface, Spec

(* The commands, their reads and their writes implement the hand-overs of   *)
(* Suivi, one young person at a time.                                       *)
THEOREM Implementation == Spec => ImplementeSuivi
<1>1. Init => S!Init
  BY SuiviInit
<1>2. Inv /\ [Next]_vars => [S!Next]_(S!vars)
  <2>1. CASE Next
    BY <2>1, SuiviNext
  <2>2. CASE UNCHANGED vars
    BY <2>2 DEF vars, S!vars
  <2> QED
    BY <2>1, <2>2
<1> QED
  BY <1>1, <1>2, InvToujours, PTL DEF ImplementeSuivi, S!Spec, Spec

(* A counsellor who changes agency leaves behind none of their group events *)
(* and, in those of the others, none of the young people they follow: what  *)
(* was rewritten before their row (changerAgence) is still so when the row  *)
(* is saved, whatever commands came in between.                             *)
THEOREM AgenceQuitteeSansRien == Spec => EtablissementQuitte
<1>1. Init => Inv /\ InvEtablissements
  BY InitInv, EtablissementsInit
<1>2. Inv /\ InvEtablissements /\ [Next]_vars => (Inv /\ InvEtablissements)'
  BY NextInv, EtablissementsNext
<1>3. Inv /\ InvEtablissements /\ [Next]_vars =>
        [\A o \in Ops, c \in Conseillers : Demenage(o, c) =>
           \A a \in AC \ perturbes :
             animations[a] # Absent /\ animations[a].agence = conseillers[c] =>
               /\ animations[a].createur # c
               /\ \A j \in animations[a].jeunes \ perturbes : jeunes[j].conseiller # c]_vars
  BY AgenceQuitteeVide
<1> QED
  BY <1>1, <1>2, <1>3, PTL DEF EtablissementQuitte, Spec
=============================================================================

------------------------ MODULE PortefeuilleGroupes ------------------------
(***************************************************************************)
(* Proofs about what young people are in with others: whoever is given for  *)
(* good to another counsellor is in none of the lists of the one they       *)
(* leave, and whoever is registered for a group event is followed in its    *)
(* agency.                                                                  *)
(*                                                                          *)
(* The rows alone say little while a command is in flight: the invariant    *)
(* says who is about to be taken out, and that no pending write, computed   *)
(* from older rows, brings anybody back.                                    *)
(***************************************************************************)
EXTENDS PortefeuilleProofs

-----------------------------------------------------------------------------
(* The lists of the counsellor who was left                                 *)

(* The end of the history, unless a deletion took it.                       *)
Fin(j) == IF transferts[j] = <<>> THEN Absent ELSE transferts[j][Len(transferts[j])]
Definitif(t) == t # Absent /\ t.type = "definitif"
Quitte(j, c) == Definitif(Fin(j)) /\ Fin(j).source = c /\ Fin(j).cible # c

(* Whoever was given for good is followed by the target, and not for a time. *)
Conforme(ligne, t) == Definitif(t) => ligne.conseiller = t.cible /\ ligne.initial = Aucun

(* The row and the end of the history of j once what is pending is written. *)
Pendantes == UNION {ops[o].ecritures : o \in Ops}
Rangs(j) == {w \in Pendantes : SurRang(w, j)}
Traces(j) == {w \in Pendantes : SurTrace(w, j)}
Lignes(j) == IF Rangs(j) = {} THEN {jeunes[j]} ELSE {w.ligne : w \in Rangs(j)}
Fins(j) == IF Traces(j) = {} THEN {Fin(j)} ELSE {w.ligne : w \in Traces(j)}

Liberation(op, j) == op.cmd = "supprimerConseiller" /\ \E w \in op.ecritures : SurRang(w, j)

Accorde(j) ==
  /\ \A ligne \in Lignes(j), t \in Fins(j) : Conforme(ligne, t)
  /\ (\E o \in Ops : Liberation(ops[o], j)) => Conforme(jeunes[j], Fin(j))

SurListe(w, l) == w.table \in {"liste", "membres"} /\ w.id = l
Membres(w) == IF w.table = "liste" THEN w.ligne.jeunes ELSE w.jeunes

(* What is pending, whatever the rows are.                                  *)
Conduite(op, w) ==
  /\ w.table = "chat" => \A l \in w.lignes : Conforme(l.ligne, w.ligne)
  /\ w.table \in {"chat", "transfert"} /\ w.ligne.type = "definitif" =>
       op.cmd = "transferer" /\ ~op.temporaire /\ w.ligne.source = op.qui
  /\ w.table \in {"liste", "membres"} =>
       /\ w.id \in op.ecrit \cap uuids /\ Membres(w) \subseteq op.lit
       /\ op.cmd = "transferer" => w.id \in op.lit /\ Membres(w) \cap op.jeunes = {}
       /\ op.cmd = "transferer" /\ w.table = "membres" => ~w.ajout
       /\ op.cmd = "transferer" /\ w.table = "liste" => w.ligne.conseiller = op.qui
  /\ w.table = "suppression liste" => w.id \in op.ecrit
  /\ w.table = "animation" /\ op.cmd = "transferer" =>
       \E ligne : w.lignes = <<ligne>> /\ ligne.jeunes \subseteq op.lit

Tenue(op) ==
  /\ op.cmd = "transferer" /\ op # Libre => op.qui \in op.lit \cap Conseillers
  /\ \A w \in op.ecritures :
       /\ Conduite(op, w)
       /\ \A v \in op.ecritures : SurListe(w, w.id) /\ SurListe(v, w.id) => v = w

(* The lists a sound transfer has read are there, and still the former      *)
(* counsellor's: none of its writes can be refused.                         *)
Vivante(op) ==
  op.cmd = "transferer" /\ ~(op.jeunes \subseteq perturbes) =>
    /\ op.etape # "fin"
    /\ \A l \in op.lit \cap Listes : listes[l] # Absent /\ listes[l].conseiller = op.qui

(* The command still has to take j out of list l.                           *)
AEnlever(op, j, l) ==
  /\ op.cmd = "transferer" /\ ~op.temporaire /\ j \in op.jeunes
  /\ \/ op.etape \in {"jeunes", "animations"} /\ \A w \in op.ecritures : w.table # "chat"
     \/ \E w \in op.ecritures : SurListe(w, l)

(* No pending write brings j back in a list of the counsellor who was left. *)
Entree(op, j, l) ==
  \A w \in op.ecritures : SurListe(w, l) /\ j \in Membres(w) =>
    /\ w.table = "liste" => ~Quitte(j, w.ligne.conseiller)
    /\ listes[l] # Absent => ~Quitte(j, listes[l].conseiller)

Restee(j, l) ==
  listes[l] # Absent /\ j \in listes[l].jeunes /\ Quitte(j, listes[l].conseiller) =>
    \E o \in Ops : AEnlever(ops[o], j, l) /\ ops[o].qui = listes[l].conseiller

InvListes ==
  /\ \A l \in Listes : listes[l] # Absent => l \in uuids
  /\ \A o \in Ops : Tenue(ops[o]) /\ Vivante(ops[o])
  /\ \A j \in Jeunes \ perturbes : Accorde(j)
  /\ \A j \in Jeunes \ perturbes, l \in Listes \ perturbes :
       Restee(j, l) /\ \A o \in Ops : Entree(ops[o], j, l)

(* Steps of one command.                                                    *)
Cours(o, q) ==
  /\ ops'[o] = q /\ \A p \in Ops \ {o} : ops'[p] = ops[p]
  /\ perturbes \subseteq perturbes' /\ uuids \subseteq uuids'

FinGardee(j) == Fin(j)' = Fin(j) \/ ~Definitif(Fin(j))'

ListeGardee(o, l) ==
  \/ /\ listes[l] # Absent /\ listes'[l] # Absent
     /\ listes'[l].conseiller = listes[l].conseiller
     /\ listes'[l].jeunes \subseteq listes[l].jeunes
  \/ /\ listes'[l] = Absent
     /\ listes[l] # Absent => l \in ops[o].ecrit \/ listes[l].conseiller \in ops[o].ecrit

LEMMA QuitteGarde ==
  ASSUME NEW j, FinGardee(j), NEW c, Quitte(j, c)'
  PROVE  Quitte(j, c)
BY DEF FinGardee, Quitte

LEMMA TenueDesAutres ==
  ASSUME InvListes, NEW o \in Ops, NEW q, Cours(o, q), NEW p \in Ops \ {o}
  PROVE  Tenue(ops[p])'
<1>1. Tenue(ops[p]) /\ ops'[p] = ops[p] /\ uuids \subseteq uuids'
  BY DEF InvListes, Cours
<1>2. \A w : Conduite(ops[p], w) => Conduite(ops[p], w)'
  BY <1>1, ZenonT(60) DEF Conduite, Conforme, Definitif, Membres
<1> QED
  BY <1>1, <1>2 DEF Tenue, SurListe

(* A list that a sound transfer has read is touched by no other command.    *)
LEMMA VivanteDesAutres ==
  ASSUME Inv, InvListes, NEW o \in Ops, NEW q, Cours(o, q), NEW p \in Ops \ {o},
         \A l \in Listes : listes[l] # Absent =>
           \/ listes'[l] # Absent /\ listes'[l].conseiller = listes[l].conseiller
           \/ l \in ops[o].ecrit \/ listes[l].conseiller \in ops[o].ecrit
  PROVE  Vivante(ops[p])'
<1>1. Vivante(ops[p]) /\ Tenue(ops[p]) /\ ops'[p] = ops[p] /\ perturbes \subseteq perturbes'
  BY DEF InvListes, Cours
<1>2. SUFFICES ASSUME ops[p].cmd = "transferer", ~(ops[p].jeunes \subseteq perturbes')
               PROVE  /\ ops[p].etape # "fin"
                      /\ \A l \in ops[p].lit \cap Listes :
                           listes'[l] # Absent /\ listes'[l].conseiller = ops[p].qui
  BY <1>1 DEF Vivante
<1>3. /\ ops[p].etape # "fin"
      /\ \A l \in ops[p].lit \cap Listes : listes[l] # Absent /\ listes[l].conseiller = ops[p].qui
  BY <1>1, <1>2 DEF Vivante
<1>4. Saine(p)
  BY <1>1, <1>2 DEF Saine, Objet
<1>5. ops[o].ecrit \cap ops[p].lit = {}
  BY <1>4, Etrangeres DEF Inv
<1>6. ops[p] # Libre
  BY <1>2, LibreOperation
<1>7. ops[p].qui \in ops[p].lit
  BY <1>1, <1>2, <1>6 DEF Tenue
<1> QED
  BY <1>3, <1>5, <1>7

LEMMA EntreeDesAutres ==
  ASSUME InvListes, NEW o \in Ops, NEW q, Cours(o, q), NEW p \in Ops \ {o},
         NEW j \in Jeunes \ perturbes', NEW l \in Listes \ perturbes', FinGardee(j), ListeGardee(o, l)
  PROVE  Entree(ops[p], j, l)'
<1>1. Entree(ops[p], j, l) /\ ops'[p] = ops[p]
  BY DEF InvListes, Cours
<1>2. \A c : Quitte(j, c)' => Quitte(j, c)
  BY QuitteGarde
<1>3. listes'[l] # Absent => listes[l] # Absent /\ listes'[l].conseiller = listes[l].conseiller
  BY DEF ListeGardee
<1>4. SUFFICES ASSUME NEW w \in ops[p].ecritures, SurListe(w, l), j \in Membres(w)
               PROVE  /\ w.table = "liste" => ~Quitte(j, w.ligne.conseiller)'
                      /\ listes'[l] # Absent => ~Quitte(j, listes[l].conseiller)'
  BY <1>1 DEF Entree, SurListe, Membres
<1>5. /\ w.table = "liste" => ~Quitte(j, w.ligne.conseiller)
      /\ listes[l] # Absent => ~Quitte(j, listes[l].conseiller)
  BY <1>1, <1>4 DEF Entree
<1>6. Quitte(j, w.ligne.conseiller)' => Quitte(j, w.ligne.conseiller)
  BY <1>2
<1>7. listes'[l] # Absent /\ Quitte(j, listes[l].conseiller)' => Quitte(j, listes[l].conseiller)
  BY <1>2, <1>3 DEF Quitte
<1> QED
  BY <1>3, <1>5, <1>6, <1>7

LEMMA ResteeSuit ==
  ASSUME InvListes, NEW o \in Ops, NEW q, Cours(o, q),
         NEW j \in Jeunes \ perturbes', NEW l \in Listes \ perturbes', FinGardee(j), ListeGardee(o, l),
         /\ AEnlever(ops[o], j, l) /\ listes[l] # Absent /\ ops[o].qui = listes[l].conseiller
         /\ j \in listes[l].jeunes
         => AEnlever(q, j, l) /\ q.qui = ops[o].qui
  PROVE  Restee(j, l)'
<1>1. Restee(j, l) /\ ops'[o] = q /\ \A p \in Ops \ {o} : ops'[p] = ops[p]
  BY DEF InvListes, Cours
<1>2. SUFFICES ASSUME listes'[l] # Absent, j \in listes'[l].jeunes, Quitte(j, listes[l].conseiller)'
               PROVE  \E p \in Ops : AEnlever(ops'[p], j, l) /\ ops'[p].qui = listes'[l].conseiller
  BY DEF Restee, AEnlever, SurListe
<1>3. /\ listes[l] # Absent /\ listes'[l].conseiller = listes[l].conseiller
      /\ j \in listes[l].jeunes
  BY <1>2 DEF ListeGardee
<1>4. Quitte(j, listes[l].conseiller)
  BY <1>2, <1>3 DEF FinGardee, Quitte
<1>5. PICK p \in Ops : AEnlever(ops[p], j, l) /\ ops[p].qui = listes[l].conseiller
  BY <1>1, <1>3, <1>4 DEF Restee
<1> QED
  BY <1>1, <1>3, <1>5

LEMMA ListesReunies ==
  ASSUME Inv, InvListes, NEW o \in Ops, NEW q, Cours(o, q), Tenue(q)', Vivante(q)',
         \A l \in Listes : listes'[l] # Absent => l \in uuids',
         \A l \in Listes : listes[l] # Absent =>
           \/ listes'[l] # Absent /\ listes'[l].conseiller = listes[l].conseiller
           \/ l \in ops[o].ecrit \/ listes[l].conseiller \in ops[o].ecrit,
         \A j \in Jeunes \ perturbes' : Accorde(j)',
         \A j \in Jeunes \ perturbes', l \in Listes \ perturbes' :
           Restee(j, l)' /\ Entree(q, j, l)' /\ \A p \in Ops \ {o} : Entree(ops[p], j, l)'
  PROVE  InvListes'
<1>1. ops'[o] = q /\ \A p \in Ops \ {o} : ops'[p] = ops[p]
  BY DEF Cours
<1>3. ASSUME NEW p \in Ops
      PROVE  Tenue(ops[p])' /\ Vivante(ops[p])'
  <2>2. CASE p = o
    <3>1. Tenue(ops[p])'
      <4>1. ops'[p] = q
        BY <1>1, <2>2
      <4>2. \A w : Conduite(q, w)' => Conduite(ops[p], w)'
        BY <4>1, ZenonT(60) DEF Conduite, Conforme, Definitif, Membres
      <4> QED
        BY <4>1, <4>2 DEF Tenue, SurListe
    <3>2. Vivante(ops[p])'
      BY <1>1, <2>2 DEF Vivante
    <3> QED
      BY <3>1, <3>2
  <2>3. CASE p # o
    BY <2>3, TenueDesAutres, VivanteDesAutres
  <2> QED
    BY <2>2, <2>3
<1>5. ASSUME NEW j \in Jeunes \ perturbes', NEW l \in Listes \ perturbes', NEW p \in Ops
      PROVE  Entree(ops[p], j, l)'
  <2>1. CASE p = o
    BY <1>1, <2>1 DEF Entree, SurListe, Membres
  <2>2. CASE p # o
    BY <2>2
  <2> QED
    BY <2>1, <2>2
<1> QED
  BY <1>3, <1>5 DEF InvListes

LEMMA ListesSuivent ==
  ASSUME Inv, InvListes, NEW o \in Ops, NEW q, Cours(o, q), Tenue(q)', Vivante(q)',
         \A l \in Listes : ListeGardee(o, l),
         \A j \in Jeunes \ perturbes' : FinGardee(j) /\ Accorde(j)',
         \A j \in Jeunes \ perturbes', l \in Listes \ perturbes' :
           /\ Entree(q, j, l)'
           /\ /\ AEnlever(ops[o], j, l) /\ listes[l] # Absent /\ ops[o].qui = listes[l].conseiller
              /\ j \in listes[l].jeunes
              => AEnlever(q, j, l) /\ q.qui = ops[o].qui
  PROVE  InvListes'
<1>1. \A l \in Listes : listes'[l] # Absent => l \in uuids'
  BY DEF InvListes, ListeGardee, Cours
<1>2. \A l \in Listes : listes[l] # Absent =>
           \/ listes'[l] # Absent /\ listes'[l].conseiller = listes[l].conseiller
           \/ l \in ops[o].ecrit \/ listes[l].conseiller \in ops[o].ecrit
  BY DEF ListeGardee
<1>3. \A j \in Jeunes \ perturbes', l \in Listes \ perturbes' :
        Restee(j, l)' /\ \A p \in Ops \ {o} : Entree(ops[p], j, l)'
  BY ResteeSuit, EntreeDesAutres
<1> QED
  BY <1>1, <1>2, <1>3, ListesReunies

(* Nothing is said of a command that is over.                               *)
LEMMA LibreTenue ==
  /\ Tenue(Libre)' /\ Vivante(Libre)'
  /\ \A j, l : Entree(Libre, j, l)' /\ ~AEnlever(Libre, j, l)
BY LibreOperation DEF Tenue, Vivante, Entree, AEnlever, Libre

LEMMA PoursuivreEnleve ==
  ASSUME NEW op, NEW j, NEW l, AEnlever(op, j, l)
  PROVE  Poursuivre(op) = op
BY DEF AEnlever, Poursuivre, ResteAFaire

LEMMA PendantesPas ==
  ASSUME NEW o \in Ops, NEW q, Cours(o, q)
  PROVE  \A w : w \in Pendantes' <=>
           w \in q.ecritures \/ \E p \in Ops \ {o} : w \in ops[p].ecritures
BY DEF Cours, Pendantes

(* What is pending of j is the same, and the end of the history too, unless *)
(* a deletion took it.                                                      *)
LEMMA AccordeSuit ==
  ASSUME NEW o \in Ops, NEW q, Cours(o, q), NEW j, Accorde(j),
         jeunes'[j] = jeunes[j], FinGardee(j),
         \A w \in q.ecritures : SurRang(w, j) \/ SurTrace(w, j) =>
           w \in ops[o].ecritures /\ (q.cmd = "supprimerConseiller" => ops[o].cmd = q.cmd),
         \A w \in ops[o].ecritures : SurRang(w, j) \/ SurTrace(w, j) => w \in q.ecritures
  PROVE  Accorde(j)'
<1>1. Rangs(j)' = Rangs(j)
  <2>1. \A w : w \in Rangs(j)' <=> w \in Pendantes' /\ SurRang(w, j)
    BY DEF Rangs, SurRang
  <2> QED
    BY <2>1, PendantesPas DEF Rangs, Pendantes
<1>2. Traces(j)' = Traces(j)
  <2>1. \A w : w \in Traces(j)' <=> w \in Pendantes' /\ SurTrace(w, j)
    BY DEF Traces, SurTrace
  <2> QED
    BY <2>1, PendantesPas DEF Traces, Pendantes
<1>3. Lignes(j)' = Lignes(j)
  BY <1>1 DEF Lignes
<1>4. \A t \in Fins(j)' : t \in Fins(j) \/ ~Definitif(t)
  <2>1. CASE Traces(j) = {}
    BY <1>2, <2>1 DEF Fins, FinGardee, Definitif
  <2>2. CASE Traces(j) # {}
    BY <1>2, <2>2 DEF Fins
  <2> QED
    BY <2>1, <2>2
<1>5. (\E p \in Ops : Liberation(ops[p], j)') => \E p \in Ops : Liberation(ops[p], j)
  <2> SUFFICES ASSUME NEW p \in Ops, Liberation(ops[p], j)'
               PROVE  Liberation(ops[p], j)
    OBVIOUS
  <2>1. CASE p = o
    BY <2>1 DEF Cours, Liberation, SurRang
  <2>2. CASE p # o
    BY <2>2 DEF Cours, Liberation, SurRang
  <2> QED
    BY <2>1, <2>2
<1>6. Conforme(jeunes[j], Fin(j)) => Conforme(jeunes[j], Fin(j))'
  BY DEF FinGardee, Conforme, Definitif
<1>7. \A ligne, t : Conforme(ligne, t)' <=> Conforme(ligne, t)
  BY DEF Conforme, Definitif
<1>8. \A ligne \in Lignes(j)', t \in Fins(j)' : Conforme(ligne, t)
  BY <1>3, <1>4 DEF Accorde, Conforme
<1> QED
  BY <1>5, <1>6, <1>7, <1>8 DEF Accorde

(* Whoever a command has just read, without being noticed, has nothing left *)
(* to be written by another: their row agrees with their history.           *)
LEMMA LuSeul ==
  ASSUME Types, NEW o \in Ops, NEW op, Lecture(o, op), op.cmd \notin Departs,
         NEW x \in op.lit \cup op.ecrit, x \notin perturbes', NEW p \in Ops \ {o}
  PROVE  x \notin ops[p].ecrit
<1> SUFFICES ASSUME x \in ops[p].ecrit PROVE FALSE
  OBVIOUS
<1>1. EnConflit(op, ops[p]) /\ ops[p] # Libre
  BY LibreOperation DEF EnConflit
<1>2. p \in Conflits(o, op)
  BY <1>1 DEF Conflits
<1> QED
  BY <1>2, ToutEstMarque DEF Lecture

LEMMA LuConforme ==
  ASSUME Inv, InvListes, NEW o \in Ops, ops[o].ecritures = {}, NEW op, Lecture(o, op),
         op.cmd \notin Departs, NEW j \in Jeunes \ perturbes', j \in op.lit \cup op.ecrit
  PROVE  Conforme(jeunes[j], Fin(j)) /\ Rangs(j) = {} /\ Traces(j) = {}
<1>1. \A p \in Ops : \A w \in ops[p].ecritures : ~Concerne(w, j)
  <2> SUFFICES ASSUME NEW p \in Ops \ {o}
               PROVE  \A w \in ops[p].ecritures : ~Concerne(w, j)
    OBVIOUS
  <2>1. j \notin ops[p].ecrit
    BY LuSeul DEF Inv
  <2> QED
    BY <2>1, Ailleurs DEF Inv
<1>2. Rangs(j) = {} /\ Traces(j) = {}
  BY <1>1 DEF Rangs, Traces, Pendantes, Concerne
<1>3. j \notin perturbes
  BY ToutEstMarque DEF Lecture
<1> QED
  BY <1>2, <1>3 DEF InvListes, Accorde, Lignes, Fins

(* A command reads, and the rows stay.                                      *)
LEMMA LectureListes ==
  ASSUME Inv, InvListes, NEW o \in Ops, ops[o].ecritures = {}, NEW op, Lecture(o, op),
         uuids \subseteq uuids', Tenue(op)', Vivante(op)',
         \A w \in op.ecritures : w.table # "transfert",
         \A j \in Jeunes \ perturbes' : \A w \in op.ecritures : SurRang(w, j) =>
           /\ j \in op.ecrit /\ op.cmd \notin Departs
           /\ w.ligne.conseiller = jeunes[j].conseiller /\ w.ligne.initial = Aucun,
         \A j \in Jeunes \ perturbes', l \in Listes \ perturbes' :
           /\ Entree(op, j, l)'
           /\ /\ AEnlever(ops[o], j, l) /\ listes[l] # Absent /\ ops[o].qui = listes[l].conseiller
              /\ j \in listes[l].jeunes
              => AEnlever(op, j, l) /\ op.qui = ops[o].qui
  PROVE  InvListes'
<1> DEFINE q == Poursuivre(op)
<1>1. UNCHANGED <<jeunes, transferts, listes>> /\ perturbes' = PerturbesPar(o, op)
      /\ ops' = [ops EXCEPT ![o] = q] /\ Types
  BY DEF Lecture, donnees, Inv
<1>2. Cours(o, q)
  BY <1>1, ToutEstMarque DEF Cours, Types
<1>3. q = op \/ (q = Libre /\ op.ecritures = {})
  BY DEF Poursuivre
<1> HIDE DEF q
<1>4. \A j : Fin(j)' = Fin(j)
  BY <1>1 DEF Fin
<1>5. \A l \in Listes : ListeGardee(o, l)
  BY <1>1 DEF ListeGardee
<1>6. Tenue(q)' /\ Vivante(q)'
  <2>1. CASE q = op
    BY <2>1
  <2>2. CASE q = Libre
    BY <2>2, LibreTenue
  <2> QED
    BY <1>3, <2>1, <2>2
<1>7. \A j \in Jeunes \ perturbes', l \in Listes \ perturbes' :
           /\ Entree(q, j, l)'
           /\ /\ AEnlever(ops[o], j, l) /\ listes[l] # Absent /\ ops[o].qui = listes[l].conseiller
              /\ j \in listes[l].jeunes
              => AEnlever(q, j, l) /\ q.qui = ops[o].qui
  <2>1. CASE q = op
    BY <2>1
  <2>2. CASE q = Libre
    BY <2>2, LibreTenue, PoursuivreEnleve DEF q
  <2> QED
    BY <1>3, <2>1, <2>2
<1>8. ASSUME NEW j \in Jeunes \ perturbes'
      PROVE  FinGardee(j) /\ Accorde(j)'
  <2>1. j \notin perturbes /\ Accorde(j) /\ FinGardee(j) /\ jeunes'[j] = jeunes[j]
    BY <1>1, <1>2, <1>4 DEF Cours, InvListes, FinGardee
  <2>2. CASE \E w \in q.ecritures : SurRang(w, j)
    <3>1. q = op
      BY <1>3, <2>2, LibreOperation
    <3>2. j \in op.ecrit /\ op.cmd \notin Departs
          /\ \A w \in op.ecritures : SurRang(w, j) =>
               w.ligne.conseiller = jeunes[j].conseiller /\ w.ligne.initial = Aucun
      BY <2>2, <3>1
    <3>3. Conforme(jeunes[j], Fin(j)) /\ Rangs(j) = {} /\ Traces(j) = {}
      BY <3>2, LuConforme
    <3>4. \A w : w \in Pendantes' <=>
            w \in op.ecritures \/ \E p \in Ops \ {o} : w \in ops[p].ecritures
      BY <1>2, <3>1, PendantesPas
    <3>5. \A w \in Rangs(j)' : w \in op.ecritures /\ SurRang(w, j)
      BY <3>3, <3>4 DEF Rangs, Pendantes, SurRang
    <3>6. Traces(j)' = {}
      BY <3>3, <3>4 DEF Traces, Pendantes, SurTrace
    <3>7. Fins(j)' = {Fin(j)}
      BY <1>4, <3>6 DEF Fins
    <3>8. \A ligne \in Lignes(j)' :
            ligne = jeunes[j] \/ (ligne.conseiller = jeunes[j].conseiller /\ ligne.initial = Aucun)
      BY <2>1, <3>2, <3>5 DEF Lignes
    <3>9. \A ligne \in Lignes(j)', t \in Fins(j)' : Conforme(ligne, t)
      BY <3>3, <3>7, <3>8 DEF Conforme
    <3>10. Conforme(jeunes[j], Fin(j))'
      BY <1>4, <2>1, <3>3 DEF Conforme, Definitif
    <3> QED
      BY <2>1, <3>9, <3>10 DEF Accorde, Conforme, Definitif
  <2>3. CASE \A w \in q.ecritures : ~SurRang(w, j)
    <3>1. \A w \in q.ecritures : ~SurTrace(w, j)
      BY <1>3, LibreOperation DEF SurTrace
    <3> QED
      BY <1>2, <2>1, <2>3, <3>1, AccordeSuit
  <2> QED
    BY <2>2, <2>3
<1> QED
  BY <1>2, <1>5, <1>6, <1>7, <1>8, ListesSuivent

-----------------------------------------------------------------------------
(* Commands that touch no list                                              *)

Muette(op) ==
  /\ op.cmd # "transferer"
  /\ \A w \in op.ecritures :
       /\ w.table \notin {"liste", "membres"}
       /\ w.table \in {"chat", "transfert"} => w.ligne.type # "definitif"
       /\ w.table = "suppression liste" => w.id \in op.ecrit

LEMMA MuetteTenue ==
  ASSUME NEW op, Muette(op)
  PROVE  /\ Tenue(op)' /\ Vivante(op)'
         /\ \A j, l : Entree(op, j, l)' /\ ~AEnlever(op, j, l)
<1>1. \A w \in op.ecritures : Conduite(op, w)'
  BY DEF Muette, Conduite, Conforme, Definitif
<1> QED
  BY <1>1 DEF Muette, Tenue, Vivante, Entree, AEnlever, SurListe

LEMMA MuetteLue ==
  ASSUME Inv, InvListes, NEW o \in Ops, NEW op, Demarrer(o, op) \/ Relire(o, op),
         uuids \subseteq uuids', ops[o] = Libre \/ ops[o].cmd # "transferer", Muette(op),
         \A w \in op.ecritures : w.table # "transfert",
         \A j \in Jeunes \ perturbes' : \A w \in op.ecritures : SurRang(w, j) =>
           /\ j \in op.ecrit /\ op.cmd \notin Departs
           /\ w.ligne.conseiller = jeunes[j].conseiller /\ w.ligne.initial = Aucun
  PROVE  InvListes'
<1>1. Lecture(o, op) /\ ops[o].ecritures = {}
  BY LibreOperation DEF Demarrer, Relire
<1>2. \A j, l : ~AEnlever(ops[o], j, l)
  BY LibreTenue DEF AEnlever
<1>3. Tenue(op)' /\ Vivante(op)' /\ \A j, l : Entree(op, j, l)'
  BY MuetteTenue
<1> QED
  BY <1>1, <1>2, <1>3, LectureListes

LEMMA PreteMuette ==
  ASSUME Inv, InvListes, NEW o \in Ops, NEW cmd, NEW ecritures, NEW lit, NEW ecrit,
         Demarrer(o, Prete(cmd, ecritures, lit, ecrit)), uuids \subseteq uuids',
         cmd # "transferer",
         \A w \in ecritures :
           /\ w.table \in {"chat", "animation", "conseiller", "suppression liste"}
           /\ w.table = "chat" => w.ligne.type # "definitif"
           /\ w.table = "suppression liste" => w.id \in ecrit
  PROVE  InvListes'
<1> DEFINE op == Prete(cmd, ecritures, lit, ecrit)
<1>1. op.cmd = cmd /\ op.ecritures = ecritures /\ op.ecrit = ecrit
  BY DEF Prete, Libre
<1>2. Demarrer(o, op)
  OBVIOUS
<1>3. ops[o] = Libre
  BY <1>2 DEF Demarrer
<1> HIDE DEF op
<1>4. Muette(op)
  BY <1>1 DEF Muette
<1>5. \A w \in op.ecritures : w.table # "transfert" /\ \A j : ~SurRang(w, j)
  BY <1>1 DEF SurRang
<1> QED
  BY <1>2, <1>3, <1>4, <1>5, MuetteLue

LEMMA CommandesMuettesSurListes ==
  ASSUME Inv, InvListes, NEW o \in Ops,
         \/ SupprimerConseiller(o) \/ SupprimerJeune(o) \/ ArchiverJeune(o) \/ ArchiverJeuneSupport(o)
         \/ ChangerAgence(o) \/ ModifierConseiller(o) \/ SupprimerListe(o)
         \/ CreerAnimation(o) \/ ModifierAnimation(o) \/ Recuperer(o)
  PROVE  InvListes'
<1>1. ASSUME NEW op, Demarrer(o, op), uuids' = uuids, op.ecritures = {}, op.cmd # "transferer"
      PROVE  InvListes'
  BY <1>1, MuetteLue DEF Muette, Demarrer
<1>2. CASE SupprimerConseiller(o)
  BY <1>1, <1>2 DEF SupprimerConseiller, Libre
<1>3. CASE SupprimerJeune(o) \/ ArchiverJeune(o) \/ ArchiverJeuneSupport(o)
  BY <1>1, <1>3 DEF SupprimerJeune, ArchiverJeune, ArchiverJeuneSupport, Quitter, Libre
<1>4. CASE ChangerAgence(o)
  BY <1>1, <1>4 DEF ChangerAgence, Libre
<1>5. CASE ModifierConseiller(o)
  <2>1. PICK c \in Conseillers, agence \in Agences \cup {Aucun} :
          /\ Demarrer(o, Prete("modifierConseiller",
               {[table |-> "conseiller", id |-> c, agence |-> agence]}, {c}, {c}))
          /\ UNCHANGED uuids
    BY <1>5 DEF ModifierConseiller
  <2> DEFINE ws == {[table |-> "conseiller", id |-> c, agence |-> agence]}
  <2>2. Demarrer(o, Prete("modifierConseiller", ws, {c}, {c})) /\ \A w \in ws : w.table = "conseiller"
    BY <2>1
  <2> HIDE DEF ws
  <2> QED
    BY <2>1, <2>2, PreteMuette
<1>6. CASE SupprimerListe(o)
  <2>1. PICK l \in Listes :
          /\ Demarrer(o, Prete("supprimerListe", {[table |-> "suppression liste", id |-> l]}, {l}, {l}))
          /\ UNCHANGED uuids
    BY <1>6 DEF SupprimerListe
  <2> DEFINE w == [table |-> "suppression liste", id |-> l]
  <2>2. Demarrer(o, Prete("supprimerListe", {w}, {l}, {l}))
    BY <2>1
  <2>3. w.table = "suppression liste" /\ w.id = l
    BY Zenon
  <2> HIDE DEF w
  <2>4. PICK ws : ws = {w}
    OBVIOUS
  <2>5. /\ Demarrer(o, Prete("supprimerListe", ws, {l}, {l}))
        /\ \A v \in ws : v.table = "suppression liste" /\ v.id \in {l}
    BY <2>2, <2>3, <2>4
  <2> QED
    BY <2>1, <2>5, PreteMuette
<1>7. CASE CreerAnimation(o)
  <2>1. PICK c \in {d \in Conseillers : conseillers[d] \in Agences}, a \in AC \ uuids :
          \E js \in SUBSET JeunesDeLAgence(conseillers[c]) :
            /\ Demarrer(o, Prete("creerAnimation",
                 {EcritureAnimation(a, <<[agence |-> conseillers[c], createur |-> c, jeunes |-> js]>>)},
                 Dossiers(js) \cup {c}, {a}))
            /\ uuids' = uuids \cup {a}
    BY <1>7, Zenon DEF CreerAnimation
  <2>2. PICK js \in SUBSET JeunesDeLAgence(conseillers[c]) :
            /\ Demarrer(o, Prete("creerAnimation",
                 {EcritureAnimation(a, <<[agence |-> conseillers[c], createur |-> c, jeunes |-> js]>>)},
                 Dossiers(js) \cup {c}, {a}))
            /\ uuids' = uuids \cup {a}
    BY <2>1
  <2> DEFINE ws == {EcritureAnimation(a, <<[agence |-> conseillers[c], createur |-> c, jeunes |-> js]>>)}
  <2>3. Demarrer(o, Prete("creerAnimation", ws, Dossiers(js) \cup {c}, {a}))
        /\ \A w \in ws : w.table = "animation"
    BY <2>2 DEF EcritureAnimation
  <2> HIDE DEF ws
  <2> QED
    BY <2>2, <2>3, PreteMuette
<1>8. CASE ModifierAnimation(o)
  <2>1. PICK a \in AC :
          \E js \in SUBSET JeunesDeLAgence(animations[a].agence) :
            /\ Demarrer(o, Prete("modifierAnimation",
                 {EcritureAnimation(a, <<[animations[a] EXCEPT !.jeunes = js]>>)},
                 Dossiers(js) \cup {a}, {a}))
            /\ UNCHANGED uuids
    BY <1>8, Zenon DEF ModifierAnimation
  <2>2. PICK js \in SUBSET JeunesDeLAgence(animations[a].agence) :
            /\ Demarrer(o, Prete("modifierAnimation",
                 {EcritureAnimation(a, <<[animations[a] EXCEPT !.jeunes = js]>>)},
                 Dossiers(js) \cup {a}, {a}))
            /\ UNCHANGED uuids
    BY <2>1
  <2> DEFINE ws == {EcritureAnimation(a, <<[animations[a] EXCEPT !.jeunes = js]>>)}
  <2>3. Demarrer(o, Prete("modifierAnimation", ws, Dossiers(js) \cup {a}, {a}))
        /\ \A w \in ws : w.table = "animation"
    BY <2>2 DEF EcritureAnimation
  <2> HIDE DEF ws
  <2> QED
    BY <2>2, <2>3, PreteMuette
<1>9. CASE Recuperer(o)
  <2> DEFINE lot(c, d) == {j \in Origine(c) : jeunes[j].conseiller = d}
             transfert(c, d) == [source |-> d, cible |-> c, type |-> "recuperation"]
             rendu(c, j) == [id |-> j, ligne |-> [conseiller |-> c, initial |-> Aucun]]
             ecrit(c, d) == EcritureChat(transfert(c, d), {rendu(c, j) : j \in lot(c, d)})
             ecritures(c) == {ecrit(c, d) : d \in {e \in Conseillers : lot(c, e) # {}}}
             op(c) == Prete("recuperer", ecritures(c), Dossiers(Origine(c)), Origine(c))
  <2>1. PICK c \in Conseillers : Demarrer(o, op(c)) /\ UNCHANGED uuids
    BY <1>9 DEF Recuperer
  <2>2. \A d : ecrit(c, d).table = "chat" /\ ecrit(c, d).ligne.type = "recuperation"
    BY DEF EcritureChat
  <2>3. \A w \in ecritures(c) : w.table = "chat" /\ w.ligne.type # "definitif"
    BY <2>2
  <2> HIDE DEF ecritures
  <2> QED
    BY <2>1, <2>3, PreteMuette
<1> QED
  BY <1>2, <1>3, <1>4, <1>5, <1>6, <1>7, <1>8, <1>9

(* A command that writes one list of counsellor c, whose members c may hold. *)
LEMMA UneListeRecue ==
  ASSUME Inv, InvListes, NEW o \in Ops, NEW cmd, cmd \notin Departs, cmd # "transferer",
         NEW w, NEW l \in Listes, NEW lit, NEW c \in Conseillers,
         w.table \in {"liste", "membres"}, w.id = l, Membres(w) \subseteq lit \cap Jeunes,
         w.table = "liste" => w.ligne.conseiller = c,
         listes[l] # Absent => listes[l].conseiller = c,
         \A j \in Membres(w) : jeunes[j].conseiller = c \/ jeunes[j].initial = c,
         Demarrer(o, Prete(cmd, {w}, lit, {l})), uuids \subseteq uuids', l \in uuids'
  PROVE  InvListes'
<1> DEFINE op == Prete(cmd, {w}, lit, {l})
<1>1. op.cmd = cmd /\ op.ecritures = {w} /\ op.lit = lit /\ op.ecrit = {l}
  BY DEF Prete, Libre
<1>2. Demarrer(o, op) /\ ops[o] = Libre
  BY DEF Demarrer
<1> HIDE DEF op
<1>3. Lecture(o, op) /\ ops[o].ecritures = {} /\ UNCHANGED <<transferts, listes>>
  BY <1>2, LibreOperation DEF Demarrer, Lecture, donnees
<1>4. Tenue(op)'
  <2>1. Conduite(op, w)'
    BY <1>1 DEF Conduite, Membres
  <2> QED
    BY <1>1, <2>1 DEF Tenue, SurListe
<1>5. Vivante(op)'
  BY <1>1 DEF Vivante
<1>6. ASSUME NEW j \in Jeunes \ perturbes', NEW k \in Listes \ perturbes'
      PROVE  Entree(op, j, k)'
  <2> SUFFICES ASSUME k = l, j \in Membres(w)
               PROVE  ~Quitte(j, c)'
    BY <1>1, <1>3 DEF Entree, SurListe, Membres, Quitte, Fin
  <2>1. Conforme(jeunes[j], Fin(j))
    BY <1>1, <1>3, <1>6, LuConforme
  <2>2. Quitte(j, c)' <=> Quitte(j, c)
    BY <1>3 DEF Quitte, Fin
  <2>3. Aucun \notin Conseillers
    BY ConstantsAssumption
  <2> QED
    BY <2>1, <2>2, <2>3 DEF Conforme, Quitte
<1>7. \A j, k : ~AEnlever(ops[o], j, k)
  BY <1>2, LibreTenue
<1>8. \A v \in op.ecritures : v.table # "transfert" /\ \A j : ~SurRang(v, j)
  BY <1>1 DEF SurRang
<1> QED
  BY <1>3, <1>4, <1>5, <1>6, <1>7, <1>8, LectureListes

LEMMA ListesCommandees ==
  ASSUME Inv, InvListes, NEW o \in Ops,
         CreerListe(o) \/ ModifierListe(o) \/ AjouterJeuneListe(o)
  PROVE  InvListes'
<1>1. /\ \A l \in Listes : listes[l] # Absent => listes[l].conseiller \in Conseillers /\ l \in uuids
      /\ Presents \subseteq Jeunes /\ {"creerListe", "modifierListe", "ajouterJeuneListe"} \cap Departs = {}
  BY DEF Inv, InvListes, Types, Liste, Presents, Departs
<1>2. \A js : js \subseteq Dossiers(js)
  BY DEF Dossiers
<1>3. \A c : /\ SuivisPar(c) \subseteq Presents /\ \A j \in SuivisPar(c) : jeunes[j].conseiller = c
             /\ Origine(c) \subseteq Presents /\ \A j \in Origine(c) : jeunes[j].initial = c
  BY DEF SuivisPar, Origine
<1>4. \A l, c, js : /\ EcritureListe(l, c, js).table = "liste" /\ EcritureListe(l, c, js).id = l
                    /\ EcritureListe(l, c, js).ligne.conseiller = c
                    /\ Membres(EcritureListe(l, c, js)) = js
  BY DEF EcritureListe, Membres
<1>5. CASE CreerListe(o)
  <2>1. PICK c \in {d \in Conseillers : Existe(d)}, l \in Listes \ uuids :
        \E js \in SUBSET SuivisPar(c) :
          /\ Demarrer(o, Prete("creerListe", {EcritureListe(l, c, js)}, Dossiers(js) \cup {c}, {l}))
          /\ uuids' = uuids \cup {l}
    BY <1>5 DEF CreerListe
  <2>2. PICK js \in SUBSET SuivisPar(c) :
          /\ Demarrer(o, Prete("creerListe", {EcritureListe(l, c, js)}, Dossiers(js) \cup {c}, {l}))
          /\ uuids' = uuids \cup {l}
    BY <2>1
  <2>3. listes[l] = Absent
    BY <1>1
  <2>4. PICK w : w = EcritureListe(l, c, js)
    OBVIOUS
  <2>5. js \subseteq (Dossiers(js) \cup {c}) \cap Jeunes
    BY <1>1, <1>2, <1>3
  <2>6. /\ w.table = "liste" /\ w.id = l /\ w.ligne.conseiller = c /\ Membres(w) = js
        /\ Demarrer(o, Prete("creerListe", {w}, Dossiers(js) \cup {c}, {l}))
    BY <1>4, <2>2, <2>4
  <2>7. \A j \in Membres(w) : jeunes[j].conseiller = c
    BY <1>3, <2>6
  <2>8. uuids \subseteq uuids' /\ l \in uuids'
    BY <2>2
  <2>9. PICK lit : lit = Dossiers(js) \cup {c}
    OBVIOUS
  <2>10. /\ Membres(w) \subseteq lit \cap Jeunes /\ w.table \in {"liste", "membres"}
         /\ Demarrer(o, Prete("creerListe", {w}, lit, {l}))
    BY <2>5, <2>6, <2>9
  <2>11. "creerListe" \notin Departs /\ "creerListe" # "transferer"
    BY <1>1
  <2> QED
    BY <2>3, <2>6, <2>7, <2>8, <2>10, <2>11, UneListeRecue
<1>6. CASE ModifierListe(o)
  <2>1. PICK l \in Listes : /\ listes[l] # Absent
          /\ \E js \in SUBSET (SuivisPar(listes[l].conseiller) \cup Origine(listes[l].conseiller)) :
               /\ Demarrer(o, Prete("modifierListe", {EcritureListe(l, listes[l].conseiller, js)},
                                 Dossiers(js) \cup {listes[l].conseiller, l}, {l}))
               /\ UNCHANGED uuids
    BY <1>6 DEF ModifierListe
  <2>2. PICK c \in Conseillers : c = listes[l].conseiller
    BY <1>1, <2>1
  <2>3. PICK js \in SUBSET (SuivisPar(c) \cup Origine(c)) :
               /\ Demarrer(o, Prete("modifierListe", {EcritureListe(l, c, js)},
                                 Dossiers(js) \cup {c, l}, {l}))
               /\ UNCHANGED uuids
    BY <2>1, <2>2
  <2>4. PICK w : w = EcritureListe(l, c, js)
    OBVIOUS
  <2>5. js \subseteq (Dossiers(js) \cup {c, l}) \cap Jeunes
    BY <1>1, <1>2, <1>3
  <2>6. /\ w.table = "liste" /\ w.id = l /\ w.ligne.conseiller = c /\ Membres(w) = js
        /\ Demarrer(o, Prete("modifierListe", {w}, Dossiers(js) \cup {c, l}, {l}))
    BY <1>4, <2>3, <2>4
  <2>7. \A j \in Membres(w) : jeunes[j].conseiller = c \/ jeunes[j].initial = c
    BY <1>3, <2>6
  <2>8. uuids \subseteq uuids' /\ l \in uuids'
    BY <1>1, <2>1, <2>3
  <2>9. PICK lit : lit = Dossiers(js) \cup {c, l}
    OBVIOUS
  <2>10. /\ Membres(w) \subseteq lit \cap Jeunes /\ w.table \in {"liste", "membres"}
         /\ Demarrer(o, Prete("modifierListe", {w}, lit, {l}))
    BY <2>5, <2>6, <2>9
  <2>11. "modifierListe" \notin Departs /\ "modifierListe" # "transferer"
    BY <1>1
  <2> QED
    BY <2>2, <2>6, <2>7, <2>8, <2>10, <2>11, UneListeRecue
<1>7. CASE AjouterJeuneListe(o)
  <2>1. PICK l \in Listes : /\ listes[l] # Absent
          /\ \E j \in SuivisPar(listes[l].conseiller) :
               /\ Demarrer(o, Prete("ajouterJeuneListe",
                    {[table |-> "membres", id |-> l, jeunes |-> {j}, ajout |-> TRUE]},
                    Dossiers({j}) \cup {l}, {l}))
               /\ UNCHANGED uuids
    BY <1>7 DEF AjouterJeuneListe
  <2>2. PICK j \in SuivisPar(listes[l].conseiller) :
               /\ Demarrer(o, Prete("ajouterJeuneListe",
                    {[table |-> "membres", id |-> l, jeunes |-> {j}, ajout |-> TRUE]},
                    Dossiers({j}) \cup {l}, {l}))
               /\ UNCHANGED uuids
    BY <2>1
  <2>3. PICK w : w = [table |-> "membres", id |-> l, jeunes |-> {j}, ajout |-> TRUE]
    OBVIOUS
  <2>4. w.table = "membres" /\ w.id = l /\ Membres(w) = {j}
    BY <2>3 DEF Membres
  <2>5. {j} \subseteq (Dossiers({j}) \cup {l}) \cap Jeunes
    BY <1>1, <1>2, <1>3
  <2>6. Demarrer(o, Prete("ajouterJeuneListe", {w}, Dossiers({j}) \cup {l}, {l}))
    BY <2>2, <2>3
  <2>7. PICK c \in Conseillers : c = listes[l].conseiller
    BY <1>1, <2>1
  <2>8. \A k \in Membres(w) : jeunes[k].conseiller = c
    BY <1>3, <2>2, <2>4, <2>7
  <2>9. uuids \subseteq uuids' /\ l \in uuids'
    BY <1>1, <2>1, <2>2
  <2>10. PICK lit : lit = Dossiers({j}) \cup {l}
    OBVIOUS
  <2>11. /\ w.table \in {"liste", "membres"} /\ (w.table = "liste" => w.ligne.conseiller = c)
         /\ Membres(w) \subseteq lit \cap Jeunes
         /\ Demarrer(o, Prete("ajouterJeuneListe", {w}, lit, {l}))
    BY <2>4, <2>5, <2>6, <2>10
  <2>12. "ajouterJeuneListe" \notin Departs /\ "ajouterJeuneListe" # "transferer"
    BY <1>1
  <2> QED
    BY <2>4, <2>7, <2>8, <2>9, <2>11, <2>12, UneListeRecue
<1> QED
  BY <1>5, <1>6, <1>7

(* A transfer is received: what it will write agrees with itself.           *)
LEMMA TransfererListes ==
  ASSUME Inv, InvListes, NEW o \in Ops, Transferer(o)
  PROVE  InvListes'
<1>1. PICK source \in {c \in Conseillers : Existe(c)}, cible \in {c \in Conseillers : Existe(c)},
            temporaire \in BOOLEAN :
        \E js \in (SUBSET SuivisPar(source)) \ {{}} :
          LET ligne(j) == [conseiller |-> cible,
                           initial |-> mapConseillerInitial(jeunes[j], source, cible, temporaire)]
              transfert == [source |-> source, cible |-> cible,
                            type |-> IF temporaire THEN "temporaire" ELSE "definitif"]
          IN /\ Demarrer(o, [Libre EXCEPT
                  !.cmd = "transferer", !.etape = "jeunes", !.qui = source,
                  !.temporaire = temporaire, !.jeunes = js,
                  !.quittee = AgenceQuittee(source, cible),
                  !.ecritures = {EcritureChat(transfert, {[id |-> j, ligne |-> ligne(j)] : j \in js})},
                  !.lit = Dossiers(js) \cup {cible}, !.ecrit = js])
             /\ UNCHANGED uuids
  BY Zenon DEF Transferer
<1> DEFINE ligne(j) == [conseiller |-> cible,
                        initial |-> mapConseillerInitial(jeunes[j], source, cible, temporaire)]
           transfert == [source |-> source, cible |-> cible,
                         type |-> IF temporaire THEN "temporaire" ELSE "definitif"]
           lignes(js) == {[id |-> j, ligne |-> ligne(j)] : j \in js}
           op(js) == [Libre EXCEPT
                  !.cmd = "transferer", !.etape = "jeunes", !.qui = source,
                  !.temporaire = temporaire, !.jeunes = js,
                  !.quittee = AgenceQuittee(source, cible),
                  !.ecritures = {EcritureChat(transfert, lignes(js))},
                  !.lit = Dossiers(js) \cup {cible}, !.ecrit = js]
<1>2. PICK js \in (SUBSET SuivisPar(source)) \ {{}} : Demarrer(o, op(js)) /\ uuids' = uuids
  BY <1>1
<1> DEFINE w == EcritureChat(transfert, lignes(js))
<1>3. /\ op(js).cmd = "transferer" /\ op(js).etape = "jeunes" /\ op(js).qui = source
      /\ op(js).temporaire = temporaire /\ op(js).ecritures = {w}
      /\ op(js).lit = Dossiers(js) \cup {cible}
  BY DEF Libre
<1>4. w.table = "chat" /\ w.ligne = transfert /\ w.lignes = lignes(js)
  BY DEF EcritureChat
<1>5. PICK q : q = op(js)
  OBVIOUS
<1>6. \A l \in lignes(js) : Conforme(l.ligne, transfert)
  BY DEF Conforme, Definitif, mapConseillerInitial
<1>7. transfert.type = "definitif" => ~temporaire /\ transfert.source = source
  OBVIOUS
<1> HIDE DEF op, w, lignes, transfert
<1>8. Lecture(o, q) /\ ops[o] = Libre
  BY <1>2, <1>5 DEF Demarrer
<1>9. source \in q.lit \cap Conseillers
  <2>1. PICK j : j \in js
    OBVIOUS
  <2>2. jeunes[j].conseiller = source
    BY <2>1 DEF SuivisPar
  <2> QED
    BY <1>3, <1>5, <2>1, <2>2 DEF Dossiers
<1>10. Tenue(q)'
  <2>1. PICK v : v = w
    OBVIOUS
  <2>2. /\ v.table = "chat" /\ \A l \in v.lignes : Conforme(l.ligne, v.ligne)
        /\ v.ligne.type = "definitif" => ~q.temporaire /\ v.ligne.source = q.qui
    BY <1>3, <1>4, <1>5, <1>6, <1>7, <2>1
  <2>3. \A l \in v.lignes : Conforme(l.ligne, v.ligne)'
    BY <2>2 DEF Conforme, Definitif
  <2>4. Conduite(q, v)'
    BY <1>3, <1>5, <2>2, <2>3 DEF Conduite
  <2>5. q.ecritures = {v} /\ q.qui = source
    BY <1>3, <1>5, <2>1
  <2> QED
    BY <1>9, <2>2, <2>4, <2>5 DEF Tenue, SurListe
<1>11. Vivante(q)'
  <2>1. js \in SUBSET Presents
    BY DEF SuivisPar
  <2>2. Dossiers(js) \subseteq Jeunes \cup Conseillers
    BY <2>1, DossiersLus DEF Inv
  <2>3. q.lit \cap Listes = {}
    BY <1>3, <1>5, <2>2, ConstantsAssumption
  <2> QED
    BY <1>3, <1>5, <2>3 DEF Vivante
<1>12. /\ \A j, l : Entree(q, j, l)' /\ ~AEnlever(ops[o], j, l)
       /\ \A v \in q.ecritures : v.table # "transfert" /\ \A j : ~SurRang(v, j)
  BY <1>3, <1>4, <1>5, <1>8, LibreTenue DEF Entree, SurListe, SurRang
<1> QED
  BY <1>2, <1>8, <1>10, <1>11, <1>12, LibreOperation, LectureListes

(* A transfer goes on to the group events of the agency that is left.       *)
LEMMA LireAnimationsListes ==
  ASSUME Inv, InvListes, NEW o \in Ops, LireAnimations(o)
  PROVE  InvListes'
<1> DEFINE op == ops[o]
           acs == {a \in AC : animations[a] # Absent /\ animations[a].agence = op.quittee}
           js == UNION {animations[a].jeunes : a \in acs}
           ecritures == {[table |-> "animation", id |-> a,
                          lignes |-> <<[animations[a] EXCEPT !.jeunes = @ \ op.jeunes]>>] : a \in acs}
           suivante == [op EXCEPT !.etape = "animations", !.ecritures = ecritures,
                          !.lit = @ \cup acs \cup Dossiers(js), !.ecrit = @ \cup acs]
<1>1. /\ op.cmd = "transferer" /\ op.etape = "jeunes" /\ Relire(o, suivante)
  BY DEF LireAnimations
<1>2. op \in Operation /\ Tenue(op) /\ Vivante(op) /\ op # Libre
  BY <1>1, LibreOperation DEF Inv, Types, InvListes
<1>3. /\ js \in SUBSET Presents
      /\ Dossiers(js) \subseteq Jeunes \cup Conseillers
  BY AnimationsLues
<1>4. \A w \in ecritures : w.table = "animation" /\ \E ligne : w.lignes = <<ligne>> /\ ligne.jeunes \subseteq js
  <2> DEFINE r(a) == [animations[a] EXCEPT !.jeunes = @ \ op.jeunes]
  <2>1. \A a \in acs : r(a).jeunes \subseteq js
    BY DEF Inv, Types, Animation
  <2>2. ecritures = {[table |-> "animation", id |-> a, lignes |-> <<r(a)>>] : a \in acs}
    OBVIOUS
  <2> HIDE DEF r, acs, ecritures
  <2> QED
    BY <2>1, <2>2
<1>5. js \subseteq Dossiers(js)
  BY DEF Dossiers
<1>6. acs \cap Listes = {} /\ Dossiers(js) \cap Listes = {}
  BY <1>3, ConstantsAssumption
<1> HIDE DEF js, ecritures, acs
<1>7. /\ suivante.cmd = op.cmd /\ suivante.jeunes = op.jeunes /\ suivante.etape = "animations"
      /\ suivante.qui = op.qui /\ suivante.temporaire = op.temporaire
      /\ suivante.ecritures = ecritures /\ suivante.lit = op.lit \cup acs \cup Dossiers(js)
      /\ suivante.ecrit = op.ecrit \cup acs
  BY <1>2 DEF Operation
<1> HIDE DEF suivante
<1>8. PICK q : q = suivante
  OBVIOUS
<1>9. Lecture(o, q) /\ ops[o].ecritures = {} /\ uuids' = uuids /\ UNCHANGED listes
  BY <1>1, <1>8 DEF Relire, Lecture, donnees
<1>10. Tenue(q)'
  <2>1. q.qui \in q.lit \cap Conseillers
    BY <1>1, <1>2, <1>7, <1>8 DEF Tenue
  <2>2. \A w \in q.ecritures : w.table = "animation" /\ \E ligne : w.lignes = <<ligne>> /\ ligne.jeunes \subseteq q.lit
    BY <1>4, <1>5, <1>7, <1>8
  <2>3. \A w \in q.ecritures : Conduite(q, w)'
    BY <2>2 DEF Conduite
  <2> QED
    BY <2>1, <2>2, <2>3 DEF Tenue, SurListe
<1>11. Vivante(q)'
  <2>1. q.etape # "fin" /\ q.qui = op.qui /\ q.lit \cap Listes = op.lit \cap Listes
        /\ q.jeunes = op.jeunes
    BY <1>6, <1>7, <1>8
  <2>2. perturbes \subseteq perturbes'
    BY <1>9, ToutEstMarque DEF Lecture
  <2> QED
    BY <1>1, <1>2, <1>9, <2>1, <2>2 DEF Vivante
<1>12. /\ \A j, l : Entree(q, j, l)'
       /\ \A v \in q.ecritures : v.table # "transfert" /\ \A j : ~SurRang(v, j)
  BY <1>4, <1>7, <1>8 DEF Entree, SurListe, SurRang
<1>13. \A j, l : AEnlever(ops[o], j, l) => AEnlever(q, j, l) /\ q.qui = ops[o].qui
  BY <1>1, <1>4, <1>7, <1>8 DEF AEnlever
<1> QED
  BY <1>9, <1>10, <1>11, <1>12, <1>13, LectureListes

(* It goes on to the lists of the counsellor who is left.                   *)
LEMMA LireListesListes ==
  ASSUME Inv, InvListes, NEW o \in Ops, LireListes(o)
  PROVE  InvListes'
<1> DEFINE op == ops[o]
           concernees == {l \in Listes : /\ listes[l] # Absent
                                         /\ listes[l].conseiller = op.qui
                                         /\ listes[l].jeunes \cap op.jeunes # {}}
           js == UNION {listes[l].jeunes : l \in concernees}
           r(l) == [listes[l] EXCEPT !.jeunes = @ \ op.jeunes]
           ecritures == {[table |-> "liste", id |-> l, ligne |-> r(l)] : l \in concernees}
           suivante == [op EXCEPT !.etape = "listes", !.ecritures = ecritures,
                          !.lit = @ \cup concernees \cup Dossiers(js),
                          !.ecrit = @ \cup concernees]
<1>1. op.cmd = "transferer" /\ ~op.temporaire /\ op.etape \in {"animations", "jeunes"} /\ Relire(o, suivante)
  BY DEF LireListes
<1>2. op \in Operation /\ Reguliere(op) /\ Tenue(op) /\ Vivante(op) /\ op # Libre
  BY <1>1, LibreOperation DEF Inv, Types, InvListes
<1>3. /\ js \subseteq Dossiers(js) /\ js \subseteq Presents
      /\ Dossiers(js) \subseteq Jeunes \cup Conseillers
  <2>1. js \in SUBSET Presents
    <3>1. \A l \in concernees : listes[l].jeunes \subseteq Presents
      BY DEF Inv, References
    <3> QED
      BY <3>1
  <2> HIDE DEF js
  <2> QED
    BY <2>1, DossiersLus DEF Inv, Dossiers
<1>4. \A l \in concernees : /\ l \in Listes /\ listes[l] # Absent /\ listes[l].conseiller = op.qui /\ l \in uuids
                            /\ r(l).jeunes = listes[l].jeunes \ op.jeunes /\ r(l).conseiller = op.qui
                            /\ listes[l].jeunes \subseteq js
  BY DEF Inv, Types, Liste, InvListes
<1>5. \A l \in Listes : listes[l] # Absent /\ listes[l].conseiller = op.qui
                        /\ listes[l].jeunes \cap op.jeunes # {} => l \in concernees
  OBVIOUS
<1> HIDE DEF r, concernees, js
<1>6. /\ \A w \in ecritures : w.table = "liste" /\ w.id \in concernees /\ w.ligne = r(w.id)
                              /\ \A v \in ecritures : v.id = w.id => v = w
      /\ \A l \in concernees : \E w \in ecritures : w.table = "liste" /\ w.id = l
  <2>1. \A w \in ecritures : \E l \in concernees : w = [table |-> "liste", id |-> l, ligne |-> r(l)]
    OBVIOUS
  <2>2. \A l \in concernees : [table |-> "liste", id |-> l, ligne |-> r(l)] \in ecritures
    OBVIOUS
  <2> HIDE DEF ecritures
  <2>3. \A w \in ecritures : w.table = "liste" /\ w.id \in concernees /\ w.ligne = r(w.id)
    BY <2>1
  <2>4. \A v, w \in ecritures : v.id = w.id => v = w
    BY <2>1
  <2> QED
    BY <2>2, <2>3, <2>4
<1> HIDE DEF ecritures
<1>7. /\ suivante.cmd = op.cmd /\ suivante.jeunes = op.jeunes /\ suivante.etape = "listes"
      /\ suivante.qui = op.qui /\ suivante.temporaire = op.temporaire
      /\ suivante.ecritures = ecritures /\ suivante.lit = op.lit \cup concernees \cup Dossiers(js)
      /\ suivante.ecrit = op.ecrit \cup concernees
  BY <1>2 DEF Operation
<1> HIDE DEF suivante
<1>8. PICK q : q = suivante
  OBVIOUS
<1>9. Lecture(o, q) /\ ops[o].ecritures = {} /\ UNCHANGED <<uuids, listes, transferts>>
      /\ perturbes \subseteq perturbes'
  BY <1>1, <1>8, ToutEstMarque DEF Relire, Lecture, donnees
<1>10. \A w \in q.ecritures :
         /\ w.table = "liste" /\ w.id \in q.ecrit \cap q.lit \cap uuids /\ w.ligne.conseiller = q.qui
         /\ listes[w.id] # Absent /\ listes[w.id].conseiller = q.qui
         /\ Membres(w) = listes[w.id].jeunes \ q.jeunes /\ Membres(w) \subseteq q.lit
  BY <1>3, <1>4, <1>6, <1>7, <1>8 DEF Membres
<1>11. Tenue(q)'
  <2>1. q.qui \in q.lit \cap Conseillers
    BY <1>1, <1>2, <1>7, <1>8 DEF Tenue
  <2>2. \A w \in q.ecritures : Conduite(q, w)'
    BY <1>9, <1>10 DEF Conduite, Membres
  <2> QED
    BY <1>6, <1>7, <1>8, <2>1, <2>2 DEF Tenue, SurListe
<1>12. Vivante(q)'
  <2>1. q.etape # "fin" /\ q.qui = op.qui /\ q.lit \cap Listes = (op.lit \cap Listes) \cup (concernees \cap Listes)
        /\ q.jeunes = op.jeunes
    <3>1. Dossiers(js) \cap Listes = {}
      BY <1>3, ConstantsAssumption
    <3> QED
      BY <1>7, <1>8, <3>1
  <2> QED
    BY <1>1, <1>2, <1>4, <1>9, <2>1 DEF Vivante
<1>13. ASSUME NEW j \in Jeunes \ perturbes', NEW l \in Listes \ perturbes'
       PROVE  Entree(q, j, l)'
  <2> SUFFICES ASSUME NEW w \in q.ecritures, w.id = l, j \in Membres(w)
               PROVE  ~Quitte(j, q.qui)
    BY <1>9, <1>10 DEF Entree, SurListe, Membres, Quitte, Fin
  <2>1. SUFFICES ASSUME Quitte(j, q.qui) PROVE FALSE
    OBVIOUS
  <2>2. listes[l] # Absent /\ j \in listes[l].jeunes /\ listes[l].conseiller = q.qui /\ j \notin q.jeunes
    BY <1>10
  <2>3. PICK p \in Ops : AEnlever(ops[p], j, l)
    BY <1>9, <2>1, <2>2 DEF InvListes, Restee
  <2>4. p # o
    BY <1>7, <1>8, <2>2, <2>3 DEF AEnlever
  <2>5. j \in ops[p].ecrit
    BY <2>3 DEF AEnlever, Inv, Reguliere
  <2>6. j \in q.lit /\ q.cmd \notin Departs
    BY <1>1, <1>7, <1>8, <1>10 DEF Departs
  <2> QED
    BY <1>9, <2>4, <2>5, <2>6, LuSeul DEF Inv
<1>14. ASSUME NEW j, NEW l \in Listes, AEnlever(ops[o], j, l), listes[l] # Absent,
              ops[o].qui = listes[l].conseiller, j \in listes[l].jeunes
       PROVE  AEnlever(q, j, l) /\ q.qui = ops[o].qui
  <2>1. l \in concernees
    BY <1>5, <1>14 DEF AEnlever
  <2>2. \E w \in q.ecritures : SurListe(w, l)
    BY <1>6, <1>7, <1>8, <2>1 DEF SurListe
  <2> QED
    BY <1>1, <1>7, <1>8, <1>14, <2>2 DEF AEnlever
<1>15. \A v \in q.ecritures : v.table # "transfert" /\ \A j : ~SurRang(v, j)
  BY <1>10 DEF SurRang
<1> QED
  BY <1>9, <1>11, <1>12, <1>13, <1>14, <1>15, LectureListes

(* The rows of those the counsellor had lent keep their counsellor.         *)
LEMMA LireInitiauxListes ==
  ASSUME Inv, InvListes, NEW o \in Ops, LireInitiaux(o)
  PROVE  InvListes'
<1> DEFINE op == ops[o]
           js == Origine(op.qui)
           r(j) == [jeunes[j] EXCEPT !.initial = Aucun]
           ecritures == {[table |-> "jeune", source |-> Aucun, id |-> j, ligne |-> r(j)] : j \in js}
           suivante == [op EXCEPT !.etape = "compte", !.ecritures = ecritures,
                          !.lit = @ \cup Dossiers(js), !.ecrit = @ \cup js]
<1>1. op.etape = "initiaux" /\ Relire(o, suivante)
  BY DEF LireInitiaux, InitiauxEffaces
<1>2. op \in Operation /\ Reguliere(op)
  BY DEF Inv, Types
<1>3. op.cmd = "supprimerConseiller"
  BY <1>1, <1>2 DEF Reguliere, Etapes, Departs
<1>4. \A j \in js : r(j).conseiller = jeunes[j].conseiller /\ r(j).initial = Aucun
  BY DEF Origine, Presents, Inv, Types, LigneJeune
<1> HIDE DEF js, r
<1>5. \A w \in ecritures : w.table = "jeune" /\ w.id \in js /\ w.ligne = r(w.id)
  OBVIOUS
<1> HIDE DEF ecritures
<1>6. /\ suivante.cmd = op.cmd /\ suivante.ecritures = ecritures /\ suivante.ecrit = op.ecrit \cup js
  BY <1>2 DEF Operation
<1> HIDE DEF suivante
<1>7. PICK q : q = suivante
  OBVIOUS
<1>8. Relire(o, q) /\ uuids' = uuids
  BY <1>1, <1>7 DEF Relire
<1>9. Muette(q) /\ \A w \in q.ecritures : w.table # "transfert"
  BY <1>3, <1>5, <1>6, <1>7 DEF Muette
<1>10. \A j : \A w \in q.ecritures : SurRang(w, j) =>
           /\ j \in q.ecrit /\ q.cmd \notin Departs
           /\ w.ligne.conseiller = jeunes[j].conseiller /\ w.ligne.initial = Aucun
  BY <1>3, <1>4, <1>5, <1>6, <1>7 DEF SurRang, Departs
<1> QED
  BY <1>3, <1>8, <1>9, <1>10, MuetteLue

LEMMA LireConseillerListes ==
  ASSUME Inv, InvListes, NEW o \in Ops, LireConseiller(o)
  PROVE  InvListes'
<1>1. ops[o] \in Operation /\ Reguliere(ops[o])
  BY DEF Inv, Types
<1>2. ASSUME NEW op, Relire(o, op), op.cmd = "changerAgence", ops[o].cmd = "changerAgence",
             \A w \in op.ecritures : w.table = "animation"
      PROVE  InvListes'
  <2>1. Muette(op) /\ uuids' = uuids
    BY <1>2 DEF Muette, Relire
  <2>2. \A w \in op.ecritures : w.table # "transfert" /\ \A j : ~SurRang(w, j)
    BY <1>2 DEF SurRang
  <2> QED
    BY <1>2, <2>1, <2>2, MuetteLue
<1>3. PICK c \in ops[o].aFaire :
    LET op == [ops[o] EXCEPT !.aFaire = @ \ {c}]
        acs == {a \in AC : animations[a] # Absent /\ animations[a].agence = conseillers[c]}
        aEcrire == {a \in acs : Reecritures(c, a, op.nouvelle) # <<>>}
    IN /\ op.etape = "conseillers"
       /\ Relire(o, IF conseillers[c] \in {Absent, Aucun, op.nouvelle} THEN op
                    ELSE [op EXCEPT !.etape = "animations", !.qui = c,
            !.ecritures = {EcritureAnimation(a, Reecritures(c, a, op.nouvelle)) : a \in aEcrire},
            !.lit = @ \cup acs \cup {c} \cup Dossiers(UNION {animations[a].jeunes : a \in acs}),
            !.ecrit = @ \cup aEcrire \cup {c}])
  BY Zenon DEF LireConseiller
<1> DEFINE op == [ops[o] EXCEPT !.aFaire = @ \ {c}]
           acs == {a \in AC : animations[a] # Absent /\ animations[a].agence = conseillers[c]}
           aEcrire == {a \in acs : Reecritures(c, a, op.nouvelle) # <<>>}
           ecritures == {EcritureAnimation(a, Reecritures(c, a, op.nouvelle)) : a \in aEcrire}
           suivante == [op EXCEPT !.etape = "animations", !.qui = c, !.ecritures = ecritures,
            !.lit = @ \cup acs \cup {c} \cup Dossiers(UNION {animations[a].jeunes : a \in acs}),
            !.ecrit = @ \cup aEcrire \cup {c}]
<1>4. op.etape = "conseillers" /\ (Relire(o, op) \/ Relire(o, suivante))
  BY <1>3
<1>5. op.cmd = ops[o].cmd /\ op.ecritures = ops[o].ecritures /\ op.etape = ops[o].etape /\ op \in Operation
  BY <1>1 DEF Operation
<1>6. ops[o].cmd = "changerAgence"
  BY <1>1, <1>4, <1>5 DEF Reguliere, Etapes, Departs
<1>7. \A w \in ecritures : w.table = "animation"
  BY DEF EcritureAnimation
<1> HIDE DEF op, ecritures, acs, aEcrire
<1>8. suivante.cmd = op.cmd /\ suivante.ecritures = ecritures
  BY <1>5 DEF Operation
<1> HIDE DEF suivante
<1>9. CASE Relire(o, op)
  <2>1. op.ecritures = {}
    BY <1>5, <1>9 DEF Relire
  <2> QED
    BY <1>2, <1>5, <1>6, <1>9, <2>1
<1>10. CASE Relire(o, suivante)
  BY <1>2, <1>5, <1>6, <1>7, <1>8, <1>10
<1> QED
  BY <1>4, <1>9, <1>10

-----------------------------------------------------------------------------
(* Writes, and the lists                                                    *)

(* Command o goes on as r, w written and suites opened.                     *)
Reprise(o, w, suites, r) ==
  /\ r.cmd = ops[o].cmd /\ r.etape = ops[o].etape /\ r.temporaire = ops[o].temporaire
  /\ r.qui = ops[o].qui /\ r.jeunes = ops[o].jeunes /\ r.quittee = ops[o].quittee
  /\ r.lit = ops[o].lit /\ r.ecrit = ops[o].ecrit
  /\ r.ecritures = (ops[o].ecritures \ {w}) \cup suites
  /\ Cours(o, Poursuivre(r)) /\ perturbes' = perturbes /\ uuids' = uuids

LEMMA EcrireReprend ==
  ASSUME Types, NEW o \in Ops, NEW w, NEW suites, Ecrire(o, w, suites)
  PROVE  \E r : Reprise(o, w, suites, r)
<1>1. ops[o] \in Operation
  BY DEF Types
<1> DEFINE r == [ops[o] EXCEPT !.ecritures = (@ \ {w}) \cup suites]
<1>2. ops' = [ops EXCEPT ![o] = Poursuivre(r)] /\ perturbes' = perturbes /\ uuids' = uuids
  BY DEF Ecrire
<1>3. /\ r.cmd = ops[o].cmd /\ r.etape = ops[o].etape /\ r.temporaire = ops[o].temporaire
      /\ r.qui = ops[o].qui /\ r.jeunes = ops[o].jeunes /\ r.quittee = ops[o].quittee
      /\ r.lit = ops[o].lit /\ r.ecrit = ops[o].ecrit
      /\ r.ecritures = (ops[o].ecritures \ {w}) \cup suites
  BY <1>1 DEF Operation
<1> HIDE DEF r
<1>4. Cours(o, Poursuivre(r))
  BY <1>2 DEF Cours, Types
<1>5. Reprise(o, w, suites, r)
  BY <1>2, <1>3, <1>4 DEF Reprise
<1> QED
  BY <1>5

LEMMA SuiteTenue ==
  ASSUME NEW r, NEW q, q = Poursuivre(r), Tenue(r)', Vivante(r)'
  PROVE  /\ Tenue(q)' /\ Vivante(q)'
         /\ \A j, l : Entree(r, j, l)' => Entree(q, j, l)'
         /\ \A j, l : AEnlever(r, j, l) => AEnlever(q, j, l) /\ q.qui = r.qui
         /\ q.ecritures = r.ecritures /\ (q.cmd = "supprimerConseiller" => r.cmd = q.cmd)
<1>1. \A j, l : AEnlever(r, j, l) => q = r
  BY PoursuivreEnleve
<1>2. CASE q = r
  BY <1>2
<1>3. CASE q = Libre /\ r.ecritures = {}
  BY <1>1, <1>3, LibreTenue, LibreOperation
<1> QED
  BY <1>2, <1>3 DEF Poursuivre

(* No list that was not pending becomes so.                                 *)
LEMMA EntreeGarde ==
  ASSUME NEW o, NEW op, NEW r, NEW j, NEW l, FinGardee(j), ListeGardee(o, l), Entree(op, j, l),
         \A v \in r.ecritures : SurListe(v, l) => v \in op.ecritures
  PROVE  Entree(r, j, l)'
<1>1. \A c : Quitte(j, c)' => Quitte(j, c)
  BY QuitteGarde
<1>2. listes'[l] # Absent => listes[l] # Absent /\ listes'[l].conseiller = listes[l].conseiller
  BY DEF ListeGardee
<1>3. SUFFICES ASSUME NEW v \in r.ecritures, SurListe(v, l), j \in Membres(v)
               PROVE  /\ v.table = "liste" => ~Quitte(j, v.ligne.conseiller)'
                      /\ listes'[l] # Absent => ~Quitte(j, listes[l].conseiller)'
  BY DEF Entree, SurListe, Membres
<1>4. /\ v.table = "liste" => ~Quitte(j, v.ligne.conseiller)
      /\ listes[l] # Absent => ~Quitte(j, listes[l].conseiller)
  BY <1>3 DEF Entree
<1>5. Quitte(j, v.ligne.conseiller)' => Quitte(j, v.ligne.conseiller)
  BY <1>1
<1>6. listes'[l] # Absent /\ Quitte(j, listes[l].conseiller)' => Quitte(j, listes[l].conseiller)
  BY <1>1, <1>2 DEF Quitte
<1> QED
  BY <1>2, <1>4, <1>5, <1>6

LEMMA EcrireSansListe ==
  ASSUME Inv, InvListes, NEW o \in Ops, NEW w \in ops[o].ecritures, NEW suites, Ecrire(o, w, suites),
         w.table \notin {"chat", "liste", "membres"},
         \A v \in suites :
           /\ v.table \notin {"chat", "transfert", "liste", "membres", "suppression liste"}
           /\ v.table = "animation" => ops[o].cmd # "transferer",
         \A l \in Listes : ListeGardee(o, l), ops[o].cmd = "transferer" => listes' = listes,
         \A j \in Jeunes \ perturbes :
           /\ FinGardee(j)
           /\ \/ Accorde(j)'
              \/ /\ jeunes'[j] = jeunes[j]
                 /\ \A v \in suites \cup {w} : ~SurRang(v, j) /\ ~SurTrace(v, j)
  PROVE  InvListes'
<1>1. Types /\ Tenue(ops[o]) /\ Vivante(ops[o])
  BY DEF Inv, InvListes
<1>2. PICK r : Reprise(o, w, suites, r)
  BY <1>1, EcrireReprend
<1>3. PICK q : q = Poursuivre(r)
  OBVIOUS
<1>4. Cours(o, q) /\ perturbes' = perturbes /\ uuids' = uuids
  BY <1>2, <1>3 DEF Reprise
<1>5. Tenue(r)'
  <2>1. \A v \in r.ecritures : Conduite(r, v)'
    <3> SUFFICES ASSUME NEW v \in r.ecritures PROVE Conduite(r, v)'
      OBVIOUS
    <3>1. CASE v \in suites
      BY <1>2, <3>1 DEF Reprise, Conduite
    <3>2. CASE v \in ops[o].ecritures
      <4>1. Conduite(ops[o], v)
        BY <1>1, <3>2 DEF Tenue
      <4> QED
        BY <1>2, <1>4, <4>1 DEF Reprise, Conduite, Conforme, Definitif, Membres
    <3> QED
      BY <1>2, <3>1, <3>2 DEF Reprise
  <2>2. r.cmd = "transferer" => r.qui \in r.lit \cap Conseillers
    BY <1>1, <1>2, LibreOperation DEF Reprise, Tenue
  <2>3. \A u, v \in r.ecritures : SurListe(u, u.id) /\ SurListe(v, u.id) => v = u
    BY <1>1, <1>2 DEF Reprise, Tenue, SurListe
  <2> QED
    BY <2>1, <2>2, <2>3 DEF Tenue, SurListe
<1>6. Vivante(r)'
  BY <1>1, <1>2, <1>4 DEF Vivante, Reprise
<1>7. ASSUME NEW j \in Jeunes \ perturbes', NEW l \in Listes \ perturbes'
      PROVE  Entree(q, j, l)'
  <2>1. Entree(ops[o], j, l) /\ FinGardee(j) /\ ListeGardee(o, l)
    BY <1>4, <1>7 DEF InvListes
  <2>2. \A v \in r.ecritures : SurListe(v, l) => v \in ops[o].ecritures
    BY <1>2 DEF Reprise, SurListe
  <2>3. Entree(r, j, l)'
    BY <2>1, <2>2, EntreeGarde
  <2> QED
    BY <1>3, <1>5, <1>6, <2>3, SuiteTenue
<1>8. ASSUME NEW j, NEW l, AEnlever(ops[o], j, l)
      PROVE  AEnlever(q, j, l) /\ q.qui = ops[o].qui
  <2>1. AEnlever(r, j, l)
    <3>1. \A v \in r.ecritures : v.table = "chat" => v \in ops[o].ecritures
      BY <1>2 DEF Reprise
    <3>2. \A v \in ops[o].ecritures : SurListe(v, l) => v \in r.ecritures
      BY <1>2 DEF Reprise, SurListe
    <3> QED
      BY <1>2, <1>8, <3>1, <3>2 DEF AEnlever, Reprise
  <2> QED
    BY <1>2, <1>3, <1>5, <1>6, <2>1, SuiteTenue DEF Reprise
<1>9. ASSUME NEW j \in Jeunes \ perturbes'
      PROVE  FinGardee(j) /\ Accorde(j)'
  <2>1. FinGardee(j) /\ Accorde(j)
    BY <1>4, <1>9 DEF InvListes
  <2>2. CASE Accorde(j)'
    BY <2>1, <2>2
  <2>3. CASE /\ jeunes'[j] = jeunes[j]
             /\ \A v \in suites \cup {w} : ~SurRang(v, j) /\ ~SurTrace(v, j)
    <3>1. q.ecritures = (ops[o].ecritures \ {w}) \cup suites
          /\ (q.cmd = "supprimerConseiller" => ops[o].cmd = q.cmd)
      <4>1. r.ecritures = (ops[o].ecritures \ {w}) \cup suites /\ r.cmd = ops[o].cmd
        BY <1>2 DEF Reprise
      <4>2. q.ecritures = r.ecritures /\ (q.cmd = "supprimerConseiller" => r.cmd = q.cmd)
        BY <1>3, <1>5, <1>6, SuiteTenue
      <4> QED
        BY <4>1, <4>2
    <3> QED
      BY <1>4, <2>1, <2>3, <3>1, AccordeSuit
  <2> QED
    BY <1>4, <1>9, <2>2, <2>3
<1>10. Tenue(q)' /\ Vivante(q)'
  BY <1>3, <1>5, <1>6, SuiteTenue
<1> QED
  BY <1>4, <1>7, <1>8, <1>9, <1>10, ListesSuivent

LEMMA ListesIntactes ==
  ASSUME NEW o, listes' = listes, transferts' = transferts
  PROVE  \A l, j : ListeGardee(o, l) /\ FinGardee(j)
BY DEF ListeGardee, FinGardee, Fin

(* Group events, accounts, conversations, archives: no list and no young    *)
(* person.                                                                  *)
LEMMA EcrituresIndifferentes ==
  ASSUME Inv, InvListes, NEW o \in Ops,
         \/ EcrireAnimation(o) \/ EcrireConseiller(o) \/ DetruireChat(o)
         \/ DetruireArchives(o) \/ EcrireArchive(o)
  PROVE  InvListes'
<1>1. UNCHANGED <<jeunes, transferts, listes>>
  BY DEF EcrireAnimation, EcrireConseiller, DetruireChat, DetruireArchives, EcrireArchive
<1>2. \A l, j : ListeGardee(o, l) /\ FinGardee(j)
  BY <1>1, ListesIntactes
<1>3. ASSUME NEW w \in ops[o].ecritures, NEW suites, Ecrire(o, w, suites),
             w.table \notin {"chat", "transfert", "jeune", "liste", "membres"},
             \A v \in suites :
               /\ v.table \in {"animation", "suppression jeune", "archive"}
               /\ v.table = "animation" => ops[o].cmd # "transferer"
      PROVE  InvListes'
  <2>1. \A j : \A v \in suites \cup {w} : ~SurRang(v, j) /\ ~SurTrace(v, j)
    BY <1>3 DEF SurRang, SurTrace
  <2> QED
    BY <1>1, <1>2, <1>3, <2>1, EcrireSansListe
<1>4. CASE EcrireAnimation(o)
  <2>1. PICK w \in EnAttente(o, "animation") :
          Ecrire(o, w, IF Len(w.lignes) = 1 THEN {} ELSE {EcritureAnimation(w.id, Tail(w.lignes))})
    BY <1>4 DEF EcrireAnimation
  <2>2. PICK suites : suites = IF Len(w.lignes) = 1 THEN {} ELSE {EcritureAnimation(w.id, Tail(w.lignes))}
    OBVIOUS
  <2>3. w \in ops[o].ecritures /\ w.table = "animation" /\ Ecrire(o, w, suites)
    BY <2>1, <2>2 DEF EnAttente
  <2>4. \A v \in suites : v.table = "animation"
    BY <2>2 DEF EcritureAnimation
  <2>5. ops[o].cmd = "transferer" => suites = {}
    <3>1. Conduite(ops[o], w)
      BY <2>3 DEF InvListes, Tenue
    <3>2. \A ligne : Len(<<ligne>>) = 1
      OBVIOUS
    <3> QED
      BY <2>2, <2>3, <3>1, <3>2 DEF Conduite
  <2> QED
    BY <1>3, <2>3, <2>4, <2>5
<1>5. CASE EcrireConseiller(o)
  <2>1. PICK w \in EnAttente(o, "conseiller") : Ecrire(o, w, {})
    BY <1>5 DEF EcrireConseiller
  <2>2. w \in ops[o].ecritures /\ w.table = "conseiller"
    BY DEF EnAttente
  <2>3. PICK suites : suites = {}
    OBVIOUS
  <2>4. Ecrire(o, w, suites) /\ \A v \in suites : FALSE
    BY <2>1, <2>3
  <2> QED
    BY <1>3, <2>2, <2>4
<1>6. CASE DetruireChat(o)
  <2>1. PICK w \in EnAttente(o, "suppression chat") : Ecrire(o, w, {})
    BY <1>6 DEF DetruireChat
  <2>2. w \in ops[o].ecritures /\ w.table = "suppression chat"
    BY DEF EnAttente
  <2>3. PICK suites : suites = {}
    OBVIOUS
  <2>4. Ecrire(o, w, suites) /\ \A v \in suites : FALSE
    BY <2>1, <2>3
  <2> QED
    BY <1>3, <2>2, <2>4
<1>7. CASE DetruireArchives(o)
  <2>1. PICK w \in EnAttente(o, "suppression archives") : Ecrire(o, w, Sur("archive", {w.id}))
    BY <1>7 DEF DetruireArchives
  <2>2. w \in ops[o].ecritures /\ w.table = "suppression archives"
    BY DEF EnAttente
  <2>3. PICK suites : suites = Sur("archive", {w.id})
    OBVIOUS
  <2>4. Ecrire(o, w, suites) /\ \A v \in suites : v.table = "archive"
    BY <2>1, <2>3, SurUneTable
  <2> QED
    BY <1>3, <2>2, <2>4
<1>8. CASE EcrireArchive(o)
  <2>1. PICK w \in EnAttente(o, "archive") : Ecrire(o, w, Sur("suppression jeune", {w.id}))
    BY <1>8 DEF EcrireArchive
  <2>2. w \in ops[o].ecritures /\ w.table = "archive"
    BY DEF EnAttente
  <2>3. PICK suites : suites = Sur("suppression jeune", {w.id})
    OBVIOUS
  <2>4. Ecrire(o, w, suites) /\ \A v \in suites : v.table = "suppression jeune"
    BY <2>1, <2>3, SurUneTable
  <2> QED
    BY <1>3, <2>2, <2>4
<1> QED
  BY <1>4, <1>5, <1>6, <1>7, <1>8

LEMMA DetruireListeListes ==
  ASSUME Inv, InvListes, NEW o \in Ops, DetruireListe(o)
  PROVE  InvListes'
<1>1. PICK w \in EnAttente(o, "suppression liste") :
        /\ listes' = [listes EXCEPT ![w.id] = Absent]
        /\ Ecrire(o, w, {}) /\ UNCHANGED <<jeunes, transferts>>
  BY DEF DetruireListe
<1>2. w \in ops[o].ecritures /\ w.table = "suppression liste"
  BY DEF EnAttente
<1>3. Conduite(ops[o], w) /\ w.table \in Tables(ops[o])
  BY <1>2 DEF InvListes, Tenue, Inv, Reguliere
<1>4. ops[o].cmd # "transferer"
  BY <1>2, <1>3 DEF Tables, Departs, Mouvements
<1>5. w.id \in ops[o].ecrit
  BY <1>2, <1>3 DEF Conduite
<1>6. \A l \in Listes : ListeGardee(o, l)
  BY <1>1, <1>5 DEF ListeGardee, Inv, Types
<1>7. \A j : FinGardee(j)
  BY <1>1 DEF FinGardee, Fin
<1>8. \A j : ~SurRang(w, j) /\ ~SurTrace(w, j)
  BY <1>2 DEF SurRang, SurTrace
<1>9. PICK suites : suites = {}
  OBVIOUS
<1>10. Ecrire(o, w, suites) /\ \A j : \A v \in suites \cup {w} : ~SurRang(v, j) /\ ~SurTrace(v, j)
  BY <1>1, <1>8, <1>9
<1>11. jeunes' = jeunes
  BY <1>1
<1>12. w.table \notin {"chat", "liste", "membres"} /\ \A v \in suites : FALSE
  BY <1>2, <1>9
<1> QED
  BY <1>2, <1>4, <1>6, <1>7, <1>10, <1>11, <1>12, EcrireSansListe

(* Whoever is gone has nothing left to be written.                          *)
LEMMA AccordeParti ==
  ASSUME Inv', NEW j \in Jeunes \ perturbes', jeunes'[j] = Absent, transferts'[j] = <<>>
  PROVE  FinGardee(j) /\ Accorde(j)'
<1>1. \A p \in Ops : EnCours(ops'[p], j, Absent, chats'[j])
  BY DEF Inv, Jeune, Suivie
<1>2. \A p \in Ops : \A w \in ops'[p].ecritures : ~Concerne(w, j)
  BY <1>1 DEF EnCours
<1>3. Rangs(j)' = {} /\ Traces(j)' = {}
  BY <1>2 DEF Rangs, Traces, Pendantes, Concerne, SurRang, SurTrace
<1>4. Fin(j)' = Absent
  BY DEF Fin
<1> QED
  BY <1>3, <1>4 DEF FinGardee, Accorde, Lignes, Fins, Conforme, Definitif

(* Rows that disappear take nobody into a list, and leave no last transfer  *)
(* but the one there was.                                                   *)
LEMMA EffacerListes ==
  ASSUME Types, NEW o, NEW js, NEW cs, Effacer(js, cs), cs \subseteq ops[o].ecrit
  PROVE  /\ \A l \in Listes : ListeGardee(o, l)
         /\ \A j \in Jeunes \ js : FinGardee(j) /\ jeunes'[j] = jeunes[j]
         /\ \A j \in Jeunes \cap js : jeunes'[j] = Absent /\ transferts'[j] = <<>>
<1>1. ASSUME NEW l \in Listes
      PROVE  ListeGardee(o, l)
  <2>1. listes'[l] = IF listes[l] = Absent THEN Absent
                     ELSE IF listes[l].conseiller \in cs THEN Absent
                     ELSE [listes[l] EXCEPT !.jeunes = @ \ js]
    BY <1>1 DEF Effacer
  <2>2. CASE listes[l] = Absent \/ listes[l].conseiller \in cs
    BY <2>1, <2>2 DEF ListeGardee
  <2>3. CASE listes[l] # Absent /\ listes[l].conseiller \notin cs
    <3>1. listes[l] \in Liste
      BY <1>1, <2>3 DEF Types
    <3>2. PICK r : r = [listes[l] EXCEPT !.jeunes = @ \ js]
      OBVIOUS
    <3>3. r \in Liste /\ r.conseiller = listes[l].conseiller /\ r.jeunes = listes[l].jeunes \ js
      BY <3>1, <3>2 DEF Liste
    <3>4. r # Absent
      BY <3>3, ConstantsAssumption
    <3> QED
      BY <2>1, <2>3, <3>2, <3>3, <3>4 DEF ListeGardee
  <2> QED
    BY <2>2, <2>3
<1>2. ASSUME NEW j \in Jeunes \ js
      PROVE  FinGardee(j) /\ jeunes'[j] = jeunes[j]
  <2>1. jeunes'[j] = jeunes[j]
    BY <1>2 DEF Effacer
  <2>2. transferts'[j] = Reduite(transferts[j], cs)
    BY <1>2 DEF Effacer, Reduite
  <2>3. transferts[j] \in Seq(Transfert \cup {Absent})
    BY <1>2 DEF Types
  <2>4. PICK s : s = transferts[j]
    OBVIOUS
  <2>5. PICK t : t = Reduite(s, cs)
    OBVIOUS
  <2>6. Len(t) = Len(s) /\ \A i \in 1..Len(s) : t[i] = s[i] \/ t[i] = Absent
    BY <2>3, <2>4, <2>5 DEF Reduite
  <2>7. t = <<>> <=> s = <<>>
    <3>1. t \in Seq(Transfert \cup {Absent})
      BY <2>3, <2>4, <2>5 DEF Reduite
    <3> QED
      BY <2>3, <2>4, <2>6, <3>1, EmptySeq
  <2>8. s # <<>> => Len(s) \in 1..Len(s)
    BY <2>3, <2>4
  <2>9. Fin(j) = IF s = <<>> THEN Absent ELSE s[Len(s)]
    BY <2>4 DEF Fin
  <2>10. Fin(j)' = IF t = <<>> THEN Absent ELSE t[Len(t)]
    BY <2>2, <2>4, <2>5 DEF Fin
  <2> QED
    BY <2>1, <2>6, <2>7, <2>8, <2>9, <2>10 DEF FinGardee, Definitif
<1>3. \A j \in Jeunes \cap js : jeunes'[j] = Absent /\ transferts'[j] = <<>>
  BY DEF Effacer
<1> QED
  BY <1>1, <1>2, <1>3

LEMMA DetruireJeuneListes ==
  ASSUME Inv, Inv', InvListes, NEW o \in Ops, DetruireJeune(o)
  PROVE  InvListes'
<1>1. PICK w \in EnAttente(o, "suppression jeune") :
        Effacer({w.id}, {}) /\ Ecrire(o, w, Sur("suppression chat", {w.id}))
  BY DEF DetruireJeune
<1>2. w \in ops[o].ecritures /\ w.table = "suppression jeune"
  BY DEF EnAttente
<1>3. ops[o].cmd # "transferer"
  BY <1>2 DEF Inv, Reguliere, Tables, Departs, Mouvements
<1>4. PICK suites : suites = Sur("suppression chat", {w.id})
  OBVIOUS
<1>5. \A v \in suites \cup {w} : v.table \in {"suppression chat", "suppression jeune"}
  BY <1>2, <1>4, SurUneTable
<1>6. /\ \A l \in Listes : ListeGardee(o, l)
      /\ \A j \in Jeunes \ {w.id} : FinGardee(j) /\ jeunes'[j] = jeunes[j]
      /\ \A j \in Jeunes \cap {w.id} : jeunes'[j] = Absent /\ transferts'[j] = <<>>
  <2>1. PICK js, cs : js = {w.id} /\ cs = {}
    OBVIOUS
  <2>2. Effacer(js, cs) /\ cs \subseteq ops[o].ecrit /\ Types
    BY <1>1, <2>1 DEF Inv
  <2>3. /\ \A l \in Listes : ListeGardee(o, l)
        /\ \A j \in Jeunes \ js : FinGardee(j) /\ jeunes'[j] = jeunes[j]
        /\ \A j \in Jeunes \cap js : jeunes'[j] = Absent /\ transferts'[j] = <<>>
    BY <2>2, EffacerListes
  <2> QED
    BY <2>1, <2>3
<1>7. perturbes' = perturbes
  BY <1>1 DEF Ecrire
<1>8. ASSUME NEW j \in Jeunes \ perturbes
      PROVE  /\ FinGardee(j)
             /\ \/ Accorde(j)'
                \/ /\ jeunes'[j] = jeunes[j]
                   /\ \A v \in suites \cup {w} : ~SurRang(v, j) /\ ~SurTrace(v, j)
  <2>1. CASE j = w.id
    BY <1>6, <1>7, <1>8, <2>1, AccordeParti
  <2>2. CASE j # w.id
    BY <1>5, <1>6, <1>8, <2>2 DEF SurRang, SurTrace
  <2> QED
    BY <2>1, <2>2
<1> QED
  BY <1>1, <1>2, <1>3, <1>4, <1>5, <1>6, <1>8, EcrireSansListe

LEMMA DetruireConseillerListes ==
  ASSUME Inv, Inv', InvListes, NEW o \in Ops, DetruireConseiller(o)
  PROVE  InvListes'
<1>1. PICK w \in EnAttente(o, "suppression conseiller") :
        Effacer(EmportesPar(w.id), {w.id}) /\ Ecrire(o, w, {})
  BY DEF DetruireConseiller
<1>2. w \in ops[o].ecritures /\ w.table = "suppression conseiller"
  BY DEF EnAttente
<1>3. Annoncee(ops[o], w) /\ Reguliere(ops[o])
  BY <1>2 DEF Inv, Reguliere
<1>4. ops[o].cmd # "transferer" /\ {w.id} \subseteq ops[o].ecrit
  BY <1>2, <1>3 DEF Annoncee, Reguliere
<1>5. PICK suites : suites = {}
  OBVIOUS
<1>6. PICK js : js = EmportesPar(w.id)
  OBVIOUS
<1>7. /\ \A l \in Listes : ListeGardee(o, l)
      /\ \A j \in Jeunes \ js : FinGardee(j) /\ jeunes'[j] = jeunes[j]
      /\ \A j \in Jeunes \cap js : jeunes'[j] = Absent /\ transferts'[j] = <<>>
  <2>1. PICK cs : cs = {w.id}
    OBVIOUS
  <2>2. Effacer(js, cs) /\ cs \subseteq ops[o].ecrit /\ Types
    BY <1>1, <1>4, <1>6, <2>1 DEF Inv
  <2> QED
    BY <2>2, EffacerListes
<1>8. perturbes' = perturbes
  BY <1>1 DEF Ecrire
<1>9. \A j : \A v \in suites \cup {w} : ~SurRang(v, j) /\ ~SurTrace(v, j)
  BY <1>2, <1>5 DEF SurRang, SurTrace
<1>10. ASSUME NEW j \in Jeunes \ perturbes
       PROVE  /\ FinGardee(j)
              /\ \/ Accorde(j)'
                 \/ /\ jeunes'[j] = jeunes[j]
                    /\ \A v \in suites \cup {w} : ~SurRang(v, j) /\ ~SurTrace(v, j)
  <2>1. CASE j \in js
    BY <1>7, <1>8, <1>10, <2>1, AccordeParti
  <2>2. CASE j \notin js
    BY <1>7, <1>9, <1>10, <2>2
  <2> QED
    BY <2>1, <2>2
<1>11. Ecrire(o, w, suites) /\ \A v \in suites : FALSE
  BY <1>1, <1>5
<1> QED
  BY <1>2, <1>4, <1>7, <1>10, <1>11, EcrireSansListe

(* The row of a young person is written: it is the only one that was        *)
(* pending.                                                                 *)
LEMMA EcrireJeuneListes ==
  ASSUME Inv, InvListes, NEW o \in Ops, EcrireJeune(o)
  PROVE  InvListes'
<1>1. PICK w \in EnAttente(o, "jeune") :
        /\ jeunes' = [jeunes EXCEPT ![w.id] = w.ligne]
        /\ Ecrire(o, w, {}) /\ UNCHANGED <<transferts, listes>>
  BY DEF EcrireJeune
<1>2. w \in ops[o].ecritures /\ w.table = "jeune" /\ Annoncee(ops[o], w) /\ w.table \in Tables(ops[o])
  BY DEF EnAttente, Inv, Reguliere
<1>3. ops[o].cmd \notin Departs /\ w.id \in ops[o].ecrit
  BY <1>2 DEF Annoncee, Tables, Effacements
<1>4. \A l, j : ListeGardee(o, l) /\ FinGardee(j)
  BY <1>1, ListesIntactes
<1>5. PICK suites : suites = {}
  OBVIOUS
<1>6. Ecrire(o, w, suites) /\ \A v \in suites : FALSE
  BY <1>1, <1>5
<1>7. PICK r : Reprise(o, w, suites, r)
  BY <1>6, EcrireReprend DEF Inv
<1>8. PICK q : q = Poursuivre(r)
  OBVIOUS
<1>9. Cours(o, q) /\ perturbes' = perturbes /\ q.ecritures = ops[o].ecritures \ {w}
  BY <1>5, <1>7, <1>8, LibreOperation DEF Reprise, Poursuivre
<1>10. ASSUME NEW j \in Jeunes \ perturbes, j = w.id
       PROVE  Accorde(j)'
  <2>1. \A p \in Ops \ {o} : \A v \in ops[p].ecritures : ~Concerne(v, j)
    BY <1>3, <1>10, SeulMouvement
  <2>2. EnCours(ops[o], j, jeunes[j], chats[j]) /\ Accorde(j)
    BY <1>10 DEF Inv, Jeune, Suivie, InvListes
  <2>3. SurRang(w, j)
    BY <1>2, <1>10 DEF SurRang
  <2>4. \A v \in ops[o].ecritures : SurRang(v, j) => v = w
    BY <1>2, <2>2, <2>3 DEF EnCours
  <2>5. \A v : v \in Pendantes' <=> v \in q.ecritures \/ \E p \in Ops \ {o} : v \in ops[p].ecritures
    BY <1>9, PendantesPas
  <2>6. Rangs(j)' = {}
    BY <1>9, <2>1, <2>4, <2>5 DEF Rangs, Concerne, SurRang
  <2>7. Traces(j)' = Traces(j)
    <3>1. \A v : v \in Traces(j)' <=> v \in Traces(j)
      BY <1>2, <1>9, <2>5 DEF Traces, SurTrace, Pendantes
    <3> QED
      BY <3>1 DEF Traces
  <2>8. Fins(j)' = Fins(j)
    BY <1>1, <2>7 DEF Fins, Fin
  <2>9. w.ligne \in Lignes(j)
    BY <1>2, <2>3 DEF Lignes, Rangs, Pendantes
  <2>10. jeunes'[j] = w.ligne
    BY <1>1, <1>10 DEF Inv, Types
  <2>11. Lignes(j)' = {w.ligne}
    BY <2>6, <2>10 DEF Lignes
  <2>12. \A t \in Fins(j) : Conforme(w.ligne, t)
    BY <2>2, <2>9 DEF Accorde
  <2>13. \A p \in Ops : ~Liberation(ops'[p], j)
    <3> SUFFICES ASSUME NEW p \in Ops, NEW v \in ops'[p].ecritures, SurRang(v, j) PROVE FALSE
      BY DEF Liberation
    <3>1. v \in Rangs(j)'
      BY DEF Rangs, Pendantes, SurRang
    <3> QED
      BY <2>6, <3>1
  <2>14. \A p \in Ops : ~Liberation(ops[p], j)'
    BY <2>13 DEF Liberation, SurRang
  <2>15. \A ligne \in Lignes(j)', t \in Fins(j)' : Conforme(ligne, t)
    BY <2>8, <2>11, <2>12
  <2> QED
    BY <2>14, <2>15 DEF Accorde, Conforme, Definitif
<1>11. ASSUME NEW j \in Jeunes \ perturbes, j # w.id
       PROVE  /\ jeunes'[j] = jeunes[j]
              /\ \A v \in suites \cup {w} : ~SurRang(v, j) /\ ~SurTrace(v, j)
  BY <1>1, <1>2, <1>5, <1>11 DEF SurRang, SurTrace, Inv, Types
<1> QED
  BY <1>1, <1>2, <1>4, <1>6, <1>10, <1>11, EcrireSansListe

(* The conversations move: the rows and the trace that follow agree, for    *)
(* the hand-over agrees with itself.                                        *)
LEMMA EcrireChatListes ==
  ASSUME Inv, InvListes, NEW o \in Ops, EcrireChat(o)
  PROVE  InvListes'
<1>1. PICK w \in EnAttente(o, "chat") :
        Ecrire(o, w, SuitesDuChat(w)) /\ UNCHANGED <<jeunes, transferts, listes>>
  BY DEF EcrireChat
<1>2. /\ w \in ops[o].ecritures /\ w.table = "chat" /\ Annoncee(ops[o], w) /\ w \in Ecriture
      /\ w.table \in Tables(ops[o]) /\ Reguliere(ops[o])
  BY DEF EnAttente, Inv, Reguliere, Types, Operation
<1>3. ops[o].cmd \in {"transferer", "recuperer"}
  BY <1>2 DEF Tables, Effacements
<1>4. Conduite(ops[o], w) /\ Tenue(ops[o]) /\ Vivante(ops[o])
  BY <1>2 DEF InvListes, Tenue
<1>5. \A l, j : ListeGardee(o, l) /\ FinGardee(j)
  BY <1>1, ListesIntactes
<1>6. PICK suites : suites = SuitesDuChat(w)
  OBVIOUS
<1>7. PICK r : Reprise(o, w, suites, r)
  BY <1>1, <1>6, EcrireReprend DEF Inv
<1>8. PICK q : q = Poursuivre(r)
  OBVIOUS
<1>9. Cours(o, q) /\ perturbes' = perturbes /\ r.ecritures = (ops[o].ecritures \ {w}) \cup suites
  BY <1>7, <1>8 DEF Reprise
<1>10. \A v \in suites : \/ v.table = "jeune" /\ \E l \in w.lignes : v.ligne = l.ligne
                         \/ v.table = "transfert" /\ v.ligne = w.ligne
  BY <1>2, <1>6, SuitesDuChatTypes
<1>11. Tenue(r)'
  <2>1. \A v \in r.ecritures : Conduite(r, v)'
    <3> SUFFICES ASSUME NEW v \in r.ecritures PROVE Conduite(r, v)'
      OBVIOUS
    <3>1. CASE v \in suites
      <4>1. v.table = "jeune" \/ (v.table = "transfert" /\ v.ligne = w.ligne)
        BY <1>10, <3>1
      <4>2. w.ligne.type = "definitif" =>
              ops[o].cmd = "transferer" /\ ~ops[o].temporaire /\ w.ligne.source = ops[o].qui
        BY <1>2, <1>4 DEF Conduite
      <4> QED
        BY <1>7, <4>1, <4>2 DEF Reprise, Conduite
    <3>2. CASE v \in ops[o].ecritures
      <4>1. Conduite(ops[o], v)
        BY <1>4, <3>2 DEF Tenue
      <4> QED
        BY <1>7, <1>9, <4>1 DEF Reprise, Conduite, Conforme, Definitif, Membres
    <3> QED
      BY <1>9, <3>1, <3>2
  <2>2. r.cmd = "transferer" => r.qui \in r.lit \cap Conseillers
    BY <1>2, <1>4, <1>7, LibreOperation DEF Reprise, Tenue
  <2>3. \A u, v \in r.ecritures : SurListe(u, u.id) /\ SurListe(v, u.id) => v = u
    BY <1>4, <1>9, <1>10 DEF Tenue, SurListe
  <2> QED
    BY <2>1, <2>2, <2>3 DEF Tenue, SurListe
<1>12. Vivante(r)'
  BY <1>1, <1>4, <1>7 DEF Vivante, Reprise
<1>13. ASSUME NEW j \in Jeunes \ perturbes', NEW l \in Listes \ perturbes'
       PROVE  Entree(q, j, l)'
  <2>1. Entree(ops[o], j, l) /\ FinGardee(j) /\ ListeGardee(o, l)
    BY <1>5, <1>9, <1>13 DEF InvListes
  <2>2. \A v \in r.ecritures : SurListe(v, l) => v \in ops[o].ecritures
    BY <1>9, <1>10 DEF SurListe
  <2>3. Entree(r, j, l)'
    BY <2>1, <2>2, EntreeGarde
  <2> QED
    BY <1>8, <1>11, <1>12, <2>3, SuiteTenue
<1>14. \A j, l : ~AEnlever(ops[o], j, l)
  <2>1. ops[o].cmd = "transferer" => ops[o].ecritures = {w}
    BY <1>2 DEF Reguliere
  <2> QED
    BY <1>2, <2>1 DEF AEnlever, SurListe
<1>15. q.ecritures = r.ecritures /\ (q.cmd = "supprimerConseiller" => r.cmd = q.cmd)
  BY <1>8, <1>11, <1>12, SuiteTenue
<1>16. ASSUME NEW j \in Jeunes \ perturbes', ~SurChat(w, j)
       PROVE  Accorde(j)'
  <2>1. \A v \in suites \cup {w} : ~SurRang(v, j) /\ ~SurTrace(v, j)
    BY <1>2, <1>6, <1>16, SuitesDuChatConcernent DEF Concerne, SurRang, SurTrace
  <2>2. jeunes'[j] = jeunes[j] /\ FinGardee(j) /\ Accorde(j)
    BY <1>1, <1>5, <1>9, <1>16 DEF InvListes
  <2>3. q.cmd = "supprimerConseiller" => ops[o].cmd = q.cmd
    BY <1>7, <1>15 DEF Reprise
  <2> QED
    BY <1>9, <1>15, <2>1, <2>2, <2>3, AccordeSuit
<1>17. ASSUME NEW j \in Jeunes \ perturbes', SurChat(w, j)
       PROVE  Accorde(j)'
  <2>1. j \in ops[o].ecrit /\ j \notin perturbes
    BY <1>2, <1>9, <1>17 DEF Annoncee, SurChat
  <2>2. \A p \in Ops \ {o} : \A v \in ops[p].ecritures : ~Concerne(v, j)
    BY <1>3, <2>1, SeulMouvement DEF Departs
  <2>3. \A v \in ops[o].ecritures : Concerne(v, j) => v = w
    <3>1. EnCours(ops[o], j, jeunes[j], chats[j])
      BY <1>17, <2>1 DEF Inv, Jeune, Suivie
    <3> QED
      BY <1>2, <1>17, <3>1 DEF EnCours
  <2>4. \A v : v \in Pendantes' <=> v \in q.ecritures \/ \E p \in Ops \ {o} : v \in ops[p].ecritures
    BY <1>9, PendantesPas
  <2>5. \A v \in Pendantes' : Concerne(v, j) => v \in suites
    BY <1>9, <1>15, <2>2, <2>3, <2>4
  <2>6. \A v \in Rangs(j)' : \E l \in w.lignes : v.ligne = l.ligne
    <3>1. \A v \in Rangs(j)' : v \in Pendantes' /\ SurRang(v, j)
      BY DEF Rangs, SurRang
    <3> QED
      BY <1>10, <2>5, <3>1 DEF Concerne, SurRang
  <2>7. \A v \in Traces(j)' : v.ligne = w.ligne
    <3>1. \A v \in Traces(j)' : v \in Pendantes' /\ SurTrace(v, j)
      BY DEF Traces, SurTrace
    <3> QED
      BY <1>10, <2>5, <3>1 DEF Concerne, SurTrace
  <2>8. PICK l \in w.lignes : l.id = j
    BY <1>17 DEF SurChat
  <2>9. Rangs(j)' # {}
    <3>1. RangDuChat(w, l) \in suites /\ SurRang(RangDuChat(w, l), j)
      BY <1>2, <1>6, <2>8, SuitesDuChatTypes DEF SurRang
    <3>2. RangDuChat(w, l) \in Pendantes'
      BY <1>9, <1>15, <2>4, <3>1
    <3>3. PICK v : v = RangDuChat(w, l)
      OBVIOUS
    <3>4. v \in Pendantes' /\ SurRang(v, j)
      BY <3>1, <3>2, <3>3
    <3> QED
      BY <3>4 DEF Rangs, SurRang
  <2>10. Traces(j)' # {}
    <3>1. PICK v : v = TraceDuChat(w)
      OBVIOUS
    <3>2. v \in suites /\ SurTrace(v, j)
      BY <1>2, <1>6, <2>8, <3>1, SuitesDuChatTypes DEF SurTrace
    <3>3. v \in Pendantes'
      BY <1>9, <1>15, <2>4, <3>2
    <3> QED
      BY <3>2, <3>3 DEF Traces, SurTrace
  <2>11. \A ligne \in Lignes(j)' : \E k \in w.lignes : ligne = k.ligne
    BY <2>6, <2>9 DEF Lignes
  <2>12. \A t \in Fins(j)' : t = w.ligne
    BY <2>7, <2>10 DEF Fins
  <2>13. \A k \in w.lignes : Conforme(k.ligne, w.ligne)
    BY <1>2, <1>4 DEF Conduite
  <2>14. \A ligne \in Lignes(j)', t \in Fins(j)' : Conforme(ligne, t)
    BY <2>11, <2>12, <2>13
  <2>15. \A p \in Ops : ~Liberation(ops[p], j)'
    <3> SUFFICES ASSUME NEW p \in Ops, Liberation(ops[p], j)' PROVE FALSE
      OBVIOUS
    <3>1. ops'[p].cmd = "supprimerConseiller" /\ \E v \in ops'[p].ecritures : SurRang(v, j)
      BY DEF Liberation, SurRang
    <3>2. CASE p = o
      BY <1>3, <1>7, <1>9, <1>15, <3>1, <3>2 DEF Cours, Reprise
    <3>3. CASE p # o
      BY <1>9, <2>2, <3>1, <3>3 DEF Cours, Concerne
    <3> QED
      BY <3>2, <3>3
  <2> QED
    BY <2>14, <2>15 DEF Accorde, Conforme, Definitif
<1>18. Tenue(q)' /\ Vivante(q)'
  BY <1>8, <1>11, <1>12, SuiteTenue
<1> QED
  BY <1>5, <1>9, <1>13, <1>14, <1>16, <1>17, <1>18, ListesSuivent

(* The trace of a transfer is written: whoever it gives for good is still   *)
(* to be taken out of the lists, and is in no list that is pending.         *)
LEMMA EcrireTransfertListes ==
  ASSUME Inv, InvListes, NEW o \in Ops, EcrireTransfert(o)
  PROVE  InvListes'
<1>1. PICK w \in EnAttente(o, "transfert") :
        /\ transferts' = [j \in Jeunes |->
             IF j \in w.ids THEN Append(transferts[j], w.ligne) ELSE transferts[j]]
        /\ Ecrire(o, w, {}) /\ UNCHANGED <<jeunes, listes>>
  BY DEF EcrireTransfert
<1>2. /\ w \in ops[o].ecritures /\ w.table = "transfert" /\ Annoncee(ops[o], w) /\ w \in Ecriture
      /\ w.table \in Tables(ops[o]) /\ Reguliere(ops[o])
  BY DEF EnAttente, Inv, Reguliere, Types, Operation
<1>3. ops[o].cmd \in {"transferer", "recuperer"}
      /\ (ops[o].cmd = "transferer" => ops[o].etape \notin {"animations", "listes"})
  BY <1>2 DEF Tables, Effacements
<1>4. Conduite(ops[o], w) /\ Tenue(ops[o]) /\ Vivante(ops[o])
  BY <1>2 DEF InvListes, Tenue
<1>5. \A l : ListeGardee(o, l)
  BY <1>1 DEF ListeGardee
<1>6. PICK suites : suites = {}
  OBVIOUS
<1>7. PICK r : Reprise(o, w, suites, r)
  BY <1>1, <1>6, EcrireReprend DEF Inv
<1>8. PICK q : q = Poursuivre(r)
  OBVIOUS
<1>9. Cours(o, q) /\ perturbes' = perturbes /\ r.ecritures = ops[o].ecritures \ {w}
  BY <1>6, <1>7, <1>8 DEF Reprise
<1>10. Tenue(r)'
  <2>1. \A v \in r.ecritures : Conduite(r, v)'
    <3> SUFFICES ASSUME NEW v \in r.ecritures PROVE Conduite(r, v)'
      OBVIOUS
    <3>1. Conduite(ops[o], v)
      BY <1>4, <1>9 DEF Tenue
    <3> QED
      BY <1>7, <1>9, <3>1 DEF Reprise, Cours, Conduite, Conforme, Definitif, Membres
  <2>2. r.cmd = "transferer" => r.qui \in r.lit \cap Conseillers
    BY <1>2, <1>4, <1>7, LibreOperation DEF Reprise, Tenue
  <2> QED
    BY <1>4, <1>9, <2>1, <2>2 DEF Tenue, SurListe
<1>11. Vivante(r)'
  BY <1>1, <1>4, <1>7 DEF Vivante, Reprise
<1>12. /\ Tenue(q)' /\ Vivante(q)' /\ q.ecritures = r.ecritures
       /\ (q.cmd = "supprimerConseiller" => ops[o].cmd = q.cmd)
  BY <1>7, <1>8, <1>10, <1>11, SuiteTenue DEF Reprise
<1>13. \A j, l : AEnlever(ops[o], j, l) => AEnlever(q, j, l) /\ q.qui = ops[o].qui
  <2> SUFFICES ASSUME NEW j, NEW l, AEnlever(ops[o], j, l)
               PROVE  AEnlever(q, j, l) /\ q.qui = ops[o].qui
    OBVIOUS
  <2>1. AEnlever(r, j, l)
    BY <1>2, <1>7, <1>9 DEF AEnlever, Reprise, SurListe
  <2> QED
    BY <1>7, <1>8, <1>10, <1>11, <2>1, SuiteTenue DEF Reprise
<1>14. \A v \in q.ecritures : v \in ops[o].ecritures /\ ~(v = w)
  BY <1>9, <1>12
<1>15. ASSUME NEW j \in Jeunes \ perturbes', j \notin w.ids
       PROVE  FinGardee(j) /\ Accorde(j)'
  <2>1. FinGardee(j)
    BY <1>1, <1>15 DEF FinGardee, Fin
  <2>2. ~SurRang(w, j) /\ ~SurTrace(w, j)
    BY <1>2, <1>15 DEF SurRang, SurTrace
  <2>3. Accorde(j) /\ jeunes'[j] = jeunes[j]
    BY <1>1, <1>9, <1>15 DEF InvListes
  <2> QED
    BY <1>9, <1>12, <2>1, <2>2, <2>3, AccordeSuit
<1>16. ASSUME NEW j \in Jeunes \ perturbes', j \in w.ids
       PROVE  Accorde(j)' /\ Fin(j)' = w.ligne /\ j \in ops[o].ecrit
  <2>1. j \in ops[o].ecrit /\ j \notin perturbes
    BY <1>2, <1>9, <1>16 DEF Annoncee
  <2>2. \A p \in Ops \ {o} : \A v \in ops[p].ecritures : ~Concerne(v, j)
    BY <1>3, <2>1, SeulMouvement DEF Departs
  <2>3. SurTrace(w, j)
    BY <1>2, <1>16 DEF SurTrace
  <2>4. \A v \in ops[o].ecritures : SurTrace(v, j) => v = w
    <3>1. EnCours(ops[o], j, jeunes[j], chats[j])
      BY <1>16, <2>1 DEF Inv, Jeune, Suivie
    <3> QED
      BY <1>2, <2>3, <3>1 DEF EnCours
  <2>5. \A v : v \in Pendantes' <=> v \in q.ecritures \/ \E p \in Ops \ {o} : v \in ops[p].ecritures
    BY <1>9, PendantesPas
  <2>6. Traces(j)' = {}
    BY <1>14, <2>2, <2>4, <2>5 DEF Traces, Concerne, SurTrace
  <2>7. \A v : v \in Rangs(j)' <=> v \in Rangs(j)
    BY <1>2, <1>9, <1>12, <2>5 DEF Rangs, SurRang, Pendantes
  <2>8. Lignes(j)' = Lignes(j)
    <3>1. Rangs(j)' = Rangs(j)
      BY <2>7 DEF Rangs
    <3> QED
      BY <1>1, <3>1 DEF Lignes
  <2>9. Fin(j)' = w.ligne
    <3>1. transferts[j] \in Seq(Transfert \cup {Absent}) /\ w.ligne \in Transfert
      BY <1>2, <1>16, EcritureTypes DEF Inv, Types
    <3>2. PICK s \in Seq(Transfert \cup {Absent}) : s = transferts[j]
      BY <3>1
    <3>3. transferts'[j] = Append(s, w.ligne)
      BY <1>1, <1>16, <3>2
    <3>4. /\ Append(s, w.ligne) # <<>> /\ Len(Append(s, w.ligne)) = Len(s) + 1
          /\ Append(s, w.ligne)[Len(s) + 1] = w.ligne
      BY <3>1, <3>2
    <3> QED
      BY <3>3, <3>4 DEF Fin
  <2>10. Fins(j)' = {w.ligne}
    BY <2>6, <2>9 DEF Fins
  <2>11. w.ligne \in Fins(j)
    BY <1>2, <2>3 DEF Fins, Traces, Pendantes
  <2>12. \A ligne \in Lignes(j)', t \in Fins(j)' : Conforme(ligne, t)
    BY <2>1, <2>8, <2>10, <2>11 DEF InvListes, Accorde
  <2>13. \A p \in Ops : ~Liberation(ops[p], j)'
    <3> SUFFICES ASSUME NEW p \in Ops, Liberation(ops[p], j)' PROVE FALSE
      OBVIOUS
    <3>1. ops'[p].cmd = "supprimerConseiller" /\ \E v \in ops'[p].ecritures : SurRang(v, j)
      BY DEF Liberation, SurRang
    <3>2. CASE p = o
      BY <1>3, <1>9, <1>12, <3>1, <3>2 DEF Cours
    <3>3. CASE p # o
      BY <1>9, <2>2, <3>1, <3>3 DEF Cours, Concerne
    <3> QED
      BY <3>2, <3>3
  <2> QED
    BY <2>1, <2>9, <2>12, <2>13 DEF Accorde, Conforme, Definitif
<1>17. ASSUME NEW j \in Jeunes \ perturbes', NEW l \in Listes \ perturbes', j \notin w.ids
       PROVE  Restee(j, l)' /\ Entree(q, j, l)' /\ \A p \in Ops \ {o} : Entree(ops[p], j, l)'
  <2>1. FinGardee(j) /\ ListeGardee(o, l)
    BY <1>5, <1>15, <1>17
  <2>2. Restee(j, l)'
    BY <1>9, <1>13, <1>17, <2>1, ResteeSuit
  <2>3. \A p \in Ops \ {o} : Entree(ops[p], j, l)'
    BY <1>9, <1>17, <2>1, EntreeDesAutres
  <2>4. Entree(ops[o], j, l)
    BY <1>9, <1>17 DEF InvListes
  <2>5. \A v \in q.ecritures : SurListe(v, l) => v \in ops[o].ecritures
    BY <1>14
  <2>6. Entree(q, j, l)'
    BY <2>1, <2>4, <2>5, EntreeGarde
  <2> QED
    BY <2>2, <2>3, <2>6
<1>18. ASSUME NEW j \in Jeunes \ perturbes', NEW l \in Listes \ perturbes', j \in w.ids
       PROVE  Restee(j, l)' /\ Entree(q, j, l)' /\ \A p \in Ops \ {o} : Entree(ops[p], j, l)'
  <2>1. j \in ops[o].ecrit /\ j \in Jeunes \ perturbes /\ Fin(j)' = w.ligne
    BY <1>9, <1>16, <1>18
  <2>2. ASSUME NEW p \in Ops \ {o}, NEW v \in ops[p].ecritures, SurListe(v, l)
        PROVE  j \notin Membres(v)
    <3>1. Conduite(ops[p], v)
      BY <2>2 DEF InvListes, Tenue
    <3>2. Membres(v) \subseteq ops[p].lit
      BY <2>2, <3>1 DEF Conduite, SurListe
    <3>3. j \notin ops[p].lit
      BY <1>3, <2>1, <2>2, Seule DEF Inv, Departs
    <3> QED
      BY <3>2, <3>3
  <2>3. \A p \in Ops \ {o} : Entree(ops[p], j, l)'
    <3> SUFFICES ASSUME NEW p \in Ops \ {o} PROVE Entree(ops[p], j, l)'
      OBVIOUS
    <3>1. ops'[p] = ops[p]
      BY <1>9 DEF Cours
    <3> QED
      BY <2>2, <3>1 DEF Entree, SurListe, Membres
  <2>4. Entree(q, j, l)'
    <3>1. \A v \in q.ecritures : ~SurListe(v, l)
      BY <1>2, <1>3, <1>14 DEF Reguliere, Tables, SurListe, Mouvements, Etapes, Departs
    <3> QED
      BY <3>1 DEF Entree, SurListe
  <2>5. Restee(j, l)'
    <3>1. SUFFICES ASSUME Definitif(w.ligne)
                   PROVE  AEnlever(q, j, l) /\ q.qui = w.ligne.source
      <4>1. /\ Definitif(w.ligne) => AEnlever(ops'[o], j, l) /\ ops'[o].qui = w.ligne.source
        BY <1>9, <3>1 DEF Cours
      <4>2. Definitif(Fin(j))' => Definitif(w.ligne)
        BY <2>1 DEF Definitif
      <4>3. Quitte(j, listes[l].conseiller)' => Definitif(w.ligne) /\ w.ligne.source = listes'[l].conseiller
        BY <2>1, <4>2 DEF Quitte
      <4> QED
        BY <4>1, <4>3 DEF Restee, AEnlever, SurListe
    <3>2. ops[o].cmd = "transferer" /\ ~ops[o].temporaire /\ w.ligne.source = ops[o].qui
      BY <1>2, <1>4, <3>1 DEF Conduite, Definitif
    <3>3. j \in ops[o].jeunes
      BY <1>2, <2>1, <3>2 DEF Reguliere
    <3>4. ops[o].etape # "fin"
      BY <1>4, <2>1, <3>2, <3>3 DEF Vivante
    <3>5. ops[o].etape = "jeunes"
      BY <1>2, <1>3, <3>2, <3>4, LibreOperation DEF Reguliere, Etapes, Departs
    <3>6. \A v \in ops[o].ecritures : v.table # "chat"
      BY <1>2, <3>2 DEF Reguliere
    <3>7. AEnlever(ops[o], j, l)
      BY <3>2, <3>3, <3>5, <3>6 DEF AEnlever
    <3> QED
      BY <1>13, <3>2, <3>7
  <2> QED
    BY <2>3, <2>4, <2>5
<1>19. \A j \in Jeunes \ perturbes' : Accorde(j)'
  BY <1>15, <1>16
<1>20. \A j \in Jeunes \ perturbes', l \in Listes \ perturbes' :
         Restee(j, l)' /\ Entree(q, j, l)' /\ \A p \in Ops \ {o} : Entree(ops[p], j, l)'
  BY <1>17, <1>18
<1>21. \A l \in Listes : listes'[l] # Absent => l \in uuids'
  BY <1>1, <1>9 DEF InvListes, Cours
<1>22. \A l \in Listes : listes[l] # Absent => listes'[l] # Absent /\ listes'[l].conseiller = listes[l].conseiller
  BY <1>1
<1> QED
  BY <1>9, <1>12, <1>19, <1>20, <1>21, <1>22, ListesReunies

(* A list is written: what is left of the write is at most its members.     *)
LEMMA ListeEcrite ==
  ASSUME Inv, InvListes, NEW o \in Ops, NEW w \in ops[o].ecritures, NEW suites, Ecrire(o, w, suites),
         w.table \in {"liste", "membres"}, w.id \in Listes, UNCHANGED <<jeunes, transferts>>,
         \A v \in suites : /\ v.table = "membres" /\ v.id = w.id /\ ~v.ajout
                           /\ Membres(v) = Membres(w) /\ \A u \in suites : u = v,
         \A l \in Listes \ {w.id} : listes'[l] = listes[l],
         listes[w.id] # Absent =>
           listes'[w.id] # Absent /\ listes'[w.id].conseiller = listes[w.id].conseiller,
         listes[w.id] = Absent /\ listes'[w.id] # Absent =>
           w.table = "liste" /\ listes'[w.id].conseiller = w.ligne.conseiller,
         \/ listes'[w.id] = listes[w.id] /\ suites # {}
         \/ \A j \in Jeunes \ perturbes : w.id \notin perturbes => Restee(j, w.id)'
  PROVE  InvListes'
<1>1. Types /\ Tenue(ops[o]) /\ Vivante(ops[o]) /\ Conduite(ops[o], w) /\ Reguliere(ops[o])
      /\ w.table \in Tables(ops[o])
  BY DEF Inv, InvListes, Tenue, Reguliere
<1>2. /\ w.id \in ops[o].ecrit \cap uuids /\ Membres(w) \subseteq ops[o].lit /\ ops[o].cmd \notin Departs
      /\ ops[o].cmd = "transferer" => w.id \in ops[o].lit /\ Membres(w) \cap ops[o].jeunes = {}
  BY <1>1 DEF Conduite, Tables, Effacements
<1>3. PICK r : Reprise(o, w, suites, r)
  BY <1>1, EcrireReprend
<1>4. PICK q : q = Poursuivre(r)
  OBVIOUS
<1>5. Cours(o, q) /\ perturbes' = perturbes /\ uuids' = uuids
      /\ r.ecritures = (ops[o].ecritures \ {w}) \cup suites
  BY <1>3, <1>4 DEF Reprise
<1>6. \A v \in ops[o].ecritures : SurListe(v, w.id) => v = w
  BY <1>1 DEF Tenue, SurListe
<1>7. Tenue(r)'
  <2>1. \A v \in r.ecritures : Conduite(r, v)'
    <3> SUFFICES ASSUME NEW v \in r.ecritures PROVE Conduite(r, v)'
      OBVIOUS
    <3>1. CASE v \in suites
      <4>1. /\ v.table = "membres" /\ v.id \in r.ecrit \cap uuids' /\ Membres(v) \subseteq r.lit /\ ~v.ajout
            /\ r.cmd = "transferer" => v.id \in r.lit /\ Membres(v) \cap r.jeunes = {}
        BY <1>2, <1>3, <1>5, <3>1 DEF Reprise
      <4> QED
        BY <4>1 DEF Conduite, Membres
    <3>2. CASE v \in ops[o].ecritures
      <4>1. Conduite(ops[o], v)
        BY <1>1, <3>2 DEF Tenue
      <4> QED
        BY <1>3, <1>5, <4>1 DEF Reprise, Cours, Conduite, Conforme, Definitif, Membres
    <3> QED
      BY <1>5, <3>1, <3>2
  <2>2. r.cmd = "transferer" => r.qui \in r.lit \cap Conseillers
    BY <1>1, <1>3, LibreOperation DEF Reprise, Tenue
  <2>3. \A u, v \in r.ecritures : SurListe(u, u.id) /\ SurListe(v, u.id) => v = u
    <3> SUFFICES ASSUME NEW u \in r.ecritures, NEW v \in r.ecritures,
                        SurListe(u, u.id), SurListe(v, u.id)
                 PROVE  v = u
      OBVIOUS
    <3>1. CASE u \in suites \/ v \in suites
      <4>1. u.id = w.id /\ v.id = w.id
        BY <3>1 DEF SurListe
      <4>2. \A x \in r.ecritures : SurListe(x, w.id) => x \in suites
        BY <1>5, <1>6
      <4> QED
        BY <4>1, <4>2
    <3>2. CASE u \notin suites /\ v \notin suites
      BY <1>1, <1>5, <3>2 DEF Tenue
    <3> QED
      BY <3>1, <3>2
  <2> QED
    BY <2>1, <2>2, <2>3 DEF Tenue, SurListe
<1>8. \A l \in Listes : listes[l] # Absent =>
        listes'[l] # Absent /\ listes'[l].conseiller = listes[l].conseiller
  OBVIOUS
<1>9. Vivante(r)'
  BY <1>1, <1>3, <1>5, <1>8 DEF Vivante, Reprise
<1>10. /\ Tenue(q)' /\ Vivante(q)' /\ q.ecritures = r.ecritures
       /\ (q.cmd = "supprimerConseiller" => ops[o].cmd = q.cmd)
  BY <1>3, <1>4, <1>7, <1>9, SuiteTenue DEF Reprise
<1>11. ASSUME NEW j, NEW l, AEnlever(ops[o], j, l), l # w.id \/ suites # {}
       PROVE  AEnlever(q, j, l) /\ q.qui = ops[o].qui
  <2>1. AEnlever(r, j, l)
    <3>1. \A v \in r.ecritures : v.table = "chat" => v \in ops[o].ecritures
      BY <1>5
    <3>2. (\E v \in ops[o].ecritures : SurListe(v, l)) => \E v \in r.ecritures : SurListe(v, l)
      BY <1>5, <1>11 DEF SurListe
    <3> QED
      BY <1>3, <1>11, <3>1, <3>2 DEF AEnlever, Reprise
  <2> QED
    BY <1>3, <1>4, <1>7, <1>9, <2>1, SuiteTenue DEF Reprise
<1>12. \A j : FinGardee(j)
  BY DEF FinGardee, Fin
<1>13. ASSUME NEW j \in Jeunes \ perturbes'
       PROVE  Accorde(j)'
  <2>1. Accorde(j) /\ FinGardee(j) /\ jeunes'[j] = jeunes[j]
    BY <1>5, <1>12, <1>13 DEF InvListes
  <2>2. \A v \in suites \cup {w} : ~SurRang(v, j) /\ ~SurTrace(v, j)
    BY DEF SurRang, SurTrace
  <2> QED
    BY <1>5, <1>10, <2>1, <2>2, AccordeSuit
<1>14. ASSUME NEW j \in Jeunes \ perturbes', NEW l \in Listes \ perturbes', l # w.id
       PROVE  Restee(j, l)' /\ Entree(q, j, l)' /\ \A p \in Ops \ {o} : Entree(ops[p], j, l)'
  <2>1. ListeGardee(o, l) /\ FinGardee(j) /\ Entree(ops[o], j, l)
    BY <1>5, <1>12, <1>14 DEF ListeGardee, InvListes
  <2>2. \A v \in q.ecritures : SurListe(v, l) => v \in ops[o].ecritures
    BY <1>5, <1>10, <1>14 DEF SurListe
  <2>3. Entree(q, j, l)'
    BY <2>1, <2>2, EntreeGarde
  <2>4. \A p \in Ops \ {o} : Entree(ops[p], j, l)'
    BY <1>5, <1>14, <2>1, EntreeDesAutres
  <2>5. Restee(j, l)'
    BY <1>5, <1>11, <1>14, <2>1, ResteeSuit
  <2> QED
    BY <2>3, <2>4, <2>5
<1>15. ASSUME NEW j \in Jeunes \ perturbes', w.id \notin perturbes'
       PROVE  Restee(j, w.id)' /\ Entree(q, j, w.id)' /\ \A p \in Ops \ {o} : Entree(ops[p], j, w.id)'
  <2>1. Entree(ops[o], j, w.id) /\ j \in Jeunes \ perturbes /\ w.id \notin perturbes
    BY <1>5, <1>15 DEF InvListes
  <2>2. PICK l \in Listes \ perturbes' : l = w.id
    BY <1>15
  <2>3. Restee(j, l)'
    <3>1. CASE listes'[l] = listes[l] /\ suites # {}
      <4>1. ListeGardee(o, l) /\ FinGardee(j)
        BY <1>12, <3>1 DEF ListeGardee
      <4> QED
        BY <1>5, <1>11, <1>15, <3>1, <4>1, ResteeSuit
    <3>2. CASE Restee(j, w.id)'
      BY <2>2, <3>2 DEF Restee, AEnlever, SurListe
    <3> QED
      BY <2>1, <2>2, <3>1, <3>2
  <2>4. Entree(q, j, l)'
    <3> SUFFICES ASSUME NEW v \in q.ecritures, SurListe(v, l), j \in Membres(v)
                 PROVE  /\ v.table = "liste" => ~Quitte(j, v.ligne.conseiller)'
                        /\ listes'[l] # Absent => ~Quitte(j, listes[l].conseiller)'
      BY DEF Entree, SurListe, Membres
    <3>1. v \in suites
      BY <1>5, <1>6, <1>10, <2>2
    <3>2. v.table = "membres" /\ j \in Membres(w) /\ SurListe(w, l)
      BY <2>2, <3>1 DEF SurListe
    <3>3. /\ w.table = "liste" => ~Quitte(j, w.ligne.conseiller)
          /\ listes[l] # Absent => ~Quitte(j, listes[l].conseiller)
      BY <2>1, <2>2, <3>2 DEF Entree
    <3>4. \A c : Quitte(j, c)' <=> Quitte(j, c)
      BY DEF Quitte, Fin
    <3>5. listes'[l] # Absent => ~Quitte(j, listes'[l].conseiller)
      BY <2>2, <3>3
    <3>6. Quitte(j, listes[l].conseiller)' <=> Quitte(j, listes'[l].conseiller)
      BY DEF Quitte, Fin
    <3> QED
      BY <3>2, <3>5, <3>6
  <2>5. ASSUME NEW p \in Ops \ {o}
        PROVE  Entree(ops[p], j, l)'
    <3>1. ops'[p] = ops[p] /\ Tenue(ops[p])
      BY <1>5 DEF Cours, InvListes
    <3>2. l \notin ops[p].ecrit
      BY <1>2, <2>1, <2>2, Seule DEF Inv
    <3>3. \A v \in ops[p].ecritures : ~SurListe(v, l)
      BY <3>1, <3>2 DEF Tenue, Conduite, SurListe
    <3> QED
      BY <3>1, <3>3 DEF Entree, SurListe
  <2>6. \A p \in Ops \ {o} : Entree(ops[p], j, w.id)'
    BY <2>2, <2>5 DEF Entree, SurListe, Membres
  <2>7. Restee(j, w.id)' /\ Entree(q, j, w.id)'
    BY <2>2, <2>3, <2>4 DEF Restee, AEnlever, Entree, SurListe, Membres
  <2> QED
    BY <2>6, <2>7
<1>16. ASSUME NEW j \in Jeunes \ perturbes', NEW l \in Listes \ perturbes'
       PROVE  Restee(j, l)' /\ Entree(q, j, l)' /\ \A p \in Ops \ {o} : Entree(ops[p], j, l)'
  <2>1. CASE l # w.id
    BY <1>14, <1>16, <2>1
  <2>2. CASE l = w.id
    BY <1>15, <1>16, <2>2 DEF Restee, AEnlever, Entree, SurListe, Membres
  <2> QED
    BY <2>1, <2>2
<1>17. \A l \in Listes : listes'[l] # Absent => l \in uuids'
  BY <1>2, <1>5 DEF InvListes
<1> QED
  BY <1>5, <1>8, <1>10, <1>13, <1>16, <1>17, ListesReunies

LEMMA EcrireListeListes ==
  ASSUME Inv, InvListes, NEW o \in Ops, EcrireListe(o)
  PROVE  InvListes'
<1>1. PICK w \in EnAttente(o, "liste") :
        /\ listes' = [listes EXCEPT ![w.id] =
             IF @ = Absent THEN [conseiller |-> w.ligne.conseiller, jeunes |-> {}] ELSE @]
        /\ Ecrire(o, w, {[table |-> "membres", id |-> w.id, jeunes |-> w.ligne.jeunes,
                          ajout |-> FALSE]})
        /\ UNCHANGED <<jeunes, transferts>>
  BY DEF EcrireListe
<1>2. w \in ops[o].ecritures /\ w.table = "liste" /\ w.id \in Listes /\ w.ligne \in Liste
  <2>1. w \in ops[o].ecritures /\ w.table = "liste" /\ w \in Ecriture
    BY DEF EnAttente, Inv, Types, Operation
  <2> QED
    BY <2>1, EcritureTypes
<1>3. PICK m : m = [table |-> "membres", id |-> w.id, jeunes |-> w.ligne.jeunes, ajout |-> FALSE]
  OBVIOUS
<1>4. m.table = "membres" /\ m.id = w.id /\ ~m.ajout /\ Membres(m) = Membres(w)
  BY <1>2, <1>3 DEF Membres
<1>5. PICK suites : suites = {m}
  OBVIOUS
<1>6. Ecrire(o, w, suites) /\ suites # {}
  BY <1>1, <1>3, <1>5
<1>7. \A v \in suites : /\ v.table = "membres" /\ v.id = w.id /\ ~v.ajout
                        /\ Membres(v) = Membres(w) /\ \A u \in suites : u = v
  BY <1>4, <1>5
<1>8. listes \in [Listes -> Liste \cup {Absent}]
  BY DEF Inv, Types
<1>9. /\ \A l \in Listes \ {w.id} : listes'[l] = listes[l]
      /\ listes[w.id] # Absent => listes'[w.id] = listes[w.id]
      /\ listes[w.id] = Absent => listes'[w.id] = [conseiller |-> w.ligne.conseiller, jeunes |-> {}]
  BY <1>1, <1>2, <1>8
<1>10. /\ listes[w.id] # Absent => listes'[w.id] # Absent /\ listes'[w.id].conseiller = listes[w.id].conseiller
       /\ listes[w.id] = Absent => listes'[w.id].conseiller = w.ligne.conseiller /\ listes'[w.id].jeunes = {}
  BY <1>9
<1>11. \/ listes'[w.id] = listes[w.id] /\ suites # {}
       \/ \A j \in Jeunes \ perturbes : w.id \notin perturbes => Restee(j, w.id)'
  <2>1. CASE listes[w.id] = Absent
    BY <1>10, <2>1 DEF Restee
  <2>2. CASE listes[w.id] # Absent
    BY <1>6, <1>9, <2>2
  <2> QED
    BY <2>1, <2>2
<1> QED
  BY <1>1, <1>2, <1>6, <1>7, <1>9, <1>10, <1>11, ListeEcrite

(* Those who come back in a list were never given for good by its           *)
(* counsellor, and those who stay in it were not to be taken out of it by   *)
(* the command that leaves them there.                                      *)
LEMMA EcrireMembresListes ==
  ASSUME Inv, InvListes, NEW o \in Ops, EcrireMembres(o)
  PROVE  InvListes'
<1>1. PICK w \in EnAttente(o, "membres") :
        /\ listes' = [listes EXCEPT ![w.id] =
             IF @ = Absent THEN Absent
             ELSE [conseiller |-> @.conseiller,
                   jeunes |-> w.jeunes \cup (IF w.ajout THEN @.jeunes ELSE {})]]
        /\ Ecrire(o, w, {}) /\ UNCHANGED <<jeunes, transferts>>
  BY DEF EcrireMembres
<1>2. w \in ops[o].ecritures /\ w.table = "membres" /\ w.id \in Listes /\ w.jeunes \in SUBSET Jeunes
  <2>1. w \in ops[o].ecritures /\ w.table = "membres" /\ w \in Ecriture
    BY DEF EnAttente, Inv, Types, Operation
  <2> QED
    BY <2>1, EcritureTypes
<1>3. PICK suites : suites = {}
  OBVIOUS
<1>4. Ecrire(o, w, suites) /\ \A v \in suites : FALSE
  BY <1>1, <1>3
<1>5. listes \in [Listes -> Liste \cup {Absent}] /\ Types
  BY DEF Inv, Types
<1>6. PICK n : n = [conseiller |-> listes[w.id].conseiller,
                    jeunes |-> w.jeunes \cup (IF w.ajout THEN listes[w.id].jeunes ELSE {})]
  OBVIOUS
<1>7. /\ \A l \in Listes \ {w.id} : listes'[l] = listes[l]
      /\ listes[w.id] = Absent => listes'[w.id] = Absent
      /\ listes[w.id] # Absent => listes'[w.id] = n
  BY <1>1, <1>2, <1>5, <1>6
<1>8. listes[w.id] # Absent => n # Absent
  <2> SUFFICES ASSUME listes[w.id] # Absent PROVE n # Absent
    OBVIOUS
  <2>1. listes[w.id] \in Liste
    BY <1>2, <1>5
  <2>2. listes[w.id].conseiller \in Conseillers /\ listes[w.id].jeunes \in SUBSET Jeunes
    BY <2>1 DEF Liste
  <2>3. n \in Liste
    BY <1>2, <1>6, <2>2 DEF Liste
  <2> QED
    BY <2>3, ConstantsAssumption
<1>9. listes[w.id] # Absent => listes'[w.id] # Absent /\ listes'[w.id].conseiller = listes[w.id].conseiller
  BY <1>6, <1>7, <1>8
<1>10. PICK q : ops' = [ops EXCEPT ![o] = q]
  BY <1>1 DEF Ecrire
<1>11. \A p \in Ops \ {o} : ops'[p] = ops[p]
  BY <1>5, <1>10 DEF Types
<1>12. Conduite(ops[o], w)
  BY <1>2 DEF InvListes, Tenue
<1>13. ASSUME NEW j \in Jeunes \ perturbes, w.id \notin perturbes
       PROVE  Restee(j, w.id)'
  <2> SUFFICES ASSUME listes'[w.id] # Absent, j \in listes'[w.id].jeunes,
                      Quitte(j, listes[w.id].conseiller)'
               PROVE  \E p \in Ops : AEnlever(ops'[p], j, w.id) /\ ops'[p].qui = listes'[w.id].conseiller
    BY DEF Restee, AEnlever, SurListe
  <2>1. PICK c : c = listes[w.id].conseiller
    OBVIOUS
  <2>2. listes[w.id] # Absent /\ listes'[w.id].conseiller = c /\ listes'[w.id] = n
    BY <1>7, <1>9, <2>1
  <2>3. Quitte(j, c)
    BY <1>1, <2>2 DEF Quitte, Fin
  <2>4. j \notin w.jeunes
    BY <1>2, <1>13, <2>1, <2>2, <2>3 DEF InvListes, Entree, SurListe, Membres
  <2>5. w.ajout /\ j \in listes[w.id].jeunes
    BY <1>6, <2>2, <2>4
  <2>6. PICK p \in Ops : AEnlever(ops[p], j, w.id) /\ ops[p].qui = c
    BY <1>2, <1>13, <2>1, <2>2, <2>3, <2>5 DEF InvListes, Restee
  <2>7. p # o
    BY <1>2, <1>12, <2>5, <2>6 DEF Conduite, AEnlever
  <2> QED
    BY <1>11, <2>2, <2>6, <2>7
<1> QED
  BY <1>1, <1>2, <1>4, <1>7, <1>9, <1>13, ListeEcrite

-----------------------------------------------------------------------------
(* Steps that write none of these rows                                      *)

LEMMA RienDeListe ==
  ASSUME Inv, InvListes, NEW o \in Ops, NEW q, Cours(o, q), UNCHANGED <<jeunes, transferts, listes>>,
         Muette(q) \/ q = Libre,
         \A j \in Jeunes \ perturbes' :
           /\ \A l : ~AEnlever(ops[o], j, l)
           /\ \A w \in q.ecritures : SurRang(w, j) \/ SurTrace(w, j) =>
                w \in ops[o].ecritures /\ (q.cmd = "supprimerConseiller" => ops[o].cmd = q.cmd)
           /\ \A w \in ops[o].ecritures : SurRang(w, j) \/ SurTrace(w, j) => w \in q.ecritures
  PROVE  InvListes'
<1>1. Tenue(q)' /\ Vivante(q)' /\ \A j, l : Entree(q, j, l)'
  <2>1. CASE Muette(q)
    BY <2>1, MuetteTenue
  <2>2. CASE q = Libre
    BY <2>2, LibreTenue
  <2> QED
    BY <2>1, <2>2
<1>2. \A l, j : ListeGardee(o, l) /\ FinGardee(j)
  BY ListesIntactes
<1>3. ASSUME NEW j \in Jeunes \ perturbes'
      PROVE  Accorde(j)'
  <2>1. Accorde(j) /\ FinGardee(j) /\ jeunes'[j] = jeunes[j]
    BY <1>2, <1>3 DEF Cours, InvListes
  <2> QED
    BY <1>3, <2>1, AccordeSuit
<1> QED
  BY <1>1, <1>2, <1>3, ListesSuivent

LEMMA DepartsListes ==
  ASSUME Inv, InvListes, NEW o \in Ops,
         \/ SupprimerCompte(o) \/ LireConversation(o) \/ LireDossier(o) \/ SauverAgence(o)
         \/ PoursuivreSansArchive(o)
  PROVE  InvListes'
<1> DEFINE Tables0 == {"suppression conseiller", "suppression jeune", "suppression archives", "archive",
                       "suppression chat"}
<1>1. Types /\ ops[o] \in Operation /\ Reguliere(ops[o])
  BY DEF Inv, Types
<1>2. UNCHANGED <<jeunes, transferts, listes, uuids>> /\ perturbes \subseteq perturbes'
  BY DEF SupprimerCompte, LireConversation, LireDossier, SauverAgence, PoursuivreSansArchive, donnees
<1>3. ASSUME NEW r, r.cmd = ops[o].cmd, ops[o].cmd # "transferer", ops' = [ops EXCEPT ![o] = Poursuivre(r)],
             \A w \in r.ecritures \cup ops[o].ecritures : w.table \in Tables0
      PROVE  InvListes'
  <2>1. PICK q : q = Poursuivre(r)
    OBVIOUS
  <2>2. q.ecritures = r.ecritures /\ (q = r \/ q = Libre)
    BY <2>1, LibreOperation DEF Poursuivre
  <2>3. Muette(q) \/ q = Libre
    BY <1>3, <2>2 DEF Muette
  <2>4. Cours(o, q)
    BY <1>1, <1>2, <1>3, <2>1 DEF Cours, Types
  <2>5. \A j, l : ~AEnlever(ops[o], j, l)
    BY <1>3 DEF AEnlever
  <2>6. \A j : \A w \in q.ecritures \cup ops[o].ecritures : ~SurRang(w, j) /\ ~SurTrace(w, j)
    BY <1>3, <2>2 DEF SurRang, SurTrace
  <2> QED
    BY <1>2, <2>3, <2>4, <2>5, <2>6, RienDeListe
<1>4. \A r : r.etape \in {"compte", "conversation", "dossier"} \/ r.ecritures # {} => Poursuivre(r) = r
  BY DEF Poursuivre, ResteAFaire
<1>10. \A t, js : (\A w \in Sur(t, js) : w.table = t) /\ (js # {} => Sur(t, js) # {})
  <2> SUFFICES ASSUME NEW t, NEW js
               PROVE  (\A w \in Sur(t, js) : w.table = t) /\ (js # {} => Sur(t, js) # {})
    OBVIOUS
  <2>1. \A w \in Sur(t, js) : w.table = t
    BY DEF Sur
  <2>2. \A j \in js : [table |-> t, id |-> j] \in Sur(t, js)
    BY DEF Sur
  <2> QED
    BY <2>1, <2>2
<1>5. CASE SupprimerCompte(o)
  <2>1. PICK etape, ecritures :
          /\ ops' = [ops EXCEPT ![o] = [ops[o] EXCEPT !.etape = etape, !.ecritures = ecritures]]
          /\ \/ ops[o].cmd = "supprimerConseiller" /\ ecritures = Sur("suppression conseiller", {ops[o].qui})
             \/ ops[o].cmd = "supprimerJeune" /\ ecritures = Sur("suppression jeune", ops[o].jeunes)
             \/ /\ ops[o].cmd \notin {"supprimerConseiller", "supprimerJeune"} /\ ecritures = {}
                /\ etape = IF ops[o].cmd \in Departs \ {"supprimerJeune"} THEN "conversation" ELSE "fin"
    BY <1>5 DEF SupprimerCompte
  <2>2. ops[o].etape = "compte" /\ ops[o].ecritures = {}
    BY <1>5 DEF SupprimerCompte
  <2>3. ops[o].cmd \in Departs \cup {"supprimerConseiller"}
    BY <1>1, <2>2 DEF Reguliere, Etapes, Departs
  <2>4. PICK r : r = [ops[o] EXCEPT !.etape = etape, !.ecritures = ecritures]
    OBVIOUS
  <2>5. r.cmd = ops[o].cmd /\ r.ecritures = ecritures /\ r.etape = etape
    BY <1>1, <2>4 DEF Operation
  <2>6. \A w \in ecritures : w.table \in Tables0
    <3>1. CASE ecritures = Sur("suppression conseiller", {ops[o].qui})
      BY <1>10, <3>1
    <3>2. CASE ecritures = Sur("suppression jeune", ops[o].jeunes)
      BY <1>10, <3>2
    <3>3. CASE ecritures = {}
      BY <3>3
    <3> QED
      BY <2>1, <3>1, <3>2, <3>3
  <2>7. r.ecritures # {} \/ r.etape = "conversation" 
    <3>1. CASE ops[o].cmd = "supprimerConseiller"
      BY <1>10, <2>1, <2>5, <3>1
    <3>2. CASE ops[o].cmd \in Departs
      <4>1. ops[o].jeunes # {}
        BY <1>1, <3>2 DEF Reguliere
      <4> QED
        BY <1>10, <2>1, <2>5, <3>2, <4>1 DEF Departs
    <3> QED
      BY <2>3, <3>1, <3>2
  <2>8. Poursuivre(r) = r
    BY <1>4, <2>7
  <2> QED
    BY <1>3, <2>1, <2>2, <2>3, <2>4, <2>5, <2>6, <2>8 DEF Departs
<1>6. CASE LireConversation(o)
  <2>1. PICK messages : ops' = [ops EXCEPT ![o] = [ops[o] EXCEPT !.etape = "dossier", !.messages = messages]]
    BY <1>6 DEF LireConversation
  <2>2. ops[o].etape = "conversation" /\ ops[o].cmd \in Departs
    BY <1>1, <1>6 DEF LireConversation, Reguliere, Etapes
  <2>3. ops[o].ecritures = {}
    BY <1>1, <2>2 DEF Reguliere
  <2>4. PICK r : r = [ops[o] EXCEPT !.etape = "dossier", !.messages = messages]
    OBVIOUS
  <2>5. r.cmd = ops[o].cmd /\ r.ecritures = {} /\ r.etape = "dossier"
    BY <1>1, <2>3, <2>4 DEF Operation
  <2>6. Poursuivre(r) = r
    BY <1>4, <2>5
  <2> QED
    BY <1>3, <2>1, <2>2, <2>3, <2>4, <2>5, <2>6 DEF Departs
<1>7. CASE LireDossier(o)
  <2>1. PICK suite :
          /\ suite = {} \/ \E t \in {"suppression jeune", "suppression archives"} : suite = Sur(t, ops[o].jeunes)
          /\ ops' = [ops EXCEPT ![o] = Poursuivre([ops[o] EXCEPT !.etape = "fin", !.ecritures = suite])]
    BY <1>7 DEF LireDossier
  <2>2. ops[o].etape = "dossier" /\ ops[o].cmd \in Departs
    BY <1>1, <1>7 DEF LireDossier, Reguliere, Etapes
  <2>3. ops[o].ecritures = {}
    BY <1>1, <2>2 DEF Reguliere
  <2>4. PICK r : r = [ops[o] EXCEPT !.etape = "fin", !.ecritures = suite]
    OBVIOUS
  <2>5. r.cmd = ops[o].cmd /\ r.ecritures = suite
    BY <1>1, <2>4 DEF Operation
  <2>6. \A w \in suite : w.table \in Tables0
    <3>1. ASSUME NEW t \in Tables0, suite = Sur(t, ops[o].jeunes)
          PROVE  \A w \in suite : w.table \in Tables0
      BY <1>10, <3>1
    <3>2. CASE suite = {}
      BY <3>2
    <3> QED
      BY <2>1, <3>1, <3>2
  <2> QED
    BY <1>3, <2>1, <2>2, <2>3, <2>4, <2>5, <2>6 DEF Departs
<1>8. CASE SauverAgence(o)
  <2>1. /\ ops' = [ops EXCEPT ![o] = Poursuivre([ops[o] EXCEPT !.etape = "conseillers"])]
        /\ ops[o].cmd = "changerAgence" /\ ops[o].ecritures = {}
    BY <1>8 DEF SauverAgence
  <2>2. PICK r : r = [ops[o] EXCEPT !.etape = "conseillers"]
    OBVIOUS
  <2>3. r.cmd = ops[o].cmd /\ r.ecritures = {}
    BY <1>1, <2>1, <2>2 DEF Operation
  <2> QED
    BY <1>3, <2>1, <2>2, <2>3
<1>9. CASE PoursuivreSansArchive(o)
  <2>1. PICK ecritures :
          /\ ecritures = Sur("suppression jeune", ops[o].jeunes)
          /\ ops' = [ops EXCEPT ![o] = [ops[o] EXCEPT !.etape = "fin", !.ecritures = ecritures]]
    BY <1>9 DEF PoursuivreSansArchive
  <2>2. ops[o].cmd = "archiverJeune" /\ ops[o].cmd \in Departs
    BY <1>9 DEF PoursuivreSansArchive, EnArchivage, Departs
  <2>3. \A w \in ops[o].ecritures : w.table \in Effacements
    BY <1>1, <2>2 DEF Reguliere, Tables
  <2>4. PICK r : r = [ops[o] EXCEPT !.etape = "fin", !.ecritures = ecritures]
    OBVIOUS
  <2>5. r.cmd = ops[o].cmd /\ r.ecritures = ecritures
    BY <1>1, <2>4 DEF Operation
  <2>6. \A w \in ecritures : w.table \in Tables0
    BY <1>10, <2>1
  <2>7. r.ecritures # {}
    <3>1. ops[o].jeunes # {}
      BY <1>1, <2>2 DEF Reguliere
    <3> QED
      BY <1>10, <2>1, <2>5, <3>1
  <2>8. Poursuivre(r) = r
    BY <1>4, <2>7
  <2>9. \A w \in ops[o].ecritures : w.table \in Tables0
    BY <2>3 DEF Effacements
  <2> QED
    BY <1>3, <2>1, <2>2, <2>4, <2>5, <2>6, <2>8, <2>9
<1> QED
  BY <1>5, <1>6, <1>7, <1>8, <1>9

LEMMA AbandonListes ==
  ASSUME Inv, InvListes, NEW o \in Ops, Abandon(o)
  PROVE  InvListes'
<1>1. Types /\ Reguliere(ops[o])
  BY DEF Inv
<1>2. PICK q : q = Libre
  OBVIOUS
<1>3. /\ UNCHANGED <<jeunes, transferts, listes>> /\ Cours(o, q)
      /\ perturbes' = perturbes \cup ops[o].ecrit
  BY <1>1, <1>2 DEF Abandon, donnees, Cours, Types
<1>4. ASSUME NEW j \in Jeunes \ perturbes'
      PROVE  /\ \A l : ~AEnlever(ops[o], j, l)
             /\ \A w \in ops[o].ecritures : ~SurRang(w, j) /\ ~SurTrace(w, j)
  <2>1. j \notin ops[o].ecrit
    BY <1>3, <1>4
  <2>2. \A w \in ops[o].ecritures : ~Concerne(w, j)
    BY <1>1, <2>1, Ailleurs
  <2>3. \A l : ~AEnlever(ops[o], j, l)
    BY <1>1, <2>1 DEF AEnlever, Reguliere
  <2> QED
    BY <2>2, <2>3 DEF Concerne
<1> QED
  BY <1>2, <1>3, <1>4, LibreOperation, RienDeListe

-----------------------------------------------------------------------------
(* Failures, and the lists                                                  *)

(* No key refuses a write of a sound transfer.                              *)
LEMMA EcritureRefusee ==
  ASSUME Inv, InvListes, NEW o \in Ops, NEW w \in ops[o].ecritures, ops[o].cmd = "transferer",
         ~Possible(w)
  PROVE  ops[o].jeunes \subseteq perturbes
<1> SUFFICES ASSUME Saine(o), ~(ops[o].jeunes \subseteq perturbes) PROVE Possible(w)
  BY DEF Saine, Objet
<1>1. /\ Lues(ops[o]) /\ Tenue(ops[o]) /\ Vivante(ops[o]) /\ Conduite(ops[o], w) /\ w \in Ecriture
      /\ w.table \in Tables(ops[o]) /\ Annoncee(ops[o], w) /\ ops[o] # Libre
  BY LibreOperation DEF Inv, InvListes, Lectures, Tenue, Reguliere, Types, Operation
<1>2. CASE w.table \in {"transfert", "jeune"}
  BY <1>1, <1>2, MouvementPossible
<1>3. CASE w.table = "chat"
  BY <1>3 DEF Possible
<1>4. CASE w.table = "animation"
  <2>1. PICK ligne : w.lignes = <<ligne>> /\ ligne.jeunes \subseteq ops[o].lit
    BY <1>1, <1>4 DEF Conduite
  <2>2. <<ligne>> \in Seq(Animation)
    BY <1>1, <1>4, <2>1, EcritureTypes
  <2>3. Head(<<ligne>>) = ligne /\ ligne \in Animation
    BY <2>2
  <2>4. ligne.jeunes \subseteq Jeunes
    BY <2>3 DEF Animation
  <2>5. ligne.jeunes \subseteq Presents
    BY <1>1, <2>1, <2>4 DEF Lues
  <2> QED
    BY <1>4, <2>1, <2>3, <2>5 DEF Possible
<1>5. CASE w.table = "liste"
  <2>1. w.ligne.conseiller \in ops[o].lit \cap Conseillers
    BY <1>1, <1>5 DEF Conduite, Tenue
  <2> QED
    BY <1>1, <1>5, <2>1 DEF Lues, Possible
<1>6. CASE w.table = "membres"
  <2>1. w.id \in Listes \cap ops[o].lit /\ w.jeunes \subseteq Jeunes \cap ops[o].lit
    BY <1>1, <1>6, EcritureTypes DEF Conduite, Membres
  <2>2. w.jeunes \subseteq Presents
    BY <1>1, <2>1 DEF Lues
  <2>3. listes[w.id] # Absent
    BY <1>1, <2>1 DEF Vivante
  <2> QED
    BY <1>6, <2>2, <2>3 DEF Possible
<1> QED
  BY <1>1, <1>2, <1>3, <1>4, <1>5, <1>6 DEF Tables, Departs, Mouvements

LEMMA EchecPoursuivi ==
  ASSUME Inv, NEW o \in Ops, NEW q \in Operation, ops' = [ops EXCEPT ![o] = q], Echec(o)
  PROVE  q = Libre \/ (q.temporaire = ops[o].temporaire /\ q.ecritures # {})
<1>1. ops[o] \in Operation /\ ops'[o] = q
  BY DEF Inv, Types
<1>2. PICK w \in ops[o].ecritures :
        ops' = [ops EXCEPT ![o] =
           Poursuivre([ops[o] EXCEPT !.etape = "fin", !.aFaire = {},
                                     !.ecritures = Survivantes(ops[o], w)])]
  BY DEF Echec
<1>3. PICK r : r = [ops[o] EXCEPT !.etape = "fin", !.aFaire = {}, !.ecritures = Survivantes(ops[o], w)]
  OBVIOUS
<1>4. r.etape = "fin" /\ r.temporaire = ops[o].temporaire
  BY <1>1, <1>3 DEF Operation
<1>5. q = Poursuivre(r)
  BY <1>1, <1>2, <1>3 DEF Inv, Types
<1> QED
  BY <1>4, <1>5 DEF Poursuivre, ResteAFaire

(* What failed had been prepared for rows that agreed with the history.     *)
LEMMA AccordeLibere ==
  ASSUME Inv, NEW o \in Ops, NEW q, NEW w, Interrompt(o, q, w), Cours(o, q),
         UNCHANGED <<jeunes, transferts>>, ops[o].cmd = "supprimerConseiller",
         NEW j \in Jeunes \ perturbes, Accorde(j)
  PROVE  Accorde(j)'
<1>1. /\ \A v \in q.ecritures : v \in ops[o].ecritures /\ q.cmd = ops[o].cmd
      /\ Reguliere(ops[o])
  BY InterromptReduit DEF Inv
<1>2. \A v \in ops[o].ecritures : ~SurTrace(v, j)
  BY <1>1 DEF Reguliere, Tables, Departs, SurTrace
<1>3. FinGardee(j) /\ Fin(j)' = Fin(j)
  BY DEF FinGardee, Fin
<1>4. CASE \A v \in ops[o].ecritures : SurRang(v, j) => v \in q.ecritures
  BY <1>1, <1>2, <1>3, <1>4, AccordeSuit
<1>5. CASE \E v \in ops[o].ecritures : SurRang(v, j) /\ v \notin q.ecritures
  <2>1. PICK v \in ops[o].ecritures : SurRang(v, j) /\ v \notin q.ecritures
    BY <1>5
  <2>2. \A u \in ops[o].ecritures : SurRang(u, j) => u = v
    <3>1. EnCours(ops[o], j, jeunes[j], chats[j])
      BY DEF Inv, Jeune, Suivie
    <3> QED
      BY <2>1, <3>1 DEF EnCours
  <2>3. j \in ops[o].ecrit
    BY <1>1, <2>1 DEF Reguliere, Annoncee, SurRang
  <2>4. \A p \in Ops \ {o} : \A u \in ops[p].ecritures : ~Concerne(u, j)
    BY <2>3, SeulMouvement DEF Departs
  <2>5. \A u : u \in Pendantes' <=> u \in q.ecritures \/ \E p \in Ops \ {o} : u \in ops[p].ecritures
    BY PendantesPas
  <2>6. Rangs(j)' = {}
    <3>1. \A u \in Pendantes' : ~SurRang(u, j)
      BY <1>1, <2>1, <2>2, <2>4, <2>5 DEF Concerne
    <3> QED
      BY <3>1 DEF Rangs, SurRang
  <2>7. Traces(j)' = {}
    <3>1. \A u \in Pendantes' : ~SurTrace(u, j)
      BY <1>1, <1>2, <2>4, <2>5 DEF Concerne
    <3> QED
      BY <3>1 DEF Traces, SurTrace
  <2>8. Lignes(j)' = {jeunes[j]} /\ Fins(j)' = {Fin(j)}
    BY <1>3, <2>6, <2>7 DEF Lignes, Fins
  <2>9. Conforme(jeunes[j], Fin(j))
    BY <2>1 DEF Accorde, Liberation
  <2>10. Conforme(jeunes[j], Fin(j))'
    BY <1>3, <2>9 DEF Conforme, Definitif
  <2>11. \A ligne \in Lignes(j)', t \in Fins(j)' : Conforme(ligne, t)
    BY <2>8, <2>9
  <2> QED
    BY <2>10, <2>11 DEF Accorde, Conforme, Definitif
<1> QED
  BY <1>4, <1>5

LEMMA EchecListes ==
  ASSUME Inv, InvListes, NEW o \in Ops, Echec(o)
  PROVE  InvListes'
<1>1. PICK w \in ops[o].ecritures, q \in Operation :
           /\ Interrompt(o, q, w) /\ w \in Ecriture
           /\ w.table \in Tables(ops[o]) /\ Annoncee(ops[o], w)
           /\ perturbes' = IF Possible(w) /\ w.table # "chat"
                           THEN perturbes \cup ops[o].ecrit ELSE perturbes
  BY EchecFait
<1>2. /\ UNCHANGED <<jeunes, transferts, listes, uuids>> /\ Types /\ Reguliere(ops[o]) /\ Tenue(ops[o])
      /\ perturbes \subseteq perturbes'
  BY <1>1 DEF Echec, donnees, Inv, InvListes, Interrompt, Pas
<1>3. Cours(o, q)
  BY <1>1, <1>2 DEF Interrompt, Pas, Cours, Types
<1>4. \A v \in q.ecritures : v \in ops[o].ecritures /\ q.cmd = ops[o].cmd
  BY <1>1, InterromptReduit
<1>5. q = Libre \/ /\ q.temporaire = ops[o].temporaire /\ q.qui = ops[o].qui /\ q.ecritures # {}
                   /\ q.cmd = ops[o].cmd /\ q.jeunes = ops[o].jeunes
                   /\ q.lit = ops[o].lit /\ q.ecrit = ops[o].ecrit
  BY <1>1, EchecPoursuivi DEF Interrompt, Pas, Pareille
<1>6. Tenue(q)'
  <2>1. CASE q = Libre
    BY <2>1, LibreTenue
  <2>2. CASE q # Libre
    <3>1. \A v \in q.ecritures : Conduite(q, v)'
      <4> SUFFICES ASSUME NEW v \in q.ecritures PROVE Conduite(q, v)'
        OBVIOUS
      <4>1. Conduite(ops[o], v)
        BY <1>2, <1>4 DEF Tenue
      <4> QED
        BY <1>2, <1>5, <2>2, <4>1 DEF Conduite, Conforme, Definitif, Membres
    <3>2. q.cmd = "transferer" => q.qui \in q.lit \cap Conseillers
      BY <1>2, <1>5, <2>2, LibreOperation DEF Tenue
    <3> QED
      BY <1>2, <1>4, <3>1, <3>2 DEF Tenue, SurListe
  <2> QED
    BY <2>1, <2>2
<1>7. ops[o].cmd = "transferer" =>
        \/ ops[o].jeunes \subseteq perturbes'
        \/ w.table = "chat" /\ ops[o].ecritures = {w} /\ q = Libre
  <2> SUFFICES ASSUME ops[o].cmd = "transferer"
               PROVE  \/ ops[o].jeunes \subseteq perturbes'
                      \/ w.table = "chat" /\ ops[o].ecritures = {w} /\ q = Libre
    OBVIOUS
  <2>1. CASE w.table = "chat"
    <3>1. ops[o].ecritures = {w}
      BY <1>2, <2>1 DEF Reguliere
    <3>2. q.ecritures = {}
      BY <1>1, <2>1 DEF Interrompt, Survivantes
    <3> QED
      BY <1>5, <2>1, <3>1, <3>2
  <2>2. CASE w.table # "chat" /\ Possible(w)
    BY <1>1, <1>2, <2>2 DEF Reguliere
  <2>3. CASE ~Possible(w)
    BY <1>2, <2>3, EcritureRefusee
  <2> QED
    BY <2>1, <2>2, <2>3
<1>8. Vivante(q)'
  <2>1. CASE q = Libre
    BY <2>1, LibreTenue
  <2>2. CASE q # Libre
    BY <1>5, <1>7, <2>2 DEF Vivante
  <2> QED
    BY <2>1, <2>2
<1>9. \A j \in Jeunes \ perturbes' : \A l : ~AEnlever(ops[o], j, l)
  BY <1>7 DEF AEnlever, SurListe
<1>10. \A l, j : ListeGardee(o, l) /\ FinGardee(j)
  BY <1>2, ListesIntactes
<1>11. ASSUME NEW j \in Jeunes \ perturbes', NEW l \in Listes \ perturbes'
       PROVE  Entree(q, j, l)'
  BY <1>2, <1>4, <1>10, <1>11, EntreeGarde DEF InvListes
<1>12. ASSUME NEW j \in Jeunes \ perturbes'
       PROVE  Accorde(j)'
  <2>1. Accorde(j) /\ FinGardee(j) /\ jeunes'[j] = jeunes[j] /\ j \in Jeunes \ perturbes
    BY <1>2, <1>10, <1>12 DEF InvListes
  <2>2. ASSUME \A v \in ops[o].ecritures : SurRang(v, j) \/ SurTrace(v, j) => v \in q.ecritures
        PROVE  Accorde(j)'
    BY <1>3, <1>4, <2>1, <2>2, AccordeSuit
  <2>3. ASSUME j \notin ops[o].ecrit
        PROVE  Accorde(j)'
    <3>1. \A v \in ops[o].ecritures : ~Concerne(v, j)
      BY <1>2, <2>3, Ailleurs
    <3> QED
      BY <2>2, <3>1 DEF Concerne
  <2>4. CASE ops[o].cmd = "supprimerConseiller"
    BY <1>1, <1>2, <1>3, <2>1, <2>4, AccordeLibere
  <2>5. CASE ops[o].cmd = "transferer"
    <3>1. CASE ops[o].jeunes \subseteq perturbes'
      BY <1>2, <1>12, <2>3, <2>5, <3>1 DEF Reguliere
    <3>2. CASE w.table = "chat" /\ ops[o].ecritures = {w}
      BY <2>2, <3>2 DEF SurRang, SurTrace
    <3> QED
      BY <1>7, <2>5, <3>1, <3>2
  <2>6. CASE ops[o].cmd = "recuperer"
    <3>1. w.table \in Mouvements
      BY <1>1, <2>6 DEF Tables, Departs
    <3>2. CASE w.table = "chat"
      <4>1. q.ecritures = ops[o].ecritures \ {w}
        BY <1>1, <2>6, <3>2, InterromptReduit
      <4> QED
        BY <2>2, <3>2, <4>1 DEF SurRang, SurTrace
    <3>3. CASE w.table # "chat" /\ Possible(w)
      BY <1>1, <1>12, <2>3, <3>3
    <3>4. CASE w.table # "chat" /\ ~Possible(w)
      <4>1. ~Saine(o)
        BY <1>1, <3>1, <3>4, MouvementPossible DEF Mouvements
      <4>2. ops[o].ecrit \subseteq perturbes
        BY <2>6, <4>1 DEF Saine, Objet
      <4> QED
        BY <2>1, <2>3, <4>2
    <3> QED
      BY <3>2, <3>3, <3>4
  <2>7. CASE ops[o].cmd \notin {"supprimerConseiller", "transferer", "recuperer"}
    <3>1. \A v \in ops[o].ecritures : v.table \notin {"jeune", "transfert"}
      BY <1>2, <2>7 DEF Reguliere, Tables, Effacements
    <3> QED
      BY <2>2, <3>1 DEF SurRang, SurTrace
  <2> QED
    BY <2>4, <2>5, <2>6, <2>7
<1> QED
  BY <1>3, <1>6, <1>8, <1>9, <1>10, <1>11, <1>12, ListesSuivent

(* Nothing is pending and no list is there at the start.                    *)
LEMMA ListesInit ==
  ASSUME Init
  PROVE  InvListes
<1>1. /\ \A o \in Ops : ops[o] = Libre
      /\ \A l \in Listes : listes[l] = Absent
      /\ \A j \in Jeunes : transferts[j] = <<>>
  BY DEF Init
<1>2. \A o \in Ops : Tenue(ops[o]) /\ Vivante(ops[o]) /\ \A j, l : Entree(ops[o], j, l)
  BY <1>1, LibreOperation DEF Tenue, Vivante, Entree
<1>3. Pendantes = {}
  BY <1>1, LibreOperation DEF Pendantes
<1>4. ASSUME NEW j \in Jeunes
      PROVE  Accorde(j)
  <2>1. Fin(j) = Absent
    BY <1>1 DEF Fin
  <2>2. \A t \in Fins(j) : t = Absent
    BY <1>3, <2>1 DEF Fins, Traces
  <2>3. \A ligne : Conforme(ligne, Absent)
    BY DEF Conforme, Definitif
  <2> QED
    BY <2>1, <2>2, <2>3 DEF Accorde
<1>5. \A j \in Jeunes, l \in Listes : Restee(j, l)
  BY <1>1 DEF Restee
<1> QED
  BY <1>1, <1>2, <1>4, <1>5 DEF InvListes

LEMMA ListesImmobiles ==
  ASSUME InvListes, UNCHANGED vars
  PROVE  InvListes'
<1>1. /\ jeunes' = jeunes /\ transferts' = transferts /\ listes' = listes
      /\ uuids' = uuids /\ ops' = ops /\ perturbes' = perturbes
  BY DEF vars
<1>2. \A j : Fin(j)' = Fin(j) /\ Rangs(j)' = Rangs(j) /\ Traces(j)' = Traces(j)
  BY <1>1 DEF Fin, Rangs, Traces, Pendantes, SurRang, SurTrace
<1>3. \A j : Lignes(j)' = Lignes(j) /\ Fins(j)' = Fins(j)
  BY <1>1, <1>2 DEF Lignes, Fins
<1>4. \A j : Accorde(j)' <=> Accorde(j)
  BY <1>1, <1>2, <1>3 DEF Accorde, Conforme, Definitif, Liberation, SurRang
<1>5. \A op, w : Conduite(op, w)' <=> Conduite(op, w)
  BY <1>1 DEF Conduite, Conforme, Definitif, Membres
<1>6. \A o \in Ops : (Tenue(ops[o])' <=> Tenue(ops[o])) /\ (Vivante(ops[o])' <=> Vivante(ops[o]))
  BY <1>1, <1>5 DEF Tenue, Vivante, SurListe
<1>7. \A j, c : Quitte(j, c)' <=> Quitte(j, c)
  BY <1>2 DEF Quitte, Definitif
<1>8. \A j, l : Restee(j, l)' <=> Restee(j, l)
  BY <1>1, <1>7 DEF Restee, AEnlever, SurListe
<1>9. \A o \in Ops : \A j, l : Entree(ops[o], j, l)' <=> Entree(ops[o], j, l)
  BY <1>1, <1>7 DEF Entree, SurListe, Membres
<1> QED
  BY <1>1, <1>4, <1>6, <1>8, <1>9 DEF InvListes

LEMMA ListesNext ==
  ASSUME Inv, Inv', InvListes, [Next]_vars
  PROVE  InvListes'
<1>1. CASE Next
  <2>1. PICK o \in Ops :
          \/ Transferer(o) \/ LireAnimations(o) \/ LireListes(o)
          \/ Recuperer(o)
          \/ SupprimerConseiller(o) \/ LireInitiaux(o)
          \/ SupprimerJeune(o) \/ ArchiverJeune(o) \/ ArchiverJeuneSupport(o)
          \/ SupprimerCompte(o) \/ LireConversation(o) \/ LireDossier(o)
          \/ CreerListe(o) \/ ModifierListe(o) \/ AjouterJeuneListe(o) \/ SupprimerListe(o)
          \/ CreerAnimation(o) \/ ModifierAnimation(o)
          \/ ChangerAgence(o) \/ LireConseiller(o) \/ SauverAgence(o)
          \/ ModifierConseiller(o)
          \/ EcrireChat(o) \/ EcrireTransfert(o) \/ EcrireJeune(o) \/ EcrireAnimation(o)
          \/ EcrireListe(o) \/ EcrireMembres(o) \/ DetruireListe(o) \/ EcrireConseiller(o)
          \/ DetruireConseiller(o) \/ DetruireJeune(o) \/ DetruireChat(o)
          \/ DetruireArchives(o) \/ EcrireArchive(o) \/ PoursuivreSansArchive(o)
          \/ Echec(o) \/ Abandon(o)
    BY <1>1 DEF Next
  <2> QED
    BY <2>1, TransfererListes, LireAnimationsListes, LireListesListes, LireInitiauxListes,
       LireConseillerListes, CommandesMuettesSurListes, ListesCommandees, DepartsListes,
       EcrituresIndifferentes, EcrireChatListes, EcrireTransfertListes, EcrireJeuneListes,
       EcrireListeListes, EcrireMembresListes, DetruireListeListes, DetruireJeuneListes,
       DetruireConseillerListes, AbandonListes, EchecListes
<1>2. CASE UNCHANGED vars
  BY <1>2, ListesImmobiles
<1> QED
  BY <1>1, <1>2

(* Nothing is left to write of a young person about whom nothing is in      *)
(* progress: the invariant is then about the rows alone.                    *)
LEMMA ListesQuittees ==
  ASSUME Inv, InvListes
  PROVE  ListesApresTransfert
<1> SUFFICES ASSUME NEW j \in Presents \ perturbes, Tranquille(j),
                    Len(transferts[j]) \in Restants(j),
                    Dernier(j).type = "definitif", Dernier(j).source # Dernier(j).cible,
                    NEW l \in Listes \ perturbes,
                    listes[l] # Absent, listes[l].conseiller = Dernier(j).source,
                    j \in listes[l].jeunes
             PROVE  FALSE
  BY DEF ListesApresTransfert
<1>1. j \in Jeunes \ perturbes
  BY DEF Presents
<1>2. transferts[j] \in Seq(Transfert \cup {Absent})
  BY <1>1 DEF Inv, Types
<1>3. Dernier(j) = Fin(j) /\ Fin(j) # Absent
  <2> DEFINE n == Len(transferts[j])
  <2>1. n \in Nat /\ n \in 1..n /\ transferts[j][n] # Absent /\ \A k \in Restants(j) : k <= n
    BY <1>2 DEF Restants
  <2>2. \A i \in Restants(j) : (\A k \in Restants(j) : k <= i) => i = n
    BY <2>1 DEF Restants
  <2>3. (CHOOSE i \in Restants(j) : \A k \in Restants(j) : k <= i) = n
    BY <2>1, <2>2
  <2>4. transferts[j] # <<>>
    BY <2>1
  <2>5. Fin(j) = transferts[j][n]
    BY <2>4 DEF Fin
  <2>6. Dernier(j) = transferts[j][n]
    BY <2>3, Zenon DEF Dernier
  <2> QED
    BY <2>1, <2>5, <2>6
<1>4. Quitte(j, listes[l].conseiller)
  BY <1>3 DEF Quitte, Definitif
<1>5. PICK p \in Ops : AEnlever(ops[p], j, l)
  BY <1>1, <1>4 DEF InvListes, Restee
<1>6. ops[p] # Libre /\ j \in ops[p].jeunes /\ ops[p].cmd = "transferer"
  BY <1>5, LibreOperation DEF AEnlever
<1>7. Reguliere(ops[p])
  BY DEF Inv
<1>8. j \in ops[p].ecrit
  BY <1>6, <1>7 DEF Reguliere
<1> QED
  BY <1>6, <1>8 DEF Tranquille

-----------------------------------------------------------------------------
(* The participants of the group events                                     *)

(* Taking back those that were lent leaves them in the group events of the  *)
(* agency they come back from; a change of agency writes back those it has  *)
(* just taken out, and an agency entered by hand takes nobody out.  What    *)
(* follows is said of the other commands, between counsellors who have an   *)
(* agency.                                                                  *)
Interdites == {"recuperer", "changerAgence", "modifierConseiller"}
Sedentaires ==
  /\ Commandes \cap Interdites = {}
  /\ \A c \in Conseillers : AgenceInitiale[c] # Aucun

Etablissement(j) == AgenceInitiale[jeunes[j].conseiller]

(* The agencies of the counsellors, then, only disappear with them.         *)
AgencesFixes ==
  /\ \A c \in Conseillers : conseillers[c] \in {AgenceInitiale[c], Absent}
  /\ \A o \in Ops : ops[o].cmd \notin Interdites

(* The agency a transfer has to unregister the young people from, when it   *)
(* gives them to counsellor c; a group event is written once.               *)
Vers(op, c) ==
  op.quittee = IF AgenceInitiale[op.qui] # AgenceInitiale[c] THEN AgenceInitiale[op.qui] ELSE Aucun

Prevue(op, w) ==
  /\ op.cmd = "transferer" /\ w.table = "chat" => \A l \in w.lignes : Vers(op, l.ligne.conseiller)
  /\ op.cmd = "transferer" /\ w.table = "jeune" => Vers(op, w.ligne.conseiller)
  /\ w.table = "animation" => Len(w.lignes) = 1
Prevoit(op) == \A w \in op.ecritures : Prevue(op, w)

(* Whoever a transfer has still to move is followed by whom it takes them   *)
(* from.                                                                    *)
APlacer(op, j) ==
  op.cmd = "transferer" /\ (\E w \in op.ecritures : SurChat(w, j) \/ SurRang(w, j)) =>
    jeunes[j].conseiller = op.qui

(* Whoever is about to be registered is followed in the agency.             *)
Inscription(op, j, a) ==
  \A w \in op.ecritures :
    w.table = "animation" /\ w.id = a /\ j \in w.lignes[1].jeunes /\ j \in Presents =>
      Etablissement(j) = w.lignes[1].agence

(* The command still has to take j out of group event a of agency g.        *)
ADesinscrire(op, j, a, g) ==
  /\ op.cmd = "transferer" /\ j \in op.jeunes /\ op.quittee = g /\ g # Aucun
  /\ \/ op.etape = "jeunes" /\ \A w \in op.ecritures : w.table # "chat"
     \/ op.etape = "animations" /\ \E w \in op.ecritures : w.table = "animation" /\ w.id = a

(* Whoever is in a group event is followed in its agency, or about to be    *)
(* taken out of it.                                                         *)
Demeure(j, a) ==
  animations[a] # Absent /\ j \in animations[a].jeunes /\ Etablissement(j) # animations[a].agence =>
    \E o \in Ops : ADesinscrire(ops[o], j, a, animations[a].agence)

InvParticipants ==
  /\ AgencesFixes
  /\ \A o \in Ops : Prevoit(ops[o])
  /\ \A j \in Jeunes \ perturbes : \A o \in Ops : APlacer(ops[o], j)
  /\ \A j \in Jeunes \ perturbes, a \in AC \ perturbes :
       Demeure(j, a) /\ \A o \in Ops : Inscription(ops[o], j, a)

(* Command o writes group event a in this step.                             *)
Enregistre(o, a) ==
  \E w \in ops[o].ecritures :
    w.table = "animation" /\ w.id = a /\ animations'[a] = w.lignes[1]

(* What the command had to do for j in group event a, it still has or does.  *)
Tient(o, q, j, a) ==
  animations[a] # Absent /\ ADesinscrire(ops[o], j, a, animations[a].agence) =>
    ADesinscrire(q, j, a, animations[a].agence) \/ Enregistre(o, a)

(* What the other commands had to do stays so: a step that moves somebody   *)
(* they concern is in conflict with them.                                   *)
LEMMA PlacerAutres ==
  ASSUME Inv, Inv', InvParticipants, NEW o \in Ops, Isole(o), Effets(o), NEW p \in Ops \ {o},
         NEW j \in Jeunes \ perturbes'
  PROVE  APlacer(ops[p], j)'
<1>1. ops'[p] = ops[p] /\ j \notin perturbes /\ Reguliere(ops[p])
  BY DEF Isole, Inv
<1>2. SUFFICES ASSUME ops[p].cmd = "transferer", NEW w \in ops[p].ecritures,
                      SurChat(w, j) \/ SurRang(w, j)
               PROVE  jeunes'[j].conseiller = ops[p].qui
  BY <1>1 DEF APlacer
<1>3. j \in ops[p].ecrit
  BY <1>1, <1>2, Ailleurs DEF Concerne
<1>4. jeunes'[j] # Absent
  <2>1. EnCours(ops[p], j, jeunes'[j], chats'[j])
    BY <1>1 DEF Inv, Jeune, Suivie, EnCours
  <2> QED
    BY <1>2, <2>1 DEF EnCours, Concerne
<1>5. j \notin ops[o].ecrit
  <2>1. ops[p].cmd \notin Departs
    BY <1>2 DEF Departs
  <2> QED
    BY <1>1, <1>3, <2>1, Seule DEF Inv
<1>6. jeunes'[j] = jeunes[j]
  BY <1>4, <1>5 DEF Effets
<1> QED
  BY <1>1, <1>2, <1>6 DEF InvParticipants, APlacer

LEMMA InscriptionAutres ==
  ASSUME Inv, InvEtablissements, InvParticipants, NEW o \in Ops, Isole(o), Effets(o),
         NEW p \in Ops \ {o}, NEW j \in Jeunes \ perturbes', NEW a \in AC \ perturbes'
  PROVE  Inscription(ops[p], j, a)'
<1>1. /\ ops'[p] = ops[p] /\ j \notin perturbes /\ a \notin perturbes
      /\ Reguliere(ops[p]) /\ Programme(ops[p]) /\ ops[p] \in Operation
  BY DEF Isole, Inv, InvEtablissements, Etablie, Types
<1>2. SUFFICES ASSUME NEW w \in ops[p].ecritures, w.table = "animation", w.id = a,
                      j \in w.lignes[1].jeunes, j \in Presents'
               PROVE  Etablissement(j)' = w.lignes[1].agence
  BY <1>1 DEF Inscription
<1>3. 1 \in 1..Len(w.lignes)
  <2>1. w.lignes \in Seq(Animation) /\ w.lignes # <<>>
    BY <1>1, <1>2, EcritureTypes DEF Operation
  <2>2. Len(w.lignes) \in Nat \ {0}
    BY <2>1, EmptySeq
  <2> QED
    BY <2>2
<1>4. j \in ops[p].lit
  BY <1>1, <1>2, <1>3 DEF Programme, Preparee
<1>5. j \notin ops[o].ecrit
  <2>1. ops[p].cmd \notin Departs
    BY <1>1, <1>2 DEF Reguliere, Tables, Effacements
  <2>2. j \in ops[o].ecrit => EnConflit(ops[o], ops[p])
    BY <1>4, <2>1 DEF EnConflit
  <2> QED
    BY <1>1, <2>2 DEF Inv, Isolement
<1>6. jeunes'[j] = jeunes[j]
  BY <1>2, <1>5 DEF Effets, Presents
<1>7. Inscription(ops[p], j, a) /\ j \in Presents
  BY <1>1, <1>2, <1>6 DEF InvParticipants, Presents
<1> QED
  BY <1>2, <1>6, <1>7 DEF Inscription, Etablissement

(* Whoever stays in a group event is followed in its agency, or the command *)
(* that has to take them out of it has not done so yet.                     *)
LEMMA DemeureSuit ==
  ASSUME Inv, Inv', InvParticipants, NEW o \in Ops, NEW q, Isole(o), ops'[o] = q, Effets(o),
         NEW j \in Jeunes \ perturbes', NEW a \in AC \ perturbes', jeunes'[j] \in {jeunes[j], Absent},
         Tient(o, q, j, a)
  PROVE  Demeure(j, a)'
<1>1. j \notin perturbes /\ a \notin perturbes
  BY DEF Isole
<1>2. SUFFICES ASSUME animations'[a] # Absent, j \in animations'[a].jeunes,
                      Etablissement(j)' # animations'[a].agence
               PROVE  \E p \in Ops : ADesinscrire(ops'[p], j, a, animations'[a].agence)
  BY DEF Demeure, ADesinscrire
<1>3. jeunes'[j] = jeunes[j] /\ j \in Presents
  BY <1>2 DEF Inv, References, Presents
<1>4. Etablissement(j)' = Etablissement(j)
  BY <1>3 DEF Etablissement
<1>5. ~Enregistre(o, a)
  <2>1. SUFFICES ASSUME NEW w \in ops[o].ecritures, w.table = "animation", w.id = a,
                        animations'[a] = w.lignes[1]
                 PROVE  FALSE
    BY DEF Enregistre
  <2>2. Inscription(ops[o], j, a)
    BY <1>1 DEF InvParticipants
  <2> QED
    BY <1>2, <1>3, <1>4, <2>1, <2>2 DEF Inscription
<1>6. /\ animations[a] # Absent /\ j \in animations[a].jeunes
      /\ animations'[a].agence = animations[a].agence
  BY <1>2, <1>5 DEF Effets, Enregistre
<1>7. Demeure(j, a)
  BY <1>1 DEF InvParticipants
<1>8. PICK p \in Ops : ADesinscrire(ops[p], j, a, animations[a].agence)
  BY <1>2, <1>4, <1>6, <1>7 DEF Demeure
<1>9. CASE p = o
  BY <1>5, <1>6, <1>8, <1>9 DEF Tient
<1>10. CASE p # o
  BY <1>6, <1>8, <1>10 DEF Isole
<1> QED
  BY <1>9, <1>10

(* What a step of one command has to show.                                  *)
LEMMA ParticipantsSuivent ==
  ASSUME Inv, Inv', InvEtablissements, InvParticipants, NEW o \in Ops, NEW q,
         Isole(o), ops'[o] = q, Effets(o),
         \A c \in Conseillers : conseillers'[c] \in {conseillers[c], Absent},
         q.cmd \notin Interdites, Prevoit(q),
         \A j \in Jeunes \ perturbes' : APlacer(q, j)',
         \A j \in Jeunes \ perturbes', a \in AC \ perturbes' :
           /\ Inscription(q, j, a)'
           /\ Demeure(j, a)' \/ (jeunes'[j] \in {jeunes[j], Absent} /\ Tient(o, q, j, a))
  PROVE  InvParticipants'
<1>1. \A p \in Ops \ {o} : ops'[p] = ops[p]
  BY DEF Isole
<1>2. AgencesFixes'
  BY <1>1 DEF InvParticipants, AgencesFixes
<1>3. \A p \in Ops : Prevoit(ops'[p])
  BY <1>1 DEF InvParticipants
<1>4. \A p \in Ops : Prevoit(ops[p])'
  BY <1>3 DEF Prevoit, Prevue, Vers
<1>5. ASSUME NEW j \in Jeunes \ perturbes', NEW p \in Ops
      PROVE  APlacer(ops[p], j)'
  <2>1. CASE p = o
    <3>1. APlacer(q, j)'
      OBVIOUS
    <3> QED
      BY <2>1, <3>1 DEF APlacer
  <2>2. CASE p # o
    BY <2>2, PlacerAutres
  <2> QED
    BY <2>1, <2>2
<1>6. ASSUME NEW j \in Jeunes \ perturbes', NEW a \in AC \ perturbes', NEW p \in Ops
      PROVE  Inscription(ops[p], j, a)'
  <2>1. CASE p = o
    <3>1. Inscription(q, j, a)'
      OBVIOUS
    <3> QED
      BY <2>1, <3>1 DEF Inscription
  <2>2. CASE p # o
    BY <2>2, InscriptionAutres
  <2> QED
    BY <2>1, <2>2
<1>7. \A j \in Jeunes \ perturbes', a \in AC \ perturbes' : Demeure(j, a)'
  BY DemeureSuit
<1> QED
  BY <1>2, <1>4, <1>5, <1>6, <1>7 DEF InvParticipants

LEMMA SuitePrevue ==
  ASSUME NEW r, NEW q, q = Poursuivre(r)
  PROVE  /\ r.cmd \notin Interdites => q.cmd \notin Interdites
         /\ Prevoit(r) => Prevoit(q)
         /\ \A j : APlacer(r, j)' => APlacer(q, j)'
         /\ \A j, a : Inscription(r, j, a)' => Inscription(q, j, a)'
         /\ \A j, a, g : ADesinscrire(r, j, a, g) => ADesinscrire(q, j, a, g)
<1>1. CASE q = r
  BY <1>1
<1>2. CASE q = Libre /\ r.ecritures = {} /\ ~ResteAFaire(r)
  <2>1. q.ecritures = {} /\ q.cmd = "transferer"
    BY <1>2, LibreOperation
  <2>2. \A j, a, g : ~ADesinscrire(r, j, a, g)
    BY <1>2 DEF ADesinscrire, ResteAFaire
  <2>3. \A j : APlacer(q, j)'
    BY <2>1 DEF APlacer
  <2>4. \A j, a : Inscription(q, j, a)'
    BY <2>1 DEF Inscription
  <2> QED
    BY <2>1, <2>2, <2>3, <2>4 DEF Interdites, Prevoit
<1> QED
  BY <1>1, <1>2 DEF Poursuivre

(* A command reads.                                                         *)
LEMMA LectureParticipants ==
  ASSUME Inv, Inv', InvEtablissements, InvParticipants, NEW o \in Ops, NEW op, Lecture(o, op),
         op.cmd \notin Interdites, Prevoit(op),
         \A j \in Jeunes \ perturbes' : APlacer(op, j)',
         \A j \in Jeunes \ perturbes', a \in AC \ perturbes' :
           /\ Inscription(op, j, a)'
           /\ Tient(o, op, j, a)
  PROVE  InvParticipants'
<1>1. PICK q : q = Poursuivre(op)
  OBVIOUS
<1>2. /\ Isole(o) /\ Effets(o) /\ ops'[o] = q
      /\ UNCHANGED <<jeunes, conseillers, animations>>
  BY <1>1, LectureSobre DEF Inv
<1>3. /\ q.cmd \notin Interdites /\ Prevoit(q)
      /\ \A j \in Jeunes \ perturbes' : APlacer(q, j)'
      /\ \A j \in Jeunes \ perturbes', a \in AC \ perturbes' :
           /\ Inscription(q, j, a)'
           /\ Tient(o, q, j, a)
  BY <1>1, SuitePrevue DEF Tient
<1> QED
  BY <1>2, <1>3, ParticipantsSuivent

(* A command that moves nobody towards another agency, and registers nobody. *)
Sedentaire(op) ==
  /\ op.cmd \notin Interdites \cup {"transferer"}
  /\ \A w \in op.ecritures : w.table # "animation"

LEMMA SedentairePrevue ==
  ASSUME NEW op, Sedentaire(op)
  PROVE  /\ op.cmd \notin Interdites /\ Prevoit(op)
         /\ \A j : APlacer(op, j)'
         /\ \A j, a : Inscription(op, j, a)'
         /\ \A j, a, g : ~ADesinscrire(op, j, a, g)
BY DEF Sedentaire, Prevoit, Prevue, APlacer, Inscription, ADesinscrire

LEMMA LibreInactive == \A j, a, g : ~ADesinscrire(Libre, j, a, g)
BY LibreOperation DEF ADesinscrire

LEMMA SedentaireRecue ==
  ASSUME Inv, Inv', InvEtablissements, InvParticipants, NEW o \in Ops, NEW op,
         Demarrer(o, op) \/ (Relire(o, op) /\ ops[o].cmd # "transferer"), Sedentaire(op)
  PROVE  InvParticipants'
<1>1. Lecture(o, op)
  BY DEF Demarrer, Relire
<1>2. \A j, a : Tient(o, op, j, a)
  BY LibreInactive DEF Demarrer, ADesinscrire, Tient
<1> QED
  BY <1>1, <1>2, SedentairePrevue, LectureParticipants

(* The commands that concern no group event.                                *)
LEMMA CommandesSedentaires ==
  ASSUME Sedentaires, Inv, Inv', InvEtablissements, InvParticipants, NEW o \in Ops,
         \/ SupprimerConseiller(o) \/ LireInitiaux(o)
         \/ SupprimerJeune(o) \/ ArchiverJeune(o) \/ ArchiverJeuneSupport(o)
         \/ CreerListe(o) \/ ModifierListe(o) \/ AjouterJeuneListe(o) \/ SupprimerListe(o)
  PROVE  InvParticipants'
<1>1. ops[o] \in Operation /\ Reguliere(ops[o])
  BY DEF Inv, Types
<1>2. \A op : Demarrer(o, op) /\ op.ecritures = {} /\ op.cmd \in Departs \cup {"supprimerConseiller"}
              => InvParticipants'
  BY SedentaireRecue DEF Sedentaire, Departs, Interdites
<1>3. \A cmd, w, lit, ecrit :
        /\ Demarrer(o, Prete(cmd, {w}, lit, ecrit)) /\ w.table # "animation"
        /\ cmd \in {"creerListe", "modifierListe", "ajouterJeuneListe", "supprimerListe"}
        => InvParticipants'
  <2>1. SUFFICES ASSUME NEW cmd, NEW w, NEW lit, NEW ecrit,
                        Demarrer(o, Prete(cmd, {w}, lit, ecrit)), w.table # "animation",
                        cmd \in {"creerListe", "modifierListe", "ajouterJeuneListe", "supprimerListe"}
                 PROVE  InvParticipants'
    OBVIOUS
  <2>2. Sedentaire(Prete(cmd, {w}, lit, ecrit))
    BY <2>1, PreteChamps DEF Sedentaire, Interdites
  <2> QED
    BY <2>1, <2>2, SedentaireRecue
<1>4. CASE SupprimerConseiller(o)
  BY <1>2, <1>4 DEF SupprimerConseiller, Libre
<1>5. CASE SupprimerJeune(o) \/ ArchiverJeune(o) \/ ArchiverJeuneSupport(o)
  BY <1>2, <1>5 DEF SupprimerJeune, ArchiverJeune, ArchiverJeuneSupport, Quitter, Departs, Libre
<1>6. CASE LireInitiaux(o)
  <2>1. ops[o].cmd = "supprimerConseiller"
    BY <1>1, <1>6 DEF LireInitiaux, Reguliere, Etapes, Departs
  <2>2. PICK op : /\ Relire(o, op) /\ op.cmd = ops[o].cmd
                  /\ op.ecritures = InitiauxEffaces(ops[o].qui)
    <3> DEFINE r == [ops[o] EXCEPT !.etape = "compte",
                       !.ecritures = InitiauxEffaces(ops[o].qui),
                       !.lit = @ \cup Dossiers(Origine(ops[o].qui)),
                       !.ecrit = @ \cup Origine(ops[o].qui)]
    <3>1. Relire(o, r)
      BY <1>6 DEF LireInitiaux
    <3>2. r.cmd = ops[o].cmd /\ r.ecritures = InitiauxEffaces(ops[o].qui)
      BY <1>1 DEF Operation
    <3> HIDE DEF r
    <3> QED
      BY <3>1, <3>2
  <2>3. \A w \in op.ecritures : w.table # "animation"
    BY <2>2 DEF InitiauxEffaces
  <2>4. Sedentaire(op)
    BY <2>1, <2>2, <2>3 DEF Sedentaire, Interdites
  <2> QED
    BY <2>1, <2>2, <2>4, SedentaireRecue
<1>7. CASE CreerListe(o)
  <2>1. PICK c, l, js :
          Demarrer(o, Prete("creerListe", {EcritureListe(l, c, js)}, Dossiers(js) \cup {c}, {l}))
    BY <1>7, Zenon DEF CreerListe
  <2>2. EcritureListe(l, c, js).table # "animation"
    BY DEF EcritureListe
  <2> QED
    BY <1>3, <2>1, <2>2
<1>8. CASE ModifierListe(o)
  <2>1. PICK l \in Listes :
          \E js \in SUBSET (SuivisPar(listes[l].conseiller) \cup Origine(listes[l].conseiller)) :
            Demarrer(o, Prete("modifierListe", {EcritureListe(l, listes[l].conseiller, js)},
                              Dossiers(js) \cup {listes[l].conseiller, l}, {l}))
    BY <1>8 DEF ModifierListe
  <2>2. PICK js : Demarrer(o, Prete("modifierListe", {EcritureListe(l, listes[l].conseiller, js)},
                              Dossiers(js) \cup {listes[l].conseiller, l}, {l}))
    BY <2>1
  <2>3. EcritureListe(l, listes[l].conseiller, js).table # "animation"
    BY DEF EcritureListe
  <2> QED
    BY <1>3, <2>2, <2>3
<1>9. CASE AjouterJeuneListe(o)
  <2>1. PICK l, j : Demarrer(o, Prete("ajouterJeuneListe",
              {[table |-> "membres", id |-> l, jeunes |-> {j}, ajout |-> TRUE]},
              Dossiers({j}) \cup {l}, {l}))
    BY <1>9, Zenon DEF AjouterJeuneListe
  <2> DEFINE w == [table |-> "membres", id |-> l, jeunes |-> {j}, ajout |-> TRUE]
  <2>2. Demarrer(o, Prete("ajouterJeuneListe", {w}, Dossiers({j}) \cup {l}, {l}))
        /\ w.table # "animation"
    BY <2>1
  <2> HIDE DEF w
  <2> QED
    BY <1>3, <2>2
<1>10. CASE SupprimerListe(o)
  <2>1. PICK l \in Listes :
          Demarrer(o, Prete("supprimerListe", {[table |-> "suppression liste", id |-> l]}, {l}, {l}))
    BY <1>10 DEF SupprimerListe
  <2> DEFINE w == [table |-> "suppression liste", id |-> l]
  <2>2. Demarrer(o, Prete("supprimerListe", {w}, {l}, {l})) /\ w.table # "animation"
    BY <2>1
  <2> HIDE DEF w
  <2> QED
    BY <1>3, <2>2
<1> QED
  BY <1>4, <1>5, <1>6, <1>7, <1>8, <1>9, <1>10

(* The commands that are not received.                                      *)
LEMMA CommandesInterdites ==
  ASSUME Sedentaires, Inv, InvParticipants, NEW o \in Ops
  PROVE  /\ ~Recuperer(o) /\ ~ChangerAgence(o) /\ ~ModifierConseiller(o)
         /\ ~LireConseiller(o) /\ ~SauverAgence(o) /\ ~EcrireConseiller(o)
<1>1. /\ ops[o].cmd \notin Interdites /\ ops[o] \in Operation /\ Reguliere(ops[o])
  BY DEF InvParticipants, AgencesFixes, Inv, Types
<1>2. \A op : Demarrer(o, op) => op.cmd \notin Interdites
  BY DEF Demarrer, Sedentaires
<1>2a. \A ecritures, lit, ecrit :
         /\ ~Demarrer(o, Prete("recuperer", ecritures, lit, ecrit))
         /\ ~Demarrer(o, Prete("modifierConseiller", ecritures, lit, ecrit))
  BY <1>2, PreteChamps DEF Interdites
<1>3. ~Recuperer(o)
  BY <1>2a DEF Recuperer
<1>4. ~ChangerAgence(o)
  <2>1. SUFFICES ASSUME ChangerAgence(o) PROVE FALSE
    OBVIOUS
  <2> DEFINE op(nouvelle, cs) ==
        [Libre EXCEPT !.cmd = "changerAgence", !.etape = "conseillers",
                      !.nouvelle = nouvelle, !.aFaire = cs]
  <2>2. PICK nouvelle, cs : Demarrer(o, op(nouvelle, cs))
    BY <2>1, Zenon DEF ChangerAgence
  <2>3. op(nouvelle, cs).cmd = "changerAgence"
    BY DEF Libre
  <2> HIDE DEF op
  <2> QED
    BY <1>2, <2>2, <2>3 DEF Interdites
<1>5. ~ModifierConseiller(o)
  BY <1>2a DEF ModifierConseiller
<1>6. ~LireConseiller(o)
  <2>1. ops[o].etape = "conseillers" => ops[o].cmd = "changerAgence"
    BY <1>1 DEF Reguliere, Etapes, Departs
  <2>2. LireConseiller(o) => ops[o].etape = "conseillers"
    BY <1>1 DEF LireConseiller, Operation
  <2> QED
    BY <1>1, <2>1, <2>2 DEF Interdites
<1>7. ~SauverAgence(o)
  BY <1>1 DEF SauverAgence, Interdites
<1>8. ~EcrireConseiller(o)
  BY <1>1 DEF EcrireConseiller, EnAttente, Reguliere, Annoncee, Interdites
<1> QED
  BY <1>3, <1>4, <1>5, <1>6, <1>7, <1>8

(* A transfer is received.                                                  *)
LEMMA TransfererParticipants ==
  ASSUME Sedentaires, Inv, Inv', InvEtablissements, InvParticipants, NEW o \in Ops, Transferer(o)
  PROVE  InvParticipants'
<1>1. PICK source \in {c \in Conseillers : Existe(c)}, cible \in {c \in Conseillers : Existe(c)},
            temporaire \in BOOLEAN :
        \E js \in (SUBSET SuivisPar(source)) \ {{}} :
          LET ligne(j) == [conseiller |-> cible,
                           initial |-> mapConseillerInitial(jeunes[j], source, cible, temporaire)]
              transfert == [source |-> source, cible |-> cible,
                            type |-> IF temporaire THEN "temporaire" ELSE "definitif"]
          IN /\ Demarrer(o, [Libre EXCEPT
                  !.cmd = "transferer", !.etape = "jeunes", !.qui = source,
                  !.temporaire = temporaire, !.jeunes = js,
                  !.quittee = AgenceQuittee(source, cible),
                  !.ecritures = {EcritureChat(transfert, {[id |-> j, ligne |-> ligne(j)] : j \in js})},
                  !.lit = Dossiers(js) \cup {cible}, !.ecrit = js])
             /\ UNCHANGED uuids
  BY Zenon DEF Transferer
<1> DEFINE ligne(j) == [conseiller |-> cible,
                        initial |-> mapConseillerInitial(jeunes[j], source, cible, temporaire)]
           transfert == [source |-> source, cible |-> cible,
                         type |-> IF temporaire THEN "temporaire" ELSE "definitif"]
           lignes(js) == {[id |-> j, ligne |-> ligne(j)] : j \in js}
           op(js) == [Libre EXCEPT
                  !.cmd = "transferer", !.etape = "jeunes", !.qui = source,
                  !.temporaire = temporaire, !.jeunes = js,
                  !.quittee = AgenceQuittee(source, cible),
                  !.ecritures = {EcritureChat(transfert, lignes(js))},
                  !.lit = Dossiers(js) \cup {cible}, !.ecrit = js]
<1>2. PICK js \in (SUBSET SuivisPar(source)) \ {{}} : Demarrer(o, op(js)) /\ uuids' = uuids
  BY <1>1
<1> DEFINE w == EcritureChat(transfert, lignes(js))
<1>3. /\ op(js).cmd = "transferer" /\ op(js).etape = "jeunes" /\ op(js).qui = source
      /\ op(js).quittee = AgenceQuittee(source, cible) /\ op(js).ecritures = {w}
  BY DEF Libre
<1>4. w.table = "chat" /\ w.lignes = lignes(js)
  BY DEF EcritureChat
<1>5. PICK q : q = op(js)
  OBVIOUS
<1>6. \A l \in lignes(js) : l.id \in js /\ l.ligne.conseiller = cible
  OBVIOUS
<1> HIDE DEF op, w, lignes, transfert
<1>7. Lecture(o, q) /\ ops[o] = Libre /\ jeunes' = jeunes
  BY <1>2, <1>5 DEF Demarrer, Lecture, donnees
<1>8. Vers(q, cible)
  <2>1. /\ conseillers[source] = AgenceInitiale[source] /\ AgenceInitiale[source] # Aucun
        /\ conseillers[cible] = AgenceInitiale[cible] /\ AgenceInitiale[cible] # Aucun
    BY DEF InvParticipants, AgencesFixes, Existe, Sedentaires
  <2> QED
    BY <1>3, <1>5, <2>1 DEF Vers, AgenceQuittee
<1>9. PICK v : v = w
  OBVIOUS
<1>10. /\ q.ecritures = {v} /\ q.cmd = "transferer" /\ q.qui = source /\ v.table = "chat"
       /\ \A l \in v.lignes : l.id \in js /\ l.ligne.conseiller = cible
  BY <1>3, <1>4, <1>5, <1>6, <1>9
<1>11. Prevoit(q)
  BY <1>8, <1>10 DEF Prevoit, Prevue, Vers
<1>12. \A j : APlacer(q, j)'
  <2>1. \A j \in js : jeunes[j].conseiller = source
    BY DEF SuivisPar
  <2> QED
    BY <1>7, <1>10, <2>1 DEF APlacer, SurChat, SurRang
<1>13. \A j, a : Inscription(q, j, a)'
  BY <1>10 DEF Inscription
<1>14. \A j, a : Tient(o, q, j, a)
  BY <1>7, LibreInactive DEF Tient
<1>15. q.cmd \notin Interdites
  BY <1>10 DEF Interdites
<1> QED
  BY <1>7, <1>11, <1>12, <1>13, <1>14, <1>15, LectureParticipants

(* It goes on to the group events of the agency that is left: those who     *)
(* stay in them are followed there, for whoever else is to be taken out of  *)
(* them is concerned by another transfer.                                   *)
LEMMA LireAnimationsParticipants ==
  ASSUME Inv, Inv', InvEtablissements, InvParticipants, NEW o \in Ops, LireAnimations(o)
  PROVE  InvParticipants'
<1> DEFINE op == ops[o]
           acs == {a \in AC : animations[a] # Absent /\ animations[a].agence = op.quittee}
           js == UNION {animations[a].jeunes : a \in acs}
           ligne(a) == [animations[a] EXCEPT !.jeunes = @ \ op.jeunes]
           ecritures == {[table |-> "animation", id |-> a, lignes |-> <<ligne(a)>>] : a \in acs}
           suivante == [op EXCEPT !.etape = "animations", !.ecritures = ecritures,
                          !.lit = @ \cup acs \cup Dossiers(js), !.ecrit = @ \cup acs]
<1>1. /\ op.cmd = "transferer" /\ op.etape = "jeunes" /\ op.quittee # Aucun /\ Relire(o, suivante)
  BY DEF LireAnimations
<1>2. op \in Operation /\ Types
  BY DEF Inv, Types
<1>3. \A a \in acs : /\ a \in AC /\ animations[a] # Absent /\ animations[a].agence = op.quittee
                      /\ ligne(a).jeunes = animations[a].jeunes \ op.jeunes
                      /\ ligne(a).agence = op.quittee
                      /\ animations[a].jeunes \subseteq js
  BY <1>2 DEF Types, Animation
<1>4. js \subseteq Dossiers(js) /\ \A a \in AC : animations[a] # Absent /\ animations[a].agence = op.quittee => a \in acs
  BY DEF Dossiers
<1>5. /\ suivante.cmd = "transferer" /\ suivante.etape = "animations"
      /\ suivante.ecritures = ecritures /\ Dossiers(js) \subseteq suivante.lit
      /\ suivante.jeunes = op.jeunes /\ suivante.quittee = op.quittee
  BY <1>1, <1>2 DEF Operation
<1>6. \A w \in ecritures : /\ w.table = "animation" /\ w.id \in acs /\ w.lignes = <<ligne(w.id)>>
  OBVIOUS
<1>7. \A a \in acs : \E w \in ecritures : w.table = "animation" /\ w.id = a
  <2>1. SUFFICES ASSUME NEW a \in acs
                 PROVE  \E w \in ecritures : w.table = "animation" /\ w.id = a
    OBVIOUS
  <2>2. PICK w : w = [table |-> "animation", id |-> a, lignes |-> <<ligne(a)>>]
    OBVIOUS
  <2>3. w \in ecritures /\ w.table = "animation" /\ w.id = a
    BY <2>2
  <2> QED
    BY <2>3
<1> HIDE DEF suivante, ecritures, ligne, acs, js
<1>8. PICK q : q = suivante
  OBVIOUS
<1>9. /\ q.cmd = "transferer" /\ q.etape = "animations" /\ q.jeunes = op.jeunes
      /\ q.quittee = op.quittee /\ js \subseteq q.lit
      /\ \A w \in q.ecritures : /\ w.table = "animation" /\ w.id \in acs
                                /\ w.lignes = <<ligne(w.id)>>
      /\ \A a \in acs : \E w \in q.ecritures : w.table = "animation" /\ w.id = a
  BY <1>4, <1>5, <1>6, <1>7, <1>8
<1>10. Lecture(o, q) /\ ops[o].ecritures = {} /\ UNCHANGED <<jeunes, animations>>
       /\ perturbes \subseteq perturbes'
  BY <1>1, <1>8, ToutEstMarque DEF Relire, Lecture, donnees
<1>11. q.cmd \notin Interdites /\ Prevoit(q)
  <2>1. \A w \in q.ecritures : Len(w.lignes) = 1
    BY <1>9
  <2> QED
    BY <1>9, <2>1 DEF Interdites, Prevoit, Prevue
<1>12. \A j : APlacer(q, j)'
  BY <1>9 DEF APlacer, SurChat, SurRang
<1>13. ASSUME NEW j \in Jeunes \ perturbes', NEW a \in AC \ perturbes'
       PROVE  Inscription(q, j, a)'
  <2>1. SUFFICES ASSUME NEW w \in q.ecritures, w.id = a, j \in w.lignes[1].jeunes
                 PROVE  Etablissement(j)' = w.lignes[1].agence
    BY DEF Inscription
  <2>2. a \in acs /\ w.lignes[1] = ligne(a)
    BY <1>9, <2>1
  <2>3. /\ j \in animations[a].jeunes /\ j \notin op.jeunes /\ animations[a] # Absent
        /\ w.lignes[1].agence = animations[a].agence /\ j \in q.lit
    BY <1>3, <1>9, <2>1, <2>2
  <2>4. \A p \in Ops \ {o} : j \notin ops[p].ecrit
    <3>1. q.cmd \notin Departs /\ j \in q.lit \cup q.ecrit /\ j \notin perturbes'
      BY <1>9, <2>3 DEF Departs
    <3> QED
      BY <1>2, <1>10, <3>1, LuSeul
  <2>5. \A p \in Ops : \A g : ~ADesinscrire(ops[p], j, a, g)
    <3>1. \A p \in Ops : ops[p].cmd = "transferer" => ops[p].jeunes = ops[p].ecrit \cap Jeunes
      BY DEF Inv, Reguliere
    <3> QED
      BY <2>3, <2>4, <3>1 DEF ADesinscrire
  <2>6. Demeure(j, a)
    BY <1>10 DEF InvParticipants
  <2>7. Etablissement(j) = animations[a].agence
    BY <2>3, <2>5, <2>6 DEF Demeure
  <2> QED
    BY <1>10, <2>3, <2>7 DEF Etablissement
<1>14. \A j \in Jeunes, a \in AC : Tient(o, q, j, a)
  <2>1. SUFFICES ASSUME NEW j \in Jeunes, NEW a \in AC, animations[a] # Absent,
                        ADesinscrire(ops[o], j, a, animations[a].agence)
                 PROVE  ADesinscrire(q, j, a, animations[a].agence)
    BY DEF Tient
  <2>2. a \in acs
    BY <1>4, <2>1 DEF ADesinscrire
  <2> QED
    BY <1>9, <2>1, <2>2 DEF ADesinscrire
<1> QED
  BY <1>10, <1>11, <1>12, <1>13, <1>14, LectureParticipants

(* A group event is written with young people of its agency.                *)
LEMMA AgenceLue ==
  ASSUME Inv, InvParticipants, NEW agence, NEW j \in JeunesDeLAgence(agence)
  PROVE  Etablissement(j) = agence
<1>1. j \in Presents /\ conseillers[jeunes[j].conseiller] = agence
  BY DEF JeunesDeLAgence, AgenceDuJeune
<1>2. Existe(jeunes[j].conseiller)
  BY <1>1 DEF Inv, References, Nommes
<1>3. jeunes[j].conseiller \in Conseillers
  BY <1>1 DEF Inv, Types, Presents, LigneJeune
<1> QED
  BY <1>1, <1>2, <1>3 DEF InvParticipants, AgencesFixes, Etablissement, Existe

LEMMA UneInscription ==
  ASSUME Inv, Inv', InvEtablissements, InvParticipants, NEW o \in Ops, NEW cmd,
         cmd \notin Interdites \cup {"transferer"}, NEW a, NEW ligne, NEW lit, NEW ecrit,
         \A j \in ligne.jeunes : Etablissement(j) = ligne.agence,
         Demarrer(o, Prete(cmd, {EcritureAnimation(a, <<ligne>>)}, lit, ecrit))
  PROVE  InvParticipants'
<1>1. PICK w : w = EcritureAnimation(a, <<ligne>>)
  OBVIOUS
<1>2. w.lignes = <<ligne>> /\ Len(w.lignes) = 1 /\ w.lignes[1] = ligne
  BY <1>1 DEF EcritureAnimation
<1>3. PICK q : q = Prete(cmd, {w}, lit, ecrit)
  OBVIOUS
<1>4. q.cmd = cmd /\ q.ecritures = {w}
  BY <1>3, PreteChamps
<1>5. Lecture(o, q) /\ ops[o] = Libre /\ jeunes' = jeunes
  BY <1>1, <1>3 DEF Demarrer, Lecture, donnees
<1>6. Prevoit(q) /\ q.cmd \notin Interdites
  BY <1>2, <1>4 DEF Prevoit, Prevue
<1>7. \A j : APlacer(q, j)'
  BY <1>4 DEF APlacer
<1>8. \A j, b : Inscription(q, j, b)'
  BY <1>2, <1>4, <1>5 DEF Inscription, Etablissement
<1>9. \A j, b : Tient(o, q, j, b)
  BY <1>5, LibreInactive DEF Tient
<1> QED
  BY <1>5, <1>6, <1>7, <1>8, <1>9, LectureParticipants

LEMMA CreerAnimationParticipants ==
  ASSUME Inv, Inv', InvEtablissements, InvParticipants, NEW o \in Ops, CreerAnimation(o)
  PROVE  InvParticipants'
<1>1. PICK c \in {d \in Conseillers : conseillers[d] \in Agences}, a \in AC \ uuids :
        \E js \in SUBSET JeunesDeLAgence(conseillers[c]) :
          Demarrer(o, Prete("creerAnimation",
            {EcritureAnimation(a, <<[agence |-> conseillers[c], createur |-> c, jeunes |-> js]>>)},
            Dossiers(js) \cup {c}, {a}))
  BY DEF CreerAnimation
<1> DEFINE ligne(js) == [agence |-> conseillers[c], createur |-> c, jeunes |-> js]
<1>2. PICK js \in SUBSET JeunesDeLAgence(conseillers[c]) :
        Demarrer(o, Prete("creerAnimation", {EcritureAnimation(a, <<ligne(js)>>)},
                          Dossiers(js) \cup {c}, {a}))
  BY <1>1
<1>3. ligne(js).agence = conseillers[c] /\ ligne(js).jeunes = js
  OBVIOUS
<1> HIDE DEF ligne
<1>4. \A j \in ligne(js).jeunes : Etablissement(j) = ligne(js).agence
  BY <1>3, AgenceLue
<1> QED
  BY <1>2, <1>4, UneInscription DEF Interdites

LEMMA ModifierAnimationParticipants ==
  ASSUME Inv, Inv', InvEtablissements, InvParticipants, NEW o \in Ops, ModifierAnimation(o)
  PROVE  InvParticipants'
<1>1. PICK a \in {b \in AC : animations[b] # Absent} :
        \E js \in SUBSET JeunesDeLAgence(animations[a].agence) :
          Demarrer(o, Prete("modifierAnimation",
            {EcritureAnimation(a, <<[animations[a] EXCEPT !.jeunes = js]>>)},
            Dossiers(js) \cup {a}, {a}))
  BY DEF ModifierAnimation
<1> DEFINE ligne(js) == [animations[a] EXCEPT !.jeunes = js]
<1>2. PICK js \in SUBSET JeunesDeLAgence(animations[a].agence) :
        Demarrer(o, Prete("modifierAnimation", {EcritureAnimation(a, <<ligne(js)>>)},
                          Dossiers(js) \cup {a}, {a}))
  BY <1>1
<1>3. animations[a] \in Animation
  BY DEF Inv, Types
<1>4. ligne(js).jeunes = js /\ ligne(js).agence = animations[a].agence
  BY <1>3 DEF Animation
<1> HIDE DEF ligne
<1>5. \A j \in ligne(js).jeunes : Etablissement(j) = ligne(js).agence
  BY <1>4, AgenceLue
<1> QED
  BY <1>2, <1>5, UneInscription DEF Interdites

(* The lists come last: nothing is left to take out of a group event.       *)
LEMMA LireListesParticipants ==
  ASSUME Inv, Inv', InvEtablissements, InvParticipants, NEW o \in Ops, LireListes(o)
  PROVE  InvParticipants'
<1> DEFINE op == ops[o]
           concernees == {l \in Listes : /\ listes[l] # Absent
                                         /\ listes[l].conseiller = op.qui
                                         /\ listes[l].jeunes \cap op.jeunes # {}}
           ecritures == {[table |-> "liste", id |-> l,
                          ligne |-> [listes[l] EXCEPT !.jeunes = @ \ op.jeunes]] : l \in concernees}
           suivante == [op EXCEPT !.etape = "listes", !.ecritures = ecritures,
                          !.lit = @ \cup concernees \cup Dossiers(UNION {listes[l].jeunes : l \in concernees}),
                          !.ecrit = @ \cup concernees]
<1>1. /\ op.cmd = "transferer" /\ Relire(o, suivante)
      /\ op.etape = "animations" \/ (op.etape = "jeunes" /\ op.quittee = Aucun)
  BY DEF LireListes
<1>2. op \in Operation
  BY DEF Inv, Types
<1>3. \A w \in ecritures : w.table = "liste"
  OBVIOUS
<1>4. suivante.cmd = "transferer" /\ suivante.ecritures = ecritures
  BY <1>1, <1>2 DEF Operation
<1> HIDE DEF suivante, ecritures, concernees
<1>5. PICK q : q = suivante
  OBVIOUS
<1>6. q.cmd = "transferer" /\ \A w \in q.ecritures : w.table = "liste"
  BY <1>3, <1>4, <1>5
<1>7. Lecture(o, q) /\ ops[o].ecritures = {}
  BY <1>1, <1>5 DEF Relire
<1>8. Prevoit(q) /\ q.cmd \notin Interdites
  BY <1>6 DEF Prevoit, Prevue, Interdites
<1>9. \A j : APlacer(q, j)'
  BY <1>6 DEF APlacer, SurChat, SurRang
<1>10. \A j, a : Inscription(q, j, a)'
  BY <1>6 DEF Inscription
<1>11. \A j, a : Tient(o, q, j, a)
  BY <1>1, <1>7 DEF Tient, ADesinscrire
<1> QED
  BY <1>7, <1>8, <1>9, <1>10, <1>11, LectureParticipants

(* A command writes.                                                        *)
LEMMA EcrireParticipants ==
  ASSUME Inv, Inv', InvEtablissements, InvParticipants, NEW o \in Ops,
         NEW w \in ops[o].ecritures, NEW suites, Ecrire(o, w, suites), Effets(o),
         \A c \in Conseillers : conseillers'[c] \in {conseillers[c], Absent},
         w.table = "animation" => animations'[w.id] = w.lignes[1],
         \A v \in suites : /\ v.table \notin {"chat", "animation"}
                           /\ v.table = "jeune" => SurChat(w, v.id) /\ Prevue(ops[o], v),
         \A j \in Jeunes \ perturbes :
           \/ jeunes'[j] \in {jeunes[j], Absent}
           \/ SurRang(w, j) /\ \A a \in AC \ perturbes : Demeure(j, a)'
  PROVE  InvParticipants'
<1>1. PICK r : Reprise(o, w, suites, r)
  BY EcrireReprend DEF Inv
<1>2. PICK q : q = Poursuivre(r)
  OBVIOUS
<1>3. /\ ops'[o] = q /\ Isole(o) /\ perturbes' = perturbes
      /\ r.cmd = ops[o].cmd /\ r.etape = ops[o].etape /\ r.qui = ops[o].qui
      /\ r.jeunes = ops[o].jeunes /\ r.quittee = ops[o].quittee
      /\ r.ecritures = (ops[o].ecritures \ {w}) \cup suites
  BY <1>1, <1>2 DEF Reprise, Cours, Isole
<1>4. /\ Reguliere(ops[o]) /\ Programme(ops[o]) /\ Prevoit(ops[o])
      /\ ops[o].cmd \notin Interdites
  BY DEF Inv, InvEtablissements, Etablie, InvParticipants, AgencesFixes
<1>5. Prevoit(r)
  <2>1. \A v \in r.ecritures : Prevue(ops[o], v)
    BY <1>3, <1>4 DEF Prevoit, Prevue
  <2> QED
    BY <1>3, <2>1 DEF Prevoit, Prevue, Vers
<1>6. ASSUME NEW j \in Jeunes \ perturbes
      PROVE  APlacer(r, j)'
  <2>1. SUFFICES ASSUME r.cmd = "transferer", NEW v \in r.ecritures, SurChat(v, j) \/ SurRang(v, j)
                 PROVE  jeunes'[j].conseiller = r.qui
    BY DEF APlacer, SurChat, SurRang
  <2>2. (v \in ops[o].ecritures /\ v # w) \/ (SurRang(v, j) /\ SurChat(w, j))
    BY <1>3, <2>1 DEF SurChat, SurRang
  <2>3. jeunes[j].conseiller = ops[o].qui
    BY <1>3, <2>1, <2>2 DEF InvParticipants, APlacer
  <2>4. jeunes'[j] # Absent
    <3>1. EnCours(ops'[o], j, jeunes'[j], chats'[j])
      BY <1>3 DEF Inv, Jeune, Suivie, EnCours
    <3>2. ops'[o] = r
      BY <1>2, <1>3, <2>1 DEF Poursuivre
    <3> QED
      BY <2>1, <3>1, <3>2 DEF EnCours, Concerne
  <2>5. ~SurRang(w, j)
    <3>1. EnCours(ops[o], j, jeunes[j], chats[j])
      BY DEF Inv, Jeune, Suivie
    <3>2. ~(SurRang(w, j) /\ SurChat(w, j))
      BY DEF SurRang, SurChat
    <3> QED
      BY <2>1, <2>2, <3>1, <3>2 DEF EnCours, Concerne
  <2> QED
    BY <1>3, <2>3, <2>4, <2>5
<1>7. ASSUME NEW j \in Jeunes \ perturbes, NEW a \in AC \ perturbes
      PROVE  Inscription(r, j, a)'
  <2>1. SUFFICES ASSUME NEW v \in r.ecritures, v.table = "animation", v.id = a,
                        j \in v.lignes[1].jeunes, j \in Presents'
                 PROVE  Etablissement(j)' = v.lignes[1].agence
    BY DEF Inscription
  <2>2. v \in ops[o].ecritures
    BY <1>3, <2>1
  <2>3. w.table = "animation"
    BY <1>4, <2>1, <2>2 DEF Programme
  <2>4. jeunes'[j] = jeunes[j]
    BY <2>1, <2>3 DEF SurRang, Presents
  <2>5. Etablissement(j) = v.lignes[1].agence
    BY <2>1, <2>2, <2>4 DEF InvParticipants, Inscription, Presents
  <2> QED
    BY <2>4, <2>5 DEF Etablissement
<1>8. ASSUME NEW j \in Jeunes \ perturbes, NEW a \in AC \ perturbes
      PROVE  Tient(o, r, j, a)
  <2>1. SUFFICES ASSUME animations[a] # Absent, ADesinscrire(ops[o], j, a, animations[a].agence),
                        ~Enregistre(o, a)
                 PROVE  ADesinscrire(r, j, a, animations[a].agence)
    BY DEF Tient
  <2>2. CASE ops[o].etape = "jeunes" /\ \A v \in ops[o].ecritures : v.table # "chat"
    <3>1. \A v \in r.ecritures : v.table # "chat"
      BY <1>3, <2>2
    <3> QED
      BY <1>3, <2>1, <2>2, <3>1 DEF ADesinscrire
  <2>3. CASE ops[o].etape = "animations"
             /\ \E v \in ops[o].ecritures : v.table = "animation" /\ v.id = a
    <3>1. PICK v \in ops[o].ecritures : v.table = "animation" /\ v.id = a
      BY <2>3
    <3>2. v # w
      BY <2>1, <3>1 DEF Enregistre
    <3> QED
      BY <1>3, <2>1, <2>3, <3>1, <3>2 DEF ADesinscrire
  <2> QED
    BY <2>1, <2>2, <2>3 DEF ADesinscrire
<1>9. /\ q.cmd \notin Interdites /\ Prevoit(q)
      /\ \A j \in Jeunes \ perturbes' : APlacer(q, j)'
      /\ \A j \in Jeunes \ perturbes', a \in AC \ perturbes' :
           Inscription(q, j, a)' /\ Tient(o, q, j, a)
  BY <1>2, <1>3, <1>4, <1>5, <1>6, <1>7, <1>8, SuitePrevue DEF Tient
<1> QED
  BY <1>3, <1>9, ParticipantsSuivent

LEMMA EcrireSansMouvement ==
  ASSUME Inv, Inv', InvEtablissements, InvParticipants, NEW o \in Ops,
         NEW w \in ops[o].ecritures, w.table # "animation",
         NEW suites, \A v \in suites : v.table \notin {"chat", "animation", "jeune"},
         Ecrire(o, w, suites), UNCHANGED <<jeunes, conseillers, animations>>
  PROVE  InvParticipants'
BY EcrireParticipants, SansEffet

LEMMA EcrituresSansMouvement ==
  ASSUME Inv, Inv', InvEtablissements, InvParticipants, NEW o \in Ops,
         \/ EcrireTransfert(o) \/ EcrireListe(o) \/ EcrireMembres(o) \/ DetruireListe(o)
         \/ DetruireChat(o) \/ DetruireArchives(o) \/ EcrireArchive(o)
  PROVE  InvParticipants'
<1>1. CASE EcrireTransfert(o) \/ EcrireMembres(o) \/ DetruireListe(o) \/ DetruireChat(o)
  <2>1. PICK w \in ops[o].ecritures :
          w.table # "animation" /\ Ecrire(o, w, {})
          /\ UNCHANGED <<jeunes, conseillers, animations>>
    BY <1>1 DEF EcrireTransfert, EcrireMembres, DetruireListe, DetruireChat, EnAttente
  <2> QED
    BY <2>1, EcrireSansMouvement
<1>2. CASE EcrireListe(o)
  <2>1. PICK w \in ops[o].ecritures :
          w.table = "liste" /\ Ecrire(o, w, {[table |-> "membres", id |-> w.id,
                                   jeunes |-> w.ligne.jeunes, ajout |-> FALSE]})
          /\ UNCHANGED <<jeunes, conseillers, animations>>
    BY <1>2 DEF EcrireListe, EnAttente
  <2>2. PICK suites : suites = {[table |-> "membres", id |-> w.id,
                                 jeunes |-> w.ligne.jeunes, ajout |-> FALSE]}
    OBVIOUS
  <2>3. \A v \in suites : v.table \notin {"chat", "animation", "jeune"}
    BY <2>2
  <2>4. w.table # "animation" /\ Ecrire(o, w, suites)
    BY <2>1, <2>2
  <2> QED
    BY <2>1, <2>3, <2>4, EcrireSansMouvement
<1>3. CASE DetruireArchives(o) \/ EcrireArchive(o)
  <2>1. PICK w \in ops[o].ecritures, table \in {"archive", "suppression jeune"} :
          w.table # "animation" /\ Ecrire(o, w, Sur(table, {w.id}))
          /\ UNCHANGED <<jeunes, conseillers, animations>>
    BY <1>3 DEF DetruireArchives, EcrireArchive, EnAttente
  <2>2. PICK suites : suites = Sur(table, {w.id})
    OBVIOUS
  <2>3. \A v \in suites : v.table \notin {"chat", "animation", "jeune"}
    BY <2>2, SurUneTable
  <2> QED
    BY <2>1, <2>2, <2>3, EcrireSansMouvement
<1> QED
  BY <1>1, <1>2, <1>3

(* A group event is written.                                                *)
LEMMA EcrireAnimationParticipants ==
  ASSUME Inv, Inv', InvEtablissements, InvParticipants, NEW o \in Ops, EcrireAnimation(o)
  PROVE  InvParticipants'
<1>1. PICK w \in ops[o].ecritures :
        /\ w.table = "animation" /\ animations' = [animations EXCEPT ![w.id] = Head(w.lignes)]
        /\ Ecrire(o, w, IF Len(w.lignes) = 1 THEN {} ELSE {EcritureAnimation(w.id, Tail(w.lignes))})
        /\ UNCHANGED <<jeunes, conseillers>>
  BY DEF EcrireAnimation, EnAttente
<1>2. Len(w.lignes) = 1
  BY <1>1 DEF InvParticipants, Prevoit, Prevue
<1>3. Ecrire(o, w, {})
  BY <1>1, <1>2
<1>4. w.id \in AC /\ w.lignes \in Seq(Animation) /\ Types
  BY <1>1, EcritureTypes DEF Inv, Types, Operation
<1>5. Head(w.lignes) = w.lignes[1] /\ 1 \in 1..Len(w.lignes)
  BY <1>2, <1>4
<1>6. animations'[w.id] = w.lignes[1] /\ \A a \in AC \ {w.id} : animations'[a] = animations[a]
  BY <1>1, <1>4, <1>5 DEF Types
<1>7. Effets(o)
  BY <1>1, <1>5, <1>6 DEF Effets
<1> QED
  BY <1>1, <1>3, <1>6, <1>7, EcrireParticipants

(* Rows that disappear.                                                     *)
LEMMA EffacementsParticipants ==
  ASSUME Inv, Inv', InvEtablissements, InvParticipants, NEW o \in Ops,
         DetruireConseiller(o) \/ DetruireJeune(o)
  PROVE  InvParticipants'
<1>1. Types /\ Reguliere(ops[o])
  BY DEF Inv
<1> DEFINE Fait(w, js, cs, suites) ==
        /\ w \in ops[o].ecritures /\ w.table # "animation"
        /\ Ecrire(o, w, suites) /\ Effacer(js, cs) /\ cs \subseteq ops[o].ecrit
        /\ \A v \in suites : v.table \notin {"chat", "animation", "jeune"}
<1>2. PICK w, js, cs, suites : Fait(w, js, cs, suites)
  <2>1. CASE DetruireConseiller(o)
    <3>1. PICK w \in ops[o].ecritures :
            w.table = "suppression conseiller" /\ Ecrire(o, w, {})
            /\ Effacer(EmportesPar(w.id), {w.id})
      BY <2>1 DEF DetruireConseiller, EnAttente
    <3>2. Annoncee(ops[o], w)
      BY <1>1 DEF Reguliere
    <3>3. {w.id} \subseteq ops[o].ecrit
      BY <1>1, <3>1, <3>2 DEF Annoncee, Reguliere
    <3>4. Fait(w, EmportesPar(w.id), {w.id}, {})
      BY <3>1, <3>3
    <3> HIDE DEF Fait
    <3> QED
      BY <3>4
  <2>2. CASE DetruireJeune(o)
    <3>1. PICK w \in ops[o].ecritures :
            w.table = "suppression jeune" /\ Ecrire(o, w, Sur("suppression chat", {w.id}))
            /\ Effacer({w.id}, {})
      BY <2>2 DEF DetruireJeune, EnAttente
    <3>2. \A v \in Sur("suppression chat", {w.id}) : v.table \notin {"chat", "animation", "jeune"}
      BY SurUneTable
    <3>3. Fait(w, {w.id}, {}, Sur("suppression chat", {w.id}))
      BY <3>1, <3>2
    <3> HIDE DEF Fait
    <3> QED
      BY <3>3
  <2> QED
    BY <2>1, <2>2
<1>3. Effets(o)
  BY <1>1, <1>2, EffacerEffets
<1>4. /\ \A c \in Conseillers : conseillers'[c] \in {conseillers[c], Absent}
      /\ \A j \in Jeunes : jeunes'[j] \in {jeunes[j], Absent}
  BY <1>2 DEF Effacer
<1>5. \A v \in suites : /\ v.table \notin {"chat", "animation"}
                        /\ v.table = "jeune" => SurChat(w, v.id) /\ Prevue(ops[o], v)
  BY <1>2
<1> QED
  BY <1>2, <1>3, <1>4, <1>5, EcrireParticipants

(* The conversations move: the rows that follow lead where they were to.    *)
LEMMA EcrireChatParticipants ==
  ASSUME Inv, Inv', InvEtablissements, InvParticipants, NEW o \in Ops, EcrireChat(o)
  PROVE  InvParticipants'
<1>1. PICK w \in ops[o].ecritures :
        w.table = "chat" /\ Ecrire(o, w, SuitesDuChat(w))
        /\ UNCHANGED <<jeunes, conseillers, animations>>
  BY DEF EcrireChat, EnAttente
<1>2. w \in Ecriture /\ Prevue(ops[o], w)
  BY <1>1 DEF Inv, Types, Operation, InvParticipants, Prevoit
<1>3. PICK suites : suites = SuitesDuChat(w)
  OBVIOUS
<1>4. ASSUME NEW v \in suites
      PROVE  /\ v.table \notin {"chat", "animation"}
             /\ v.table = "jeune" => SurChat(w, v.id) /\ Prevue(ops[o], v)
  <2>1. (\E l \in w.lignes : v = RangDuChat(w, l)) \/ v = TraceDuChat(w)
    BY <1>1, <1>2, <1>3, SuitesDuChatTypes
  <2>2. CASE v = TraceDuChat(w)
    <3>1. v.table = "transfert"
      BY <1>1, <1>2, <2>2, SuitesDuChatTypes
    <3> QED
      BY <3>1
  <2>3. ASSUME NEW l \in w.lignes, v = RangDuChat(w, l)
        PROVE  v.table = "jeune" /\ SurChat(w, v.id) /\ Prevue(ops[o], v)
    <3>1. v.table = "jeune" /\ v.id = l.id /\ v.ligne = l.ligne
      BY <1>1, <1>2, <2>3, SuitesDuChatTypes
    <3> QED
      BY <1>1, <1>2, <3>1 DEF SurChat, Prevue
  <2> QED
    BY <2>1, <2>2, <2>3
<1>5. Effets(o) /\ Ecrire(o, w, suites)
  BY <1>1, <1>3, SansEffet
<1> QED
  BY <1>1, <1>4, <1>5, EcrireParticipants

(* A row is written: whoever leaves the agency by a transfer has still to   *)
(* be unregistered by it, for none of what comes before can be refused.     *)
LEMMA EcrireJeuneParticipants ==
  ASSUME Inv, Inv', InvEtablissements, InvListes, InvParticipants, NEW o \in Ops, EcrireJeune(o)
  PROVE  InvParticipants'
<1>1. PICK w \in ops[o].ecritures :
        w.table = "jeune" /\ Ecrire(o, w, {}) /\ jeunes' = [jeunes EXCEPT ![w.id] = w.ligne]
        /\ UNCHANGED <<conseillers, animations>>
  BY DEF EcrireJeune, EnAttente
<1>2. /\ Types /\ Isolement /\ Reguliere(ops[o]) /\ Annoncee(ops[o], w) /\ w.table \in Tables(ops[o])
      /\ Vivante(ops[o]) /\ Prevue(ops[o], w) /\ ops[o].cmd \notin Interdites
  BY DEF Inv, Reguliere, InvListes, InvParticipants, AgencesFixes, Prevoit
<1>3. w.id \in ops[o].ecrit /\ w.ligne.conseiller \in ops[o].lit
  BY <1>1, <1>2 DEF Annoncee
<1>4. \A j \in Jeunes : jeunes'[j] = jeunes[j] \/ (j = w.id /\ jeunes'[j] = w.ligne)
  BY <1>1, <1>2 DEF Types
<1>5. Effets(o)
  BY <1>1, <1>3, <1>4 DEF Effets
<1>6. ops[o].cmd \in {"transferer", "supprimerConseiller"}
  BY <1>1, <1>2 DEF Tables, Effacements, Interdites
<1>7. PICK suites : suites = {}
  OBVIOUS
<1>8. Ecrire(o, w, suites) /\ \A v \in suites : FALSE
  BY <1>1, <1>7
<1>9. PICK r : Reprise(o, w, suites, r)
  BY <1>2, <1>8, EcrireReprend
<1>10. /\ ops'[o] = Poursuivre(r) /\ r.cmd = ops[o].cmd /\ r.etape = ops[o].etape
       /\ r.jeunes = ops[o].jeunes /\ r.quittee = ops[o].quittee
       /\ r.ecritures = ops[o].ecritures \ {w}
       /\ \A p \in Ops \ {o} : ops'[p] = ops[p]
  BY <1>7, <1>9 DEF Reprise, Cours
<1>11. ASSUME NEW j \in Jeunes \ perturbes, j = w.id, NEW a \in AC \ perturbes
       PROVE  Demeure(j, a)'
  <2> DEFINE g == animations[a].agence
  <2>1. SUFFICES ASSUME animations[a] # Absent, j \in animations[a].jeunes,
                        Etablissement(j)' # g
                 PROVE  \E p \in Ops : ADesinscrire(ops'[p], j, a, g)
    BY <1>1 DEF Demeure, ADesinscrire
  <2>2. g \in Agences /\ g # Aucun
    BY <1>2, <2>1, ConstantsAssumption DEF Types, Animation
  <2> HIDE DEF g
  <2>3. jeunes'[j] = w.ligne /\ Etablissement(j)' = AgenceInitiale[w.ligne.conseiller]
    BY <1>1, <1>2, <1>11 DEF Types, Etablissement
  <2>4. Etablissement(j) # g => \E p \in Ops : ADesinscrire(ops[p], j, a, g)
    BY <2>1 DEF InvParticipants, Demeure, g
  <2>5. SurRang(w, j)
    BY <1>1, <1>11 DEF SurRang
  <2>6. CASE ops[o].cmd = "supprimerConseiller"
    <3>1. EnCours(ops[o], j, jeunes[j], chats[j])
      BY DEF Inv, Jeune, Suivie
    <3>2. w.ligne.conseiller = jeunes[j].conseiller
      BY <2>5, <2>6, <3>1 DEF EnCours
    <3>3. PICK p \in Ops : ADesinscrire(ops[p], j, a, g)
      BY <2>1, <2>3, <2>4, <3>2 DEF Etablissement
    <3>4. p # o
      BY <2>6, <3>3 DEF ADesinscrire
    <3> QED
      BY <1>10, <3>3, <3>4
  <2>7. CASE ops[o].cmd = "transferer"
    <3>1. j \in ops[o].jeunes
      BY <1>2, <1>3, <1>11, <2>7 DEF Reguliere
    <3>2. ops[o].etape = "jeunes"
      <4>1. ops[o].etape # "fin" /\ ops[o] # Libre
        BY <1>2, <2>7, <3>1, LibreOperation DEF Vivante
      <4> QED
        BY <1>1, <1>2, <2>7, <4>1 DEF Reguliere, Etapes, Tables, Departs
    <3>3. \A v \in ops[o].ecritures : v.table # "chat"
      BY <1>1, <1>2, <2>7 DEF Reguliere
    <3>4. ops[o].quittee = g
      <4>1. CASE Etablissement(j) = g
        <5>1. jeunes[j].conseiller = ops[o].qui
          BY <2>5, <2>7 DEF InvParticipants, APlacer
        <5> QED
          BY <1>1, <1>2, <2>1, <2>3, <2>7, <4>1, <5>1 DEF Prevue, Vers, Etablissement
      <4>2. CASE Etablissement(j) # g
        <5>1. PICK p \in Ops : ADesinscrire(ops[p], j, a, g)
          BY <2>4, <4>2
        <5>2. j \in ops[p].ecrit
          BY <5>1 DEF ADesinscrire, Inv, Reguliere
        <5>3. p = o
          BY <1>2, <1>3, <1>11, <2>7, <5>2, Seule DEF Departs
        <5> QED
          BY <5>1, <5>3 DEF ADesinscrire
      <4> QED
        BY <4>1, <4>2
    <3>5. ADesinscrire(r, j, a, g)
      BY <1>10, <2>2, <2>7, <3>1, <3>2, <3>3, <3>4 DEF ADesinscrire
    <3>6. ADesinscrire(ops'[o], j, a, g)
      BY <1>10, <3>5, SuitePrevue
    <3> QED
      BY <3>6
  <2> QED
    BY <1>6, <2>6, <2>7
<1>12. \A j \in Jeunes \ perturbes :
         \/ jeunes'[j] \in {jeunes[j], Absent}
         \/ SurRang(w, j) /\ \A a \in AC \ perturbes : Demeure(j, a)'
  BY <1>1, <1>4, <1>11 DEF SurRang
<1> QED
  BY <1>1, <1>5, <1>8, <1>12, EcrireParticipants

(* A command that goes on to leave, or stops: no row changes.               *)
LEMMA ImmobileParticipants ==
  ASSUME Inv, Inv', InvEtablissements, InvParticipants, NEW o \in Ops, NEW q,
         Isole(o), ops'[o] = q, UNCHANGED <<jeunes, conseillers, animations>>,
         q.cmd \notin Interdites,
         \/ Sedentaire(q)
         \/ \A v \in q.ecritures : /\ v \in ops[o].ecritures /\ q.cmd = ops[o].cmd
                                   /\ q.qui = ops[o].qui /\ q.quittee = ops[o].quittee,
         \A j \in Jeunes \ perturbes', a \in AC : \A g : ~ADesinscrire(ops[o], j, a, g)
  PROVE  InvParticipants'
<1>1. Effets(o) /\ perturbes \subseteq perturbes'
  BY SansEffet DEF Isole
<1>2. \A j \in Jeunes \ perturbes', a \in AC : Tient(o, q, j, a)
  BY DEF Tient
<1>3. /\ Prevoit(q) /\ \A j \in Jeunes \ perturbes' : APlacer(q, j)'
      /\ \A j \in Jeunes \ perturbes', a \in AC \ perturbes' : Inscription(q, j, a)'
  <2>1. CASE Sedentaire(q)
    BY <2>1, SedentairePrevue
  <2>2. CASE \A v \in q.ecritures : /\ v \in ops[o].ecritures /\ q.cmd = ops[o].cmd
                                    /\ q.qui = ops[o].qui /\ q.quittee = ops[o].quittee
    <3>1. Prevoit(q)
      <4>1. \A v \in q.ecritures : Prevue(ops[o], v)
        BY <2>2 DEF InvParticipants, Prevoit
      <4> QED
        BY <2>2, <4>1 DEF Prevoit, Prevue, Vers
    <3>2. ASSUME NEW j \in Jeunes \ perturbes'
          PROVE  APlacer(q, j)'
      <4>1. APlacer(ops[o], j)
        BY <1>1 DEF InvParticipants
      <4> QED
        BY <2>2, <4>1 DEF APlacer, SurChat, SurRang
    <3>3. ASSUME NEW j \in Jeunes \ perturbes', NEW a \in AC \ perturbes'
          PROVE  Inscription(q, j, a)'
      <4>1. Inscription(ops[o], j, a)
        BY <1>1 DEF InvParticipants
      <4> QED
        BY <2>2, <4>1 DEF Inscription, Presents, Etablissement
    <3> QED
      BY <3>1, <3>2, <3>3
  <2> QED
    BY <2>1, <2>2
<1> QED
  BY <1>1, <1>2, <1>3, ParticipantsSuivent

LEMMA DepartsParticipants ==
  ASSUME Inv, Inv', InvEtablissements, InvParticipants, NEW o \in Ops,
         SupprimerCompte(o) \/ LireConversation(o) \/ LireDossier(o) \/ PoursuivreSansArchive(o)
  PROVE  InvParticipants'
<1>1. ops[o] \in Operation /\ Reguliere(ops[o]) /\ Types /\ Reguliere(ops'[o])
  BY DEF Inv, Types
<1>2. UNCHANGED <<jeunes, conseillers, animations>>
  BY DEF SupprimerCompte, LireConversation, LireDossier, PoursuivreSansArchive, donnees
<1>3. Isole(o)
  BY <1>1 DEF SupprimerCompte, LireConversation, LireDossier, PoursuivreSansArchive, Types, Isole
<1>4. ops[o].cmd \in Departs \cup {"supprimerConseiller"}
  BY <1>1 DEF SupprimerCompte, LireConversation, LireDossier, PoursuivreSansArchive, EnArchivage,
     Reguliere, Etapes, Departs
<1>5. ops'[o].cmd = ops[o].cmd \/ ops'[o] = Libre
  <2>1. CASE SupprimerCompte(o)
    BY <1>1, <2>1 DEF SupprimerCompte, Operation, Types
  <2>2. CASE LireConversation(o)
    BY <1>1, <2>2 DEF LireConversation, Operation, Types
  <2>3. CASE LireDossier(o)
    BY <1>1, <2>3 DEF LireDossier, Poursuivre, Operation, Types
  <2>4. CASE PoursuivreSansArchive(o)
    BY <1>1, <2>4 DEF PoursuivreSansArchive, Operation, Types
  <2> QED
    BY <2>1, <2>2, <2>3, <2>4
<1>6. PICK q : q = ops'[o]
  OBVIOUS
<1>7. Sedentaire(q) \/ q.ecritures = {}
  <2>1. q = Libre => q.ecritures = {}
    BY LibreOperation
  <2>2. q.cmd = ops[o].cmd => Sedentaire(q)
    BY <1>1, <1>4, <1>6 DEF Sedentaire, Reguliere, Tables, Departs, Effacements, Interdites
  <2> QED
    BY <1>5, <1>6, <2>1, <2>2
<1>8. q.cmd \notin Interdites
  BY <1>4, <1>5, <1>6, LibreOperation DEF Interdites, Departs
<1>9. \A j, a, g : ~ADesinscrire(ops[o], j, a, g)
  BY <1>4 DEF ADesinscrire, Departs
<1> QED
  BY <1>2, <1>3, <1>6, <1>7, <1>8, <1>9, ImmobileParticipants

LEMMA AbandonParticipants ==
  ASSUME Inv, Inv', InvEtablissements, InvParticipants, NEW o \in Ops, Abandon(o)
  PROVE  InvParticipants'
<1>1. Types /\ Reguliere(ops[o])
  BY DEF Inv
<1>2. PICK q : q = Libre
  OBVIOUS
<1>3. /\ UNCHANGED <<jeunes, conseillers, animations>> /\ Isole(o) /\ ops'[o] = q
      /\ perturbes' = perturbes \cup ops[o].ecrit
  BY <1>1, <1>2 DEF Abandon, donnees, Isole, Types
<1>4. \A j \in Jeunes \ perturbes', a \in AC : \A g : ~ADesinscrire(ops[o], j, a, g)
  BY <1>1, <1>3 DEF ADesinscrire, Reguliere
<1>5. q.ecritures = {} /\ q.cmd \notin Interdites
  BY <1>2, LibreOperation DEF Interdites
<1> QED
  BY <1>3, <1>4, <1>5, ImmobileParticipants

(* A transfer that stops leaves those it moved concerned, or where they     *)
(* were.                                                                    *)
LEMMA EchecParticipants ==
  ASSUME Inv, Inv', InvEtablissements, InvListes, InvParticipants, NEW o \in Ops, Echec(o)
  PROVE  InvParticipants'
<1>1. PICK w \in ops[o].ecritures, q \in Operation :
           /\ Interrompt(o, q, w) /\ w \in Ecriture
           /\ w.table \in Tables(ops[o]) /\ Annoncee(ops[o], w)
           /\ perturbes' = IF Possible(w) /\ w.table # "chat"
                           THEN perturbes \cup ops[o].ecrit ELSE perturbes
  BY EchecFait
<1>2. /\ UNCHANGED <<jeunes, conseillers, animations>> /\ Types /\ Reguliere(ops[o])
      /\ perturbes \subseteq perturbes' /\ ops' = [ops EXCEPT ![o] = q]
  BY <1>1 DEF Echec, donnees, Inv, Interrompt, Pas
<1>3. Isole(o) /\ ops'[o] = q /\ ops[o] \in Operation
  BY <1>2 DEF Isole, Types
<1>4. q = Libre \/ q.quittee = ops[o].quittee
  <2>1. PICK v \in ops[o].ecritures :
          ops' = [ops EXCEPT ![o] =
             Poursuivre([ops[o] EXCEPT !.etape = "fin", !.aFaire = {},
                                       !.ecritures = Survivantes(ops[o], v)])]
    BY DEF Echec
  <2>2. PICK r : r = [ops[o] EXCEPT !.etape = "fin", !.aFaire = {},
                                    !.ecritures = Survivantes(ops[o], v)]
    OBVIOUS
  <2>3. r.quittee = ops[o].quittee
    BY <1>3, <2>2 DEF Operation
  <2>4. q = Poursuivre(r)
    BY <1>2, <1>3, <2>1, <2>2 DEF Types
  <2> QED
    BY <2>3, <2>4 DEF Poursuivre
<1>5. \A v \in q.ecritures : v \in ops[o].ecritures /\ q.cmd = ops[o].cmd
  BY <1>1, InterromptReduit
<1>6. \A v \in q.ecritures : q.qui = ops[o].qui /\ q.quittee = ops[o].quittee
  BY <1>1, <1>4, LibreOperation DEF Interrompt
<1>7. q.cmd \notin Interdites
  <2>1. q = Libre \/ q.cmd = ops[o].cmd
    BY <1>1 DEF Interrompt
  <2> QED
    BY <2>1, LibreOperation DEF InvParticipants, AgencesFixes, Interdites
<1>8. ASSUME NEW j \in Jeunes \ perturbes', NEW a \in AC, NEW g, ADesinscrire(ops[o], j, a, g)
      PROVE  FALSE
  <2>1. ops[o].cmd = "transferer" /\ j \in ops[o].jeunes /\ j \in ops[o].ecrit
    BY <1>2, <1>8 DEF ADesinscrire, Reguliere
  <2>2. CASE w.table = "chat"
    <3>1. ops[o].ecritures = {w}
      BY <1>2, <2>1, <2>2 DEF Reguliere
    <3> QED
      BY <1>8, <2>2, <3>1 DEF ADesinscrire
  <2>3. CASE w.table # "chat" /\ Possible(w)
    BY <1>1, <1>8, <2>1, <2>3
  <2>4. CASE ~Possible(w)
    BY <1>2, <1>8, <2>1, <2>4, EcritureRefusee
  <2> QED
    BY <2>2, <2>3, <2>4
<1> QED
  BY <1>2, <1>3, <1>5, <1>6, <1>7, <1>8, ImmobileParticipants

LEMMA ParticipantsInit ==
  ASSUME Init, Sedentaires
  PROVE  InvParticipants
<1>1. /\ \A o \in Ops : ops[o] = Libre
      /\ \A a \in AC : animations[a] = Absent
      /\ conseillers = AgenceInitiale
  BY DEF Init
<1>2. \A o \in Ops : /\ Prevoit(ops[o]) /\ ops[o].cmd \notin Interdites
                     /\ \A j : APlacer(ops[o], j)
                     /\ \A j, a : Inscription(ops[o], j, a)
  BY <1>1, LibreOperation DEF Prevoit, APlacer, Inscription, Interdites
<1>3. \A j \in Jeunes, a \in AC : Demeure(j, a)
  BY <1>1 DEF Demeure
<1> QED
  BY <1>1, <1>2, <1>3 DEF InvParticipants, AgencesFixes

LEMMA ParticipantsImmobiles ==
  ASSUME InvParticipants, UNCHANGED vars
  PROVE  InvParticipants'
<1>1. /\ jeunes' = jeunes /\ conseillers' = conseillers /\ animations' = animations
      /\ ops' = ops /\ perturbes' = perturbes
  BY DEF vars
<1>2. AgencesFixes' /\ \A o \in Ops : Prevoit(ops[o])'
  BY <1>1 DEF InvParticipants, AgencesFixes, Prevoit, Prevue, Vers
<1>3. \A j \in Jeunes \ perturbes', o \in Ops : APlacer(ops[o], j)'
  BY <1>1 DEF InvParticipants, APlacer, SurChat, SurRang
<1>4. \A j \in Jeunes \ perturbes', a \in AC \ perturbes' : Demeure(j, a)'
  BY <1>1 DEF InvParticipants, Demeure, ADesinscrire, Etablissement
<1>5. \A j \in Jeunes \ perturbes', a \in AC \ perturbes', o \in Ops : Inscription(ops[o], j, a)'
  BY <1>1 DEF InvParticipants, Inscription, Presents, Etablissement
<1> QED
  BY <1>1, <1>2, <1>3, <1>4, <1>5 DEF InvParticipants

LEMMA ParticipantsNext ==
  ASSUME Sedentaires, Inv, Inv', InvEtablissements, InvListes, InvParticipants, [Next]_vars
  PROVE  InvParticipants'
<1>1. CASE Next
  <2>1. PICK o \in Ops :
          \/ Transferer(o) \/ LireAnimations(o) \/ LireListes(o)
          \/ Recuperer(o)
          \/ SupprimerConseiller(o) \/ LireInitiaux(o)
          \/ SupprimerJeune(o) \/ ArchiverJeune(o) \/ ArchiverJeuneSupport(o)
          \/ SupprimerCompte(o) \/ LireConversation(o) \/ LireDossier(o)
          \/ CreerListe(o) \/ ModifierListe(o) \/ AjouterJeuneListe(o) \/ SupprimerListe(o)
          \/ CreerAnimation(o) \/ ModifierAnimation(o)
          \/ ChangerAgence(o) \/ LireConseiller(o) \/ SauverAgence(o)
          \/ ModifierConseiller(o)
          \/ EcrireChat(o) \/ EcrireTransfert(o) \/ EcrireJeune(o) \/ EcrireAnimation(o)
          \/ EcrireListe(o) \/ EcrireMembres(o) \/ DetruireListe(o) \/ EcrireConseiller(o)
          \/ DetruireConseiller(o) \/ DetruireJeune(o) \/ DetruireChat(o)
          \/ DetruireArchives(o) \/ EcrireArchive(o) \/ PoursuivreSansArchive(o)
          \/ Echec(o) \/ Abandon(o)
    BY <1>1 DEF Next
  <2>2. /\ ~Recuperer(o) /\ ~ChangerAgence(o) /\ ~ModifierConseiller(o)
        /\ ~LireConseiller(o) /\ ~SauverAgence(o) /\ ~EcrireConseiller(o)
    BY CommandesInterdites
  <2> QED
    BY <2>1, <2>2, TransfererParticipants, LireAnimationsParticipants, LireListesParticipants,
       CommandesSedentaires, CreerAnimationParticipants, ModifierAnimationParticipants,
       EcrireChatParticipants, EcrituresSansMouvement, EcrireJeuneParticipants,
       EcrireAnimationParticipants, EffacementsParticipants, DepartsParticipants,
       AbandonParticipants, EchecParticipants
<1>2. CASE UNCHANGED vars
  BY <1>2, ParticipantsImmobiles
<1> QED
  BY <1>1, <1>2

(* No transfer is left that would have to unregister anybody about whom     *)
(* nothing is in progress.                                                  *)
LEMMA ParticipantsSuivis ==
  ASSUME Inv, InvParticipants
  PROVE  ParticipantsDeLAgence
<1>1. SUFFICES ASSUME NEW a \in AC \ perturbes, animations[a] # Absent,
                      NEW j \in animations[a].jeunes \ perturbes, Tranquille(j)
               PROVE  AgenceDuJeune(j) = animations[a].agence
  BY DEF ParticipantsDeLAgence
<1>2. j \in Presents /\ j \in Jeunes \ perturbes
  BY <1>1 DEF Inv, References, Presents
<1>3. \A o \in Ops : \A g : ~ADesinscrire(ops[o], j, a, g)
  <2>1. \A o \in Ops : ops[o].cmd = "transferer" => ops[o].jeunes = ops[o].ecrit \cap Jeunes
    BY DEF Inv, Reguliere
  <2> QED
    BY <1>1, <1>2, <2>1, LibreOperation DEF Tranquille, ADesinscrire
<1>4. Etablissement(j) = animations[a].agence
  BY <1>1, <1>2, <1>3 DEF InvParticipants, Demeure
<1>5. jeunes[j].conseiller \in Conseillers /\ Existe(jeunes[j].conseiller)
  BY <1>2 DEF Inv, Types, References, Nommes, Presents, LigneJeune
<1> QED
  BY <1>4, <1>5 DEF InvParticipants, AgencesFixes, AgenceDuJeune, Etablissement, Existe

-----------------------------------------------------------------------------
(* Theorems                                                                 *)

(* After a definitive transfer no list of the former counsellor holds the   *)
(* young person (enleverLesJeunesDuConseiller), and none takes them again:  *)
(* the lists that the authorizers of the other commands have let through    *)
(* are saved before or refused after.                                       *)
THEOREM ListesToujoursQuittees == Spec => []ListesApresTransfert
<1>1. Init => Inv /\ InvListes
  BY InitInv, ListesInit
<1>2. Inv /\ InvListes /\ [Next]_vars => (Inv /\ InvListes)'
  BY NextInv, ListesNext
<1>3. Inv /\ InvListes => ListesApresTransfert
  BY ListesQuittees
<1> QED
  BY <1>1, <1>2, <1>3, PTL DEF Spec

(* Those registered for a group event are followed in its agency: whoever   *)
(* registers them checks it (verifierAgenceJeunes), and a transfer to       *)
(* another agency takes them out (desinscrireJeunesDesAnimationsCollectives *)
(* DUnEtablissement), wherever the two interleave.  Not so of the commands  *)
(* that move people and unregister nobody (Interdites), nor of a transfer   *)
(* from a counsellor without agency, after which there is none to compare.  *)
THEOREM ParticipantsToujoursDeLAgence ==
  ASSUME Sedentaires
  PROVE  Spec => []ParticipantsDeLAgence
<1>1. Init => Inv /\ InvEtablissements /\ InvListes /\ InvParticipants
  BY InitInv, EtablissementsInit, ListesInit, ParticipantsInit
<1>2. Inv /\ [Next]_vars => Inv'
  BY NextInv
<1>3. Inv /\ Inv' /\ InvEtablissements /\ [Next]_vars => InvEtablissements'
  BY EtablissementsNext
<1>4. Inv /\ Inv' /\ InvListes /\ [Next]_vars => InvListes'
  BY ListesNext
<1>5. Inv /\ Inv' /\ InvEtablissements /\ InvListes /\ InvParticipants /\ [Next]_vars
        => InvParticipants'
  BY ParticipantsNext
<1>6. Inv /\ InvParticipants => ParticipantsDeLAgence
  BY ParticipantsSuivis
<1> QED
  BY <1>1, <1>2, <1>3, <1>4, <1>5, <1>6, PTL DEF Spec
=============================================================================

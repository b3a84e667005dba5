------------------------------- MODULE Agenda -------------------------------
(***************************************************************************)
(* What the rendez-vous commands promise about the appointments: each        *)
(* command changes one appointment at once, from what it is at that moment. *)
(* Nothing is promised of an appointment once operations on it have          *)
(* overlapped or failed (perturbes).                                        *)
(***************************************************************************)
EXTENDS Naturals, FiniteSets

CONSTANTS Rdv, AC, Jeunes, Dates, Limites, Absent

VARIABLES
  jour,       \* the day
  agenda,     \* the appointments
  supprimes,  \* those that have been deleted
  perturbes   \* those of which nothing is promised any more

vars == <<jour, agenda, supprimes, perturbes>>

Entree == [date : Dates, jeunes : SUBSET Jeunes, limite : Limites,
           clos : BOOLEAN, presents : SUBSET Jeunes]

Init ==
  /\ jour = 0
  /\ agenda = [r \in Rdv |-> Absent]
  /\ supprimes = {}
  /\ perturbes = {}

(* Participants, limit: what Factory.creer and Factory.mettreAJour accept.  *)
Valide(r, entree) ==
  /\ entree.presents = {}
  /\ r \in AC => entree.limite = 0 \/ Cardinality(entree.jeunes) <= entree.limite
  /\ r \notin AC => entree.limite = 0 /\ entree.jeunes # {}

Creer(r, entree) ==
  /\ agenda[r] = Absent
  /\ r \notin supprimes
  /\ Valide(r, entree)
  /\ ~entree.clos
  /\ agenda' = [agenda EXCEPT ![r] = entree]
  /\ UNCHANGED supprimes

Modifier(r, entree) ==
  /\ agenda[r] # Absent
  /\ ~(r \in AC /\ agenda[r].clos)
  /\ Valide(r, entree)
  /\ entree.clos = agenda[r].clos
  /\ agenda' = [agenda EXCEPT ![r] = entree]
  /\ UNCHANGED supprimes

Clore(r, presents) ==
  /\ agenda[r] # Absent
  /\ ~agenda[r].clos
  /\ agenda[r].date <= jour
  /\ presents \subseteq agenda[r].jeunes
  /\ agenda' = [agenda EXCEPT ![r].clos = TRUE, ![r].presents = presents]
  /\ UNCHANGED supprimes

Supprimer(r) ==
  /\ agenda[r] # Absent
  /\ ~(r \in AC /\ agenda[r].clos)
  /\ agenda' = [agenda EXCEPT ![r] = Absent]
  /\ supprimes' = supprimes \cup {r}

Desinscrire(r, js) ==
  /\ r \in AC
  /\ agenda[r] # Absent
  /\ agenda' = [agenda EXCEPT ![r].jeunes = @ \ js, ![r].presents = @ \ js]
  /\ UNCHANGED supprimes

Commande(r) ==
  /\ \/ \E entree \in Entree : Creer(r, entree) \/ Modifier(r, entree)
     \/ \E js \in SUBSET Jeunes : Clore(r, js) \/ Desinscrire(r, js)
     \/ Supprimer(r)
  /\ UNCHANGED <<jour, perturbes>>

(* A day may pass, and appointments become disturbed: those, and only       *)
(* those, may become anything.                                              *)
Perturber ==
  /\ jour' \in {jour, jour + 1}
  /\ perturbes \subseteq perturbes'
  /\ perturbes' \subseteq Rdv
  /\ \A r \in Rdv \ perturbes' :
       agenda'[r] = agenda[r] /\ (r \in supprimes' <=> r \in supprimes)

Next == Perturber \/ \E r \in Rdv : Commande(r)

Spec == Init /\ [][Next]_vars
=============================================================================

------------------------------ MODULE FileBull ------------------------------
(***************************************************************************)
(* The Bull queue 'JobQueue' as PlanificateurRedisRepository uses it: a     *)
(* set of jobs kept in Redis, shared by the web and worker processes.       *)
(*                                                                          *)
(* A job is a record with at least                                          *)
(*   id        the jobId, unique in the queue                               *)
(*   echeance  the date from which a worker may take it                     *)
(*   etat      "attente" (Bull: delayed or waiting), "actif" (taken by a    *)
(*             worker, which holds its lock) or "fini" (completed or        *)
(*             failed)                                                      *)
(* A job that is over stays in Redis, and its id stays taken, until it is   *)
(* removed or cleaned.                                                      *)
(***************************************************************************)
EXTENDS Naturals

EtatsJob == {"attente", "actif", "fini"}

(* Variant: the jobs are added without a jobId.                             *)
AjouterJobAnonyme(jobs, job) == jobs \cup {job}

(* queue.add: a job whose id is already in the queue is ignored.           *)
AjouterJob(jobs, job) ==
  IF \E j \in jobs : j.id = job.id THEN jobs ELSE jobs \cup {job}

(* Variant: only completed jobs are removed, as queue.clean does.           *)
SupprimerJobsFinis(jobs, ids) ==
  {j \in jobs : j.id \notin ids \/ j.etat # "fini"}

(* queue.removeJobs(pattern), for the ids the pattern matches: a job locked *)
(* by a worker is skipped.                                                  *)
SupprimerJobs(jobs, ids) ==
  {j \in jobs : j.id \notin ids \/ j.etat = "actif"}

(* The jobs a worker may take at this date.                                 *)
JobsEchus(jobs, maintenant) ==
  {j \in jobs : j.etat = "attente" /\ j.echeance <= maintenant}

ChangerEtat(jobs, job, etat) ==
  (jobs \ {job}) \cup {[job EXCEPT !.etat = etat]}

=============================================================================

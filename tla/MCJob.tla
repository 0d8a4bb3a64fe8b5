-------------------------------- MODULE MCJob -------------------------------
(* The prime finder on small instances. *)
EXTENDS Job, IsPrime, TLC

\* Workers differ in nothing but their ids.
Symmetry == Permutations(Worker)

\* Nothing reads the sets of a snapshot that is not active, or the state a
\* worker loaded once it has its task.  The file of the results is looked at
\* when it is written: nothing reads it later.
Matters ==
  <<phase, starts, primes, tasks, in_progress, workers, finished, total,
    IF snap.active THEN snap ELSE snap.id, saving, conn, latest, at, slot,
    [w \in Worker |-> IF at[w] = "working" THEN None ELSE saved[w]],
    task, numid, kills, stage, input, IF stage = "saved" THEN output ELSE None>>

\* Two input files, of which each may be unreadable
Files == {<<2, 3, 4>>, <<4>>, <<>>}
Found == {n \in 2..4 : is_prime(n)}

\* Once the job is done there is nothing left to look at.
NotDone == phase # "done"
=============================================================================

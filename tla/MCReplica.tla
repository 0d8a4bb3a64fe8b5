----------------------------- MODULE MCReplica ------------------------------
(* One replica on small instances. *)
EXTENDS Replica, TLC

\* Contents differ in nothing but their names, and so do files that exist.
Symmetry == Permutations(Data) \cup Permutations(Existing)

\* Of a replica that has led, LeaderAgrees alone speaks, and only of a process
\* that has not crashed and of logs without races: the others are cut off, and
\* so are logs with entries for other files.
LeadsOnce ==
  led => /\ restarts = 0 /\ Sequential
         /\ \A h \in Call : ~Cancelled(h)
         /\ \A p \in Existing : OnlyFor(p)
=============================================================================

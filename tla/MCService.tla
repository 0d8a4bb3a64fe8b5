------------------------------ MODULE MCService -----------------------------
(* RaftService on small instances. *)
EXTENDS RaftService, TLC

\* Servers, and commands, differ in nothing but their names.
Symmetry == Permutations(Server) \cup Permutations(Command)
=============================================================================

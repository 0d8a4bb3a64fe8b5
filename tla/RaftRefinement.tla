--------------------------- MODULE RaftRefinement ---------------------------
(***************************************************************************)
(* How the servers of Raft carry the abstract log of ReplicatedLog.  What  *)
(* is decided on must outlive the servers that applied it, so chosen       *)
(* remembers the longest sequence that any server has ever applied.        *)
(***************************************************************************)
EXTENDS Raft

VARIABLE chosen     \* history variable: nothing in Next looks at it

logvars == <<vars, chosen>>

\* A server that gets further than all before it makes the sequence longer.
Remember ==
  LET ahead == {i \in Server : Len(applied'[i]) > Len(chosen)}
  IN  chosen' = IF ahead = {} THEN chosen ELSE applied'[CHOOSE i \in ahead : TRUE]

LogSpec == Init /\ chosen = <<>> /\ [][Next /\ Remember]_logvars

\* The command whose result each call was answered with
Answers ==
  [c \in Command |-> IF call[c].status = "answered" THEN call[c].answered ELSE None]

Abstract == INSTANCE ReplicatedLog WITH answered <- Answers

\* The servers apply prefixes of one sequence that only grows, and clients
\* are answered with commands of it, whichever leaders come and go, whatever
\* entries they overwrite and whichever servers crash and start again
\* (append_entries, update_commit_id, apply_commited_entries, _load_state, the
\* wait of handle_create for its id).
ImplementsReplicatedLog == Abstract!Spec
=============================================================================

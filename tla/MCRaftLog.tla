----------------------------- MODULE MCRaftLog -----------------------------
(* Raft as the carrier of the abstract log. *)
EXTENDS RaftRefinement, MCRaft

\* Nothing depends on whether a call is still waiting, so a call may as well
\* wait as long as its server runs: what comes after an answer, or after a call
\* has given up, comes in a behaviour without it too.
ClientsWait ==
  \A c \in Command :
    call[c].status = "waiting" /\ call'[c].status # "waiting" => restarts' # restarts

\* A crash is of interest here once there is something to remember.
CrashOnceChosen == restarts > 0 => chosen # <<>>

\* Which call has failed where is of no interest.
Waits(c) == IF call[c].status = "failed" THEN <<>> ELSE call[c]

ViewOfLog == <<View, [c \in Command |-> Waits(c)], chosen>>
=============================================================================

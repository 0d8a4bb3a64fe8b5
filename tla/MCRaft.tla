------------------------------- MODULE MCRaft -------------------------------
(* Raft on small instances. *)
EXTENDS Raft, TLC

CONSTANT MaxNet     \* bound: requests under way at once that still matter

\* Servers, and commands, differ in nothing but their names.
Symmetry == Permutations(Server) \cup Permutations(Command)

(***************************************************************************)
(* What can still matter.  A vote request is without effect once its       *)
(* receiver has moved to a later term, has voted for another, or has been  *)
(* heard by the candidate; an append request of an older term has none but *)
(* its answer.  The votes of a ballot count only for a candidate.  If late *)
(* rounds are lost, a round counts only for the leader that began it.      *)
(***************************************************************************)
Matters(m) ==
  IF m.op = "VoteRequest"
  THEN \/ m.term > current_term[m.dst]
       \/ /\ m.term = current_term[m.dst]
          /\ \/ voted_for[m.dst] = None
             \/ /\ voted_for[m.dst] = m.src
                /\ ballot[m.src].open /\ ballot[m.src].term = m.term
                /\ m.dst \notin ballot[m.src].granted
  ELSE m.term >= current_term[m.dst] \/ (m = round[m.src].req /\ round[m.src].phase = "wait")

Pending == {m \in net : Matters(m)}

FewRequests == Cardinality(Pending) <= MaxNet

(***************************************************************************)
(* For liveness, which allows neither a view nor a symmetry set: clients   *)
(* go on waiting, and one given server starts the first election (the other*)
(* behaviours are mirror images of those that remain).                     *)
(***************************************************************************)
First == CHOOSE i \in Server : TRUE

PatientClients ==
  /\ FewRequests
  /\ \A c \in Command : call[c].status \in {"none", "waiting"}
  /\ current_term[First] = 0 => \A i \in Server : ballot[i] = Closed

Votes(i) ==
  IF ~ballot[i].open THEN "closed"
  ELSE IF state[i] # "candidate" THEN "void"
  ELSE ballot[i].granted

Leading(i) == LateRounds \/ state[i] = "leader"

Awaited(i) == IF round[i].req \in net THEN round[i].req ELSE None

Turn(i) ==
  IF LateRounds THEN round[i]
  ELSE IF round[i].req # None /\ Leading(i) /\ round[i].req.term = current_term[i]
  THEN LET r == round[i].reply
       IN  <<round[i].phase, round[i].todo, Awaited(i),
             TermOn(i, r), MatchOn(i, r), NextOn(i, r)>>
  ELSE <<round[i].phase, round[i].todo>>

View ==
  <<persistent, commit_id, applied, state,
    [i \in Server |-> IF Leading(i) THEN <<next_id[i], match_id[i]>> ELSE <<>>],
    [i \in Server |-> Votes(i)], [i \in Server |-> Turn(i)],
    Pending, {c \in Command : call[c].status = "none"},
    restarts>>

\* For properties that look at the ballots
ViewWithBallots == <<View, ballot>>
=============================================================================

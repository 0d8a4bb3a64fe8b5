---------------------------- MODULE MCRaftRepair ----------------------------
(***************************************************************************)
(* Raft from the state in which the logs of two crashed leaders disagree:  *)
(* s1 led term 1 and s2 led term 2, either with the vote of s3, and each   *)
(* crashed with one entry in its saved log that nobody else has; s3        *)
(* restarted too.  From here old entries are replicated in new terms, and  *)
(* a commit of the wrong one would be undone.                              *)
(***************************************************************************)
EXTENDS MCRaft

CONSTANTS s1, s2, s3, c1, c2, c3

Failed(i) == [status |-> "failed", at |-> i, log_id |-> 1, answered |-> None]

AfterTwoLeaders ==
  /\ current_term = (s1 :> 1 @@ s2 :> 2 @@ s3 :> 2)
  /\ voted_for = (s1 :> s1 @@ s2 :> s2 @@ s3 :> s2)
  /\ log = (s1 :> <<[term |-> 1, command |-> c1]>> @@
            s2 :> <<[term |-> 2, command |-> c2]>> @@ s3 :> <<>>)
  /\ commit_id = [i \in Server |-> 0]
  /\ applied = [i \in Server |-> <<>>]
  /\ state = [i \in Server |-> "follower"]
  /\ next_id = [i \in Server |-> [j \in Server |-> 1]]
  /\ match_id = [i \in Server |-> [j \in Server |-> 0]]
  /\ last_leader = [i \in Server |-> None]
  /\ ballot = [i \in Server |-> Closed]
  /\ round = [i \in Server |-> Idle]
  /\ net = {}
  /\ call = (c1 :> Failed(s1) @@ c2 :> Failed(s2) @@ c3 :> NoCall)
  /\ restarts = 3

RepairSpec == AfterTwoLeaders /\ [][Next]_vars
=============================================================================

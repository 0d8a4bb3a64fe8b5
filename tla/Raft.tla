-------------------------------- MODULE Raft --------------------------------
(***************************************************************************)
(* The replicated log of AFS/raft: RaftNode (state.py), the election and   *)
(* heartbeat loops and the RPC handlers of RaftServer (server.py), and the *)
(* request/reply traffic of RaftRPC (rpc.py).                              *)
(*                                                                         *)
(* Every server is one asyncio process, so a step of this module is the    *)
(* code between two awaits.  The election loop, the heartbeat loop, the    *)
(* RPC handlers and the client handlers of one server interleave at those  *)
(* awaits only.  A request travels through net and is lost when nobody     *)
(* handles it; two identical requests under way are one element of net.    *)
(* A reply comes back on the connection of its request: a vote is collected*)
(* in the candidate's ballot, the answer to replicate_log in its round.    *)
(* Timeouts (election, 0.5 s per RPC await, 5 s per client call) may       *)
(* expire at any moment.                                                   *)
(***************************************************************************)
EXTENDS Naturals, Sequences, FiniteSets, FiniteSetsExt

CONSTANTS Server,       \* node ids
          Command,      \* client writes (Create / PutFile requests)
          None,         \* Python's None
          MaxTerm,      \* bound: no election beyond this term
          MaxRestart,   \* bound: crashes of the whole cluster together
          LateRounds    \* FALSE: assume that whatever a heartbeat round sends
                        \* or receives after its leader stepped down is lost;
                        \* TRUE: no such assumption

ASSUME ServerAssumption == IsFiniteSet(Server) /\ None \notin Server
ASSUME CommandAssumption == None \notin Command
ASSUME BoundAssumption == MaxTerm \in Nat /\ MaxRestart \in Nat
ASSUME LateRoundsAssumption == LateRounds \in BOOLEAN

VARIABLES current_term, voted_for, log,   \* saved in raft_state.json
          commit_id, state, next_id, match_id, last_leader,
          applied,    \* commands handed to commit_callback since the start;
                      \* last_applied is its length
          ballot,     \* the election loop's broadcast_vote under way
          round,      \* the heartbeat loop's pass over the peers
          net,        \* requests on their way
          call,       \* the client handlers, one per command
          restarts

persistent == <<current_term, voted_for, log>>
node == <<commit_id, applied, state, next_id, match_id, last_leader>>
vars == <<persistent, node, ballot, round, net, call, restarts>>

-----------------------------------------------------------------------------

Entry == [term : Nat, command : Command]

VoteRequest == [op : {"VoteRequest"}, src : Server, dst : Server, term : Nat,
                last_log_id : Nat, last_log_term : Nat]

AppendRequest == [op : {"AppendEntries"}, src : Server, dst : Server,
                  term : Nat, leader_commit : Nat, prev_log_id : Nat,
                  prev_log_term : Nat, entries : Seq(Entry)]

Request == VoteRequest \cup AppendRequest

Reply == [success : BOOLEAN, term : Nat]

Ballot == [open : BOOLEAN, term : Nat, granted : SUBSET Server]

Round == [phase : {"idle", "beat", "wait"}, todo : SUBSET Server,
          req : AppendRequest \cup {None}, reply : Reply \cup {None}]

Call == [status : {"none", "waiting", "answered", "failed"},
         at : Server \cup {None}, log_id : Nat,
         answered : Command \cup {None}]

Peers(i) == Server \ {i}

\* mutant: half of the servers are enough
Half == Cardinality(Server) \div 2

\* servers // 2 + 1, with servers = len(peer_adr) + 1
Majority == Cardinality(Server) \div 2 + 1

\* get_last_log: the id of the last entry is the length of the log
LastTerm(l) == IF l = <<>> THEN 0 ELSE l[Len(l)].term

\* mutant: any candidate is as good as the voter
AnyCandidate(l, last_log_id, last_log_term) == TRUE

is_up_to_date(l, last_log_id, last_log_term) ==
  \/ last_log_term > LastTerm(l)
  \/ last_log_term = LastTerm(l) /\ last_log_id >= Len(l)

\* mutants: the vote is forgotten within its term; a leader stays one
VoteForgotten(i, term) == None
StillLeading(i, term) == state[i]

\* follower(term), as far as a handler calls it: only for a higher term
Adopt(i, term) == IF term > current_term[i] THEN term ELSE current_term[i]
VoteAfter(i, term) == IF term > current_term[i] THEN None ELSE voted_for[i]
StateAfter(i, term) == IF term > current_term[i] THEN "follower" ELSE state[i]

\* The first entry that the log l lacks, or holds with another term, decides:
\* what follows it in l is cut and the rest of the request is appended.
Differing(l, prev, entries) ==
  {k \in 1..Len(entries) : \/ prev + k > Len(l)
                           \/ l[prev + k].term # entries[k].term}

Merge(l, prev, entries) ==
  IF Differing(l, prev, entries) = {} THEN l
  ELSE LET k == Min(Differing(l, prev, entries))
       IN  SubSeq(l, 1, prev + k - 1) \o SubSeq(entries, k, Len(entries))

\* mutant: an entry of any term will do
LongEnough(l, prev, prev_term) == prev <= Len(l)

\* the log holds the entry the request builds on
PrevMatches(l, prev, prev_term) ==
  \/ prev = 0
  \/ prev <= Len(l) /\ l[prev].term = prev_term

\* What apply_commited_entries hands over when commit_id moves from
\* Len(done) to commit.
Apply(done, l, commit) ==
  IF commit > Len(done) THEN done \o [k \in 1..(commit - Len(done)) |->
                                        l[Len(done) + k].command]
  ELSE done

\* The requests leave; any of them may get lost on the way.
Send(requests) == \E arriving \in SUBSET requests : net' = net \cup arriving

Idle == [phase |-> "idle", todo |-> {}, req |-> None, reply |-> None]
Closed == [open |-> FALSE, term |-> 0, granted |-> {}]
NoCall == [status |-> "none", at |-> None, log_id |-> 0, answered |-> None]

Init ==
  /\ current_term = [i \in Server |-> 0]
  /\ voted_for = [i \in Server |-> None]
  /\ log = [i \in Server |-> <<>>]
  /\ commit_id = [i \in Server |-> 0]
  /\ applied = [i \in Server |-> <<>>]
  /\ state = [i \in Server |-> "follower"]
  /\ next_id = [i \in Server |-> [j \in Server |-> 1]]
  /\ match_id = [i \in Server |-> [j \in Server |-> 0]]
  /\ last_leader = [i \in Server |-> None]
  /\ ballot = [i \in Server |-> Closed]
  /\ round = [i \in Server |-> Idle]
  /\ net = {}
  /\ call = [c \in Command |-> NoCall]
  /\ restarts = 0

-----------------------------------------------------------------------------
(* The election loop.                                                      *)

\* start_election() holds, election(), get_last_log(), and broadcast_vote up
\* to its gather.
Election(i) ==
  /\ state[i] # "leader"
  /\ ~ballot[i].open
  /\ current_term[i] < MaxTerm
  /\ state' = [state EXCEPT ![i] = "candidate"]
  /\ current_term' = [current_term EXCEPT ![i] = current_term[i] + 1]
  /\ voted_for' = [voted_for EXCEPT ![i] = i]
  /\ ballot' = [ballot EXCEPT ![i] = [open |-> TRUE,
                                      term |-> current_term[i] + 1,
                                      granted |-> {}]]
  /\ Send({[op |-> "VoteRequest", src |-> i, dst |-> j,
            term |-> current_term[i] + 1,
            last_log_id |-> Len(log[i]),
            last_log_term |-> LastTerm(log[i])] : j \in Peers(i)})
  /\ UNCHANGED <<log, commit_id, applied, next_id, match_id, last_leader,
                 round, call, restarts>>

\* A ballot after its gather; the votes that made a leader are remembered.
Counted(term, votes) == [open |-> FALSE, term |-> term, granted |-> votes]

\* mutants: a candidate that lost its term meanwhile leads all the same; a
\* leader's next_id starts at its last entry
WonLate(i, got) == Cardinality(got) + 1 >= Majority
LastId(i) == [j \in Server |-> Len(log[i])]

Won(i, got) == Cardinality(got) + 1 >= Majority /\ state[i] = "candidate"
FirstNextId(i) == [j \in Server |-> Len(log[i]) + 1]

\* The gather returns with the votes that came back in time.
Tally(i) ==
  /\ ballot[i].open
  /\ \E got \in SUBSET ballot[i].granted :
       IF Won(i, got)
       THEN /\ state' = [state EXCEPT ![i] = "leader"]
            /\ next_id' = [next_id EXCEPT ![i] = FirstNextId(i)]
            /\ match_id' = [match_id EXCEPT ![i] = [j \in Server |-> 0]]
            /\ ballot' = [ballot EXCEPT ![i] = Counted(ballot[i].term, got)]
       ELSE /\ ballot' = [ballot EXCEPT ![i] = Counted(ballot[i].term, {})]
            /\ UNCHANGED <<state, next_id, match_id>>
  /\ UNCHANGED <<persistent, commit_id, applied, last_leader, round, net,
                 call, restarts>>

WithVote(b, voter) == [b EXCEPT !.granted = b.granted \cup {voter}]

\* vote() at m.dst, and its answer on the connection of m.
HandleVoteRequest(m) ==
  LET i == m.dst
      granted == /\ m.term >= current_term[i]
                 /\ VoteAfter(i, m.term) \in {None, m.src}
                 /\ is_up_to_date(log[i], m.last_log_id, m.last_log_term)
      heard == granted /\ ballot[m.src].open /\ ballot[m.src].term = m.term
  IN  /\ m.op = "VoteRequest"
      /\ current_term' = [current_term EXCEPT ![i] = Adopt(i, m.term)]
      /\ state' = [state EXCEPT ![i] = StateAfter(i, m.term)]
      /\ voted_for' = [voted_for EXCEPT ![i] =
                         IF granted THEN m.src ELSE VoteAfter(i, m.term)]
      /\ ballot' = IF heard THEN [ballot EXCEPT ![m.src] = WithVote(@, i)]
                   ELSE ballot
      /\ net' = net \ {m}
      /\ UNCHANGED <<log, commit_id, applied, next_id, match_id, last_leader,
                     round, call, restarts>>

-----------------------------------------------------------------------------
(* The heartbeat loop and replicate_log.                                   *)

\* The empty AppendEntries of send_hb
Heartbeat(i, j) ==
  [op |-> "AppendEntries", src |-> i, dst |-> j, term |-> current_term[i],
   leader_commit |-> commit_id[i], prev_log_id |-> Len(log[i]),
   prev_log_term |-> LastTerm(log[i]), entries |-> <<>>]

\* The state check of the loop, and send_hb up to its gather.
Beat(i) ==
  /\ state[i] = "leader"
  /\ round[i].phase = "idle"
  /\ round' = [round EXCEPT ![i] = [phase |-> "beat", todo |-> Peers(i),
                                    req |-> None, reply |-> None]]
  /\ Send({Heartbeat(i, j) : j \in Peers(i)})
  /\ UNCHANGED <<persistent, node, ballot, call, restarts>>

\* The request of replicate_log(peer, node), made of whatever the node's
\* variables hold at that moment.
ReplicateRequest(i, j, term, next) ==
  [op |-> "AppendEntries", src |-> i, dst |-> j, term |-> term,
   leader_commit |-> commit_id[i],
   prev_log_id |-> next - 1,
   prev_log_term |-> IF next - 1 > 0 /\ next - 1 <= Len(log[i])
                     THEN log[i][next - 1].term ELSE 0,
   entries |-> SubSeq(log[i], next, Len(log[i]))]

\* The answer the pending replicate_log call returns with: the one received,
\* or None after a timeout.
AnswerOf(i) ==
  {None} \cup
  {r \in {round[i].reply} \ {None} :
     \/ LateRounds
     \/ state[i] = "leader" /\ round[i].req.term = current_term[i]}

\* What replicate_log does with the answer r to its request.
TermOn(i, r) == IF r = None THEN current_term[i] ELSE Adopt(i, r.term)
VoteOn(i, r) == IF r = None THEN voted_for[i] ELSE VoteAfter(i, r.term)
StateOn(i, r) == IF r = None THEN state[i] ELSE StateAfter(i, r.term)

MatchOn(i, r) ==
  LET q == round[i].req
  IN  IF r # None /\ r.term <= current_term[i] /\ r.success /\ q.entries # <<>>
      THEN [match_id[i] EXCEPT ![q.dst] = q.prev_log_id + Len(q.entries)]
      ELSE match_id[i]

\* mutant: a refusal does not move next_id back
NextUnmoved(i, r) ==
  LET q == round[i].req
  IN  IF r # None /\ r.term <= current_term[i] /\ r.success /\ q.entries # <<>>
      THEN [next_id[i] EXCEPT ![q.dst] = q.prev_log_id + Len(q.entries) + 1]
      ELSE next_id[i]

NextOn(i, r) ==
  LET q == round[i].req
  IN  IF r = None \/ r.term > current_term[i] THEN next_id[i]
      ELSE IF ~r.success
           THEN [next_id[i] EXCEPT ![q.dst] =
                   IF q.prev_log_id > 1 THEN q.prev_log_id ELSE 1]
           ELSE IF q.entries # <<>>
                THEN [next_id[i] EXCEPT ![q.dst] =
                        q.prev_log_id + Len(q.entries) + 1]
                ELSE next_id[i]

\* The pending call of the round returns with r, and the node's variables
\* follow.
Return(i, r) ==
  /\ current_term' = [current_term EXCEPT ![i] = TermOn(i, r)]
  /\ voted_for' = [voted_for EXCEPT ![i] = VoteOn(i, r)]
  /\ state' = [state EXCEPT ![i] = StateOn(i, r)]
  /\ match_id' = [match_id EXCEPT ![i] = MatchOn(i, r)]
  /\ next_id' = [next_id EXCEPT ![i] = NextOn(i, r)]

\* The loop turns to the next peer.  It does not look at node.state again.
Replicate(i, j, r) ==
  LET q == ReplicateRequest(i, j, TermOn(i, r), NextOn(i, r)[j])
  IN  /\ round[i].phase # "idle"
      /\ j \in round[i].todo
      /\ Return(i, r)
      /\ round' = [round EXCEPT ![i] = [phase |-> "wait",
                                        todo |-> round[i].todo \ {j},
                                        req |-> q, reply |-> None]]
      /\ Send(IF LateRounds \/ StateOn(i, r) = "leader" THEN {q} ELSE {})
      /\ UNCHANGED <<log, commit_id, applied, last_leader, ballot, call,
                     restarts>>

\* mutants: an entry of any term is committed; the leader forgets to count
\* itself
CommittableOfAnyTerm(i, st, term, match) ==
  {n \in commit_id[i]+1..Len(log[i]) :
     /\ st = "leader"
     /\ Cardinality({j \in Peers(i) : match[j] >= n}) + 1 >= Majority}

CommittableByPeers(i, st, term, match) ==
  {n \in commit_id[i]+1..Len(log[i]) :
     /\ st = "leader"
     /\ Cardinality({j \in Peers(i) : match[j] >= n}) >= Majority
     /\ log[i][n].term = term}

\* The ids update_commit_id may commit: of the own term, on a majority.
Committable(i, st, term, match) ==
  {n \in commit_id[i]+1..Len(log[i]) :
     /\ st = "leader"
     /\ Cardinality({j \in Peers(i) : match[j] >= n}) + 1 >= Majority
     /\ log[i][n].term = term}

\* After the last peer: update_commit_id and apply_commited_entries.
EndRound(i, r) ==
  LET ready == Committable(i, StateOn(i, r), TermOn(i, r), MatchOn(i, r))
      commit == IF ready = {} THEN commit_id[i] ELSE Max(ready)
  IN  /\ round[i].phase = "wait" /\ round[i].todo = {}
      /\ Return(i, r)
      /\ commit_id' = [commit_id EXCEPT ![i] = commit]
      /\ applied' = [applied EXCEPT ![i] = Apply(@, log[i], commit)]
      /\ round' = [round EXCEPT ![i] = Idle]
      /\ UNCHANGED <<log, last_leader, ballot, net, call, restarts>>

\* handle_append_entries at m.dst: append_entries, apply_commited_entries,
\* and the answer, which counts only while the sender still waits for it.
HandleAppendEntries(m) ==
  LET i == m.dst
      stale == m.term < current_term[i]
      success == ~stale /\ PrevMatches(log[i], m.prev_log_id, m.prev_log_term)
      cut == ~stale /\ ~success /\ m.prev_log_id <= Len(log[i])
      newlog == IF success THEN Merge(log[i], m.prev_log_id, m.entries)
                ELSE IF cut THEN SubSeq(log[i], 1, m.prev_log_id - 1)
                ELSE log[i]
      commit == IF success /\ m.leader_commit > commit_id[i]
                THEN IF m.leader_commit <= Len(newlog) THEN m.leader_commit
                     ELSE Len(newlog)
                ELSE commit_id[i]
      waiting == round[m.src].phase = "wait" /\ round[m.src].req = m
  IN  /\ m.op = "AppendEntries"
      /\ last_leader' = IF stale THEN last_leader
                        ELSE [last_leader EXCEPT ![i] = m.src]
      /\ current_term' = [current_term EXCEPT ![i] = Adopt(i, m.term)]
      /\ voted_for' = [voted_for EXCEPT ![i] = VoteAfter(i, m.term)]
      /\ state' = [state EXCEPT ![i] = StateAfter(i, m.term)]
      /\ log' = [log EXCEPT ![i] = newlog]
      /\ commit_id' = [commit_id EXCEPT ![i] = commit]
      /\ applied' = [applied EXCEPT ![i] = Apply(@, newlog, commit)]
      /\ round' = IF waiting
                  THEN [round EXCEPT ![m.src].reply =
                          [success |-> success, term |-> Adopt(i, m.term)]]
                  ELSE round
      /\ net' = net \ {m}
      /\ UNCHANGED <<next_id, match_id, ballot, call, restarts>>

-----------------------------------------------------------------------------
(* The client handlers handle_create and handle_put_file.                  *)

\* append_entry, and the start of the wait for its id.
Submit(i, c) ==
  /\ state[i] = "leader"
  /\ call[c].status = "none"
  /\ log' = [log EXCEPT ![i] = Append(@, [term |-> current_term[i],
                                          command |-> c])]
  /\ call' = [call EXCEPT ![c] = [status |-> "waiting", at |-> i,
                                  log_id |-> Len(log[i]) + 1,
                                  answered |-> None]]
  /\ UNCHANGED <<current_term, voted_for, node, ballot, round, net, restarts>>

\* mutant: the handler does not wait for the commit
AnswerUncommitted(c) ==
  /\ call[c].status = "waiting"
  /\ call[c].log_id <= Len(log[call[c].at])
  /\ call' = [call EXCEPT ![c].status = "answered", ![c].answered = c]
  /\ UNCHANGED <<persistent, node, ballot, round, net, restarts>>

\* The wait ends: commit_id has reached the id.  The handler executes the
\* command it finds there and answers with the result of that one.
Answer(c) ==
  LET i == call[c].at
      n == call[c].log_id
  IN  /\ call[c].status = "waiting"
      /\ commit_id[i] >= n
      /\ call' = [call EXCEPT ![c] =
                    IF n <= Len(log[i])
                    THEN [@ EXCEPT !.status = "answered",
                                   !.answered = log[i][n].command]
                    ELSE [@ EXCEPT !.status = "failed"]]
      /\ UNCHANGED <<persistent, node, ballot, round, net, restarts>>

\* commit_timeout, or the deadline of the request
GiveUp(c) ==
  /\ call[c].status = "waiting"
  /\ call' = [call EXCEPT ![c].status = "failed"]
  /\ UNCHANGED <<persistent, node, ballot, round, net, restarts>>

-----------------------------------------------------------------------------
(* Faults.                                                                 *)

\* __init__ and _load_state: everything that raft_state.json lacks is lost.
Volatile(i) ==
  /\ restarts < MaxRestart
  /\ restarts' = restarts + 1
  /\ state' = [state EXCEPT ![i] = "follower"]
  /\ commit_id' = [commit_id EXCEPT ![i] = 0]
  /\ applied' = [applied EXCEPT ![i] = <<>>]
  /\ next_id' = [next_id EXCEPT ![i] = [j \in Server |-> 1]]
  /\ match_id' = [match_id EXCEPT ![i] = [j \in Server |-> 0]]
  /\ last_leader' = [last_leader EXCEPT ![i] = None]
  /\ ballot' = [ballot EXCEPT ![i] = Closed]
  /\ round' = [round EXCEPT ![i] = Idle]
  /\ call' = [c \in Command |->
                IF call[c].status = "waiting" /\ call[c].at = i
                THEN [call[c] EXCEPT !.status = "failed"] ELSE call[c]]

\* mutants: the vote, or the log, was never saved
VoteUnsaved(i) == /\ Volatile(i) /\ UNCHANGED <<current_term, log, net>>
                  /\ voted_for' = [voted_for EXCEPT ![i] = None]
LogUnsaved(i) == /\ Volatile(i) /\ UNCHANGED <<current_term, voted_for, net>>
                 /\ log' = [log EXCEPT ![i] = <<>>]

Restart(i) == Volatile(i) /\ UNCHANGED <<persistent, net>>

\* Killed while it handles m, after follower(term) has saved the new term and
\* before the handler saves its vote or its log.
RestartInHandler(m) ==
  LET i == m.dst
  IN  /\ m.term > current_term[i]
      /\ Volatile(i)
      /\ current_term' = [current_term EXCEPT ![i] = m.term]
      /\ voted_for' = [voted_for EXCEPT ![i] = None]
      /\ net' = net \ {m}
      /\ UNCHANGED log

-----------------------------------------------------------------------------

Next ==
  \/ \E i \in Server :
       \/ Election(i) \/ Tally(i) \/ Beat(i) \/ Restart(i)
       \/ \E r \in AnswerOf(i) : \/ \E j \in Peers(i) : Replicate(i, j, r)
                                \/ EndRound(i, r)
  \/ \E m \in net : \/ HandleVoteRequest(m) \/ HandleAppendEntries(m)
                    \/ RestartInHandler(m)
  \/ \E c \in Command : \/ \E i \in Server : Submit(i, c)
                        \/ Answer(c) \/ GiveUp(c)

Spec == Init /\ [][Next]_vars

(***************************************************************************)
(* The heartbeat loop of a running server goes on for ever, and each of    *)
(* its awaits ends within 0.5 s.  A peer is not cut off for good: of the   *)
(* requests sent to it again and again some arrive, some of those are      *)
(* handled while the leader waits, and some of the answers are in time.    *)
(***************************************************************************)
Fairness ==
  \A i \in Server :
    /\ WF_vars(Beat(i))
    /\ WF_vars(\E r \in AnswerOf(i) : \/ \E j \in Peers(i) : Replicate(i, j, r)
                                      \/ EndRound(i, r))
    /\ \A j \in Peers(i) :
         /\ SF_vars(\E r \in AnswerOf(i) : /\ Replicate(i, j, r)
                                            /\ round'[i].req \in net')
         /\ SF_vars(\E m \in net : /\ m = round[i].req /\ m.dst = j
                                   /\ HandleAppendEntries(m))
         /\ SF_vars(/\ round[i].req # None /\ round[i].req.dst = j
                    /\ \E r \in AnswerOf(i) \ {None} :
                         \/ \E k \in Peers(i) : Replicate(i, k, r)
                         \/ EndRound(i, r))

FairSpec == Spec /\ Fairness
-----------------------------------------------------------------------------
(* Properties.                                                             *)

\* Every variable keeps to the values the code gives it.
TypeOK ==
  /\ current_term \in [Server -> Nat]
  /\ voted_for \in [Server -> Server \cup {None}]
  /\ log \in [Server -> Seq(Entry)]
  /\ commit_id \in [Server -> Nat]
  /\ applied \in [Server -> Seq(Command)]
  /\ state \in [Server -> {"follower", "candidate", "leader"}]
  /\ next_id \in [Server -> [Server -> Nat \ {0}]]
  /\ match_id \in [Server -> [Server -> Nat]]
  /\ last_leader \in [Server -> Server \cup {None}]
  /\ ballot \in [Server -> Ballot]
  /\ round \in [Server -> Round]
  /\ net \subseteq Request
  /\ call \in [Command -> Call]
  /\ restarts \in Nat

\* No two servers lead in the same term, however votes, crashes and late
\* replies interleave (vote, election, _election_loop).
ElectionSafety ==
  \A i, j \in Server :
    state[i] = "leader" /\ state[j] = "leader" /\ i # j
      => current_term[i] # current_term[j]

\* What makes elections safe: a vote counted in a ballot is still what the
\* voter saved for that term, no voter is in the ballots of two candidates of
\* one term, and whoever leads holds a majority in a ballot of its own term.
VotesBacked ==
  /\ \A i \in Server :
       /\ ballot[i].term <= current_term[i]
       /\ ballot[i].open => ballot[i].term > 0
       /\ ballot[i].term = 0 => ballot[i].granted = {}
       /\ ballot[i].term = current_term[i] /\ ballot[i].term > 0 => voted_for[i] = i
       /\ state[i] # "follower" => ballot[i].term = current_term[i]
       /\ state[i] = "leader" => /\ ~ballot[i].open
                                 /\ Cardinality(ballot[i].granted) + 1 >= Majority
       /\ \A v \in ballot[i].granted :
            /\ v # i /\ current_term[v] >= ballot[i].term
            /\ current_term[v] = ballot[i].term => voted_for[v] = i
  /\ \A i, j \in Server : i # j /\ ballot[i].term = ballot[j].term =>
       /\ ballot[i].granted \cap ballot[j].granted = {}
       /\ i \notin ballot[j].granted

\* A server never changes its vote within a term, nor goes back to an earlier
\* term, not even across a crash (_save_state before the vote is answered).
VotesAreKept ==
  [][\A i \in Server :
       /\ current_term'[i] >= current_term[i]
       /\ current_term'[i] = current_term[i] /\ voted_for[i] # None
            => voted_for'[i] = voted_for[i]]_vars

\* Two logs that hold an entry of the same id and term hold the same entries
\* up to it (append_entries' check of prev_log_id and prev_log_term).
LogMatching ==
  \A i, j \in Server : \A n \in DOMAIN log[i] \cap DOMAIN log[j] :
    log[i][n].term = log[j][n].term => SubSeq(log[i], 1, n) = SubSeq(log[j], 1, n)

\* No two servers hand different commands to the state machine at the same id.
StateMachineSafety ==
  \A i, j \in Server : \A n \in DOMAIN applied[i] \cap DOMAIN applied[j] :
    applied[i][n] = applied[j][n]

\* A leader's log holds whatever any server of the same or an earlier term has
\* handed to its state machine (is_up_to_date, update_commit_id's term check).
LeaderCompleteness ==
  \A i, j \in Server :
    state[i] = "leader" /\ current_term[i] >= current_term[j] =>
      /\ Len(applied[j]) <= Len(log[i])
      /\ \A n \in 1..Len(applied[j]) : log[i][n].command = applied[j][n]

\* An entry a server has applied is in the saved logs of a majority, so no
\* crash can take it away.
AppliedIsStored ==
  \A i \in Server : \A n \in 1..Len(applied[i]) :
    Cardinality({j \in Server : n <= Len(log[j])
                                /\ log[j][n].command = applied[i][n]}) >= Majority

\* A leader never cuts or overwrites its own log while it leads its term,
\* whatever requests of its own or of a rival are still under way.
LeaderAppendOnly ==
  [][\A i \in Server :
       state[i] = "leader" /\ state'[i] = "leader" /\ current_term'[i] = current_term[i]
         => /\ Len(log'[i]) >= Len(log[i])
            /\ SubSeq(log'[i], 1, Len(log[i])) = log[i]]_vars

\* AppendEntries requests of one term come from one server, its leader.
OneSenderPerTerm ==
  \A m1, m2 \in {m \in net : m.op = "AppendEntries"} :
    m1.term = m2.term => m1.src = m2.src

\* However far a peer's log is behind, a leader that stays brings it up to its
\* own, entries of earlier terms included (replicate_log's retreat of next_id).
PeersCatchUp ==
  \A i \in Server : \A j \in Peers(i) : \A n \in 1..Cardinality(Command) :
    (state[i] = "leader" /\ n <= Len(log[i]))
      ~> (state[i] = "leader" => n <= Len(log[j]) /\ log[j][n] = log[i][n])

\* What a leader appends in its own term gets committed, unless the leader is
\* deposed (update_commit_id).
OwnEntriesCommit ==
  \A i \in Server : \A n \in 1..Cardinality(Command) :
    (/\ state[i] = "leader" /\ n <= Len(log[i])
     /\ log[i][n].term = current_term[i])
      ~> (state[i] = "leader" => commit_id[i] >= n)

=============================================================================

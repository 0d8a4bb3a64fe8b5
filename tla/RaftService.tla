----------------------------- MODULE RaftService ----------------------------
(***************************************************************************)
(* RaftService (src/run_afs_server.py), the second server program: the     *)
(* RaftNode and RaftRPC of Raft under loops and client handlers of its     *)
(* own.  A round of its heartbeat loop calls replicate_log for all peers   *)
(* at once and waits for all of them; only the heartbeat loop hands        *)
(* committed entries over, so only a leader does.                          *)
(***************************************************************************)
EXTENDS Raft

VARIABLE pending   \* the replicate_log calls of the round under way, each
                   \* with its request and the answer that has come back

serviceVars == <<vars, pending>>

\* What Raft says of a round that waits for one call holds for each of them.
One(p) == INSTANCE Raft WITH round <- [i \in Server |-> p]

Waiting(req, reply) == [phase |-> "wait", todo |-> {}, req |-> req, reply |-> reply]

ServiceInit == Init /\ pending = [i \in Server |-> {}]

-----------------------------------------------------------------------------

\* election_loop, when the votes are in: their number is all that counts.
TakeOffice(i) ==
  /\ ballot[i].open
  /\ \E got \in SUBSET ballot[i].granted :
       IF Cardinality(got) + 1 >= Majority
       THEN /\ state' = [state EXCEPT ![i] = "leader"]
            /\ next_id' = [next_id EXCEPT ![i] = FirstNextId(i)]
            /\ match_id' = [match_id EXCEPT ![i] = [j \in Server |-> 0]]
            /\ ballot' = [ballot EXCEPT ![i] = Counted(ballot[i].term, got)]
       ELSE /\ ballot' = [ballot EXCEPT ![i] = Counted(ballot[i].term, {})]
            /\ UNCHANGED <<state, next_id, match_id>>
  /\ UNCHANGED <<persistent, commit_id, applied, last_leader, round, net, call,
                 restarts, pending>>

\* A turn of heartbeat_loop up to its gather
Gather(i) ==
  LET q(j) == ReplicateRequest(i, j, current_term[i], next_id[i][j])
  IN  /\ state[i] = "leader" /\ round[i] = Idle
      /\ round' = [round EXCEPT ![i] = Waiting(None, None)]
      /\ pending' = [pending EXCEPT ![i] = {Waiting(q(j), None) : j \in Peers(i)}]
      /\ Send({q(j) : j \in Peers(i)})
      /\ UNCHANGED <<persistent, node, ballot, call, restarts>>

\* One of the calls returns, with its answer or without.
ReturnOne(i, p) ==
  /\ \E r \in {None, p.reply} : One(p)!Return(i, r)
  /\ pending' = [pending EXCEPT ![i] = @ \ {p}]
  /\ UNCHANGED <<log, commit_id, applied, last_leader, ballot, round, net, call, restarts>>

\* All have returned: update_commit_id and apply_commited_entries.
EndGather(i) ==
  LET ready == Committable(i, state[i], current_term[i], match_id[i])
      commit == IF ready = {} THEN commit_id[i] ELSE Max(ready)
  IN  /\ round[i] # Idle /\ pending[i] = {}
      /\ commit_id' = [commit_id EXCEPT ![i] = commit]
      /\ applied' = [applied EXCEPT ![i] = Apply(@, log[i], commit)]
      /\ round' = [round EXCEPT ![i] = Idle]
      /\ UNCHANGED <<persistent, state, next_id, match_id, last_leader, ballot,
                     net, call, restarts, pending>>

\* handle_append hands nothing over. The answer goes to the call that waits.
HandleAppend(m) ==
  LET i == m.dst
      stale == m.term < current_term[i]
      success == ~stale /\ PrevMatches(log[i], m.prev_log_id, m.prev_log_term)
      newlog == CASE success -> Merge(log[i], m.prev_log_id, m.entries)
                  [] ~stale /\ ~success /\ m.prev_log_id <= Len(log[i])
                       -> SubSeq(log[i], 1, m.prev_log_id - 1)
                  [] OTHER -> log[i]
      answer == [success |-> success, term |-> Adopt(i, m.term)]
  IN  /\ m.op = "AppendEntries"
      /\ current_term' = [current_term EXCEPT ![i] = Adopt(i, m.term)]
      /\ voted_for' = [voted_for EXCEPT ![i] = VoteAfter(i, m.term)]
      /\ state' = [state EXCEPT ![i] = StateAfter(i, m.term)]
      /\ log' = [log EXCEPT ![i] = newlog]
      /\ commit_id' = [commit_id EXCEPT ![i] =
                         IF success /\ m.leader_commit > @
                         THEN Min({m.leader_commit, Len(newlog)}) ELSE @]
      /\ pending' = [pending EXCEPT ![m.src] =
                       {IF p.req = m THEN Waiting(m, answer) ELSE p : p \in @}]
      /\ net' = net \ {m}
      /\ UNCHANGED <<applied, next_id, match_id, last_leader, ballot, round, call, restarts>>

\* client_write_request waits for its id, and answers without executing.
AnswerWrite(c) ==
  /\ call[c].status = "waiting"
  /\ commit_id[call[c].at] >= call[c].log_id
  /\ call' = [call EXCEPT ![c].status = "answered", ![c].answered = c]
  /\ UNCHANGED <<persistent, node, ballot, round, net, restarts, pending>>

\* A crash loses the round, too.
Dropped(i) == pending' = [pending EXCEPT ![i] = {}]

\* Elections, votes, submissions and crashes are those of Raft.
ServiceNext ==
  \/ \E i \in Server :
       \/ Election(i) /\ UNCHANGED pending
       \/ TakeOffice(i) \/ Gather(i) \/ EndGather(i)
       \/ \E p \in pending[i] : ReturnOne(i, p)
       \/ Restart(i) /\ Dropped(i)
  \/ \E m \in net : \/ HandleVoteRequest(m) /\ UNCHANGED pending
                    \/ HandleAppend(m)
                    \/ RestartInHandler(m) /\ Dropped(m.dst)
  \/ \E c \in Command : \/ \E i \in Server : Submit(i, c) /\ UNCHANGED pending
                        \/ AnswerWrite(c)
                        \/ GiveUp(c) /\ UNCHANGED pending

ServiceSpec == ServiceInit /\ [][ServiceNext]_serviceVars
=============================================================================

----------------------------- MODULE RaftProofs -----------------------------
(***************************************************************************)
(* What holds of Raft for every number of servers, terms, commands and     *)
(* crashes: its variables keep to their types, and no two servers lead in  *)
(* the same term, whatever late heartbeat rounds do.  If what a round does *)
(* after its leader stepped down is lost: append requests of a term have   *)
(* one sender, a leader never cuts its own log, and logs that share an     *)
(* entry share what comes before it.                                       *)
(***************************************************************************)
EXTENDS Raft, FiniteSetTheorems, SequenceTheorems, WellFoundedInduction, TLAPS

-----------------------------------------------------------------------------
(* Lemmas about the operators.                                             *)

\* A non-empty set of naturals has a least element, which Min finds.
LEMMA MinExists ==
  ASSUME NEW S \in SUBSET Nat, S # {}
  PROVE  Min(S) \in S /\ \A y \in S : Min(S) <= y
<1>1. PICK x \in S : \A y \in S : <<y, x>> \notin OpToRel(<, Nat)
  BY NatLessThanWellFounded, WFMin
<1>2. \A y \in S : ~(y < x)
  BY <1>1, Zenon DEF OpToRel
<1>3. \A y \in S : x <= y
  BY <1>2
<1> QED
  BY <1>3 DEF Min

\* A non-empty bounded set of naturals has a greatest element, which Max finds.
LEMMA MaxExists ==
  ASSUME NEW S \in SUBSET Nat, S # {}, NEW b \in Nat, \A y \in S : y <= b
  PROVE  Max(S) \in S /\ \A y \in S : Max(S) >= y
<1> DEFINE T == {b - y : y \in S}
<1>1. T \in SUBSET Nat /\ T # {}
  <2>1. ASSUME NEW y \in S PROVE b - y \in Nat
    OBVIOUS
  <2>2. T \in SUBSET Nat
    BY <2>1
  <2>3. PICK y \in S : TRUE
    OBVIOUS
  <2>4. b - y \in T
    OBVIOUS
  <2> QED
    BY <2>2, <2>4
<1>2. Min(T) \in T /\ \A t \in T : Min(T) <= t
  BY <1>1, MinExists
<1>3. PICK x \in S : Min(T) = b - x
  BY <1>2
<1>4. \A y \in S : x >= y
  <2> SUFFICES ASSUME NEW y \in S PROVE x >= y
    OBVIOUS
  <2>1. b - y \in T
    OBVIOUS
  <2>2. b - x <= b - y
    BY <2>1, <1>2, <1>3
  <2> QED
    BY <2>2
<1> QED
  BY <1>4 DEF Max

\* A slice of a sequence is a sequence of the same elements.
LEMMA SliceType ==
  ASSUME NEW S, NEW l \in Seq(S), NEW a \in Nat \ {0}, NEW b \in Nat, b <= Len(l)
  PROVE  SubSeq(l, a, b) \in Seq(S)
<1>1. \A n \in a..b : l[n] \in S
  BY ElementOfSeq, LenProperties
<1> QED
  BY <1>1, SubSeqProperties

\* The last term of a log is a natural number, zero for the empty log.
LEMMA LastTermType ==
  ASSUME NEW l \in Seq(Entry)
  PROVE  LastTerm(l) \in Nat
<1>1. CASE l = <<>>
  BY <1>1 DEF LastTerm
<1>2. CASE l # <<>>
  <2>1. Len(l) \in 1..Len(l)
    BY <1>2, EmptySeq, LenProperties
  <2>2. l[Len(l)] \in Entry
    BY <2>1, ElementOfSeq
  <2> QED
    BY <1>2, <2>2 DEF LastTerm, Entry
<1> QED
  BY <1>1, <1>2

\* Merging a request into the log it builds on yields a log.
LEMMA MergeType ==
  ASSUME NEW l \in Seq(Entry), NEW entries \in Seq(Entry),
         NEW prev \in Nat, prev <= Len(l)
  PROVE  Merge(l, prev, entries) \in Seq(Entry)
<1> DEFINE D == Differing(l, prev, entries)
<1>0. Len(l) \in Nat /\ Len(entries) \in Nat
  BY LenProperties
<1>1. CASE D = {}
  BY <1>1 DEF Merge
<1>2. CASE D # {}
  <2> DEFINE k == Min(D)
  <2>1. D \in SUBSET Nat
    BY <1>0 DEF Differing
  <2>2. k \in D /\ \A x \in D : k <= x
    BY <1>2, <2>1, MinExists
  <2>3. k \in 1..Len(entries)
    BY <2>2 DEF Differing
  <2>4. prev + k - 1 <= Len(l)
    <3>1. CASE k = 1
      BY <3>1, <1>0
    <3>2. CASE k # 1
      <4>1. k - 1 \in 1..Len(entries) /\ k - 1 \notin D
        BY <3>2, <2>3, <2>2, <1>0
      <4> QED
        BY <4>1, <1>0, <2>3 DEF Differing
    <3> QED
      BY <3>1, <3>2
  <2>5. SubSeq(l, 1, prev + k - 1) \in Seq(Entry)
    <3>1. prev + k - 1 \in Nat
      BY <2>3, <1>0
    <3> QED
      BY <3>1, <2>4, SliceType
  <2>6. SubSeq(entries, k, Len(entries)) \in Seq(Entry)
    <3>1. k \in Nat \ {0}
      BY <2>3, <1>0
    <3> QED
      BY <3>1, <1>0, SliceType
  <2>7. Merge(l, prev, entries)
          = SubSeq(l, 1, prev + k - 1) \o SubSeq(entries, k, Len(entries))
    BY <1>2 DEF Merge
  <2> QED
    BY <2>5, <2>6, <2>7, ConcatProperties
<1> QED
  BY <1>1, <1>2

\* A function on 1..n is a sequence of length n.
LEMMA FunctionIsSeq ==
  ASSUME NEW S, NEW n \in Nat, NEW f \in [1..n -> S]
  PROVE  f \in Seq(S) /\ Len(f) = n
OBVIOUS

\* Moving commit_id inside the log hands over at least as many commands.
LEMMA ApplyType ==
  ASSUME NEW l \in Seq(Entry), NEW done \in Seq(Command), NEW commit \in Nat,
         commit > Len(done) => commit <= Len(l)
  PROVE  /\ Apply(done, l, commit) \in Seq(Command)
         /\ Len(Apply(done, l, commit)) \in Nat
         /\ Len(Apply(done, l, commit)) >= commit
<1> DEFINE n == commit - Len(done)
           new == [k \in 1..n |-> l[Len(done) + k].command]
<1>0. Len(done) \in Nat /\ Len(l) \in Nat
  BY LenProperties
<1>1. CASE commit <= Len(done)
  BY <1>1, <1>0 DEF Apply
<1>2. CASE commit > Len(done)
  <2>0. n \in Nat
    BY <1>2, <1>0
  <2>1. ASSUME NEW k \in 1..n
        PROVE  l[Len(done) + k].command \in Command
    <3>1. Len(done) + k \in 1..Len(l)
      BY <1>0, <1>2
    <3>2. l[Len(done) + k] \in Entry
      BY <3>1, ElementOfSeq
    <3> QED
      BY <3>2 DEF Entry
  <2>2. new \in [1..n -> Command]
    BY <2>1
  <2>3. new \in Seq(Command) /\ Len(new) = n
    <3> HIDE DEF new, n
    <3> QED
      BY <2>0, <2>2, FunctionIsSeq
  <2>4. Apply(done, l, commit) = done \o new
    BY <1>2 DEF Apply
  <2> HIDE DEF new
  <2>5. Apply(done, l, commit) \in Seq(Command)
        /\ Len(Apply(done, l, commit)) = Len(done) + n
    BY <2>3, <2>4, ConcatProperties
  <2> QED
    BY <2>5, <1>0
<1> QED
  BY <1>1, <1>2, <1>0

-----------------------------------------------------------------------------
(* Type correctness.                                                       *)

\* TypeOK is not inductive alone: applying needs to know that what has been
\* applied reaches commit_id, a reply needs its request, a waiting call its
\* server, and a handler that its request comes from another server.
Typing ==
  /\ TypeOK
  /\ \A i \in Server : commit_id[i] <= Len(applied[i])
  /\ \A i \in Server : round[i].reply # None => round[i].req \in AppendRequest
  /\ \A c \in Command : call[c].status = "waiting" =>
                          call[c].at \in Server /\ call[c].log_id > 0
  /\ \A m \in net : m.src # m.dst

\* The initial state is well typed.
LEMMA InitTyping == Init => Typing
<1> SUFFICES ASSUME Init PROVE Typing
  OBVIOUS
<1>1. TypeOK
  <2>1. log \in [Server -> Seq(Entry)] /\ applied \in [Server -> Seq(Command)]
    BY EmptySeq DEF Init
  <2>2. Idle \in Round
    BY DEF Idle, Round
  <2>3. Closed \in Ballot
    BY DEF Closed, Ballot
  <2>4. NoCall \in Call
    BY DEF NoCall, Call
  <2> QED
    BY <2>1, <2>2, <2>3, <2>4 DEF Init, TypeOK
<1>2. \A i \in Server : commit_id[i] <= Len(applied[i])
  BY EmptySeq DEF Init
<1> QED
  BY <1>1, <1>2 DEF Typing, Init, Idle, NoCall

\* Adopting a term, and what goes with it, keeps to the types.
LEMMA AdoptTypes ==
  ASSUME TypeOK, NEW i \in Server, NEW t \in Nat
  PROVE  /\ Adopt(i, t) \in Nat
         /\ Adopt(i, t) >= current_term[i]
         /\ VoteAfter(i, t) \in Server \cup {None}
         /\ StateAfter(i, t) \in {"follower", "candidate", "leader"}
BY DEF TypeOK, Adopt, VoteAfter, StateAfter

\* Elections keep the types.
LEMMA ElectionTyping ==
  ASSUME Typing, NEW i \in Server, Election(i)
  PROVE  Typing'
<1>1. log[i] \in Seq(Entry) /\ Len(log[i]) \in Nat /\ LastTerm(log[i]) \in Nat
  BY LastTermType, LenProperties DEF Typing, TypeOK
<1>2. net' \subseteq Request /\ \A m \in net' : m.src # m.dst
  BY <1>1, SMTT(30) DEF Election, Send, Typing, TypeOK, Request, VoteRequest, Peers
<1> QED
  BY <1>2 DEF Election, Typing, TypeOK, Ballot

\* Counting the votes keeps the types.
LEMMA TallyTyping ==
  ASSUME Typing, NEW i \in Server, Tally(i)
  PROVE  Typing'
<1>1. Len(log[i]) + 1 \in Nat \ {0}
  BY LenProperties DEF Typing, TypeOK
<1>2. PICK got \in SUBSET ballot[i].granted :
        \/ /\ state' = [state EXCEPT ![i] = "leader"]
           /\ next_id' = [next_id EXCEPT ![i] =
                            [j \in Server |-> Len(log[i]) + 1]]
           /\ match_id' = [match_id EXCEPT ![i] = [j \in Server |-> 0]]
           /\ ballot' = [ballot EXCEPT ![i] = Counted(ballot[i].term, got)]
        \/ /\ ballot' = [ballot EXCEPT ![i] = Counted(ballot[i].term, {})]
           /\ UNCHANGED <<state, next_id, match_id>>
  BY DEF Tally, Won, FirstNextId
<1>3. /\ Counted(ballot[i].term, got) \in Ballot
      /\ Counted(ballot[i].term, {}) \in Ballot
  BY DEF Typing, TypeOK, Ballot, Counted
<1>4. /\ state' \in [Server -> {"follower", "candidate", "leader"}]
      /\ match_id' \in [Server -> [Server -> Nat]]
      /\ next_id' \in [Server -> [Server -> Nat \ {0}]]
      /\ ballot' \in [Server -> Ballot]
  <2>1. /\ state \in [Server -> {"follower", "candidate", "leader"}]
        /\ match_id \in [Server -> [Server -> Nat]]
        /\ next_id \in [Server -> [Server -> Nat \ {0}]]
        /\ ballot \in [Server -> Ballot]
    BY DEF Typing, TypeOK
  <2>2. CASE ballot' = [ballot EXCEPT ![i] = Counted(ballot[i].term, got)]
             /\ state' = [state EXCEPT ![i] = "leader"]
             /\ next_id' = [next_id EXCEPT ![i] =
                              [j \in Server |-> Len(log[i]) + 1]]
             /\ match_id' = [match_id EXCEPT ![i] = [j \in Server |-> 0]]
    BY <1>1, <1>3, <2>1, <2>2
  <2>3. CASE ballot' = [ballot EXCEPT ![i] = Counted(ballot[i].term, {})]
             /\ UNCHANGED <<state, next_id, match_id>>
    BY <1>3, <2>1, <2>3
  <2> QED
    BY <1>2, <2>2, <2>3
<1> QED
  BY <1>4 DEF Tally, Won, FirstNextId, Typing, TypeOK, persistent

\* Answering a vote request keeps the types.
LEMMA HandleVoteRequestTyping ==
  ASSUME Typing, NEW m \in net, HandleVoteRequest(m)
  PROVE  Typing'
<1>1. m.src \in Server /\ m.dst \in Server /\ m.term \in Nat
  BY DEF Typing, TypeOK, Request, VoteRequest, AppendRequest
<1>2. /\ current_term' \in [Server -> Nat]
      /\ voted_for' \in [Server -> Server \cup {None}]
      /\ state' \in [Server -> {"follower", "candidate", "leader"}]
  BY <1>1, AdoptTypes DEF HandleVoteRequest, Typing, TypeOK
<1>3. ballot' \in [Server -> Ballot]
  <2>1. ballot[m.src] \in Ballot
    BY <1>1 DEF Typing, TypeOK
  <2>2. WithVote(ballot[m.src], m.dst) \in Ballot
    BY <1>1, <2>1 DEF WithVote, Ballot
  <2> QED
    BY <1>1, <2>2 DEF HandleVoteRequest, Typing, TypeOK
<1> QED
  BY <1>2, <1>3 DEF HandleVoteRequest, Typing, TypeOK

\* What is sent keeps net to requests between two servers.
LEMMA SendTyping ==
  ASSUME Typing, NEW R, Send(R), \A m \in R : m \in Request /\ m.src # m.dst
  PROVE  net' \subseteq Request /\ \A m \in net' : m.src # m.dst
BY DEF Send, Typing, TypeOK

\* A heartbeat keeps the types.
LEMMA BeatTyping ==
  ASSUME Typing, NEW i \in Server, Beat(i)
  PROVE  Typing'
<1>1. log[i] \in Seq(Entry) /\ Len(log[i]) \in Nat /\ LastTerm(log[i]) \in Nat
  BY LastTermType, LenProperties DEF Typing, TypeOK
<1>2. ASSUME NEW j \in Peers(i)
      PROVE  Heartbeat(i, j) \in AppendRequest /\ i # j
  <2>1. <<>> \in Seq(Entry) /\ current_term[i] \in Nat /\ commit_id[i] \in Nat
    BY EmptySeq DEF Typing, TypeOK
  <2> QED
    BY <1>1, <2>1 DEF Heartbeat, AppendRequest, Peers
<1>3. net' \subseteq Request /\ \A m \in net' : m.src # m.dst
  <2>1. \A m \in {Heartbeat(i, j) : j \in Peers(i)} : m \in Request /\ m.src # m.dst
    BY <1>2 DEF Request, Heartbeat
  <2> QED
    BY <2>1, SendTyping DEF Beat
<1> QED
  <2>1. [phase |-> "beat", todo |-> Peers(i), req |-> None, reply |-> None] \in Round
    BY DEF Round, Peers
  <2>2. round' \in [Server -> Round]
    BY <2>1 DEF Beat, Typing, TypeOK
  <2>3. \A k \in Server : round'[k].reply # None => round'[k].req \in AppendRequest
    BY DEF Beat, Typing, TypeOK
  <2> QED
    BY <1>3, <2>2, <2>3 DEF Beat, Typing, TypeOK, persistent, node

\* The answer that a replicate_log call returns with is one to its request.
LEMMA AnswerTypes ==
  ASSUME Typing, NEW i \in Server, NEW r \in AnswerOf(i)
  PROVE  /\ r # None => r \in Reply /\ round[i].req \in AppendRequest
         /\ TermOn(i, r) \in Nat
         /\ TermOn(i, r) >= current_term[i]
         /\ VoteOn(i, r) \in Server \cup {None}
         /\ StateOn(i, r) \in {"follower", "candidate", "leader"}
         /\ MatchOn(i, r) \in [Server -> Nat]
         /\ NextOn(i, r) \in [Server -> Nat \ {0}]
<1>1. r # None => r \in Reply /\ round[i].req \in AppendRequest
  BY DEF AnswerOf, Typing, TypeOK, Round
<1>2. /\ TypeOK /\ current_term[i] \in Nat
      /\ match_id[i] \in [Server -> Nat] /\ next_id[i] \in [Server -> Nat \ {0}]
      /\ voted_for[i] \in Server \cup {None}
      /\ state[i] \in {"follower", "candidate", "leader"}
  BY DEF Typing, TypeOK
<1>3. CASE r = None
  BY <1>2, <1>3 DEF TermOn, VoteOn, StateOn, MatchOn, NextOn
<1>4. CASE r # None
  <2>1. r.term \in Nat
    BY <1>1, <1>4 DEF Reply
  <2>2. /\ TermOn(i, r) \in Nat
        /\ TermOn(i, r) >= current_term[i]
        /\ VoteOn(i, r) \in Server \cup {None}
        /\ StateOn(i, r) \in {"follower", "candidate", "leader"}
    BY <2>1, <1>2, <1>4, AdoptTypes DEF TermOn, VoteOn, StateOn
  <2>3. /\ round[i].req.prev_log_id \in Nat
        /\ Len(round[i].req.entries) \in Nat
        /\ round[i].req.dst \in Server
    BY <1>1, <1>4, LenProperties DEF AppendRequest
  <2>4. MatchOn(i, r) \in [Server -> Nat]
    BY <2>3, <1>2, SMTT(30) DEF MatchOn
  <2>5. NextOn(i, r) \in [Server -> Nat \ {0}]
    <3>1. CASE r.term > current_term[i]
      BY <3>1, <1>2 DEF NextOn
    <3>2. CASE ~(r.term > current_term[i]) /\ ~r.success
      BY <3>2, <2>3, <1>2, <1>4 DEF NextOn
    <3>3. CASE ~(r.term > current_term[i]) /\ r.success
      BY <3>3, <2>3, <1>2, <1>4, SMTT(30) DEF NextOn
    <3> QED
      BY <3>1, <3>2, <3>3
  <2> QED
    BY <1>1, <2>2, <2>4, <2>5
<1> QED
  BY <1>3, <1>4

\* The request of replicate_log is a request to the peer.
LEMMA ReplicateRequestType ==
  ASSUME Typing, NEW i \in Server, NEW j \in Peers(i), NEW term \in Nat,
         NEW next \in Nat \ {0}
  PROVE  ReplicateRequest(i, j, term, next) \in AppendRequest
<1>1. log[i] \in Seq(Entry) /\ Len(log[i]) \in Nat /\ commit_id[i] \in Nat
  BY LenProperties DEF Typing, TypeOK
<1>2. SubSeq(log[i], next, Len(log[i])) \in Seq(Entry)
  BY <1>1, SliceType
<1>3. (IF next - 1 > 0 /\ next - 1 <= Len(log[i])
       THEN log[i][next - 1].term ELSE 0) \in Nat
  <2>1. CASE next - 1 > 0 /\ next - 1 <= Len(log[i])
    <3>1. next - 1 \in 1..Len(log[i])
      BY <2>1, <1>1
    <3>2. log[i][next - 1] \in Entry
      BY <3>1, <1>1, ElementOfSeq
    <3> QED
      BY <2>1, <3>2 DEF Entry
  <2> QED
    BY <2>1
<1>4. next - 1 \in Nat
  OBVIOUS
<1> QED
  BY <1>1, <1>2, <1>3, <1>4 DEF ReplicateRequest, AppendRequest, Peers

\* Turning to the next peer keeps the types.
LEMMA ReplicateTyping ==
  ASSUME Typing, NEW i \in Server, NEW r \in AnswerOf(i), NEW j \in Peers(i),
         Replicate(i, j, r)
  PROVE  Typing'
<1> DEFINE q == ReplicateRequest(i, j, TermOn(i, r), NextOn(i, r)[j])
<1>1. q \in AppendRequest /\ q.src = i /\ q.dst = j /\ i # j
  <2>1. TermOn(i, r) \in Nat /\ NextOn(i, r)[j] \in Nat \ {0}
    BY AnswerTypes DEF Peers
  <2> QED
    BY <2>1, ReplicateRequestType DEF ReplicateRequest, Peers
<1>2. net' \subseteq Request /\ \A m \in net' : m.src # m.dst
  <2>1. Send({q}) \/ Send({})
    BY DEF Replicate
  <2> QED
    BY <1>1, <2>1, SendTyping DEF Request
<1>3. round' \in [Server -> Round] /\ round'[i].reply = None
      /\ \A k \in Server \ {i} : round'[k] = round[k]
  <2>1. round' = [round EXCEPT ![i] = [phase |-> "wait",
                    todo |-> round[i].todo \ {j}, req |-> q, reply |-> None]]
    BY DEF Replicate
  <2>2. round \in [Server -> Round]
    BY DEF Typing, TypeOK
  <2>3. [phase |-> "wait", todo |-> round[i].todo \ {j}, req |-> q,
         reply |-> None] \in Round
    BY <1>1, <2>2 DEF Round
  <2> HIDE DEF q
  <2> QED
    BY <2>1, <2>2, <2>3
<1>4. /\ current_term' \in [Server -> Nat]
      /\ voted_for' \in [Server -> Server \cup {None}]
      /\ state' \in [Server -> {"follower", "candidate", "leader"}]
      /\ next_id' \in [Server -> [Server -> Nat \ {0}]]
      /\ match_id' \in [Server -> [Server -> Nat]]
  BY AnswerTypes DEF Replicate, Return, Typing, TypeOK
<1> HIDE DEF q
<1> QED
  BY <1>2, <1>3, <1>4 DEF Replicate, Typing, TypeOK

\* Committing and applying what a majority holds keeps the types.
LEMMA EndRoundTyping ==
  ASSUME Typing, NEW i \in Server, NEW r \in AnswerOf(i), EndRound(i, r)
  PROVE  Typing'
<1> DEFINE ready == Committable(i, StateOn(i, r), TermOn(i, r), MatchOn(i, r))
           commit == IF ready = {} THEN commit_id[i] ELSE Max(ready)
<1>1. /\ log[i] \in Seq(Entry) /\ Len(log[i]) \in Nat
      /\ applied[i] \in Seq(Command) /\ Len(applied[i]) \in Nat
      /\ commit_id[i] <= Len(applied[i])
      /\ commit_id[i] \in Nat
  BY LenProperties DEF Typing, TypeOK
<1>2. commit \in Nat /\ (commit > Len(applied[i]) => commit <= Len(log[i]))
  <2>1. CASE ready = {}
    BY <2>1, <1>1
  <2>2. CASE ready # {}
    <3>1. \A n \in ready : n \in Nat /\ n > commit_id[i] /\ n <= Len(log[i])
      BY <1>1 DEF Committable
    <3> HIDE DEF ready
    <3>2. Max(ready) \in ready
      BY <2>2, <3>1, <1>1, MaxExists
    <3> QED
      BY <2>2, <3>1, <3>2, <1>1
  <2> QED
    BY <2>1, <2>2
<1>3. /\ commit_id' = [commit_id EXCEPT ![i] = commit]
      /\ applied' = [applied EXCEPT ![i] = Apply(applied[i], log[i], commit)]
      /\ round' = [round EXCEPT ![i] = Idle]
  BY DEF EndRound
<1> HIDE DEF commit
<1>4. /\ Apply(applied[i], log[i], commit) \in Seq(Command)
      /\ commit <= Len(Apply(applied[i], log[i], commit))
  BY <1>1, <1>2, ApplyType
<1>5. /\ commit_id' \in [Server -> Nat]
      /\ applied' \in [Server -> Seq(Command)]
      /\ \A k \in Server : commit_id'[k] <= Len(applied'[k])
  BY <1>2, <1>3, <1>4 DEF Typing, TypeOK
<1>6. /\ current_term' \in [Server -> Nat]
      /\ voted_for' \in [Server -> Server \cup {None}]
      /\ state' \in [Server -> {"follower", "candidate", "leader"}]
      /\ next_id' \in [Server -> [Server -> Nat \ {0}]]
      /\ match_id' \in [Server -> [Server -> Nat]]
  BY AnswerTypes DEF EndRound, Return, Typing, TypeOK
<1>7. /\ round' \in [Server -> Round]
      /\ \A k \in Server : round'[k].reply # None => round'[k].req \in AppendRequest
  BY <1>3 DEF Idle, Round, Typing, TypeOK
<1> QED
  BY <1>5, <1>6, <1>7 DEF EndRound, Typing, TypeOK

\* Handling an append request keeps the types.
LEMMA HandleAppendEntriesTyping ==
  ASSUME Typing, NEW m \in net, HandleAppendEntries(m)
  PROVE  Typing'
<1> DEFINE
      i == m.dst
      stale == m.term < current_term[i]
      success == ~stale /\ PrevMatches(log[i], m.prev_log_id, m.prev_log_term)
      cut == ~stale /\ ~success /\ m.prev_log_id <= Len(log[i])
      newlog == IF success THEN Merge(log[i], m.prev_log_id, m.entries)
                ELSE IF cut THEN SubSeq(log[i], 1, m.prev_log_id - 1)
                ELSE log[i]
      commit == IF success /\ m.leader_commit > commit_id[i]
                THEN IF m.leader_commit <= Len(newlog) THEN m.leader_commit
                     ELSE Len(newlog)
                ELSE commit_id[i]
<1>1. m \in AppendRequest
  BY DEF HandleAppendEntries, Typing, TypeOK, Request, VoteRequest
<1>2. /\ m.src \in Server /\ i \in Server /\ m.term \in Nat
      /\ m.leader_commit \in Nat /\ m.prev_log_id \in Nat
      /\ m.entries \in Seq(Entry)
  BY <1>1 DEF AppendRequest
<1>3. /\ log[i] \in Seq(Entry) /\ Len(log[i]) \in Nat
      /\ applied[i] \in Seq(Command) /\ Len(applied[i]) \in Nat
      /\ commit_id[i] <= Len(applied[i])
      /\ commit_id[i] \in Nat /\ current_term[i] \in Nat
  BY <1>2, LenProperties DEF Typing, TypeOK
<1>4. newlog \in Seq(Entry) /\ Len(newlog) \in Nat
  <2>1. CASE success
    <3>1. m.prev_log_id <= Len(log[i])
      BY <2>1, <1>2, <1>3 DEF PrevMatches
    <3>2. Merge(log[i], m.prev_log_id, m.entries) \in Seq(Entry)
      BY <3>1, <1>2, <1>3, MergeType
    <3> QED
      BY <2>1, <3>2, LenProperties
  <2>2. CASE ~success /\ cut
    <3>1. m.prev_log_id # 0
      BY <2>2 DEF PrevMatches
    <3>2. m.prev_log_id - 1 \in Nat /\ m.prev_log_id - 1 <= Len(log[i])
      BY <2>2, <3>1, <1>2, <1>3
    <3>3. SubSeq(log[i], 1, m.prev_log_id - 1) \in Seq(Entry)
      BY <3>2, <1>3, SliceType
    <3> QED
      BY <2>2, <3>3, LenProperties
  <2>3. CASE ~success /\ ~cut
    BY <2>3, <1>3
  <2> QED
    BY <2>1, <2>2, <2>3
<1>5. commit \in Nat /\ (commit > Len(applied[i]) => commit <= Len(newlog))
  <2> HIDE DEF newlog, success
  <2> QED
    BY <1>2, <1>3, <1>4
<1>6. /\ log' = [log EXCEPT ![i] = newlog]
      /\ commit_id' = [commit_id EXCEPT ![i] = commit]
      /\ applied' = [applied EXCEPT ![i] = Apply(applied[i], newlog, commit)]
      /\ success \in BOOLEAN
  BY DEF HandleAppendEntries, PrevMatches
<1>7. round' \in [Server -> Round]
      /\ \A k \in Server : round'[k].reply # None => round'[k].req \in AppendRequest
  <2> DEFINE reply == [success |-> success, term |-> Adopt(i, m.term)]
  <2>1. reply \in Reply
    BY <1>2, <1>6, AdoptTypes DEF Reply, Typing
  <2>2. round' = IF round[m.src].phase = "wait" /\ round[m.src].req = m
                 THEN [round EXCEPT ![m.src].reply = reply]
                 ELSE round
    BY DEF HandleAppendEntries
  <2>3. round \in [Server -> Round]
        /\ \A k \in Server : round[k].reply # None => round[k].req \in AppendRequest
    BY DEF Typing, TypeOK
  <2> HIDE DEF reply
  <2>4. [round[m.src] EXCEPT !.reply = reply] \in Round
    BY <1>2, <2>1, <2>3 DEF Round
  <2> QED
    BY <1>1, <1>2, <2>2, <2>3, <2>4
<1> HIDE DEF newlog, commit, success
<1>8. /\ Apply(applied[i], newlog, commit) \in Seq(Command)
      /\ commit <= Len(Apply(applied[i], newlog, commit))
  BY <1>3, <1>4, <1>5, ApplyType
<1>9. /\ log' \in [Server -> Seq(Entry)]
      /\ commit_id' \in [Server -> Nat]
      /\ applied' \in [Server -> Seq(Command)]
      /\ \A k \in Server : commit_id'[k] <= Len(applied'[k])
  BY <1>2, <1>4, <1>5, <1>6, <1>8 DEF Typing, TypeOK
<1>10. /\ current_term' \in [Server -> Nat]
       /\ voted_for' \in [Server -> Server \cup {None}]
       /\ state' \in [Server -> {"follower", "candidate", "leader"}]
       /\ last_leader' \in [Server -> Server \cup {None}]
  BY <1>2, AdoptTypes DEF HandleAppendEntries, Typing, TypeOK
<1> QED
  BY <1>7, <1>9, <1>10 DEF HandleAppendEntries, Typing, TypeOK

\* The client handlers keep the types.
LEMMA SubmitTyping ==
  ASSUME Typing, NEW i \in Server, NEW c \in Command, Submit(i, c)
  PROVE  Typing'
<1>1. log[i] \in Seq(Entry) /\ Len(log[i]) \in Nat /\ current_term[i] \in Nat
  BY LenProperties DEF Typing, TypeOK
<1>2. Append(log[i], [term |-> current_term[i], command |-> c]) \in Seq(Entry)
  BY <1>1, AppendProperties DEF Entry
<1>3. log' \in [Server -> Seq(Entry)]
  BY <1>2 DEF Submit, Typing, TypeOK
<1>4. [status |-> "waiting", at |-> i, log_id |-> Len(log[i]) + 1,
       answered |-> None] \in Call
  BY <1>1 DEF Call
<1>5. /\ call' \in [Command -> Call]
      /\ \A d \in Command : call'[d].status = "waiting" =>
                              call'[d].at \in Server /\ call'[d].log_id > 0
  BY <1>1, <1>4 DEF Submit, Typing, TypeOK
<1> QED
  BY <1>3, <1>5 DEF Submit, Typing, TypeOK, node

\* A handler that has seen its id committed ends its call and changes no node.
LEMMA AnswerTyping ==
  ASSUME Typing, NEW c \in Command, Answer(c)
  PROVE  Typing'
<1> DEFINE i == call[c].at
           n == call[c].log_id
<1>1. /\ call[c] \in Call /\ i \in Server /\ n \in Nat /\ n > 0
      /\ log[i] \in Seq(Entry) /\ Len(log[i]) \in Nat
  BY LenProperties DEF Answer, Typing, TypeOK, Call
<1>2. n <= Len(log[i]) => log[i][n].command \in Command
  <2> SUFFICES ASSUME n <= Len(log[i]) PROVE log[i][n].command \in Command
    OBVIOUS
  <2>1. n \in 1..Len(log[i])
    BY <1>1
  <2>2. log[i][n] \in Entry
    BY <2>1, <1>1, ElementOfSeq
  <2> QED
    BY <2>2 DEF Entry
<1>3. PICK a \in Call : a.status # "waiting" /\ call' = [call EXCEPT ![c] = a]
  <2>1. CASE n <= Len(log[i])
    <3>1. [[call[c] EXCEPT !.status = "answered"]
             EXCEPT !.answered = log[i][n].command] \in Call
      BY <1>1, <1>2, <2>1 DEF Call
    <3> QED
      BY <1>1, <2>1, <3>1 DEF Answer, Call
  <2>2. CASE ~(n <= Len(log[i]))
    <3>1. [call[c] EXCEPT !.status = "failed"] \in Call
      BY <1>1 DEF Call
    <3> QED
      BY <1>1, <2>2, <3>1 DEF Answer, Call
  <2> QED
    BY <2>1, <2>2
<1>4. UNCHANGED <<persistent, node, ballot, round, net, restarts>>
  BY DEF Answer
<1> QED
  BY <1>3, <1>4 DEF Typing, TypeOK, persistent, node

\* A handler that gives up ends its call.
LEMMA GiveUpTyping ==
  ASSUME Typing, NEW c \in Command, GiveUp(c)
  PROVE  Typing'
<1>1. [call[c] EXCEPT !.status = "failed"] \in Call
  BY DEF Typing, TypeOK, Call
<1>2. call' \in [Command -> Call]
  BY <1>1 DEF GiveUp, Typing, TypeOK
<1> QED
  BY <1>1, <1>2 DEF GiveUp, Typing, TypeOK, persistent, node

\* What a crash takes away is back at its initial value, of the right type.
LEMMA VolatileTyping ==
  ASSUME Typing, NEW i \in Server, Volatile(i)
  PROVE  /\ state' \in [Server -> {"follower", "candidate", "leader"}]
         /\ commit_id' \in [Server -> Nat]
         /\ applied' \in [Server -> Seq(Command)]
         /\ \A k \in Server : commit_id'[k] <= Len(applied'[k])
         /\ next_id' \in [Server -> [Server -> Nat \ {0}]]
         /\ match_id' \in [Server -> [Server -> Nat]]
         /\ last_leader' \in [Server -> Server \cup {None}]
         /\ ballot' \in [Server -> Ballot]
         /\ round' \in [Server -> Round]
         /\ \A k \in Server : round'[k].reply # None => round'[k].req \in AppendRequest
         /\ call' \in [Command -> Call]
         /\ \A c \in Command : call'[c].status = "waiting" =>
                                 call'[c].at \in Server /\ call'[c].log_id > 0
         /\ restarts' \in Nat
<1>1. /\ applied' \in [Server -> Seq(Command)]
      /\ \A k \in Server : commit_id'[k] <= Len(applied'[k])
  BY EmptySeq DEF Volatile, Typing, TypeOK
<1>2. Closed \in Ballot /\ Idle \in Round /\ Idle.reply = None
  BY DEF Closed, Ballot, Idle, Round
<1>3. /\ ballot' \in [Server -> Ballot]
      /\ round' \in [Server -> Round]
      /\ \A k \in Server : round'[k].reply # None => round'[k].req \in AppendRequest
  BY <1>2 DEF Volatile, Typing, TypeOK
<1>4. \A c \in Command : [call[c] EXCEPT !.status = "failed"] \in Call
  BY DEF Typing, TypeOK, Call
<1>5. /\ call' \in [Command -> Call]
      /\ \A c \in Command : call'[c].status = "waiting" =>
                              call'[c].at \in Server /\ call'[c].log_id > 0
  BY <1>4 DEF Volatile, Typing, TypeOK, Call
<1> QED
  BY <1>1, <1>3, <1>5 DEF Volatile, Typing, TypeOK

\* A crash between two steps keeps the types: the node starts afresh.
LEMMA RestartTyping ==
  ASSUME Typing, NEW i \in Server, Restart(i)
  PROVE  Typing'
BY VolatileTyping DEF Restart, Typing, TypeOK, persistent

\* So does a crash after a higher term has been saved.
LEMMA RestartInHandlerTyping ==
  ASSUME Typing, NEW m \in net, RestartInHandler(m)
  PROVE  Typing'
<1>1. m.dst \in Server /\ m.term \in Nat
  BY DEF Typing, TypeOK, Request, VoteRequest, AppendRequest
<1>2. /\ current_term' \in [Server -> Nat]
      /\ voted_for' \in [Server -> Server \cup {None}]
      /\ Volatile(m.dst) /\ log' = log /\ net' = net \ {m}
  BY <1>1 DEF RestartInHandler, Typing, TypeOK
<1> QED
  BY <1>1, <1>2, VolatileTyping DEF Typing, TypeOK

\* Every step keeps the types.
LEMMA StepTyping == Typing /\ [Next]_vars => Typing'
<1> SUFFICES ASSUME Typing, [Next]_vars PROVE Typing'
  OBVIOUS
<1>1. ASSUME NEW i \in Server, Election(i) PROVE Typing'
  BY <1>1, ElectionTyping
<1>2. ASSUME NEW i \in Server, Tally(i) PROVE Typing'
  BY <1>2, TallyTyping
<1>3. ASSUME NEW i \in Server, Beat(i) PROVE Typing'
  BY <1>3, BeatTyping
<1>4. ASSUME NEW i \in Server, Restart(i) PROVE Typing'
  BY <1>4, RestartTyping
<1>5. ASSUME NEW i \in Server, NEW r \in AnswerOf(i), NEW j \in Peers(i),
             Replicate(i, j, r)
      PROVE  Typing'
  BY <1>5, ReplicateTyping
<1>6. ASSUME NEW i \in Server, NEW r \in AnswerOf(i), EndRound(i, r)
      PROVE  Typing'
  BY <1>6, EndRoundTyping
<1>7. ASSUME NEW m \in net, HandleVoteRequest(m) PROVE Typing'
  BY <1>7, HandleVoteRequestTyping
<1>8. ASSUME NEW m \in net, HandleAppendEntries(m) PROVE Typing'
  BY <1>8, HandleAppendEntriesTyping
<1>9. ASSUME NEW m \in net, RestartInHandler(m) PROVE Typing'
  BY <1>9, RestartInHandlerTyping
<1>10. ASSUME NEW i \in Server, NEW c \in Command, Submit(i, c) PROVE Typing'
  BY <1>10, SubmitTyping
<1>11. ASSUME NEW c \in Command, Answer(c) PROVE Typing'
  BY <1>11, AnswerTyping
<1>12. ASSUME NEW c \in Command, GiveUp(c) PROVE Typing'
  BY <1>12, GiveUpTyping
<1>13. CASE UNCHANGED vars
  BY <1>13 DEF vars, persistent, node, Typing, TypeOK
<1> QED
  BY <1>1, <1>2, <1>3, <1>4, <1>5, <1>6, <1>7, <1>8, <1>9, <1>10, <1>11,
     <1>12, <1>13 DEF Next

\* Typing always holds, so the later proofs may use it.
THEOREM TypingInvariant == Spec => []Typing
BY InitTyping, StepTyping, PTL DEF Spec

\* The variables of Raft keep to their types, for every instance.
THEOREM TypeCorrect == Spec => []TypeOK
<1>1. Typing => TypeOK
  BY DEF Typing
<1> QED
  BY <1>1, TypingInvariant, PTL

-----------------------------------------------------------------------------
(* Votes and leaders.                                                      *)

\* Terms only grow, and a vote stays while its term does.
VotesStay ==
  \A i \in Server :
    /\ current_term'[i] >= current_term[i]
    /\ current_term'[i] = current_term[i] /\ voted_for[i] # None
         => voted_for'[i] = voted_for[i]

\* A step outside elections and crashes: the ballots stay, and a server can
\* only step down.
Steady ==
  /\ VotesStay
  /\ ballot' = ballot
  /\ \A i \in Server : state'[i] # "follower" =>
       state'[i] = state[i] /\ current_term'[i] = current_term[i]

\* Adopting a term, if it is higher, is such a step.
LEMMA AdoptSteady ==
  ASSUME Typing, NEW i \in Server, NEW t \in Nat,
         current_term' = [current_term EXCEPT ![i] = Adopt(i, t)],
         voted_for' = [voted_for EXCEPT ![i] = VoteAfter(i, t)],
         state' = [state EXCEPT ![i] = StateAfter(i, t)],
         ballot' = ballot
  PROVE  Steady
<1>1. /\ current_term \in [Server -> Nat] /\ DOMAIN voted_for = Server
      /\ DOMAIN state = Server
  BY DEF Typing, TypeOK
<1> QED
  BY <1>1 DEF Steady, VotesStay, Adopt, VoteAfter, StateAfter

\* The heartbeat loop takes only such steps.
LEMMA ReturnSteady ==
  ASSUME Typing, NEW i \in Server, NEW r \in AnswerOf(i), Return(i, r),
         ballot' = ballot
  PROVE  Steady
<1>1. CASE r = None
  <2>1. /\ current_term \in [Server -> Nat] /\ DOMAIN voted_for = Server
        /\ DOMAIN state = Server
    BY DEF Typing, TypeOK
  <2> QED
    BY <1>1, <2>1 DEF Return, TermOn, VoteOn, StateOn, Steady, VotesStay
<1>2. CASE r # None
  <2>1. r.term \in Nat
    BY <1>2, AnswerTypes DEF Reply
  <2> QED
    BY <1>2, <2>1, AdoptSteady DEF Return, TermOn, VoteOn, StateOn
<1> QED
  BY <1>1, <1>2

\* So does the follower that handles AppendEntries.
LEMMA HandleAppendEntriesSteady ==
  ASSUME Typing, NEW m \in net, HandleAppendEntries(m)
  PROVE  Steady
<1>1. m.dst \in Server /\ m.term \in Nat
  BY DEF Typing, TypeOK, Request, VoteRequest, AppendRequest
<1> QED
  BY <1>1, AdoptSteady DEF HandleAppendEntries

\* A step that leaves terms, votes, states and ballots alone is such a step.
LEMMA UnchangedSteady ==
  ASSUME Typing, UNCHANGED <<current_term, voted_for, state, ballot>>
  PROVE  Steady
<1>1. current_term \in [Server -> Nat]
  BY DEF Typing, TypeOK
<1> QED
  BY <1>1 DEF Steady, VotesStay

\* Such a step leaves the majorities behind the leaders in place.
LEMMA SteadyVotes ==
  ASSUME Typing, Typing', VotesBacked, Steady
  PROVE  VotesBacked'
<1>1. /\ current_term \in [Server -> Nat] /\ current_term' \in [Server -> Nat]
      /\ \A i \in Server : ballot[i].term \in Nat /\ ballot[i].granted \in SUBSET Server
  BY DEF Typing, TypeOK, Ballot
<1>2. ASSUME NEW i \in Server
      PROVE  /\ ballot[i].term <= current_term'[i]
             /\ ballot[i].term = current_term'[i] /\ ballot[i].term > 0
                  => voted_for'[i] = i
             /\ state'[i] # "follower" => ballot[i].term = current_term'[i]
             /\ state'[i] = "leader" => state[i] = "leader"
  BY <1>1, ServerAssumption DEF VotesBacked, Steady, VotesStay
<1>3. ASSUME NEW i \in Server, NEW v \in ballot[i].granted
      PROVE  /\ v # i /\ current_term'[v] >= ballot[i].term
             /\ current_term'[v] = ballot[i].term => voted_for'[v] = i
  BY <1>1, ServerAssumption DEF VotesBacked, Steady, VotesStay
<1>4. ballot' = ballot
  BY DEF Steady
<1> QED
  BY <1>2, <1>3, <1>4 DEF VotesBacked

\* A new candidate starts an empty ballot in a term it has not voted in.
LEMMA ElectionVotes ==
  ASSUME Typing, Typing', VotesBacked, NEW i \in Server, Election(i)
  PROVE  VotesBacked' /\ VotesStay
<1> DEFINE new == [open |-> TRUE, term |-> current_term[i] + 1, granted |-> {}]
<1>1. /\ current_term \in [Server -> Nat]
      /\ ballot \in [Server -> Ballot]
      /\ \A k \in Server : ballot[k].term \in Nat /\ ballot[k].granted \in SUBSET Server
  BY DEF Typing, TypeOK, Ballot
<1>2. /\ current_term' = [current_term EXCEPT ![i] = current_term[i] + 1]
      /\ voted_for' = [voted_for EXCEPT ![i] = i]
      /\ state' = [state EXCEPT ![i] = "candidate"]
      /\ ballot' = [ballot EXCEPT ![i] = new]
      /\ DOMAIN voted_for = Server /\ DOMAIN state = Server
  BY DEF Election, Typing, TypeOK
<1>3. VotesStay
  BY <1>1, <1>2 DEF VotesStay
<1>4. ballot'[i] = new /\ \A k \in Server \ {i} : ballot'[k] = ballot[k]
  BY <1>1, <1>2
<1>5. ASSUME NEW k \in Server
      PROVE  /\ ballot'[k].term <= current_term'[k]
             /\ ballot'[k].open => ballot'[k].term > 0
             /\ ballot'[k].term = 0 => ballot'[k].granted = {}
             /\ ballot'[k].term = current_term'[k] /\ ballot'[k].term > 0
                  => voted_for'[k] = k
             /\ state'[k] # "follower" => ballot'[k].term = current_term'[k]
             /\ state'[k] = "leader" =>
                  /\ ~ballot'[k].open
                  /\ Cardinality(ballot'[k].granted) + 1 >= Majority
  <2>1. CASE k = i
    BY <2>1, <1>1, <1>2, <1>4
  <2>2. CASE k # i
    BY <2>2, <1>1, <1>2, <1>4 DEF VotesBacked
  <2> QED
    BY <2>1, <2>2
<1>6. ASSUME NEW k \in Server, NEW v \in ballot'[k].granted
      PROVE  /\ v # k /\ current_term'[v] >= ballot'[k].term
             /\ current_term'[v] = ballot'[k].term => voted_for'[v] = k
  <2>1. k # i /\ v \in ballot[k].granted /\ v \in Server
    BY <1>1, <1>4
  <2> QED
    BY <2>1, <1>1, <1>2, <1>4 DEF VotesBacked
<1>7. ASSUME NEW k \in Server, NEW j \in Server, k # j,
             ballot'[k].term = ballot'[j].term
      PROVE  /\ ballot'[k].granted \cap ballot'[j].granted = {}
             /\ k \notin ballot'[j].granted
  <2>1. CASE j = i
    BY <2>1, <1>4
  <2>2. CASE k = i /\ j # i
    <3>1. ballot[j].term = current_term[i] + 1
      BY <2>2, <1>4, <1>7
    <3>2. i \notin ballot[j].granted
      BY <3>1, <1>1 DEF VotesBacked
    <3> QED
      BY <2>2, <3>2, <1>4
  <2>3. CASE k # i /\ j # i
    BY <2>3, <1>4, <1>7 DEF VotesBacked
  <2> QED
    BY <2>1, <2>2, <2>3
<1> HIDE DEF new
<1> QED
  BY <1>3, <1>5, <1>6, <1>7 DEF VotesBacked

\* A tally keeps the votes of a winner and no others.
LEMMA TallyVotes ==
  ASSUME Typing, VotesBacked, NEW i \in Server, Tally(i)
  PROVE  VotesBacked' /\ VotesStay
<1>1. /\ current_term \in [Server -> Nat] /\ current_term' = current_term
      /\ voted_for' = voted_for
      /\ ballot \in [Server -> Ballot] /\ state \in [Server -> {"follower", "candidate", "leader"}]
  BY DEF Tally, Won, FirstNextId, persistent, Typing, TypeOK
<1>2. PICK got \in SUBSET ballot[i].granted :
        /\ ballot' = [ballot EXCEPT ![i] = Counted(ballot[i].term, got)]
        /\ \/ /\ Cardinality(got) + 1 >= Majority /\ state[i] = "candidate"
              /\ state' = [state EXCEPT ![i] = "leader"]
           \/ state' = state
  BY DEF Tally, Won, FirstNextId
<1>3. /\ ballot'[i] = [open |-> FALSE, term |-> ballot[i].term, granted |-> got]
      /\ \A k \in Server \ {i} : ballot'[k] = ballot[k]
  BY <1>1, <1>2 DEF Counted
<1>4. ballot[i].open
  BY DEF Tally, Won, FirstNextId
<1>5. ASSUME NEW k \in Server
      PROVE  /\ ballot'[k].term = ballot[k].term
             /\ ballot'[k].granted \subseteq ballot[k].granted
             /\ ballot'[k].open => ballot[k].open
  BY <1>2, <1>3
<1>6. ASSUME NEW k \in Server, state'[k] = "leader"
      PROVE  /\ ~ballot'[k].open
             /\ Cardinality(ballot'[k].granted) + 1 >= Majority
             /\ state[k] # "follower"
  <2>1. CASE k = i
    BY <2>1, <1>1, <1>2, <1>3, <1>4, <1>6 DEF VotesBacked
  <2>2. CASE k # i
    BY <2>2, <1>1, <1>2, <1>3, <1>6 DEF VotesBacked
  <2> QED
    BY <2>1, <2>2
<1>7. ASSUME NEW k \in Server, state'[k] # "follower"
      PROVE  state[k] # "follower"
  BY <1>1, <1>2, <1>6, <1>7
<1>8. VotesStay
  BY <1>1 DEF VotesStay
<1> QED
  BY <1>1, <1>5, <1>6, <1>7, <1>8 DEF VotesBacked

\* A granted vote enters the ballot it was asked for and no other.
LEMMA HandleVoteRequestVotes ==
  ASSUME Typing, Typing', VotesBacked, NEW m \in net, HandleVoteRequest(m)
  PROVE  VotesBacked' /\ VotesStay
<1> DEFINE v == m.dst
           s == m.src
           granted == /\ m.term >= current_term[v]
                      /\ VoteAfter(v, m.term) \in {None, s}
                      /\ is_up_to_date(log[v], m.last_log_id, m.last_log_term)
           heard == granted /\ ballot[s].open /\ ballot[s].term = m.term
<1>1. v \in Server /\ s \in Server /\ s # v /\ m.term \in Nat
  BY DEF Typing, TypeOK, Request, VoteRequest, AppendRequest
<1>2. /\ current_term \in [Server -> Nat] /\ current_term' \in [Server -> Nat]
      /\ ballot \in [Server -> Ballot]
      /\ \A k \in Server : ballot[k].term \in Nat /\ ballot[k].granted \in SUBSET Server
      /\ DOMAIN voted_for = Server /\ DOMAIN state = Server
  BY DEF Typing, TypeOK, Ballot
<1>3. /\ current_term' = [current_term EXCEPT ![v] = Adopt(v, m.term)]
      /\ state' = [state EXCEPT ![v] = StateAfter(v, m.term)]
      /\ voted_for' = [voted_for EXCEPT ![v] =
                         IF granted THEN s ELSE VoteAfter(v, m.term)]
      /\ ballot' = IF heard THEN [ballot EXCEPT ![s] = WithVote(@, v)] ELSE ballot
  BY DEF HandleVoteRequest
<1>4. granted => current_term'[v] = m.term /\ voted_for'[v] = s
  BY <1>1, <1>2, <1>3 DEF Adopt
<1> HIDE DEF granted
<1>5. VotesStay
  <2>1. granted => m.term > current_term[v] \/ voted_for[v] \in {None, s}
    BY <1>1, <1>2 DEF granted, VoteAfter
  <2> QED
    BY <2>1, <1>1, <1>2, <1>3 DEF VotesStay, Adopt, VoteAfter
<1>6. \A k \in Server \ {v} : /\ current_term'[k] = current_term[k]
                              /\ voted_for'[k] = voted_for[k]
                              /\ state'[k] = state[k]
  BY <1>2, <1>3
<1>7. state'[v] # "follower" => state'[v] = state[v] /\ current_term'[v] = current_term[v]
  BY <1>1, <1>2, <1>3 DEF Adopt, StateAfter
<1>8. \A k \in Server : /\ ballot'[k].open => ballot[k].open
                        /\ ballot'[k].term = ballot[k].term
                        /\ ~(heard /\ k = s) => ballot'[k].granted = ballot[k].granted
                        /\ heard /\ k = s => ballot'[k].granted = ballot[k].granted \cup {v}
  <2>1. CASE heard
    <3>1. ballot' = [ballot EXCEPT ![s] = WithVote(ballot[s], v)]
      BY <2>1, <1>1, <1>2, <1>3
    <3>2. /\ \A k \in Server \ {s} : ballot'[k] = ballot[k]
          /\ ballot'[s] = [ballot[s] EXCEPT !.granted = ballot[s].granted \cup {v}]
      BY <3>1, <1>1, <1>2 DEF WithVote
    <3>3. ballot[s] \in Ballot
      BY <1>1, <1>2
    <3>4. /\ ballot'[s].open => ballot[s].open
          /\ ballot'[s].term = ballot[s].term
          /\ ballot'[s].granted = ballot[s].granted \cup {v}
      BY <3>2, <3>3 DEF Ballot
    <3> QED
      BY <2>1, <3>2, <3>4
  <2>2. CASE ~heard
    BY <2>2, <1>3
  <2> QED
    BY <2>1, <2>2
\* a vote given away in a term is not the voter's own, nor anybody else's
<1>9. ASSUME heard
      PROVE  /\ ballot[v].term # m.term
             /\ \A k \in Server \ {s} : ballot[k].term = m.term => v \notin ballot[k].granted
  <2>1. /\ m.term > 0 /\ m.term >= current_term[v]
        /\ m.term = current_term[v] => voted_for[v] \in {None, s}
    BY <1>1, <1>2, <1>9 DEF granted, VoteAfter, VotesBacked
  <2>2. ballot[v].term # m.term
    BY <2>1, <1>1, <1>2, ServerAssumption, SMTT(30) DEF VotesBacked
  <2>3. ASSUME NEW k \in Server \ {s}, ballot[k].term = m.term, v \in ballot[k].granted
        PROVE  FALSE
    BY <2>1, <2>3, <1>1, <1>2, ServerAssumption DEF VotesBacked
  <2> QED
    BY <2>2, <2>3
<1>14. heard => granted /\ ballot[s].open /\ ballot[s].term = m.term
  OBVIOUS
<1> HIDE DEF heard
<1>10. ASSUME NEW k \in Server
       PROVE  /\ ballot'[k].term <= current_term'[k]
              /\ ballot'[k].open => ballot'[k].term > 0
              /\ ballot'[k].term = current_term'[k] /\ ballot'[k].term > 0
                   => voted_for'[k] = k
              /\ state'[k] # "follower" => ballot'[k].term = current_term'[k]
  <2>1. /\ ballot[k].term <= current_term[k]
        /\ ballot[k].open => ballot[k].term > 0
        /\ ballot[k].term = current_term[k] /\ ballot[k].term > 0 => voted_for[k] = k
        /\ state[k] # "follower" => ballot[k].term = current_term[k]
    BY DEF VotesBacked
  <2>2. current_term'[k] >= current_term[k]
    BY <1>5 DEF VotesStay
  <2>3. ballot[k].term = current_term'[k] /\ ballot[k].term > 0 => voted_for'[k] = k
    BY <2>1, <2>2, <1>2, <1>5, ServerAssumption DEF VotesStay
  <2>4. state'[k] # "follower" => ballot[k].term = current_term'[k]
    BY <2>1, <1>6, <1>7
  <2> QED
    BY <2>1, <2>2, <2>3, <2>4, <1>2, <1>8
<1>11. ASSUME NEW k \in Server
       PROVE  /\ ballot'[k].term = 0 => ballot'[k].granted = {}
              /\ state'[k] = "leader" =>
                   /\ ~ballot'[k].open
                   /\ Cardinality(ballot'[k].granted) + 1 >= Majority
  <2>1. CASE heard /\ k = s
    BY <2>1, <1>1, <1>2, <1>6, <1>8, <1>14 DEF VotesBacked
  <2>2. CASE ~(heard /\ k = s)
    BY <2>2, <1>6, <1>7, <1>8 DEF VotesBacked
  <2> QED
    BY <2>1, <2>2
<1>12. ASSUME NEW k \in Server, NEW w \in ballot'[k].granted
       PROVE  /\ w # k /\ current_term'[w] >= ballot'[k].term
              /\ current_term'[w] = ballot'[k].term => voted_for'[w] = k
  <2>1. CASE heard /\ k = s /\ w = v
    BY <2>1, <1>1, <1>2, <1>4, <1>8, <1>14
  <2>2. CASE ~(heard /\ k = s /\ w = v)
    <3>1. w \in ballot[k].granted /\ w \in Server
      BY <2>2, <1>2, <1>8
    <3>2. /\ w # k /\ current_term[w] >= ballot[k].term
          /\ current_term[w] = ballot[k].term => voted_for[w] = k
      BY <3>1 DEF VotesBacked
    <3>3. ballot'[k].term = ballot[k].term /\ ballot[k].term \in Nat
      BY <1>2, <1>8
    <3>4. /\ current_term'[w] >= current_term[w]
          /\ current_term[w] \in Nat /\ current_term'[w] \in Nat
          /\ current_term'[w] = current_term[w] /\ voted_for[w] # None
               => voted_for'[w] = voted_for[w]
      BY <3>1, <1>2, <1>5 DEF VotesStay
    <3> QED
      BY <3>2, <3>3, <3>4, ServerAssumption
  <2> QED
    BY <2>1, <2>2
<1>13. ASSUME NEW k \in Server, NEW j \in Server, k # j,
              ballot'[k].term = ballot'[j].term
       PROVE  /\ ballot'[k].granted \cap ballot'[j].granted = {}
              /\ k \notin ballot'[j].granted
  <2>1. /\ ballot[k].term = ballot[j].term
        /\ ballot[k].granted \cap ballot[j].granted = {}
        /\ k \notin ballot[j].granted
    BY <1>8, <1>13 DEF VotesBacked
  <2>2. CASE ~heard
    BY <2>1, <2>2, <1>8
  <2>3. CASE heard
    BY <2>1, <2>3, <1>1, <1>8, <1>9, <1>13, <1>14
  <2> QED
    BY <2>2, <2>3
<1> QED
  BY <1>5, <1>10, <1>11, <1>12, <1>13 DEF VotesBacked

\* A crash closes the ballot of the server and leaves its vote where it is,
\* unless it had already moved on to a higher term.
LEMMA CrashVotes ==
  ASSUME Typing, Typing', VotesBacked, NEW i \in Server, Volatile(i), VotesStay,
         \A k \in Server \ {i} : current_term'[k] = current_term[k]
  PROVE  VotesBacked'
<1>1. /\ current_term \in [Server -> Nat] /\ current_term' \in [Server -> Nat]
      /\ ballot \in [Server -> Ballot] /\ DOMAIN state = Server
      /\ \A k \in Server : ballot[k].term \in Nat /\ ballot[k].granted \in SUBSET Server
  BY DEF Typing, TypeOK, Ballot
<1>2. /\ ballot'[i] = [open |-> FALSE, term |-> 0, granted |-> {}]
      /\ state'[i] = "follower"
      /\ \A k \in Server \ {i} : ballot'[k] = ballot[k] /\ state'[k] = state[k]
  BY <1>1 DEF Volatile, Closed
<1>3. ASSUME NEW k \in Server
      PROVE  /\ ballot'[k].term <= current_term'[k]
             /\ ballot'[k].open => ballot'[k].term > 0
             /\ ballot'[k].term = 0 => ballot'[k].granted = {}
             /\ ballot'[k].term = current_term'[k] /\ ballot'[k].term > 0
                  => voted_for'[k] = k
             /\ state'[k] # "follower" => ballot'[k].term = current_term'[k]
             /\ state'[k] = "leader" =>
                  /\ ~ballot'[k].open
                  /\ Cardinality(ballot'[k].granted) + 1 >= Majority
  <2>1. CASE k = i
    BY <2>1, <1>1, <1>2
  <2>2. CASE k # i
    BY <2>2, <1>1, <1>2, ServerAssumption DEF VotesBacked, VotesStay
  <2> QED
    BY <2>1, <2>2
<1>4. ASSUME NEW k \in Server, NEW v \in ballot'[k].granted
      PROVE  /\ v # k /\ current_term'[v] >= ballot'[k].term
             /\ current_term'[v] = ballot'[k].term => voted_for'[v] = k
  <2>1. k # i /\ v \in ballot[k].granted /\ v \in Server /\ ballot'[k] = ballot[k]
    BY <1>1, <1>2
  <2>2. /\ v # k /\ current_term[v] >= ballot[k].term
        /\ current_term[v] = ballot[k].term => voted_for[v] = k
    BY <2>1 DEF VotesBacked
  <2> QED
    BY <2>1, <2>2, <1>1, ServerAssumption DEF VotesStay
<1>5. ASSUME NEW k \in Server, NEW j \in Server, k # j,
             ballot'[k].term = ballot'[j].term
      PROVE  /\ ballot'[k].granted \cap ballot'[j].granted = {}
             /\ k \notin ballot'[j].granted
  <2>1. CASE j = i
    BY <2>1, <1>2
  <2>2. CASE k = i /\ j # i
    BY <2>2, <1>1, <1>2, <1>5 DEF VotesBacked
  <2>3. CASE k # i /\ j # i
    BY <2>3, <1>2, <1>5 DEF VotesBacked
  <2> QED
    BY <2>1, <2>2, <2>3
<1> QED
  BY <1>3, <1>4, <1>5 DEF VotesBacked

\* A crash between two steps loses neither term nor vote.
LEMMA RestartVotes ==
  ASSUME Typing, Typing', VotesBacked, NEW i \in Server, Restart(i)
  PROVE  VotesBacked' /\ VotesStay
<1>1. current_term \in [Server -> Nat] /\ UNCHANGED <<current_term, voted_for>>
  BY DEF Typing, TypeOK, Restart, persistent
<1>2. VotesStay
  BY <1>1 DEF VotesStay
<1> QED
  BY <1>1, <1>2, CrashVotes DEF Restart

\* A crash in a handler leaves a higher term without a vote.
LEMMA RestartInHandlerVotes ==
  ASSUME Typing, Typing', VotesBacked, NEW m \in net, RestartInHandler(m)
  PROVE  VotesBacked' /\ VotesStay
<1>1. m.dst \in Server /\ m.term \in Nat
  BY DEF Typing, TypeOK, Request, VoteRequest, AppendRequest
<1>2. /\ current_term \in [Server -> Nat] /\ DOMAIN voted_for = Server
      /\ m.term > current_term[m.dst]
      /\ current_term' = [current_term EXCEPT ![m.dst] = m.term]
      /\ voted_for' = [voted_for EXCEPT ![m.dst] = None]
      /\ Volatile(m.dst)
  BY DEF Typing, TypeOK, RestartInHandler
<1>3. VotesStay
  BY <1>1, <1>2 DEF VotesStay
<1> QED
  BY <1>1, <1>2, <1>3, CrashVotes

\* At the start nobody has a vote or a ballot.
LEMMA InitVotes == Init => VotesBacked
BY ServerAssumption DEF Init, Closed, VotesBacked

\* Every step keeps the votes behind the leaders, and every vote given.
LEMMA StepVotes ==
  ASSUME Typing, Typing', VotesBacked, [Next]_vars
  PROVE  VotesBacked' /\ VotesStay
<1>1. Steady => VotesBacked' /\ VotesStay
  BY SteadyVotes DEF Steady
<1>2. ASSUME NEW i \in Server, Election(i) PROVE VotesBacked' /\ VotesStay
  BY <1>2, ElectionVotes
<1>3. ASSUME NEW i \in Server, Tally(i) PROVE VotesBacked' /\ VotesStay
  BY <1>3, TallyVotes
<1>4. ASSUME NEW i \in Server, Beat(i) PROVE Steady
  BY <1>4, UnchangedSteady DEF Beat, persistent, node
<1>5. ASSUME NEW i \in Server, Restart(i) PROVE VotesBacked' /\ VotesStay
  BY <1>5, RestartVotes
<1>6. ASSUME NEW i \in Server, NEW r \in AnswerOf(i), NEW j \in Peers(i),
             Replicate(i, j, r)
      PROVE  Steady
  BY <1>6, ReturnSteady DEF Replicate
<1>7. ASSUME NEW i \in Server, NEW r \in AnswerOf(i), EndRound(i, r) PROVE Steady
  BY <1>7, ReturnSteady DEF EndRound
<1>8. ASSUME NEW m \in net, HandleVoteRequest(m) PROVE VotesBacked' /\ VotesStay
  BY <1>8, HandleVoteRequestVotes
<1>9. ASSUME NEW m \in net, HandleAppendEntries(m) PROVE Steady
  BY <1>9, HandleAppendEntriesSteady
<1>10. ASSUME NEW m \in net, RestartInHandler(m) PROVE VotesBacked' /\ VotesStay
  BY <1>10, RestartInHandlerVotes
<1>11. ASSUME NEW i \in Server, NEW c \in Command, Submit(i, c) PROVE Steady
  BY <1>11, UnchangedSteady DEF Submit, node
<1>12. ASSUME NEW c \in Command, Answer(c) \/ GiveUp(c) PROVE Steady
  BY <1>12, UnchangedSteady DEF Answer, GiveUp, persistent, node
<1>13. CASE UNCHANGED vars
  BY <1>13, <1>1, UnchangedSteady DEF vars, persistent, node
<1> QED
  BY <1>1, <1>2, <1>3, <1>4, <1>5, <1>6, <1>7, <1>8, <1>9, <1>10, <1>11,
     <1>12, <1>13 DEF Next

\* Every vote counted is one its voter has saved, and every leader has a
\* majority of them, for any number of servers and any loss, delay or crash.
THEOREM VotesInvariant == Spec => []VotesBacked
<1>1. Typing /\ Typing' /\ VotesBacked /\ [Next]_vars => VotesBacked'
  BY StepVotes
<1> QED
  BY <1>1, InitVotes, TypingInvariant, PTL DEF Spec

\* Two majorities of votes that the candidates gave themselves or got cannot
\* be disjoint.
LEMMA MajoritiesMeet ==
  ASSUME NEW i \in Server, NEW j \in Server, i # j,
         NEW P \in SUBSET Server, NEW Q \in SUBSET Server,
         Cardinality(P) + 1 >= Majority, Cardinality(Q) + 1 >= Majority,
         i \notin P, j \notin Q, i \notin Q, j \notin P
  PROVE  P \cap Q # {}
<1>1. IsFiniteSet(Server) /\ IsFiniteSet(P) /\ IsFiniteSet(Q)
  BY ServerAssumption, FS_Subset
<1>2. /\ Cardinality(P \cup {i}) = Cardinality(P) + 1
      /\ Cardinality(Q \cup {j}) = Cardinality(Q) + 1
      /\ IsFiniteSet(P \cup {i}) /\ IsFiniteSet(Q \cup {j})
  BY <1>1, FS_AddElement
<1>3. /\ Cardinality(Server) \in Nat /\ Cardinality(P) \in Nat
      /\ Cardinality(Q) \in Nat
  BY <1>1, FS_CardinalityType
<1>4. Cardinality(P \cup {i}) + Cardinality(Q \cup {j}) > Cardinality(Server)
  BY <1>2, <1>3 DEF Majority
<1>5. (P \cup {i}) \cap (Q \cup {j}) # {}
  BY <1>1, <1>4, FS_MajoritiesIntersect
<1> QED
  BY <1>5

\* A term never has two leaders, for any number of servers.
THEOREM ElectionSafe == Spec => []ElectionSafety
<1>1. ASSUME Typing, VotesBacked PROVE ElectionSafety
  <2> SUFFICES ASSUME NEW i \in Server, NEW j \in Server,
                      state[i] = "leader", state[j] = "leader", i # j,
                      current_term[i] = current_term[j]
               PROVE  FALSE
    BY DEF ElectionSafety
  <2> DEFINE P == ballot[i].granted
             Q == ballot[j].granted
  <2>1. P \in SUBSET Server /\ Q \in SUBSET Server
    BY <1>1 DEF Typing, TypeOK, Ballot
  <2>2. /\ Cardinality(P) + 1 >= Majority /\ Cardinality(Q) + 1 >= Majority
        /\ ballot[i].term = ballot[j].term
        /\ i \notin P /\ j \notin Q
    BY <1>1 DEF VotesBacked
  <2>3. P \cap Q = {} /\ i \notin Q /\ j \notin P
    BY <1>1, <2>2 DEF VotesBacked
  <2> HIDE DEF P, Q
  <2> QED
    BY <2>1, <2>2, <2>3, MajoritiesMeet
<1> QED
  BY <1>1, TypingInvariant, VotesInvariant, PTL

\* No server changes a vote or goes back to an earlier term, whatever crashes.
THEOREM VotesKept == Spec => VotesAreKept
<1>1. Typing /\ Typing' /\ VotesBacked /\ [Next]_vars => [VotesStay]_vars
  BY StepVotes
<1>2. Spec => [][VotesStay]_vars
  BY <1>1, TypingInvariant, VotesInvariant, PTL DEF Spec
<1> QED
  BY <1>2 DEF VotesAreKept, VotesStay

-----------------------------------------------------------------------------
(* Who has been elected, as far as the voters know.                        *)

\* A majority saved a vote for i in term t, or has moved on, and none of it is
\* in the ballot of another candidate of that term; i itself is not waiting
\* for votes in t any more. No step takes this away, i's crashes included.
Elected(i, t) ==
  /\ i \in Server /\ t > 0
  /\ ~(ballot[i].open /\ ballot[i].term = t)
  /\ \E Q \in SUBSET Server :
       /\ i \in Q /\ Cardinality(Q) >= Majority
       /\ \A v \in Q : /\ current_term[v] >= t
                       /\ current_term[v] = t => voted_for[v] = i
       /\ \A j \in Server \ {i} : ballot[j].term = t =>
            j \notin Q /\ Q \cap ballot[j].granted = {}

\* How a step may change the ballot of j: it is closed by a crash, or opened
\* for a new term, or it gains votes that the voters have just saved.
BallotStep(j) ==
  \/ ballot'[j].term = 0 /\ ~ballot'[j].open
  \/ ballot'[j].term = current_term[j] + 1 /\ ballot'[j].granted = {}
  \/ /\ ballot'[j].term = ballot[j].term
     /\ ballot'[j].open => ballot[j].open
     /\ \A v \in ballot'[j].granted \ ballot[j].granted :
          current_term'[v] = ballot[j].term /\ voted_for'[v] = j

LEMMA StepBallots ==
  ASSUME Typing, [Next]_vars, NEW j \in Server
  PROVE  BallotStep(j)
<1>1. /\ ballot \in [Server -> Ballot] /\ current_term \in [Server -> Nat]
      /\ DOMAIN voted_for = Server /\ ballot[j] \in Ballot
  BY DEF Typing, TypeOK
<1>2. CASE ballot' = ballot
  BY <1>2 DEF BallotStep
<1>3. ASSUME NEW i \in Server, Election(i) PROVE BallotStep(j)
  <2>1. ballot'[i] = [open |-> TRUE, term |-> current_term[i] + 1, granted |-> {}]
        /\ (j # i => ballot'[j] = ballot[j])
    BY <1>1, <1>3 DEF Election
  <2> QED  BY <2>1 DEF BallotStep
<1>4. ASSUME NEW i \in Server, Tally(i) PROVE BallotStep(j)
  <2>1. PICK got \in SUBSET ballot[i].granted :
          ballot' = [ballot EXCEPT ![i] = Counted(ballot[i].term, got)]
    BY <1>4 DEF Tally, Won, FirstNextId
  <2>2. /\ ballot'[i] = [open |-> FALSE, term |-> ballot[i].term, granted |-> got]
        /\ (j # i => ballot'[j] = ballot[j])
    BY <1>1, <2>1 DEF Counted
  <2> QED  BY <2>2 DEF BallotStep
<1>5. ASSUME NEW i \in Server, Volatile(i) PROVE BallotStep(j)
  <2>1. ballot'[i] = [open |-> FALSE, term |-> 0, granted |-> {}]
        /\ (j # i => ballot'[j] = ballot[j])
    BY <1>1, <1>5 DEF Volatile, Closed
  <2> QED  BY <2>1 DEF BallotStep
<1>6. ASSUME NEW m \in net, HandleVoteRequest(m) PROVE BallotStep(j)
  <2> DEFINE v == m.dst
             granted == /\ m.term >= current_term[v]
                        /\ VoteAfter(v, m.term) \in {None, m.src}
                        /\ is_up_to_date(log[v], m.last_log_id, m.last_log_term)
             heard == granted /\ ballot[m.src].open /\ ballot[m.src].term = m.term
  <2>1. v \in Server /\ m.src \in Server /\ m.term \in Nat
    BY DEF Typing, TypeOK, Request, VoteRequest, AppendRequest
  <2>2. /\ current_term' = [current_term EXCEPT ![v] = Adopt(v, m.term)]
        /\ voted_for' = [voted_for EXCEPT ![v] =
                           IF granted THEN m.src ELSE VoteAfter(v, m.term)]
        /\ ballot' = IF heard THEN [ballot EXCEPT ![m.src] = WithVote(@, v)] ELSE ballot
    BY <1>6 DEF HandleVoteRequest
  <2>3. granted => current_term'[v] = m.term /\ voted_for'[v] = m.src
    BY <1>1, <2>1, <2>2 DEF Adopt
  <2>4. heard => granted /\ ballot[m.src].term = m.term
    OBVIOUS
  <2> HIDE DEF granted, heard
  <2>5. CASE heard /\ j = m.src
    <3>1. ballot'[j] = [ballot[j] EXCEPT !.granted = ballot[j].granted \cup {v}]
      BY <1>1, <2>1, <2>2, <2>5 DEF WithVote
    <3>2. /\ ballot'[j].term = ballot[j].term /\ ballot'[j].open = ballot[j].open
          /\ ballot'[j].granted = ballot[j].granted \cup {v}
      BY <1>1, <3>1 DEF Ballot
    <3> QED  BY <2>3, <2>4, <2>5, <3>2 DEF BallotStep
  <2>6. CASE ~(heard /\ j = m.src)
    <3>1. ballot'[j] = ballot[j]  BY <1>1, <2>1, <2>2, <2>6
    <3> QED  BY <3>1 DEF BallotStep
  <2> QED  BY <2>5, <2>6
<1>7. ASSUME NEW i \in Server, Beat(i) PROVE ballot' = ballot
  BY <1>7 DEF Beat
<1>8. ASSUME NEW i \in Server, Restart(i) PROVE BallotStep(j)
  BY <1>5, <1>8 DEF Restart
<1>9. ASSUME NEW i \in Server, NEW r \in AnswerOf(i), NEW k \in Peers(i),
             Replicate(i, k, r)
      PROVE  ballot' = ballot
  BY <1>9 DEF Replicate
<1>10. ASSUME NEW i \in Server, NEW r \in AnswerOf(i), EndRound(i, r)
       PROVE  ballot' = ballot
  BY <1>10 DEF EndRound
<1>11. ASSUME NEW m \in net, HandleAppendEntries(m) PROVE ballot' = ballot
  BY <1>11 DEF HandleAppendEntries
<1>12. ASSUME NEW m \in net, RestartInHandler(m) PROVE BallotStep(j)
  <2>1. m.dst \in Server
    BY DEF Typing, TypeOK, Request, VoteRequest, AppendRequest
  <2> QED  BY <1>5, <1>12, <2>1 DEF RestartInHandler
<1>13. ASSUME NEW i \in Server, NEW c \in Command, Submit(i, c) PROVE ballot' = ballot
  BY <1>13 DEF Submit
<1>14. ASSUME NEW c \in Command, Answer(c) \/ GiveUp(c) PROVE ballot' = ballot
  BY <1>14 DEF Answer, GiveUp
<1>15. CASE UNCHANGED vars
  BY <1>2, <1>15 DEF vars
<1> QED
  BY <1>2, <1>3, <1>4, <1>6, <1>7, <1>8, <1>9, <1>10, <1>11, <1>12, <1>13,
     <1>14, <1>15 DEF Next

LEMMA ElectedStays ==
  ASSUME Typing, Typing', VotesBacked, [Next]_vars,
         NEW i, NEW t \in Nat, Elected(i, t)
  PROVE  Elected(i, t)'
<1>1. /\ current_term \in [Server -> Nat] /\ current_term' \in [Server -> Nat]
      /\ i \in Server /\ \A k \in Server : ballot[k] \in Ballot
  BY DEF Typing, TypeOK, Elected
<1>2. VotesStay /\ \A j \in Server : BallotStep(j)
  BY StepVotes, StepBallots
<1>3. PICK Q \in SUBSET Server :
        /\ i \in Q /\ Cardinality(Q) >= Majority
        /\ \A v \in Q : /\ current_term[v] >= t
                        /\ current_term[v] = t => voted_for[v] = i
        /\ \A j \in Server \ {i} : ballot[j].term = t =>
             j \notin Q /\ Q \cap ballot[j].granted = {}
  BY DEF Elected
<1>4. t > 0  BY DEF Elected
<1>5. ASSUME NEW v \in Q
      PROVE  /\ current_term'[v] >= t
             /\ current_term'[v] = t => voted_for'[v] = i
  BY <1>1, <1>2, <1>3, ServerAssumption DEF VotesStay
<1>6. ASSUME NEW j \in Server \ {i}, ballot'[j].term = t
      PROVE  j \notin Q /\ Q \cap ballot'[j].granted = {}
  <2>1. CASE ballot'[j].term = 0
    BY <1>4, <1>6, <2>1
  <2>2. CASE ballot'[j].term = current_term[j] + 1 /\ ballot'[j].granted = {}
    <3>1. current_term[j] < t  BY <1>1, <1>6, <2>2
    <3> QED  BY <1>1, <1>3, <2>2, <3>1
  <2>3. CASE /\ ballot'[j].term = ballot[j].term
             /\ \A v \in ballot'[j].granted \ ballot[j].granted :
                  current_term'[v] = ballot[j].term /\ voted_for'[v] = j
    <3>1. j \notin Q /\ Q \cap ballot[j].granted = {}
      BY <1>3, <1>6, <2>3
    <3>2. ASSUME NEW v \in Q, v \in ballot'[j].granted PROVE FALSE
      <4>1. current_term'[v] = t /\ voted_for'[v] = j
        BY <1>6, <2>3, <3>1, <3>2
      <4> QED  BY <1>5, <1>6, <3>2, <4>1
    <3> QED  BY <3>1, <3>2
  <2> QED  BY <1>2, <2>1, <2>2, <2>3 DEF BallotStep
<1>7. ~(ballot'[i].open /\ ballot'[i].term = t)
  <2>1. current_term[i] >= t  BY <1>3
  <2> QED  BY <1>1, <1>2, <2>1 DEF BallotStep, Elected
<1>8. Majority' = Majority  OBVIOUS
<1> QED  BY <1>1, <1>3, <1>4, <1>5, <1>6, <1>7 DEF Elected

\* Who leads a term has been elected in it, and nobody else has.
LEMMA LeaderElected ==
  ASSUME Typing, VotesBacked, NEW i \in Server, state[i] = "leader",
         current_term[i] > 0
  PROVE  Elected(i, current_term[i])
<1> DEFINE t == current_term[i]
           P == ballot[i].granted
           Q == P \cup {i}
<1>1. /\ P \in SUBSET Server /\ Cardinality(P) + 1 >= Majority /\ i \notin P
      /\ ballot[i].term = t /\ ~ballot[i].open
      /\ \A v \in P : /\ current_term[v] >= t
                      /\ current_term[v] = t => voted_for[v] = i
      /\ voted_for[i] = i /\ t \in Nat
  BY DEF VotesBacked, Typing, TypeOK, Ballot
<1>2. Cardinality(Q) >= Majority
  <2>1. IsFiniteSet(P)  BY <1>1, ServerAssumption, FS_Subset
  <2>2. Cardinality(Q) = Cardinality(P) + 1  BY <1>1, <2>1, FS_AddElement
  <2> QED  BY <1>1, <2>2
<1>3. ASSUME NEW j \in Server \ {i}, ballot[j].term = t
      PROVE  j \notin Q /\ Q \cap ballot[j].granted = {}
  BY <1>1, <1>3 DEF VotesBacked
<1>4. \A v \in Q : /\ current_term[v] >= t
                   /\ current_term[v] = t => voted_for[v] = i
  BY <1>1
<1> QED  BY <1>1, <1>2, <1>3, <1>4 DEF Elected

LEMMA OneWinner ==
  ASSUME Typing, VotesBacked, NEW i, NEW j \in Server, state[j] = "leader",
         Elected(i, current_term[j])
  PROVE  i = j
<1> SUFFICES ASSUME i # j PROVE FALSE  OBVIOUS
<1> DEFINE t == current_term[j]
           P == ballot[j].granted
           R == P \cup {j}
<1>1. PICK Q \in SUBSET Server :
        /\ Cardinality(Q) >= Majority
        /\ ballot[j].term = t => j \notin Q /\ Q \cap P = {}
  BY DEF Elected
<1>2. /\ P \in SUBSET Server /\ Cardinality(P) + 1 >= Majority /\ j \notin P
      /\ ballot[j].term = t
  BY DEF VotesBacked, Typing, TypeOK, Ballot
<1>3. IsFiniteSet(P) /\ IsFiniteSet(Q) /\ IsFiniteSet(R) /\ IsFiniteSet(Server)
  BY <1>2, ServerAssumption, FS_Subset, FS_AddElement
<1>4. Cardinality(R) = Cardinality(P) + 1  BY <1>2, <1>3, FS_AddElement
<1>5. /\ Cardinality(Server) \in Nat /\ Cardinality(P) \in Nat
      /\ Cardinality(Q) \in Nat /\ Cardinality(R) \in Nat
  BY <1>3, FS_CardinalityType
<1>6. Cardinality(Q) + Cardinality(R) > Cardinality(Server)
  BY <1>1, <1>2, <1>4, <1>5 DEF Majority
<1>7. Q \cap R # {}
  <2>1. R \in SUBSET Server  BY <1>2
  <2> HIDE DEF R
  <2> QED  BY <1>3, <1>6, <2>1, FS_MajoritiesIntersect
<1> QED  BY <1>1, <1>2, <1>7

WinnerAlone ==
  \A i : \A j \in Server :
    Typing /\ VotesBacked /\ state[j] = "leader" /\ Elected(i, current_term[j])
      => i = j

\* The same, of the state after a step
LEMMA OneWinnerNext == WinnerAlone'
<1>1. WinnerAlone  BY OneWinner DEF WinnerAlone
<1> QED  BY <1>1, PTL

\* LeaderElected of the state after a step
ElectedLeaders ==
  \A i \in Server :
    Typing /\ VotesBacked /\ state[i] = "leader" /\ current_term[i] > 0
      => Elected(i, current_term[i])

LEMMA LeaderElectedNext == ElectedLeaders'
<1>1. ElectedLeaders  BY LeaderElected DEF ElectedLeaders
<1> QED  BY <1>1, PTL

-----------------------------------------------------------------------------
(* Requests and their senders.                                             *)

\* m carries the end of the log l, from behind its prev_log_id.
Carries(m, l) ==
  /\ m.prev_log_id <= Len(l) /\ Len(l) = m.prev_log_id + Len(m.entries)
  /\ m.prev_log_id > 0 => l[m.prev_log_id].term = m.prev_log_term
  /\ \A k \in 1..Len(m.entries) : m.entries[k] = l[m.prev_log_id + k]

\* A request under way was there before, asks for a vote, or has just been
\* sent by the leader of its term, from its log.
LEMMA NewRequests ==
  ASSUME Typing, ~LateRounds, [Next]_vars, NEW m \in net', m \notin net
  PROVE  \/ m.op = "VoteRequest"
         \/ /\ m.src \in Server /\ state[m.src] = "leader"
            /\ m.term = current_term[m.src]
            /\ m.entries # <<>> => Carries(m, log[m.src])
<1>1. ASSUME NEW i \in Server, Election(i) PROVE m.op = "VoteRequest"
  BY <1>1 DEF Election, Send
<1>2. ASSUME NEW i \in Server, Beat(i)
      PROVE  /\ m.src = i /\ state[i] = "leader" /\ m.term = current_term[i]
             /\ m.entries = <<>>
  BY <1>2 DEF Beat, Send, Heartbeat
<1>3. ASSUME NEW i \in Server, NEW r \in AnswerOf(i), NEW j \in Peers(i),
             Replicate(i, j, r)
      PROVE  /\ m.src = i /\ state[i] = "leader" /\ m.term = current_term[i]
             /\ m.entries # <<>> => Carries(m, log[i])
  <2> DEFINE next == NextOn(i, r)[j]
             q == ReplicateRequest(i, j, TermOn(i, r), next)
  <2>1. m = q /\ StateOn(i, r) = "leader"
    BY <1>3 DEF Replicate, Send
  <2>2. state[i] = "leader" /\ TermOn(i, r) = current_term[i]
    BY <2>1, AnswerTypes DEF StateOn, StateAfter, TermOn, Adopt
  <2>3. /\ next \in Nat \ {0} /\ log[i] \in Seq(Entry) /\ Len(log[i]) \in Nat
    <3>1. NextOn(i, r) \in [Server -> Nat \ {0}] /\ j \in Server
      BY AnswerTypes DEF Peers
    <3>2. log[i] \in Seq(Entry)  BY DEF Typing, TypeOK
    <3> QED  BY <3>1, <3>2, LenProperties
  <2> HIDE DEF next
  <2>4. /\ m.src = i /\ m.term = current_term[i] /\ m.prev_log_id = next - 1
        /\ m.prev_log_term = IF next - 1 > 0 /\ next - 1 <= Len(log[i])
                             THEN log[i][next - 1].term ELSE 0
        /\ m.entries = SubSeq(log[i], next, Len(log[i]))
    BY <2>1, <2>2 DEF ReplicateRequest
  <2>5. ASSUME m.entries # <<>> PROVE Carries(m, log[i])
    <3>1. next <= Len(log[i])
      BY <2>3, <2>4, <2>5
    <3>2. /\ Len(m.entries) = Len(log[i]) - next + 1
          /\ \A k \in 1..Len(m.entries) : m.entries[k] = log[i][next + k - 1]
      BY <2>3, <2>4, <3>1
    <3>3. \A k \in 1..Len(m.entries) : m.entries[k] = log[i][(next - 1) + k]
      BY <2>3, <3>1, <3>2
    <3>4. m.prev_log_id > 0 => log[i][m.prev_log_id].term = m.prev_log_term
      <4>1. next - 1 > 0 => m.prev_log_term = log[i][next - 1].term
        BY <2>3, <2>4, <3>1
      <4> QED  BY <2>4, <4>1
    <3>5. /\ m.prev_log_id <= Len(log[i])
          /\ Len(log[i]) = m.prev_log_id + Len(m.entries)
      BY <2>3, <2>4, <3>1, <3>2
    <3>6. \A k \in 1..Len(m.entries) : m.entries[k] = log[i][m.prev_log_id + k]
      BY <2>4, <3>3
    <3> QED  BY <3>4, <3>5, <3>6 DEF Carries
  <2> QED  BY <2>2, <2>4, <2>5
<1>4. ASSUME NEW i \in Server, Tally(i) \/ Restart(i) PROVE FALSE
  BY <1>4 DEF Tally, Restart
<1>5. ASSUME NEW i \in Server, NEW r \in AnswerOf(i), EndRound(i, r) PROVE FALSE
  BY <1>5 DEF EndRound
<1>6. ASSUME NEW n \in net,
             HandleVoteRequest(n) \/ HandleAppendEntries(n) \/ RestartInHandler(n)
      PROVE  FALSE
  <2>1. net' = net \ {n}
    BY <1>6 DEF HandleVoteRequest, HandleAppendEntries, RestartInHandler
  <2> QED  BY <2>1
<1>7. ASSUME NEW i \in Server, NEW c \in Command, Submit(i, c) PROVE FALSE
  BY <1>7 DEF Submit
<1>8. ASSUME NEW c \in Command, Answer(c) \/ GiveUp(c) PROVE FALSE
  BY <1>8 DEF Answer, GiveUp
<1>9. CASE UNCHANGED vars  BY <1>9 DEF vars
<1> QED
  BY <1>1, <1>2, <1>3, <1>4, <1>5, <1>6, <1>7, <1>8, <1>9 DEF Next

\* Who leads after a step led before it, in the same term, or has just counted
\* its votes.
LEMMA LeadersBefore ==
  ASSUME Typing, VotesBacked, [Next]_vars, NEW i \in Server, state'[i] # "follower"
  PROVE  \/ state'[i] = state[i] /\ current_term'[i] = current_term[i]
         \/ state'[i] = "candidate" /\ current_term'[i] > 0
         \/ /\ Tally(i) /\ state[i] = "candidate" /\ ballot[i].open
            /\ ballot[i].term = current_term[i]
            /\ current_term' = current_term /\ log' = log
<1>1. Steady => state'[i] = state[i] /\ current_term'[i] = current_term[i]
  BY DEF Steady
<1>2. current_term \in [Server -> Nat]
      /\ state \in [Server -> {"follower", "candidate", "leader"}]
  BY DEF Typing, TypeOK
<1>3. ASSUME NEW k \in Server, Election(k)
      PROVE  \/ state'[i] = state[i] /\ current_term'[i] = current_term[i]
             \/ state'[i] = "candidate" /\ current_term'[i] > 0
  BY <1>2, <1>3 DEF Election
<1>4. ASSUME NEW k \in Server, Tally(k)
      PROVE  \/ state'[i] = state[i] /\ current_term'[i] = current_term[i]
             \/ /\ Tally(i) /\ state[i] = "candidate" /\ ballot[i].open
                /\ ballot[i].term = current_term[i]
                /\ current_term' = current_term /\ log' = log
  <2>1. current_term' = current_term /\ log' = log /\ ballot[k].open
        /\ (state' = state \/ (state[k] = "candidate"
                               /\ state' = [state EXCEPT ![k] = "leader"]))
    BY <1>4 DEF Tally, Won, FirstNextId, persistent
  <2>2. state[k] = "candidate" => ballot[k].term = current_term[k]
    BY DEF VotesBacked
  <2>3. CASE k = i
    <3>1. Tally(i)  BY <1>4, <2>3
    <3> HIDE DEF Tally
    <3> QED  BY <1>2, <2>1, <2>2, <2>3, <3>1
  <2>4. CASE k # i
    BY <1>2, <2>1, <2>4
  <2> QED  BY <2>3, <2>4
<1>5. ASSUME NEW k \in Server, Beat(k) PROVE Steady
  BY <1>5, UnchangedSteady DEF Beat, persistent, node
<1>6. ASSUME NEW k \in Server, NEW r \in AnswerOf(k), NEW j \in Peers(k),
             Replicate(k, j, r)
      PROVE  Steady
  BY <1>6, ReturnSteady DEF Replicate
<1>7. ASSUME NEW k \in Server, NEW r \in AnswerOf(k), EndRound(k, r) PROVE Steady
  BY <1>7, ReturnSteady DEF EndRound
<1>8. ASSUME NEW m \in net, HandleVoteRequest(m)
      PROVE  state'[i] = state[i] /\ current_term'[i] = current_term[i]
  <2>1. m.dst \in Server /\ m.term \in Nat
    BY DEF Typing, TypeOK, Request, VoteRequest, AppendRequest
  <2>2. /\ current_term' = [current_term EXCEPT ![m.dst] = Adopt(m.dst, m.term)]
        /\ state' = [state EXCEPT ![m.dst] = StateAfter(m.dst, m.term)]
    BY <1>8 DEF HandleVoteRequest
  <2> QED  BY <1>2, <2>1, <2>2 DEF Adopt, StateAfter
<1>9. ASSUME NEW m \in net, HandleAppendEntries(m) PROVE Steady
  BY <1>9, HandleAppendEntriesSteady
<1>10. ASSUME NEW k \in Server, Volatile(k),
              current_term' = current_term
                \/ \E t \in Nat : current_term' = [current_term EXCEPT ![k] = t]
       PROVE  state'[i] = state[i] /\ current_term'[i] = current_term[i]
  BY <1>2, <1>10 DEF Volatile
<1>11. ASSUME NEW m \in net, RestartInHandler(m)
       PROVE  state'[i] = state[i] /\ current_term'[i] = current_term[i]
  <2>1. m.dst \in Server /\ m.term \in Nat
    BY DEF Typing, TypeOK, Request, VoteRequest, AppendRequest
  <2> QED  BY <1>10, <1>11, <2>1 DEF RestartInHandler
<1>12. ASSUME NEW k \in Server, NEW c \in Command, Submit(k, c) PROVE Steady
  BY <1>12, UnchangedSteady DEF Submit, node
<1>13. ASSUME NEW c \in Command, Answer(c) \/ GiveUp(c) PROVE Steady
  BY <1>13, UnchangedSteady DEF Answer, GiveUp, persistent, node
<1>14. CASE UNCHANGED vars
  BY <1>14, <1>1, UnchangedSteady DEF vars, persistent, node
<1>15. ASSUME NEW k \in Server, Restart(k)
       PROVE  state'[i] = state[i] /\ current_term'[i] = current_term[i]
  BY <1>10, <1>15 DEF Restart, persistent
<1> QED
  BY <1>1, <1>3, <1>4, <1>5, <1>6, <1>7, <1>8, <1>9, <1>11, <1>12, <1>13,
     <1>14, <1>15 DEF Next

\* Senders have been elected; they are one for each term. Candidates and
\* leaders have left term 0.
Sent ==
  /\ \A m \in net : m.op = "AppendEntries" => Elected(m.src, m.term)
  /\ OneSenderPerTerm
  /\ \A i \in Server : state[i] # "follower" => current_term[i] > 0

LEMMA StepSent ==
  ASSUME ~LateRounds, Typing, Typing', VotesBacked, Sent, [Next]_vars
  PROVE  Sent'
<1>1. \A m \in net \cup net' : m \in Request
  BY DEF Typing, TypeOK
<1>2. ASSUME NEW m \in net', m.op = "AppendEntries"
      PROVE  Elected(m.src, m.term) /\ m.term \in Nat
  <2>1. m.term \in Nat  BY <1>1, <1>2 DEF Request, VoteRequest, AppendRequest
  <2>2. CASE m \in net  BY <1>2, <2>1, <2>2 DEF Sent
  <2>3. CASE m \notin net
    <3>1. m.src \in Server /\ state[m.src] = "leader" /\ m.term = current_term[m.src]
      BY <1>2, <2>3, NewRequests
    <3>2. current_term[m.src] > 0  BY <3>1 DEF Sent
    <3> QED  BY <2>1, <3>1, <3>2, LeaderElected
  <2> QED  BY <2>2, <2>3
<1>3. ASSUME NEW m \in net', m.op = "AppendEntries" PROVE Elected(m.src, m.term)'
  BY <1>2, <1>3, ElectedStays
<1>4. ASSUME NEW m \in net', NEW n \in net', m.op = "AppendEntries",
             n.op = "AppendEntries", m.term = n.term
      PROVE  m.src = n.src
  <2>1. Elected(m.src, m.term) /\ Elected(n.src, m.term)  BY <1>2, <1>4
  <2>2. ASSUME NEW a \in net', a.op = "AppendEntries", a \notin net, NEW b,
               Elected(b, a.term)
        PROVE  b = a.src
    <3>1. a.src \in Server /\ state[a.src] = "leader" /\ a.term = current_term[a.src]
      BY <2>2, NewRequests
    <3> QED  BY <2>2, <3>1, OneWinner
  <2>3. CASE m \in net /\ n \in net
    BY <1>4, <2>3 DEF Sent, OneSenderPerTerm
  <2>4. CASE m \notin net  BY <1>4, <2>1, <2>2, <2>4
  <2>5. CASE n \notin net  BY <1>4, <2>1, <2>2, <2>5
  <2> QED  BY <2>3, <2>4, <2>5
<1>5. ASSUME NEW i \in Server, state'[i] # "follower" PROVE current_term'[i] > 0
  BY <1>5, LeadersBefore DEF Sent
<1> QED  BY <1>3, <1>4, <1>5 DEF Sent, OneSenderPerTerm

LEMMA SentHolds ==
  ASSUME ~LateRounds
  PROVE  Spec => []Sent
<1>1. Init => Sent  BY DEF Init, Sent, OneSenderPerTerm
<1>2. Typing /\ Typing' /\ VotesBacked /\ Sent /\ [Next]_vars => Sent'
  BY StepSent
<1> QED  BY <1>1, <1>2, TypingInvariant, VotesInvariant, PTL DEF Spec

\* All append requests of a term that are still under way, old ones of crashed
\* leaders included, come from one server.
THEOREM OneSender ==
  ASSUME ~LateRounds
  PROVE  Spec => []OneSenderPerTerm
<1>1. Sent => OneSenderPerTerm  BY DEF Sent
<1> QED  BY <1>1, SentHolds, PTL

-----------------------------------------------------------------------------
(* Logs.                                                                   *)

\* A request that a leader handles in its own term would be one of a rival.
LEMMA NoRival ==
  ASSUME Typing, VotesBacked, Sent, NEW m \in net, m.op = "AppendEntries",
         state[m.dst] = "leader"
  PROVE  m.term # current_term[m.dst]
<1>1. m.dst \in Server /\ m.src # m.dst
  BY DEF Typing, TypeOK, Request, VoteRequest, AppendRequest
<1>2. Elected(m.src, m.term)  BY DEF Sent
<1> QED  BY <1>1, <1>2, OneWinner

\* A log changes when a leader takes a command, or a follower follows.
LEMMA LogSteps ==
  ASSUME Typing, [Next]_vars
  PROVE  \/ log' = log
         \/ \E i \in Server, c \in Command : Submit(i, c)
         \/ \E m \in net : HandleAppendEntries(m)
<1>1. ASSUME NEW i \in Server,
             \/ Election(i) \/ Tally(i) \/ Beat(i) \/ Restart(i)
             \/ \E r \in AnswerOf(i) : \/ \E j \in Peers(i) : Replicate(i, j, r)
                                       \/ EndRound(i, r)
      PROVE  log' = log
  BY <1>1 DEF Election, Tally, Beat, Restart, Replicate, EndRound, persistent
<1>2. ASSUME NEW m \in net, HandleVoteRequest(m) \/ RestartInHandler(m)
      PROVE  log' = log
  BY <1>2 DEF HandleVoteRequest, RestartInHandler
<1>3. ASSUME NEW c \in Command, Answer(c) \/ GiveUp(c) PROVE log' = log
  BY <1>3 DEF Answer, GiveUp, persistent
<1>4. CASE UNCHANGED vars  BY <1>4 DEF vars, persistent
<1> QED  BY <1>1, <1>2, <1>3, <1>4 DEF Next

LeaderAppends ==
  \A i \in Server :
    state[i] = "leader" /\ state'[i] = "leader" /\ current_term'[i] = current_term[i]
      => /\ Len(log'[i]) >= Len(log[i])
         /\ SubSeq(log'[i], 1, Len(log[i])) = log[i]

LEMMA StepAppends ==
  ASSUME Typing, VotesBacked, Sent, [Next]_vars
  PROVE  LeaderAppends
<1> SUFFICES ASSUME NEW i \in Server, state[i] = "leader", state'[i] = "leader",
                    current_term'[i] = current_term[i]
             PROVE  /\ Len(log'[i]) >= Len(log[i])
                    /\ SubSeq(log'[i], 1, Len(log[i])) = log[i]
  BY DEF LeaderAppends
<1>1. log \in [Server -> Seq(Entry)] /\ log[i] \in Seq(Entry) /\ Len(log[i]) \in Nat
  BY LenProperties DEF Typing, TypeOK
<1>2. CASE log'[i] = log[i]  BY <1>1, <1>2
<1>3. CASE \E k \in Server, c \in Command : Submit(k, c)
  <2>1. PICK k \in Server, c \in Command : Submit(k, c)  BY <1>3
  <2> DEFINE e == [term |-> current_term[k], command |-> c]
  <2>2. log' = [log EXCEPT ![k] = Append(log[k], e)] /\ e \in Entry
    BY <2>1 DEF Submit, Entry, Typing, TypeOK
  <2> HIDE DEF e
  <2>3. CASE k = i
    BY <1>1, <2>2, <2>3
  <2>4. CASE k # i  BY <1>1, <1>2, <2>2, <2>4
  <2> QED  BY <2>3, <2>4
<1>4. CASE \E m \in net : HandleAppendEntries(m)
  <2>1. PICK m \in net : HandleAppendEntries(m)  BY <1>4
  <2>2. m.op = "AppendEntries" /\ m.dst \in Server /\ m.term \in Nat
        /\ current_term \in [Server -> Nat]
    BY <2>1 DEF HandleAppendEntries, Typing, TypeOK, Request, VoteRequest, AppendRequest
  <2>3. CASE m.dst = i
    <3>1. m.term < current_term[i]
      <4>1. m.term # current_term[i]  BY <2>2, <2>3, NoRival
      <4>2. current_term'[i] = Adopt(i, m.term)
        BY <2>1, <2>2, <2>3 DEF HandleAppendEntries
      <4> QED  BY <2>2, <4>1, <4>2 DEF Adopt
    <3>2. log'[i] = log[i]
      BY <1>1, <2>1, <2>3, <3>1 DEF HandleAppendEntries
    <3> QED  BY <1>2, <3>2
  <2>4. CASE m.dst # i
    BY <1>1, <1>2, <2>1, <2>4 DEF HandleAppendEntries
  <2> QED  BY <2>3, <2>4
<1> QED  BY <1>2, <1>3, <1>4, LogSteps

\* A leader's own log only grows while it leads, though requests of earlier
\* leaders, and of its own earlier terms, still arrive.
THEOREM AppendsOnly ==
  ASSUME ~LateRounds
  PROVE  Spec => LeaderAppendOnly
<1>1. Typing /\ VotesBacked /\ Sent /\ [Next]_vars => [LeaderAppends]_vars
  BY StepAppends
<1>2. Spec => [][LeaderAppends]_vars
  BY <1>1, TypingInvariant, VotesInvariant, SentHolds, PTL DEF Spec
<1> QED  BY <1>2 DEF LeaderAppendOnly, LeaderAppends

-----------------------------------------------------------------------------
(* Log matching. The induction is over a set H of logs that no step takes  *)
(* from: all logs that servers have had, and those requests under way are  *)
(* slices of.                                                              *)

Agree(k, l, n) == \A p \in 1..n : k[p] = l[p]

\* Two logs with an entry of one term at n agree up to n.
Match(k, l) ==
  \A n \in 1..Len(k) : n <= Len(l) /\ k[n].term = l[n].term => Agree(k, l, n)

\* The log l has no entry of the term of leader i that i lacks.
Within(l, i) ==
  \A n \in 1..Len(l) : l[n].term = current_term[i] =>
    n <= Len(log[i]) /\ log[i][n].term = current_term[i]

History(H) ==
  /\ H \subseteq Seq(Entry) /\ \A i \in Server : log[i] \in H
  /\ \A k, l \in H : Match(k, l)
  /\ \A m \in net : m.op = "AppendEntries" /\ m.entries # <<>> =>
       \E l \in H : Carries(m, l)
  /\ \A l \in H : \A n \in 1..Len(l) : \E i \in Server : Elected(i, l[n].term)
  /\ \A i \in Server : state[i] = "leader" => \A l \in H : Within(l, i)

\* Following a request that builds on the log l makes l the sender's log, unless
\* it has all of that already.
LEMMA MergeResult ==
  ASSUME NEW l \in Seq(Entry), NEW k \in Seq(Entry), Match(l, k), NEW m,
         m.entries \in Seq(Entry), m.prev_log_id \in Nat,
         Carries(m, k), PrevMatches(l, m.prev_log_id, m.prev_log_term)
  PROVE  Merge(l, m.prev_log_id, m.entries)
           = IF Differing(l, m.prev_log_id, m.entries) = {} THEN l ELSE k
<1> DEFINE prev == m.prev_log_id
           D == Differing(l, prev, m.entries)
<1>1. Len(l) \in Nat /\ Len(k) \in Nat /\ Len(m.entries) \in Nat
  BY LenProperties
<1>2. CASE D = {}  BY <1>2 DEF Merge
<1>3. CASE D # {}
  <2> DEFINE d == Min(D)
  <2>1. d \in D /\ \A x \in D : d <= x
    <3>1. D \in SUBSET Nat  BY <1>1 DEF Differing
    <3> QED  BY <1>3, <3>1, MinExists
  <2>2. d \in 1..Len(m.entries)  BY <2>1 DEF Differing
  <2>3. \A x \in 1..d - 1 :
          prev + x <= Len(l) /\ l[prev + x].term = k[prev + x].term
    <3> SUFFICES ASSUME NEW x \in 1..d - 1
                 PROVE  prev + x <= Len(l) /\ l[prev + x].term = k[prev + x].term
      OBVIOUS
    <3>1. x \in 1..Len(m.entries) /\ x \notin D  BY <1>1, <2>1, <2>2
    <3>2. prev + x <= Len(l) /\ l[prev + x].term = m.entries[x].term
      BY <1>1, <3>1 DEF Differing
    <3> QED  BY <3>1, <3>2 DEF Carries
  <2> HIDE DEF d
  <2>4. prev + d - 1 \in Nat /\ prev + d - 1 <= Len(l) /\ prev + d - 1 <= Len(k)
    <3>1. prev <= Len(l)
      BY <1>1 DEF PrevMatches
    <3>2. d # 1 => prev + (d - 1) <= Len(l)
      BY <1>1, <2>2, <2>3
    <3> QED  BY <1>1, <2>2, <3>1, <3>2 DEF Carries
  <2>5. Agree(l, k, prev + d - 1)
    <3>1. CASE d # 1
      <4>1. prev + (d - 1) <= Len(l) /\ l[prev + (d - 1)].term = k[prev + (d - 1)].term
        BY <1>1, <2>2, <2>3, <3>1
      <4>2. prev + (d - 1) = prev + d - 1 /\ prev + d - 1 \in 1..Len(l)
        BY <1>1, <2>2, <2>4, <3>1
      <4> QED  BY <2>4, <4>1, <4>2 DEF Match
    <3>2. CASE d = 1 /\ prev > 0
      <4>1. prev <= Len(l) /\ l[prev].term = k[prev].term /\ prev <= Len(k)
        BY <3>2 DEF PrevMatches, Carries
      <4>2. Agree(l, k, prev)  BY <1>1, <3>2, <4>1 DEF Match
      <4> QED  BY <1>1, <3>2, <4>2
    <3>3. CASE d = 1 /\ prev = 0
      BY <3>3 DEF Agree
    <3> QED  BY <1>1, <3>1, <3>2, <3>3
  <2>6. Merge(l, prev, m.entries)
          = SubSeq(l, 1, prev + d - 1) \o SubSeq(m.entries, d, Len(m.entries))
    BY <1>3 DEF Merge, d
  <2> DEFINE a == SubSeq(l, 1, prev + d - 1)
             b == SubSeq(m.entries, d, Len(m.entries))
  <2>7. /\ a \in Seq(Entry) /\ Len(a) = prev + d - 1
        /\ \A x \in 1..prev + d - 1 : a[x] = l[x]
    BY <1>1, <2>4
  <2>8. /\ b \in Seq(Entry) /\ Len(b) = Len(m.entries) - d + 1
        /\ \A x \in 1..Len(b) : b[x] = m.entries[d + x - 1]
    BY <1>1, <2>2
  <2> HIDE DEF a, b
  <2>9. /\ a \o b \in Seq(Entry) /\ Len(a \o b) = Len(k)
        /\ \A x \in 1..Len(k) :
             (a \o b)[x] = IF x <= Len(a) THEN a[x] ELSE b[x - Len(a)]
    <3>1. Len(a) + Len(b) = Len(k)
      <4>1. Len(k) = prev + Len(m.entries) /\ prev \in Nat  BY DEF Carries
      <4> QED  BY <1>1, <2>2, <2>7, <2>8, <4>1
    <3> QED  BY <2>7, <2>8, <3>1, ConcatProperties
  <2>10. ASSUME NEW x \in 1..Len(k) PROVE (a \o b)[x] = k[x]
    <3>1. CASE x <= prev + d - 1
      <4>1. (a \o b)[x] = a[x]  BY <2>7, <2>9, <3>1
      <4> QED  BY <1>1, <2>4, <2>5, <2>7, <3>1, <4>1 DEF Agree
    <3>2. CASE ~(x <= prev + d - 1)
      <4> DEFINE y == x - (prev + d - 1)
                 z == d + y - 1
      <4>1. (a \o b)[x] = b[y]  BY <2>7, <2>9, <3>2
      <4>2. /\ y \in 1..Len(b) /\ z \in 1..Len(m.entries)
            /\ prev + z = x
        <5>1. Len(k) = prev + Len(m.entries) /\ prev \in Nat  BY DEF Carries
        <5>2. x \in Nat /\ d \in Nat /\ x <= prev + Len(m.entries)  BY <2>2, <5>1
        <5> HIDE DEF prev
        <5>3. prev + z = x  BY <5>1, <5>2
        <5>4. y > 0 /\ y <= Len(m.entries) - d + 1 /\ y \in Int
          BY <1>1, <3>2, <5>1, <5>2
        <5> HIDE DEF y
        <5>5. y \in 1..Len(b)  BY <1>1, <2>8, <5>2, <5>4
        <5>6. z \in 1..Len(m.entries)  BY <1>1, <2>2, <5>4
        <5> QED  BY <5>3, <5>5, <5>6
      <4>3. b[y] = m.entries[z]  BY <2>8, <4>2
      <4> HIDE DEF y, z
      <4>4. m.entries[z] = k[prev + z]  BY <4>2 DEF Carries
      <4> QED  BY <4>1, <4>2, <4>3, <4>4
    <3> QED  BY <3>1, <3>2
  <2>11. a \o b = k
    <3> DEFINE s == a \o b
    <3>1. s \in Seq(Entry) /\ Len(s) = Len(k) /\ \A x \in 1..Len(s) : s[x] = k[x]
      BY <2>9, <2>10
    <3> HIDE DEF s
    <3>2. s = k  BY <3>1, SeqEqual
    <3> QED  BY <3>2 DEF s
  <2> QED  BY <1>3, <2>6, <2>11 DEF a, b
<1> QED  BY <1>2, <1>3

\* After a step, a leader has all entries of its term that H has: it had them
\* before, or has just been elected, when there are none.
LEMMA LeaderWithin ==
  ASSUME Typing, Typing', VotesBacked, VotesBacked', Sent, [Next]_vars,
         NEW CONSTANT H, History(H), NEW i \in Server, state'[i] = "leader",
         NEW l \in H
  PROVE  Within(l, i)'
<1> SUFFICES ASSUME NEW n \in 1..Len(l), l[n].term = current_term'[i]
             PROVE  n <= Len(log'[i]) /\ log'[i][n].term = current_term'[i]
  BY DEF Within
<1>1. /\ l \in Seq(Entry) /\ log[i] \in Seq(Entry) /\ log'[i] \in Seq(Entry)
      /\ l[n].term \in Nat
  <2>1. l \in Seq(Entry)  BY DEF History
  <2>2. l[n] \in Entry  BY <2>1, ElementOfSeq
  <2> QED  BY <2>1, <2>2 DEF Typing, TypeOK, Entry
<1>2. CASE state'[i] = state[i] /\ current_term'[i] = current_term[i]
  <2>1. n <= Len(log[i]) /\ log[i][n].term = current_term[i]
    BY <1>2 DEF History, Within
  <2>2. /\ Len(log'[i]) >= Len(log[i])
        /\ SubSeq(log'[i], 1, Len(log[i])) = log[i]
    BY <1>2, StepAppends DEF LeaderAppends
  <2>3. Len(log'[i]) \in Nat /\ Len(log[i]) \in Nat /\ n \in 1..Len(log[i])
    BY <1>1, <2>1, LenProperties
  <2>4. log'[i][n] = log[i][n]
    <3>1. SubSeq(log'[i], 1, Len(log[i]))[n] = log'[i][n]
      BY <1>1, <2>2, <2>3
    <3> QED  BY <2>2, <3>1
  <2> QED  BY <1>2, <2>1, <2>2, <2>3, <2>4
<1>3. CASE /\ ballot[i].open /\ ballot[i].term = current_term[i]
           /\ current_term' = current_term
  <2>1. PICK k \in Server : Elected(k, l[n].term)  BY DEF History
  <2>2. k # i  BY <1>3, <2>1 DEF Elected
  <2>3. Elected(k, l[n].term)'  BY <1>1, <2>1, ElectedStays
  <2>4. Elected(k, current_term[i])'  BY <1>3, <2>3
  <2>5. k = i  BY <2>4, OneWinnerNext DEF WinnerAlone
  <2> QED  BY <2>2, <2>5
<1>4. state'[i] # "follower"  OBVIOUS
<1>5. \/ state'[i] = state[i] /\ current_term'[i] = current_term[i]
      \/ /\ ballot[i].open /\ ballot[i].term = current_term[i]
         /\ current_term' = current_term
  BY <1>4, LeadersBefore
<1> QED  BY <1>2, <1>3, <1>5

LEMMA MatchSymmetric ==
  ASSUME NEW k, NEW l, Len(l) \in Nat, Match(k, l)
  PROVE  Match(l, k)
<1> SUFFICES ASSUME NEW n \in 1..Len(l), n <= Len(k), l[n].term = k[n].term
             PROVE  Agree(l, k, n)
  BY DEF Match
<1>1. Agree(k, l, n)
  <2> HIDE DEF Agree
  <2>1. \A x \in 1..Len(k) : x <= Len(l) /\ k[x].term = l[x].term => Agree(k, l, x)
    BY DEF Match
  <2> QED  BY <2>1
<1> QED  BY <1>1 DEF Agree

\* What G has to satisfy to take the place of H after a step.
LEMMA HistoryGrows ==
  ASSUME ~LateRounds, Typing, Typing', VotesBacked, VotesBacked', Sent,
         [Next]_vars, NEW CONSTANT H, History(H), NEW CONSTANT G,
         G \subseteq Seq(Entry), H \subseteq G,
         \A i \in Server : log'[i] \in G,
         \A k, l \in G : Match(k, l),
         \A l \in G \ H : \A n \in 1..Len(l) :
           \/ \E k \in H : n \in 1..Len(k) /\ l[n].term = k[n].term
           \/ \E i \in Server : state[i] = "leader" /\ l[n].term = current_term[i],
         \A i \in Server : state'[i] = "leader" => \A l \in G \ H : Within(l, i)'
  PROVE  History(G)'
<1>1. ASSUME NEW m \in net', m.op = "AppendEntries", m.entries # <<>>
      PROVE  \E l \in G : Carries(m, l)
  <2>1. CASE m \in net  BY <1>1, <2>1 DEF History
  <2>2. CASE m \notin net
    <3>1. m.src \in Server /\ Carries(m, log[m.src])  BY <1>1, <2>2, NewRequests
    <3>2. log[m.src] \in G  BY <3>1 DEF History
    <3> QED  BY <3>1, <3>2
  <2> QED  BY <2>1, <2>2
<1>2. ASSUME NEW l \in H, NEW n \in 1..Len(l)
      PROVE  \E i \in Server : Elected(i, l[n].term)'
  <2>1. PICK i \in Server : Elected(i, l[n].term)  BY DEF History
  <2>2. l \in Seq(Entry)  BY DEF History
  <2>3. l[n] \in Entry  BY <2>2, ElementOfSeq
  <2>4. l[n].term \in Nat  BY <2>3 DEF Entry
  <2>5. Elected(i, l[n].term)'  BY <2>1, <2>4, ElectedStays
  <2> QED  BY <2>5
<1>3. ASSUME NEW l \in G \ H, NEW n \in 1..Len(l)
      PROVE  \E i \in Server : Elected(i, l[n].term)'
  <2>1. CASE \E k \in H : n \in 1..Len(k) /\ l[n].term = k[n].term
    BY <1>2, <2>1
  <2>2. CASE \E i \in Server : state[i] = "leader" /\ l[n].term = current_term[i]
    <3>1. PICK i \in Server : state[i] = "leader" /\ l[n].term = current_term[i]
      BY <2>2
    <3>2. current_term[i] > 0 /\ current_term[i] \in Nat
      BY <3>1 DEF Sent, Typing, TypeOK
    <3>3. Elected(i, l[n].term)  BY <3>1, <3>2, LeaderElected
    <3>4. l[n].term \in Nat  BY <3>1, <3>2
    <3>5. Elected(i, l[n].term)'  BY <3>3, <3>4, ElectedStays
    <3> QED  BY <3>5
  <2> QED  BY <1>3, <2>1, <2>2
<1>4. ASSUME NEW i \in Server, state'[i] = "leader", NEW l \in G
      PROVE  Within(l, i)'
  <2>1. CASE l \in H  BY <1>4, <2>1, LeaderWithin
  <2>2. CASE l \notin H  BY <1>4, <2>2
  <2> QED  BY <2>1, <2>2
<1>5. \A l \in G : \A n \in 1..Len(l) : \E i \in Server : Elected(i, l[n].term)'
  BY <1>2, <1>3
<1> QED  BY <1>1, <1>4, <1>5 DEF History

\* How the set of logs grows in a step: by prefixes of logs in it, and by the
\* log of a leader that takes a command.
Grown(H, G) ==
  /\ H \subseteq G
  /\ \A l \in G \ H : \/ \E k \in H : Len(l) <= Len(k) /\ Agree(l, k, Len(l))
                     \/ \E i \in Server, c \in Command : Submit(i, c) /\ l = log'[i]

LEMMA SubmitHistory ==
  ASSUME ~LateRounds, Typing, Typing', VotesBacked, VotesBacked', Sent,
         [Next]_vars, NEW CONSTANT H, History(H),
         NEW CONSTANT i \in Server, NEW CONSTANT c \in Command, Submit(i, c)
  PROVE  \E G : History(G)' /\ Grown(H, G)
<1>1. /\ log \in [Server -> Seq(Entry)] /\ log[i] \in Seq(Entry)
      /\ Len(log[i]) \in Nat /\ current_term[i] \in Nat /\ state[i] = "leader"
  BY LenProperties DEF Typing, TypeOK, Submit
<1> DEFINE e == [term |-> current_term[i], command |-> c]
<1>2. PICK new \in Seq(Entry) : new = Append(log[i], e)
  <2>1. e \in Entry  BY <1>1 DEF Entry
  <2> HIDE DEF e
  <2> QED  BY <1>1, <2>1, AppendProperties
<1>3. /\ Len(new) = Len(log[i]) + 1 /\ new[Len(log[i]) + 1] = e
      /\ \A n \in 1..Len(log[i]) : new[n] = log[i][n]
  BY <1>1, <1>2 DEF Entry
<1>4. log' = [log EXCEPT ![i] = new] /\ current_term' = current_term /\ state' = state
  BY <1>2 DEF Submit, node
<1> DEFINE G == H \cup {new}
<1>5. log[i] \in H /\ H \subseteq Seq(Entry)  BY DEF History
<1>6. ASSUME NEW l \in H PROVE Match(new, l) /\ Match(l, new)
  <2>1. Len(l) \in Nat /\ Len(new) \in Nat  BY <1>5, LenProperties
  <2>2. Within(l, i)  BY <1>1 DEF History
  <2>3. Match(log[i], l)  BY <1>5 DEF History
  <2>4. ASSUME NEW n \in 1..Len(new), n <= Len(l), new[n].term = l[n].term
        PROVE  Agree(new, l, n)
    <3>1. CASE n <= Len(log[i])
      <4>1. new[n] = log[i][n]  BY <1>1, <1>3, <3>1
      <4>2. Agree(log[i], l, n)  BY <1>1, <2>3, <2>4, <3>1, <4>1 DEF Match
      <4> QED  BY <1>1, <1>3, <3>1, <4>2 DEF Agree
    <3>2. CASE n = Len(log[i]) + 1
      <4>1. n \in 1..Len(l) /\ l[n].term = current_term[i]
        BY <1>3, <2>1, <2>4, <3>2
      <4>2. n <= Len(log[i])  BY <2>2, <4>1 DEF Within
      <4> QED  BY <1>1, <3>2, <4>2
    <3> QED  BY <1>1, <1>3, <3>1, <3>2
  <2>5. Match(new, l)  BY <2>4 DEF Match
  <2> QED  BY <2>1, <2>5, MatchSymmetric
<1>7. Match(new, new)  BY DEF Match, Agree
<1>8. \A k, l \in G : Match(k, l)
  BY <1>6, <1>7 DEF History
<1>9. ASSUME NEW n \in 1..Len(new)
      PROVE  \/ \E k \in H : n \in 1..Len(k) /\ new[n].term = k[n].term
             \/ state[i] = "leader" /\ new[n].term = current_term[i]
  <2>1. CASE n <= Len(log[i])
    <3>1. n \in 1..Len(log[i]) /\ new[n] = log[i][n]  BY <1>1, <1>3, <2>1
    <3> QED  BY <1>5, <3>1
  <2>2. CASE n = Len(log[i]) + 1  BY <1>1, <1>3, <2>2
  <2> QED  BY <1>1, <1>3, <2>1, <2>2
<1>10. ASSUME NEW j \in Server, state'[j] = "leader" PROVE Within(new, j)'
  <2>1. CASE j = i
    <3>1. log'[j] = new  BY <1>1, <1>4, <2>1
    <3>2. Len(new) \in Nat  BY LenProperties
    <3> QED  BY <3>1, <3>2 DEF Within
  <2>2. CASE j # i
    <3>1. log'[j] = log[j] /\ state[j] = "leader"  BY <1>1, <1>4, <1>10, <2>2
    <3>2. ASSUME NEW n \in 1..Len(new), new[n].term = current_term[j]
          PROVE  n <= Len(log[j]) /\ log[j][n].term = current_term[j]
      <4>1. CASE n <= Len(log[i])
        <5>1. n \in 1..Len(log[i]) /\ log[i][n].term = current_term[j]
          BY <1>1, <1>3, <3>2, <4>1
        <5>2. Within(log[i], j)  BY <1>5, <3>1 DEF History
        <5> QED  BY <5>1, <5>2 DEF Within
      <4>2. CASE n = Len(log[i]) + 1
        <5>1. current_term[i] = current_term[j]  BY <1>3, <3>2, <4>2
        <5>2. current_term[i] > 0  BY <1>1 DEF Sent
        <5>3. Elected(i, current_term[j])  BY <1>1, <5>1, <5>2, LeaderElected
        <5>4. i = j  BY <3>1, <5>3, OneWinner
        <5> QED  BY <2>2, <5>4
      <4> QED  BY <1>1, <1>3, <4>1, <4>2
    <3> QED  BY <1>4, <3>1, <3>2 DEF Within
  <2> QED  BY <2>1, <2>2
<1>11. \A j \in Server : log'[j] \in G
  BY <1>1, <1>4 DEF History
<1>12. G \subseteq Seq(Entry) /\ H \subseteq G /\ G \ H \subseteq {new}
  BY <1>5
<1> HIDE DEF G, e
<1>13. History(G)'
  BY <1>8, <1>9, <1>10, <1>11, <1>12, HistoryGrows
<1>14. Grown(H, G)
  <2>1. log'[i] = new  BY <1>1, <1>4
  <2> QED  BY <1>12, <2>1 DEF Grown
<1> QED  BY <1>13, <1>14

LEMMA CutHistory ==
  ASSUME ~LateRounds, Typing, Typing', VotesBacked, VotesBacked', Sent,
         [Next]_vars, NEW CONSTANT H, History(H),
         NEW CONSTANT i \in Server, NEW CONSTANT q \in Nat, q <= Len(log[i]),
         log' = [log EXCEPT ![i] = SubSeq(log[i], 1, q)]
  PROVE  \E G : History(G)' /\ Grown(H, G)
<1>1. /\ log \in [Server -> Seq(Entry)] /\ log[i] \in Seq(Entry)
      /\ Len(log[i]) \in Nat
  BY LenProperties DEF Typing, TypeOK
<1>2. PICK new \in Seq(Entry) : new = SubSeq(log[i], 1, q)
  <2>1. SubSeq(log[i], 1, q) \in Seq(Entry)  BY <1>1, SliceType
  <2> QED  BY <2>1
<1>3. Len(new) = q /\ \A n \in 1..q : n \in 1..Len(log[i]) /\ new[n] = log[i][n]
  BY <1>1, <1>2
<1> DEFINE G == H \cup {new}
<1>4. log[i] \in H /\ H \subseteq Seq(Entry)  BY DEF History
<1>5. ASSUME NEW l \in H PROVE Match(new, l) /\ Match(l, new)
  <2>1. Len(l) \in Nat /\ Len(new) \in Nat  BY <1>4, LenProperties
  <2>2. Match(log[i], l)  BY <1>4 DEF History
  <2>3. ASSUME NEW n \in 1..q, n <= Len(l), new[n].term = l[n].term
        PROVE  Agree(new, l, n)
    <3>1. Agree(log[i], l, n)  BY <1>3, <2>2, <2>3 DEF Match
    <3> QED  BY <1>3, <3>1 DEF Agree
  <2>4. Match(new, l)  BY <1>3, <2>3 DEF Match
  <2> QED  BY <2>1, <2>4, MatchSymmetric
<1>6. Match(new, new)  BY DEF Match, Agree
<1>7. \A k, l \in G : Match(k, l)
  BY <1>5, <1>6 DEF History
<1>8. ASSUME NEW n \in 1..Len(new)
      PROVE  \E k \in H : n \in 1..Len(k) /\ new[n].term = k[n].term
  BY <1>3, <1>4
<1>9. ASSUME NEW j \in Server, state'[j] = "leader" PROVE Within(new, j)'
  <2>1. PICK l \in H : l = log[i]  BY <1>4
  <2>2. Within(l, j)'  BY <1>9, LeaderWithin
  <2>3. \A n \in 1..Len(l) : l[n].term = current_term'[j] =>
          n <= Len(log'[j]) /\ log'[j][n].term = current_term'[j]
    BY <2>2 DEF Within
  <2>4. \A n \in 1..q : new[n].term = current_term'[j] =>
          n <= Len(log'[j]) /\ log'[j][n].term = current_term'[j]
    BY <1>3, <2>1, <2>3
  <2> QED  BY <1>3, <2>4 DEF Within
<1>10. \A j \in Server : log'[j] \in G
  BY <1>1, <1>2 DEF History
<1>11. G \subseteq Seq(Entry) /\ H \subseteq G /\ G \ H \subseteq {new}
  BY <1>4
<1> HIDE DEF G
<1>12. History(G)'
  BY <1>7, <1>8, <1>9, <1>10, <1>11, HistoryGrows
<1>13. Grown(H, G)
  <2>1. Len(new) <= Len(log[i]) /\ Agree(new, log[i], Len(new))
    BY <1>3 DEF Agree
  <2> QED  BY <1>4, <1>11, <2>1 DEF Grown
<1> QED  BY <1>12, <1>13

LEMMA StepHistory ==
  ASSUME ~LateRounds, Typing, Typing', VotesBacked, VotesBacked', Sent,
         [Next]_vars, NEW CONSTANT H, History(H)
  PROVE  \E G : History(G)' /\ Grown(H, G)
<1>1. ASSUME \A j \in Server : log'[j] \in H PROVE History(H)' /\ Grown(H, H)
  BY <1>1, HistoryGrows DEF History, Grown
<1>2. CASE log' = log
  BY <1>1, <1>2 DEF History
<1>3. CASE \E i \in Server, c \in Command : Submit(i, c)
  BY <1>3, SubmitHistory
<1>4. CASE \E m \in net : HandleAppendEntries(m)
  <2>1. PICK m \in net : HandleAppendEntries(m)  BY <1>4
  <2> DEFINE i == m.dst
             stale == m.term < current_term[i]
             success == ~stale /\ PrevMatches(log[i], m.prev_log_id, m.prev_log_term)
             cut == ~stale /\ ~success /\ m.prev_log_id <= Len(log[i])
  <2>2. /\ m.op = "AppendEntries" /\ i \in Server /\ m.prev_log_id \in Nat
        /\ m.entries \in Seq(Entry) /\ log \in [Server -> Seq(Entry)]
        /\ log[i] \in Seq(Entry) /\ Len(log[i]) \in Nat
    BY <2>1, LenProperties
       DEF HandleAppendEntries, Typing, TypeOK, Request, VoteRequest, AppendRequest
  <2>3. log' = [log EXCEPT ![i] =
                  IF success THEN Merge(log[i], m.prev_log_id, m.entries)
                  ELSE IF cut THEN SubSeq(log[i], 1, m.prev_log_id - 1)
                  ELSE log[i]]
    BY <2>1 DEF HandleAppendEntries
  <2>4. CASE success
    <3>1. Merge(log[i], m.prev_log_id, m.entries) \in H
      <4>1. CASE m.entries = <<>>
        <5>1. Differing(log[i], m.prev_log_id, m.entries) = {}
          BY <4>1 DEF Differing
        <5> QED  BY <2>2, <5>1 DEF Merge, History
      <4>2. CASE m.entries # <<>>
        <5>1. PICK k \in H : Carries(m, k)  BY <2>2, <4>2 DEF History
        <5>2. log[i] \in H /\ k \in Seq(Entry) /\ Match(log[i], k)
          BY <2>2, <5>1 DEF History
        <5>3. PrevMatches(log[i], m.prev_log_id, m.prev_log_term)  BY <2>4
        <5>4. Merge(log[i], m.prev_log_id, m.entries) \in {log[i], k}
          BY <2>2, <5>1, <5>2, <5>3, MergeResult
        <5> QED  BY <5>1, <5>2, <5>4
      <4> QED  BY <4>1, <4>2
    <3>2. \A j \in Server : log'[j] \in H
      BY <2>2, <2>3, <2>4, <3>1 DEF History
    <3> QED  BY <1>1, <3>2
  <2>5. CASE cut
    <3>1. m.prev_log_id # 0  BY <2>5 DEF PrevMatches
    <3>2. m.prev_log_id - 1 \in Nat /\ m.prev_log_id - 1 <= Len(log[i])
      BY <2>2, <2>5, <3>1
    <3>3. log' = [log EXCEPT ![i] = SubSeq(log[i], 1, m.prev_log_id - 1)]
      BY <2>3, <2>5
    <3> HIDE DEF i, cut
    <3> QED  BY <2>2, <3>2, <3>3, CutHistory
  <2>6. CASE ~success /\ ~cut
    <3>1. log' = log  BY <2>2, <2>3, <2>6
    <3> QED  BY <1>2, <3>1
  <2> QED  BY <2>4, <2>5, <2>6
<1> QED  BY <1>2, <1>3, <1>4, LogSteps

Matched == \E H : History(H)

\* Two logs that share an entry share all entries before it, whatever requests
\* of earlier leaders arrive late and whoever crashes.
THEOREM LogsMatch ==
  ASSUME ~LateRounds
  PROVE  Spec => []LogMatching
<1>1. Init => Matched
  <2> SUFFICES ASSUME Init PROVE History({<<>>})  BY DEF Matched
  <2> QED  BY DEF Init, History, Match, Within
<1>2. Typing /\ Typing' /\ VotesBacked /\ VotesBacked' /\ Sent /\ Matched
        /\ [Next]_vars => Matched'
  <2> SUFFICES ASSUME Typing, Typing', VotesBacked, VotesBacked', Sent, Matched,
                      [Next]_vars
               PROVE  Matched'
    OBVIOUS
  <2>1. PICK H : History(H)  BY DEF Matched
  <2>2. \E G : History(G)' /\ Grown(H, G)  BY <2>1, StepHistory
  <2> QED  BY <2>2 DEF Matched
<1>3. Typing /\ Matched => LogMatching
  <2> SUFFICES ASSUME Typing, Matched, NEW i \in Server, NEW j \in Server,
                      NEW n \in DOMAIN log[i] \cap DOMAIN log[j],
                      log[i][n].term = log[j][n].term
               PROVE  SubSeq(log[i], 1, n) = SubSeq(log[j], 1, n)
    BY DEF LogMatching
  <2>1. PICK H : History(H)  BY DEF Matched
  <2>2. log[i] \in Seq(Entry) /\ log[j] \in Seq(Entry)  BY DEF Typing, TypeOK
  <2>3. n \in 1..Len(log[i]) /\ n \in 1..Len(log[j])  BY <2>2
  <2>4. Agree(log[i], log[j], n)  BY <2>1, <2>3 DEF History, Match
  <2> DEFINE a == SubSeq(log[i], 1, n)
             b == SubSeq(log[j], 1, n)
  <2>5. a \in Seq(Entry) /\ Len(a) = n /\ \A x \in 1..n : a[x] = log[i][x]
    BY <2>2, <2>3
  <2>6. b \in Seq(Entry) /\ Len(b) = n /\ \A x \in 1..n : b[x] = log[j][x]
    BY <2>2, <2>3
  <2>7. \A x \in 1..n : a[x] = b[x]  BY <2>4, <2>5, <2>6 DEF Agree
  <2> HIDE DEF a, b
  <2>8. a = b  BY <2>5, <2>6, <2>7, SeqEqual
  <2> QED  BY <2>8 DEF a, b
<1> QED
  BY <1>1, <1>2, <1>3, TypingInvariant, VotesInvariant, SentHolds, PTL DEF Spec

=============================================================================

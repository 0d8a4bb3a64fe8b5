------------------------ MODULE RaftRefinementProofs ------------------------
(***************************************************************************)
(* Raft implements ReplicatedLog, for every number of servers, commands,   *)
(* terms and crashes, if what a round does after its leader stepped down   *)
(* is lost.                                                                *)
(***************************************************************************)
EXTENDS RaftRefinement, RaftSafetyProofs

-----------------------------------------------------------------------------
(* Where commands are.                                                     *)

\* The call of command c has been given the id n.
HasPlace(c, n) == call[c].status # "none" /\ call[c].log_id = n

\* A command has one place, in all logs and in all requests under way.
Placed ==
  /\ \A i \in Server : \A n \in 1..Len(log[i]) : HasPlace(log[i][n].command, n)
  /\ \A m \in net : m.op = "AppendEntries" =>
       \A n \in 1..Len(m.entries) :
         HasPlace(m.entries[n].command, m.prev_log_id + n)

\* What is committed has been applied, and is in the log.
CommitsApplied ==
  \A i \in Server : \A n \in 1..commit_id[i] :
    n <= Len(log[i]) /\ n <= Len(applied[i]) /\ log[i][n].command = applied[i][n]

\* What is applied is in some log, hence has its place.
LEMMA CommandsPlaced ==
  ASSUME Typing, AppliedIsStored, Placed, NEW i \in Server, NEW n \in 1..Len(applied[i])
  PROVE  applied[i][n] \in Command /\ HasPlace(applied[i][n], n)
<1> DEFINE S == {j \in Server : n <= Len(log[j]) /\ log[j][n].command = applied[i][n]}
<1>1. applied[i] \in Seq(Command) /\ n \in Nat /\ n > 0
      /\ \A j \in Server : log[j] \in Seq(Entry) /\ Len(log[j]) \in Nat
  BY LenProperties DEF Typing, TypeOK
<1>2. Cardinality(S) >= Majority  BY DEF AppliedIsStored
<1>3. S # {}
  <2>1. Cardinality(Server) \in Nat  BY ServerAssumption, FS_CardinalityType
  <2>2. Majority \in Nat /\ Majority >= 1  BY <2>1 DEF Majority
  <2>3. Cardinality({}) = 0  BY FS_EmptySet
  <2>4. ASSUME S = {} PROVE FALSE
    <3>1. Cardinality(S) = 0  BY <2>3, <2>4
    <3> HIDE DEF S
    <3> QED  BY <1>2, <2>2, <3>1
  <2> QED  BY <2>4
<1>4. PICK j \in Server : n <= Len(log[j]) /\ log[j][n].command = applied[i][n]
  BY <1>3
<1>5. n \in 1..Len(log[j])  BY <1>1, <1>4
<1> QED  BY <1>1, <1>4, <1>5 DEF Placed

\* The log that committed ids name is the one that what was applied came from.
LEMMA CommittedApplied == Typing /\ Explainable => CommitsApplied
<1> SUFFICES ASSUME Typing, Explainable, NEW i \in Server, NEW n \in 1..commit_id[i]
             PROVE  n <= Len(log[i]) /\ n <= Len(applied[i])
                    /\ log[i][n].command = applied[i][n]
  BY DEF CommitsApplied
<1>1. PICK H, B, V, A : Explained(H, B, V, A)  BY DEF Explainable
<1>2. /\ Len(applied[i]) \in Nat /\ current_term[i] \in Nat /\ commit_id[i] \in Nat
      /\ Len(log[i]) \in Nat /\ commit_id[i] <= Len(applied[i])
  BY LenProperties DEF Typing, TypeOK
<1>3. Past(H, B, V, A) /\ Commits(H, A)  BY <1>1 DEF Explained
<1>4. Chosen(H, A, log[i], commit_id[i], current_term[i])  BY <1>3 DEF Commits
<1>5. PICK l \in H : /\ \A m \in 1..Len(applied[i]) : l[m].command = applied[i][m]
                     /\ Chosen(H, A, l, Len(applied[i]), current_term[i])
  BY <1>3 DEF Commits
<1>6. n \in 1..Len(applied[i])  BY <1>2
<1>7. log[i][n] = l[n]  BY <1>2, <1>3, <1>4, <1>5, <1>6, ChosenAgree
<1>8. commit_id[i] <= Len(log[i])
  <2>1. PICK g \in H : Has(log[i], g, commit_id[i])  BY <1>2, <1>4 DEF Chosen
  <2> QED  BY <2>1 DEF Has
<1> QED  BY <1>2, <1>5, <1>6, <1>7, <1>8

\* Following a request puts each of its entries at the id it is sent with.
LEMMA MergePlaces ==
  ASSUME NEW l \in Seq(Entry), NEW entries \in Seq(Entry), NEW prev \in Nat,
         prev <= Len(l), NEW n \in 1..Len(Merge(l, prev, entries))
  PROVE  \/ n \in 1..Len(l) /\ Merge(l, prev, entries)[n] = l[n]
         \/ \E x \in 1..Len(entries) :
              n = prev + x /\ Merge(l, prev, entries)[n] = entries[x]
<1> DEFINE D == Differing(l, prev, entries)
           d == Min(D)
           a == SubSeq(l, 1, prev + d - 1)
           b == SubSeq(entries, d, Len(entries))
<1>1. Len(l) \in Nat /\ Len(entries) \in Nat  BY LenProperties
<1>2. CASE D = {}  BY <1>2 DEF Merge
<1>3. CASE D # {}
  <2>1. d \in D /\ \A x \in D : d <= x
    <3>1. D \in SUBSET Nat  BY <1>1 DEF Differing
    <3> QED  BY <1>3, <3>1, MinExists
  <2>2. d \in 1..Len(entries)  BY <2>1 DEF Differing
  <2>3. prev + d - 1 \in Nat /\ prev + d - 1 <= Len(l)
    <3>1. CASE d = 1  BY <1>1, <3>1
    <3>2. CASE d # 1
      <4>1. d - 1 \in 1..Len(entries) /\ d - 1 \notin D
        BY <1>1, <2>1, <2>2, <3>2
      <4> QED  BY <1>1, <2>2, <4>1 DEF Differing
    <3> QED  BY <3>1, <3>2
  <2>4. Merge(l, prev, entries) = a \o b  BY <1>3 DEF Merge
  <2> HIDE DEF D, d
  <2>5. /\ a \in Seq(Entry) /\ Len(a) = prev + d - 1
        /\ \A x \in 1..prev + d - 1 : a[x] = l[x]
    BY <1>1, <2>3
  <2>6. /\ b \in Seq(Entry) /\ Len(b) = Len(entries) - d + 1
        /\ \A x \in 1..Len(b) : b[x] = entries[d + x - 1]
    BY <1>1, <2>2
  <2> HIDE DEF a, b
  <2>7. /\ n \in 1..Len(a) + Len(b)
        /\ (a \o b)[n] = IF n <= Len(a) THEN a[n] ELSE b[n - Len(a)]
    <3>1. /\ Len(a \o b) = Len(a) + Len(b)
          /\ \A x \in 1..Len(a) + Len(b) :
               (a \o b)[x] = IF x <= Len(a) THEN a[x] ELSE b[x - Len(a)]
      BY <2>5, <2>6, ConcatProperties
    <3>2. n \in 1..Len(a \o b)  BY <2>4
    <3>3. n \in 1..Len(a) + Len(b)  BY <3>1, <3>2
    <3> QED  BY <3>1, <3>3
  <2>8. CASE n <= Len(a)
    <3>1. n \in 1..prev + d - 1 /\ n \in 1..Len(l)
      BY <1>1, <2>3, <2>5, <2>7, <2>8
    <3> QED  BY <2>4, <2>5, <2>7, <2>8, <3>1
  <2>9. CASE ~(n <= Len(a))
    <3> DEFINE x == n - prev
    <3>1. /\ n - Len(a) \in 1..Len(b) /\ x \in 1..Len(entries)
          /\ d + (n - Len(a)) - 1 = x /\ n = prev + x
      BY <1>1, <2>2, <2>3, <2>5, <2>6, <2>7, <2>9
    <3>2. b[n - Len(a)] = entries[x]  BY <2>6, <3>1
    <3> QED  BY <2>4, <2>7, <2>9, <3>1, <3>2
  <2> QED  BY <2>8, <2>9
<1> QED  BY <1>2, <1>3

\* The same after a step
HadPlace(c, n) == call'[c].status # "none" /\ call'[c].log_id = n

\* A call never gets another id.
LEMMA PlacesStay ==
  ASSUME Typing, [Next]_vars, NEW c \in Command, NEW n, HasPlace(c, n)
  PROVE  HadPlace(c, n)
<1>1. call \in [Command -> Call]  BY DEF Typing, TypeOK
<1>2. CASE call' = call  BY <1>2 DEF HasPlace, HadPlace
<1>3. ASSUME NEW i \in Server, NEW d \in Command, Submit(i, d) PROVE HadPlace(c, n)
  <2>1. c # d  BY <1>3 DEF Submit, HasPlace
  <2>2. call'[c] = call[c]  BY <1>1, <1>3, <2>1 DEF Submit
  <2> QED  BY <2>2 DEF HasPlace, HadPlace
<1>4. ASSUME NEW d \in Command, Answer(d) PROVE HadPlace(c, n)
  <2>1. call' = [call EXCEPT ![d] =
                   IF call[d].log_id <= Len(log[call[d].at])
                   THEN [@ EXCEPT !.status = "answered",
                                  !.answered = log[call[d].at][call[d].log_id].command]
                   ELSE [@ EXCEPT !.status = "failed"]]
    BY <1>4 DEF Answer
  <2>2. call[c] \in Call  BY <1>1
  <2>3. call'[c].log_id = call[c].log_id
        /\ (call'[c].status = call[c].status \/ call'[c].status \in {"answered", "failed"})
    BY <1>1, <2>1, <2>2 DEF Call
  <2> QED  BY <2>3 DEF HasPlace, HadPlace
<1>5. ASSUME NEW d \in Command, GiveUp(d) PROVE HadPlace(c, n)
  <2>1. call' = [call EXCEPT ![d].status = "failed"]  BY <1>5 DEF GiveUp
  <2>2. call[c] \in Call  BY <1>1
  <2>3. call'[c].log_id = call[c].log_id
        /\ (call'[c].status = call[c].status \/ call'[c].status = "failed")
    BY <1>1, <2>1, <2>2 DEF Call
  <2> QED  BY <2>3 DEF HasPlace, HadPlace
<1>6. ASSUME NEW i \in Server, Volatile(i) PROVE HadPlace(c, n)
  <2>1. call'[c] = IF call[c].status = "waiting" /\ call[c].at = i
                   THEN [call[c] EXCEPT !.status = "failed"] ELSE call[c]
    BY <1>6 DEF Volatile
  <2>2. call[c] \in Call  BY <1>1
  <2>3. call'[c].log_id = call[c].log_id
        /\ (call'[c].status = call[c].status \/ call'[c].status = "failed")
    BY <2>1, <2>2 DEF Call
  <2> QED  BY <2>3 DEF HasPlace, HadPlace
<1>7. ASSUME NEW i \in Server,
             \/ Election(i) \/ Tally(i) \/ Beat(i)
             \/ \E r \in AnswerOf(i) : \/ \E j \in Peers(i) : Replicate(i, j, r)
                                       \/ EndRound(i, r)
      PROVE  call' = call
  BY <1>7 DEF Election, Tally, Beat, Replicate, EndRound
<1>8. ASSUME NEW m \in net, HandleVoteRequest(m) \/ HandleAppendEntries(m)
      PROVE  call' = call
  BY <1>8 DEF HandleVoteRequest, HandleAppendEntries
<1>9. CASE UNCHANGED vars  BY <1>2, <1>9 DEF vars
<1>10. ASSUME NEW i \in Server, Restart(i) PROVE HadPlace(c, n)
  BY <1>6, <1>10 DEF Restart
<1>11. ASSUME NEW m \in net, RestartInHandler(m) PROVE HadPlace(c, n)
  <2>1. m.dst \in Server /\ Volatile(m.dst)
    BY <1>11 DEF RestartInHandler, Typing, TypeOK, Request, VoteRequest, AppendRequest
  <2> QED  BY <1>6, <2>1
<1> QED
  BY <1>2, <1>3, <1>4, <1>5, <1>7, <1>8, <1>9, <1>10, <1>11 DEF Next

LEMMA InitPlaced == Init => Placed
BY DEF Init, Placed

\* A command that is in a log keeps its place.
LEMMA LogsPlaced ==
  ASSUME Base, [Next]_vars, Placed, NEW i \in Server, NEW n \in 1..Len(log[i])
  PROVE  HadPlace(log[i][n].command, n)
<1>1. log[i] \in Seq(Entry)  BY DEF Base, Typing, TypeOK
<1>2. log[i][n].command \in Command  BY <1>1, EntryTerm
<1>3. HasPlace(log[i][n].command, n)  BY DEF Placed
<1> QED  BY <1>2, <1>3, PlacesStay DEF Base

\* A new command gets an id of its own; whatever else enters a log had its place.
LEMMA StepPlaced ==
  ASSUME ~LateRounds, Base, Base', [Next]_vars, Placed
  PROVE  Placed'
<1>1. /\ log \in [Server -> Seq(Entry)] /\ current_term \in [Server -> Nat]
      /\ call \in [Command -> Call]
      /\ \A i \in Server : log[i] \in Seq(Entry) /\ Len(log[i]) \in Nat
  BY LenProperties DEF Base, Typing, TypeOK
<1>2. ASSUME NEW i \in Server, NEW n \in 1..Len(log'[i])
      PROVE  HadPlace(log'[i][n].command, n)
  <2>1. CASE n \in 1..Len(log[i]) /\ log'[i][n] = log[i][n]
    BY <2>1, LogsPlaced
  <2>2. CASE log' = log  BY <2>1, <2>2
  <2>3. ASSUME NEW k \in Server, NEW c \in Command, Submit(k, c),
               ~(n \in 1..Len(log[i]) /\ log'[i][n] = log[i][n])
        PROVE  HadPlace(log'[i][n].command, n)
    <3> DEFINE e == [term |-> current_term[k], command |-> c]
    <3>1. k = i /\ log'[i] = Append(log[i], e)  BY <1>1, <2>3 DEF Submit
    <3>2. e \in Entry /\ e.command = c  BY <1>1 DEF Entry
    <3> HIDE DEF e
    <3>3. /\ Len(log'[i]) = Len(log[i]) + 1
          /\ \A x \in 1..Len(log[i]) : log'[i][x] = log[i][x]
          /\ log'[i][Len(log[i]) + 1] = e
      BY <1>1, <3>1, <3>2, AppendProperties
    <3>4. n = Len(log[i]) + 1  BY <1>1, <2>3, <3>3
    <3>5. call'[c] = [status |-> "waiting", at |-> k, log_id |-> Len(log[k]) + 1,
                      answered |-> None]
      BY <1>1, <2>3 DEF Submit
    <3> QED  BY <3>1, <3>2, <3>3, <3>4, <3>5 DEF HadPlace
  <2>4. ASSUME NEW m \in net, HandleAppendEntries(m),
               ~(n \in 1..Len(log[i]) /\ log'[i][n] = log[i][n])
        PROVE  HadPlace(log'[i][n].command, n)
    <3>1. /\ m.dst \in Server /\ m \in AppendRequest /\ m.op = "AppendEntries"
          /\ log' = [log EXCEPT ![m.dst] =
                       IF m.term < current_term[m.dst] THEN log[m.dst]
                       ELSE Followed(log[m.dst], m)]
          /\ call' = call
      BY <2>4, FollowerLog DEF HandleAppendEntries
    <3>2. /\ m.prev_log_id \in Nat /\ m.entries \in Seq(Entry)
          /\ Len(m.entries) \in Nat
      BY <3>1, LenProperties DEF AppendRequest
    <3>3. /\ m.dst = i /\ log'[i] = Followed(log[i], m)
      BY <1>1, <2>4, <3>1
    <3>4. PrevMatches(log[i], m.prev_log_id, m.prev_log_term)
      <4>1. ASSUME log'[i] = SubSeq(log[i], 1, m.prev_log_id - 1),
                   m.prev_log_id <= Len(log[i]), m.prev_log_id # 0
            PROVE  FALSE
        <5>1. /\ Len(log'[i]) = m.prev_log_id - 1
              /\ \A x \in 1..m.prev_log_id - 1 : log'[i][x] = log[i][x]
          BY <1>1, <3>2, <4>1
        <5> QED  BY <1>1, <2>4, <3>2, <4>1, <5>1
      <4>2. log'[i] # log[i]  BY <2>4
      <4> QED  BY <3>3, <4>1, <4>2 DEF Followed, PrevMatches
    <3>5. m.prev_log_id <= Len(log[i])  BY <1>1, <3>2, <3>4 DEF PrevMatches
    <3>6. log'[i] = Merge(log[i], m.prev_log_id, m.entries)
      BY <3>3, <3>4 DEF Followed
    <3>7. PICK x \in 1..Len(m.entries) :
            n = m.prev_log_id + x /\ log'[i][n] = m.entries[x]
      <4>1. log[i] \in Seq(Entry)  BY <1>1
      <4>2. n \in 1..Len(Merge(log[i], m.prev_log_id, m.entries))  BY <3>6
      <4> QED  BY <2>4, <3>2, <3>5, <3>6, <4>1, <4>2, MergePlaces
    <3>8. HasPlace(m.entries[x].command, m.prev_log_id + x)
      BY <2>4, <3>1 DEF Placed
    <3> QED  BY <3>1, <3>7, <3>8 DEF HasPlace, HadPlace
  <2> QED  BY <2>1, <2>2, <2>3, <2>4, LogSteps DEF Base
<1>3. ASSUME NEW m \in net', m.op = "AppendEntries", NEW n \in 1..Len(m.entries)
      PROVE  HadPlace(m.entries[n].command, m.prev_log_id + n)
  <2>1. CASE m \in net
    <3>1. m.entries \in Seq(Entry)
      BY <1>3, <2>1 DEF Base, Typing, TypeOK, Request, VoteRequest, AppendRequest
    <3>2. m.entries[n].command \in Command  BY <3>1, EntryTerm
    <3>3. HasPlace(m.entries[n].command, m.prev_log_id + n)
      BY <1>3, <2>1 DEF Placed
    <3> QED  BY <3>2, <3>3, PlacesStay DEF Base
  <2>2. CASE m \notin net
    <3>1. m \in AppendRequest
      BY <1>3 DEF Base, Typing, TypeOK, Request, VoteRequest
    <3>2. m.prev_log_id \in Nat /\ Len(m.entries) \in Nat
      BY <3>1, LenProperties DEF AppendRequest
    <3>3. m.entries # <<>>  BY <3>2
    <3>4. m.src \in Server /\ Carries(m, log[m.src])
      BY <1>3, <2>2, <3>3, NewRequests DEF Base
    <3>5. m.prev_log_id + n \in 1..Len(log[m.src])
      BY <1>1, <3>2, <3>4 DEF Carries
    <3>6. m.entries[n] = log[m.src][m.prev_log_id + n]  BY <3>4 DEF Carries
    <3> QED  BY <3>4, <3>5, <3>6, LogsPlaced
  <2> QED  BY <2>1, <2>2
<1> QED  BY <1>2, <1>3 DEF Placed, HasPlace, HadPlace

LEMMA AlwaysPlaced ==
  ASSUME ~LateRounds
  PROVE  Spec => []Placed
<1>1. Base /\ Base' /\ Placed /\ [Next]_vars => Placed'  BY StepPlaced
<1> QED
  BY <1>1, InitPlaced, TypingInvariant, VotesInvariant, SentHolds, PTL DEF Spec, Base

-----------------------------------------------------------------------------
(* What chosen remembers.                                                  *)

\* It is the beginning of a log that was decided on, by whomever.
Kept(H, A) ==
  \E l \in H : \E u \in Nat :
    /\ Len(chosen) <= Len(l)
    /\ \A n \in 1..Len(chosen) : l[n].command = chosen[n]
    /\ Chosen(H, A, l, Len(chosen), u)

Remembered ==
  /\ chosen \in Seq(Command)
  /\ \E H, B, V, A : Explained(H, B, V, A) /\ Kept(H, A)

LEMMA InitRemembered == Init /\ chosen = <<>> => Remembered
<1> SUFFICES ASSUME Init, chosen = <<>> PROVE Remembered
  OBVIOUS
<1>1. Kept({<<>>}, {})  BY DEF Kept, Chosen
<1> QED  BY <1>1, InitPast DEF Remembered

\* No step changes what has been remembered, and whatever is applied agrees
\* with it.
LEMMA RememberStep ==
  ASSUME ~LateRounds, Base, Base', [Next]_vars, Remembered,
         chosen' = chosen \/ \E i \in Server : chosen' = applied'[i]
  PROVE  /\ Remembered'
         /\ \A i \in Server : \A n \in 1..Len(chosen) :
              n \in 1..Len(applied'[i]) => applied'[i][n] = chosen[n]
<1>1. PICK H, B, V, A : Explained(H, B, V, A) /\ Kept(H, A)  BY DEF Remembered
<1>2. PICK G, C, W, D : Extended(H, B, V, A, G, C, W, D)
  BY <1>1, CanExtend DEF Explained, Past
<1>3. Explained(G, C, W, D)'  BY <1>1, <1>2, ExplainedStep
<1>4. H \subseteq G /\ A \subseteq D /\ G \subseteq Seq(Entry)
  BY <1>2 DEF Extended, Grown, History
<1>5. /\ chosen \in Seq(Command) /\ Len(chosen) \in Nat
      /\ \A i \in Server : /\ applied'[i] \in Seq(Command) /\ Len(applied'[i]) \in Nat
                           /\ current_term'[i] \in Nat
  BY LenProperties DEF Remembered, Base, Typing, TypeOK
<1>6. PICK k \in G, u \in Nat : /\ Len(chosen) <= Len(k)
                                /\ \A n \in 1..Len(chosen) : k[n].command = chosen[n]
                                /\ Chosen(G, D, k, Len(chosen), u)
  <2>1. PICK k \in H, u \in Nat : /\ Len(chosen) <= Len(k)
                                  /\ \A n \in 1..Len(chosen) : k[n].command = chosen[n]
                                  /\ Chosen(H, A, k, Len(chosen), u)
    BY <1>1 DEF Kept
  <2>2. Has(k, k, Len(chosen))  BY <2>1 DEF Has, Agree
  <2>3. Len(chosen) <= Len(chosen) /\ u <= u  BY <1>5
  <2>4. Chosen(G, D, k, Len(chosen), u)
    BY <1>4, <1>5, <2>1, <2>2, <2>3, ChosenGrows
  <2> QED  BY <1>4, <2>1, <2>4
<1>7. ASSUME NEW i \in Server
      PROVE  \E l \in G : /\ Len(applied'[i]) <= Len(l)
                          /\ \A n \in 1..Len(applied'[i]) : l[n].command = applied'[i][n]
                          /\ Chosen(G, D, l, Len(applied'[i]), current_term'[i])
  BY <1>3 DEF Explained, Commits, Chosen, Decided
<1>8. ASSUME NEW i \in Server, NEW n \in 1..Len(chosen), n \in 1..Len(applied'[i])
      PROVE  applied'[i][n] = chosen[n]
  <2>1. PICK l \in G : /\ Len(applied'[i]) <= Len(l)
                       /\ \A m \in 1..Len(applied'[i]) : l[m].command = applied'[i][m]
                       /\ Chosen(G, D, l, Len(applied'[i]), current_term'[i])
    BY <1>7
  <2>2. OneSequence(G, C, W, D)'  BY ChosenAgreeNext
  <2>3. \A j1, k1 : \A d1, e1, u1, w1 \in Nat :
          Chosen(G, D, j1, d1, u1) /\ Chosen(G, D, k1, e1, w1) =>
            \A x \in 1..d1 : x \in 1..e1 => j1[x] = k1[x]
    <3>1. Past(G, C, W, D)'  BY <1>3 DEF Explained
    <3> QED  BY <2>2, <3>1 DEF OneSequence
  <2>4. PICK d \in Nat, e \in Nat, w \in Nat :
          d = Len(chosen) /\ e = Len(applied'[i]) /\ w = current_term'[i]
    BY <1>5
  <2>5. Chosen(G, D, k, d, u) /\ Chosen(G, D, l, e, w)  BY <1>6, <2>1, <2>4
  <2>6. n \in 1..d /\ n \in 1..e  BY <1>8, <2>4
  <2>7. k[n] = l[n]  BY <2>3, <2>5, <2>6
  <2> QED  BY <1>6, <1>8, <2>1, <2>7
<1>9. Kept(G, D)'
  <2>1. CASE chosen' = chosen  BY <1>6, <2>1 DEF Kept, Chosen, Decided
  <2>2. ASSUME NEW i \in Server, chosen' = applied'[i] PROVE Kept(G, D)'
    BY <1>5, <1>7, <2>2 DEF Kept, Chosen, Decided
  <2> QED  BY <2>1, <2>2
<1> QED  BY <1>3, <1>5, <1>8, <1>9 DEF Remembered

\* The places of chosen are those of its commands, and agree with what is applied.
LEMMA ChosenPlaced ==
  ASSUME Typing, Placed, Remembered
  PROVE  /\ \A n \in 1..Len(chosen) : chosen[n] \in Command /\ HasPlace(chosen[n], n)
         /\ \A i \in Server : \A n \in 1..Len(chosen) :
              n \in 1..Len(applied[i]) => applied[i][n] = chosen[n]
<1>1. PICK H, B, V, A : Explained(H, B, V, A) /\ Kept(H, A)  BY DEF Remembered
<1>2. PICK l \in H, u \in Nat : /\ Len(chosen) <= Len(l)
                                /\ \A n \in 1..Len(chosen) : l[n].command = chosen[n]
                                /\ Chosen(H, A, l, Len(chosen), u)
  BY <1>1 DEF Kept
<1>3. /\ chosen \in Seq(Command) /\ Len(chosen) \in Nat
      /\ \A i \in Server : /\ Len(applied[i]) \in Nat /\ current_term[i] \in Nat
                           /\ log[i] \in Seq(Entry) /\ Len(log[i]) \in Nat
  BY LenProperties DEF Remembered, Typing, TypeOK
<1>4. Past(H, B, V, A) /\ Commits(H, A)  BY <1>1 DEF Explained
<1>5. ASSUME NEW n \in 1..Len(chosen)
      PROVE  chosen[n] \in Command /\ HasPlace(chosen[n], n)
  <2>1. Len(chosen) > 0  BY <1>3
  <2>2. PICK Q \in SUBSET Server : /\ Cardinality(Q) >= Majority
                                   /\ \A v \in Q : Has(log[v], l, Len(chosen))
    BY <1>2, <1>3, <1>4, <2>1, ChosenIsStored
  <2>3. Q # {}
    <3>1. Cardinality(Server) \in Nat  BY ServerAssumption, FS_CardinalityType
    <3>2. Majority \in Nat /\ Majority >= 1  BY <3>1 DEF Majority
    <3>3. Cardinality({}) = 0  BY FS_EmptySet
    <3>4. ASSUME Q = {} PROVE FALSE
      <4>1. Cardinality(Q) = 0  BY <3>3, <3>4
      <4>2. Cardinality(Q) >= Majority  BY <2>2
      <4> QED  BY <3>2, <4>1, <4>2
    <3> QED  BY <3>4
  <2>4. PICK v \in Q : Has(log[v], l, Len(chosen))  BY <2>2, <2>3
  <2>5. v \in Server /\ n \in 1..Len(log[v]) /\ log[v][n] = l[n]
    BY <1>3, <2>4 DEF Has, Agree
  <2>6. HasPlace(log[v][n].command, n)  BY <2>5 DEF Placed
  <2> QED  BY <1>2, <1>3, <2>5, <2>6
<1>6. ASSUME NEW i \in Server, NEW n \in 1..Len(chosen), n \in 1..Len(applied[i])
      PROVE  applied[i][n] = chosen[n]
  <2>1. PICK k \in H : /\ \A m \in 1..Len(applied[i]) : k[m].command = applied[i][m]
                       /\ Chosen(H, A, k, Len(applied[i]), current_term[i])
    BY <1>4 DEF Commits
  <2>2. l[n] = k[n]  BY <1>2, <1>3, <1>4, <1>6, <2>1, ChosenAgree
  <2> QED  BY <1>2, <1>6, <2>1, <2>2
<1> QED  BY <1>5, <1>6

Extends(b, a) == Len(a) <= Len(b) /\ \A n \in 1..Len(a) : b[n] = a[n]

\* All have applied a part of one sequence, in which no command is twice.
OneLog ==
  /\ chosen \in Seq(Command)
  /\ \A i \in Server : Extends(chosen, applied[i])
  /\ Len(chosen) <= Cardinality(Command)
  /\ \A m, n \in 1..Len(chosen) : chosen[m] = chosen[n] => m = n

\* Nobody has got further than chosen remembers.
Covered == \A i \in Server : Len(applied[i]) <= Len(chosen)

LEMMA SafeOneLog ==
  ASSUME IsFiniteSet(Command)
  PROVE  Typing /\ Placed /\ Remembered /\ Covered => OneLog
<1> SUFFICES ASSUME Typing, Placed, Remembered, Covered PROVE OneLog
  OBVIOUS
<1>1. /\ chosen \in Seq(Command) /\ Len(chosen) \in Nat
      /\ \A i \in Server : Len(applied[i]) \in Nat
  BY LenProperties DEF Remembered, Typing, TypeOK
<1>2. \A m, n \in 1..Len(chosen) : chosen[m] = chosen[n] => m = n
  BY ChosenPlaced DEF HasPlace
<1>3. \A i \in Server : Extends(chosen, applied[i])
  BY <1>1, ChosenPlaced DEF Covered, Extends
<1>4. \A n \in 1..Len(chosen) : chosen[n] \in Command
  BY ChosenPlaced
<1> DEFINE S == 1..Len(chosen)
           f == [n \in S |-> chosen[n]]
<1>5. f \in [S -> Command]  BY <1>4
<1>6. \A m, n \in S : f[m] = f[n] => m = n  BY <1>2
<1>7. DOMAIN f = S  OBVIOUS
<1>8. IsFiniteSet(S) /\ Cardinality(S) = Len(chosen)
  BY <1>1, FS_Interval
<1> HIDE DEF f, S
<1>9. f \in Injection(S, Command)  BY <1>5, <1>6, <1>7 DEF Injection, IsInjective
<1>10. Cardinality(S) <= Cardinality(Command)  BY <1>9, FS_Injection
<1> QED  BY <1>1, <1>2, <1>3, <1>8, <1>10 DEF OneLog

\* apply_commited_entries only adds to what was handed over before.
LEMMA ApplyExtends ==
  ASSUME NEW done \in Seq(Command), NEW l, NEW commit \in Nat
  PROVE  Extends(Apply(done, l, commit), done)
<1> DEFINE n == commit - Len(done)
           S == {l[Len(done) + k].command : k \in 1..n} \cup Command
           new == [k \in 1..n |-> l[Len(done) + k].command]
<1>1. Len(done) \in Nat  BY LenProperties
<1>2. CASE ~(commit > Len(done))  BY <1>1, <1>2 DEF Apply, Extends
<1>3. CASE commit > Len(done)
  <2>1. n \in Nat  BY <1>1, <1>3
  <2>2. new \in [1..n -> S]  OBVIOUS
  <2>3. Apply(done, l, commit) = done \o new  BY <1>3 DEF Apply
  <2>4. done \in Seq(S)  OBVIOUS
  <2> HIDE DEF n, S, new
  <2>5. new \in Seq(S) /\ Len(new) = n  BY <2>1, <2>2, FunctionIsSeq
  <2>6. /\ Len(done \o new) = Len(done) + Len(new)
        /\ \A k \in 1..Len(done) + Len(new) :
             (done \o new)[k] = IF k <= Len(done) THEN done[k] ELSE new[k - Len(done)]
    BY <2>4, <2>5, ConcatProperties
  <2>7. \A k \in 1..Len(done) : k \in 1..Len(done) + Len(new) /\ k <= Len(done)
    BY <1>1, <2>1, <2>5
  <2> QED  BY <1>1, <2>1, <2>3, <2>5, <2>6, <2>7 DEF Extends
<1> QED  BY <1>2, <1>3

\* i, and nobody else, applies more than before.
AppliesMore(i) ==
  /\ applied' = [applied EXCEPT ![i] = applied'[i]]
  /\ Extends(applied'[i], applied[i])

\* i has applied nothing yet, and no call has been answered meanwhile.
StartsAgain(i) ==
  /\ applied' = [applied EXCEPT ![i] = <<>>]
  /\ Answers' = Answers

\* Who applies something, who starts again, and who is answered
LEMMA StepsApply ==
  ASSUME Typing, Typing', [Next]_vars
  PROVE  \/ applied' = applied /\ Answers' = Answers
         \/ Answers' = Answers /\ \E i \in Server : AppliesMore(i)
         \/ applied' = applied /\ \E c \in Command : Answer(c)
         \/ \E i \in Server : StartsAgain(i)
<1>1. /\ applied \in [Server -> Seq(Command)] /\ commit_id \in [Server -> Nat]
      /\ commit_id' \in [Server -> Nat] /\ call \in [Command -> Call]
  BY DEF Typing, TypeOK
<1>2. call' = call => Answers' = Answers  BY DEF Answers
<1>3. ASSUME NEW i \in Server,
             \/ Election(i) \/ Tally(i) \/ Beat(i)
             \/ \E r \in AnswerOf(i), j \in Peers(i) : Replicate(i, j, r)
      PROVE  applied' = applied /\ call' = call
  BY <1>3 DEF Election, Tally, Beat, Replicate, node
<1>4. ASSUME NEW i \in Server, NEW l, applied' = [applied EXCEPT ![i] =
               Apply(@, l, commit_id'[i])]
      PROVE  AppliesMore(i)
  <2>1. applied[i] \in Seq(Command) /\ commit_id'[i] \in Nat  BY <1>1
  <2>2. applied'[i] = Apply(applied[i], l, commit_id'[i])  BY <1>1, <1>4
  <2>3. Extends(applied'[i], applied[i])  BY <2>1, <2>2, ApplyExtends
  <2> QED  BY <1>1, <1>4, <2>2, <2>3 DEF AppliesMore
<1>5. ASSUME NEW i \in Server, NEW r \in AnswerOf(i), EndRound(i, r)
      PROVE  call' = call /\ AppliesMore(i)
  <2>1. call' = call /\ applied' = [applied EXCEPT ![i] =
          Apply(@, log[i], commit_id'[i])]
    BY <1>1, <1>5 DEF EndRound
  <2> QED  BY <1>4, <2>1
<1>6. ASSUME NEW m \in net, HandleAppendEntries(m)
      PROVE  call' = call /\ m.dst \in Server /\ AppliesMore(m.dst)
  <2>1. m.dst \in Server /\ log \in [Server -> Seq(Entry)]
    BY DEF Typing, TypeOK, Request, VoteRequest, AppendRequest
  <2>2. call' = call /\ applied' = [applied EXCEPT ![m.dst] =
          Apply(@, log'[m.dst], commit_id'[m.dst])]
    BY <1>1, <1>6, <2>1 DEF HandleAppendEntries
  <2> QED  BY <1>4, <2>1, <2>2
<1>7. ASSUME NEW m \in net, HandleVoteRequest(m)
      PROVE  applied' = applied /\ call' = call
  BY <1>7 DEF HandleVoteRequest
<1>8. ASSUME NEW c \in Command, NEW i \in Server, Submit(i, c)
      PROVE  applied' = applied /\ Answers' = Answers
  <2>1. applied' = applied /\ call[c].status = "none"  BY <1>8 DEF Submit, node
  <2>2. call'[c].status = "waiting" /\ \A b \in Command \ {c} : call'[b] = call[b]
    BY <1>1, <1>8 DEF Submit
  <2> QED  BY <2>1, <2>2 DEF Answers
<1>9. ASSUME NEW c \in Command, GiveUp(c)
      PROVE  applied' = applied /\ Answers' = Answers
  <2>1. /\ applied' = applied /\ call[c].status = "waiting" /\ call[c] \in Call
        /\ call' = [call EXCEPT ![c].status = "failed"]
    BY <1>1, <1>9 DEF GiveUp, node
  <2>2. call'[c].status = "failed" /\ \A b \in Command \ {c} : call'[b] = call[b]
    BY <1>1, <2>1 DEF Call
  <2> QED  BY <2>1, <2>2 DEF Answers
<1>10. ASSUME NEW c \in Command, Answer(c) PROVE applied' = applied
  BY <1>10 DEF Answer, node
<1>11. ASSUME NEW i \in Server, Volatile(i) PROVE StartsAgain(i)
  <2>1. applied' = [applied EXCEPT ![i] = <<>>]  BY <1>11 DEF Volatile
  <2>2. ASSUME NEW c \in Command
        PROVE  \/ call'[c] = call[c]
               \/ call[c].status = "waiting" /\ call'[c].status = "failed"
    <3>1. call[c] \in Call  BY <1>1
    <3>2. call'[c] = IF call[c].status = "waiting" /\ call[c].at = i
                     THEN [call[c] EXCEPT !.status = "failed"] ELSE call[c]
      BY <1>11 DEF Volatile
    <3> QED  BY <3>1, <3>2 DEF Call
  <2>3. Answers' = Answers  BY <2>2 DEF Answers
  <2> QED  BY <2>1, <2>3 DEF StartsAgain
<1>12. ASSUME NEW i \in Server, Restart(i) PROVE StartsAgain(i)
  BY <1>11, <1>12 DEF Restart
<1>13. ASSUME NEW m \in net, RestartInHandler(m)
       PROVE  \E i \in Server : StartsAgain(i)
  <2>1. m.dst \in Server /\ Volatile(m.dst)
    BY <1>13 DEF RestartInHandler, Typing, TypeOK, Request, VoteRequest, AppendRequest
  <2> QED  BY <1>11, <2>1
<1>14. CASE UNCHANGED vars  BY <1>2, <1>14 DEF vars, node
<1> QED
  BY <1>2, <1>3, <1>5, <1>6, <1>7, <1>8, <1>9, <1>10, <1>12, <1>13, <1>14 DEF Next

\* Only the one server that applies more can have got further than chosen.
LEMMA CoveredStep ==
  ASSUME Typing, Typing', Covered, [Next]_vars,
         Remember \/ UNCHANGED logvars, chosen \in Seq(Command)
  PROVE  /\ Covered'
         /\ \/ chosen' = chosen
            \/ \E i \in Server : /\ chosen' = applied'[i] /\ AppliesMore(i)
                                 /\ Len(applied'[i]) > Len(chosen)
<1>1. /\ applied \in [Server -> Seq(Command)] /\ applied' \in [Server -> Seq(Command)]
      /\ \A i \in Server : Len(applied[i]) \in Nat /\ Len(applied'[i]) \in Nat
      /\ Len(chosen) \in Nat
  BY LenProperties DEF Typing, TypeOK
<1> DEFINE ahead == {i \in Server : Len(applied'[i]) > Len(chosen)}
<1>2. CASE UNCHANGED logvars
  BY <1>2 DEF Covered, logvars, vars, node
<1>3. CASE Remember /\ ahead = {}
  <2>1. chosen' = chosen  BY <1>3 DEF Remember
  <2>2. \A i \in Server : Len(applied'[i]) <= Len(chosen)  BY <1>1, <1>3
  <2> QED  BY <2>1, <2>2 DEF Covered
<1>4. CASE Remember /\ ahead # {}
  <2>1. PICK k \in ahead : chosen' = applied'[k]
    <3>1. chosen' = applied'[CHOOSE i \in ahead : TRUE]  BY <1>4 DEF Remember
    <3>2. (CHOOSE i \in ahead : TRUE) \in ahead  BY <1>4
    <3> QED  BY <3>1, <3>2
  <2>2. k \in Server /\ Len(applied'[k]) > Len(chosen)  OBVIOUS
  <2>3. ~(applied'[k] = applied[k])  BY <1>1, <2>2 DEF Covered
  <2>4. ~\E i \in Server : StartsAgain(i)
    <3> SUFFICES ASSUME NEW i \in Server, StartsAgain(i) PROVE FALSE
      OBVIOUS
    <3>1. applied'[k] = applied[k] \/ applied'[k] = <<>>
      BY <1>1, <2>2 DEF StartsAgain
    <3>2. Len(<<>>) = 0  OBVIOUS
    <3> QED  BY <1>1, <2>2, <2>3, <3>1, <3>2
  <2>5. PICK i \in Server : AppliesMore(i)
    BY <2>3, <2>4, StepsApply
  <2>6. i = k
    <3>1. CASE i # k
      <4>1. applied'[k] = applied[k]  BY <1>1, <2>2, <2>5, <3>1 DEF AppliesMore
      <4> QED  BY <2>3, <4>1
    <3> QED  BY <3>1
  <2>7. \A j \in Server \ {k} : applied'[j] = applied[j]
    BY <1>1, <2>5, <2>6 DEF AppliesMore
  <2>8. Covered'
    <3>1. ASSUME NEW j \in Server PROVE Len(applied'[j]) <= Len(chosen')
      <4>1. CASE j = k  BY <1>1, <2>1, <4>1
      <4>2. CASE j # k
        <5>1. Len(applied'[j]) = Len(applied[j])  BY <2>7, <4>2
        <5> QED  BY <1>1, <2>1, <2>2, <5>1 DEF Covered
      <4> QED  BY <4>1, <4>2
    <3> QED  BY <3>1 DEF Covered
  <2> QED  BY <2>1, <2>2, <2>5, <2>6, <2>8
<1> QED  BY <1>2, <1>3, <1>4

-----------------------------------------------------------------------------
(* The refinement.                                                         *)

LEMMA InitMaps == Init /\ chosen = <<>> => Abstract!Init
BY DEF Init, NoCall, Answers, Abstract!Init

\* A client that is answered gets the result of something applied.
LEMMA AnswerMaps ==
  ASSUME Typing, CommitsApplied, OneLog, NEW c \in Command, Answer(c),
         applied' = applied, chosen' = chosen
  PROVE  Abstract!Answer(c)
<1> DEFINE i == call[c].at
           n == call[c].log_id
<1>1. /\ call \in [Command -> Call] /\ call[c].status = "waiting"
      /\ i \in Server /\ n \in 1..commit_id[i]
  <2>1. /\ call \in [Command -> Call] /\ commit_id \in [Server -> Nat]
    BY DEF Typing, TypeOK
  <2>2. call[c].status = "waiting" /\ commit_id[i] >= n  BY DEF Answer
  <2>3. i \in Server /\ n > 0  BY <2>2 DEF Typing
  <2>4. n \in Nat  BY <2>1 DEF Call
  <2> QED  BY <2>1, <2>2, <2>3, <2>4
<1>2. n <= Len(log[i]) /\ n <= Len(applied[i]) /\ log[i][n].command = applied[i][n]
  BY <1>1 DEF CommitsApplied
<1>3. n \in DOMAIN chosen /\ chosen[n] = log[i][n].command
  <2>1. Len(applied[i]) \in Nat /\ n \in Nat /\ chosen \in Seq(Command)
    BY <1>1, LenProperties DEF OneLog, Typing, TypeOK
  <2>2. Len(chosen) \in Nat /\ DOMAIN chosen = 1..Len(chosen)
    BY <2>1, LenProperties
  <2>3. Extends(chosen, applied[i])  BY <1>1 DEF OneLog
  <2>4. n \in 1..Len(applied[i])  BY <1>1, <1>2, <2>1
  <2> QED  BY <1>2, <2>1, <2>2, <2>3, <2>4 DEF Extends
<1>4. log[i][n].command \in Abstract!ToSet(chosen)  BY <1>3 DEF Abstract!ToSet
<1>5. Answers[c] = None  BY <1>1 DEF Answers
<1>6. Answers' = [Answers EXCEPT ![c] = log[i][n].command]
  <2> DEFINE d == log[i][n].command
  <2>1. call' = [call EXCEPT ![c] = [@ EXCEPT !.status = "answered", !.answered = d]]
    BY <1>2 DEF Answer
  <2>2. call[c] \in Call  BY <1>1
  <2> HIDE DEF d
  <2>3. call'[c].status = "answered" /\ call'[c].answered = d
        /\ \A b \in Command \ {c} : call'[b] = call[b]
    BY <1>1, <2>1, <2>2 DEF Call
  <2> QED  BY <2>3 DEF Answers, d
<1> QED  BY <1>4, <1>5, <1>6 DEF Abstract!Answer

\* A server that applies no more than others did follows them.
LEMMA FollowMaps ==
  ASSUME Typing, Typing', OneLog', Answers' = Answers, chosen' = chosen,
         NEW i \in Server, AppliesMore(i)
  PROVE  Abstract!Follow(i) \/ UNCHANGED Abstract!vars
<1>1. /\ applied \in [Server -> Seq(Command)] /\ applied' \in [Server -> Seq(Command)]
      /\ applied' = [applied EXCEPT ![i] = applied'[i]]
      /\ applied[i] \in Seq(Command) /\ Len(applied[i]) \in Nat
      /\ applied'[i] \in Seq(Command) /\ Len(applied'[i]) \in Nat
      /\ chosen \in Seq(Command) /\ Len(chosen) \in Nat
  BY LenProperties DEF AppliesMore, OneLog, Typing, TypeOK
<1>2. Extends(applied'[i], applied[i])  BY DEF AppliesMore
<1>3. Extends(chosen, applied'[i])  BY DEF OneLog
<1>4. CASE Len(applied'[i]) = Len(applied[i])
  <2>1. \A x \in 1..Len(applied[i]) : applied'[i][x] = applied[i][x]
    BY <1>2 DEF Extends
  <2>2. applied'[i] = applied[i]  BY <1>1, <1>4, <2>1
  <2>3. applied' = applied  BY <1>1, <2>2
  <2> QED  BY <2>3 DEF Abstract!vars
<1>5. CASE Len(applied'[i]) # Len(applied[i])
  <2> DEFINE n == Len(applied'[i])
  <2>1. n \in Len(applied[i]) + 1..Len(chosen)
    BY <1>1, <1>2, <1>3, <1>5 DEF Extends
  <2>2. applied'[i] = SubSeq(chosen, 1, n)
    <3>1. \A x \in 1..n : applied'[i][x] = chosen[x]  BY <1>3 DEF Extends
    <3>2. /\ SubSeq(chosen, 1, n) \in Seq(Command) /\ Len(SubSeq(chosen, 1, n)) = n
          /\ \A x \in 1..n : SubSeq(chosen, 1, n)[x] = chosen[x]
      BY <1>1, <1>3 DEF Extends
    <3> QED  BY <1>1, <3>1, <3>2
  <2>3. applied' = [applied EXCEPT ![i] = SubSeq(chosen, 1, n)]  BY <1>1, <2>2
  <2> QED  BY <2>1, <2>3 DEF Abstract!Follow
<1> QED  BY <1>4, <1>5

\* A server that gets further than all before it decides.
LEMMA DecideMaps ==
  ASSUME IsFiniteSet(Command), Typing, Typing', OneLog, OneLog', Answers' = Answers,
         NEW i \in Server, AppliesMore(i), chosen' = applied'[i],
         Len(applied'[i]) > Len(chosen),
         \A n \in 1..Len(chosen) : n \in 1..Len(applied'[i]) => applied'[i][n] = chosen[n]
  PROVE  Abstract!Decide(i)
<1> DEFINE a == applied'[i]
           n == Len(a) - Len(chosen)
           more == [x \in 1..n |-> a[Len(chosen) + x]]
<1>1. /\ applied \in [Server -> Seq(Command)]
      /\ applied' = [applied EXCEPT ![i] = applied'[i]]
      /\ chosen \in Seq(Command) /\ Len(chosen) \in Nat
  BY LenProperties DEF AppliesMore, OneLog, Typing, TypeOK
<1>2. chosen' = a  OBVIOUS
<1>3. /\ a \in Seq(Command) /\ Len(a) \in Nat /\ n \in Nat \ {0}
      /\ n <= Cardinality(Command)
  <2>1. a \in Seq(Command) /\ Len(a) \in Nat  BY <1>2, LenProperties DEF OneLog
  <2>2. Len(a) <= Cardinality(Command)  BY <1>2 DEF OneLog
  <2> QED  BY <1>1, <2>1, <2>2, FS_CardinalityType
<1>4. \A x \in 1..Len(chosen) : a[x] = chosen[x] /\ x \in 1..Len(a)
  BY <1>1, <1>3
<1>5. \A x, y \in 1..Len(a) : a[x] = a[y] => x = y  BY <1>2 DEF OneLog
<1>6. \A x \in 1..n : Len(chosen) + x \in 1..Len(a)  BY <1>1, <1>3
<1>7. \A x \in 1..n : a[Len(chosen) + x] \in Command \ Abstract!ToSet(chosen)
  <2> SUFFICES ASSUME NEW x \in 1..n
               PROVE  a[Len(chosen) + x] \in Command \ Abstract!ToSet(chosen)
    OBVIOUS
  <2>1. a[Len(chosen) + x] \in Command  BY <1>3, <1>6, ElementOfSeq
  <2>2. ASSUME NEW y \in 1..Len(chosen), a[Len(chosen) + x] = chosen[y]
        PROVE  FALSE
    <3>1. a[Len(chosen) + x] = a[y] /\ y \in 1..Len(a)  BY <1>4, <2>2
    <3>2. Len(chosen) + x = y  BY <1>5, <1>6, <3>1
    <3> QED  BY <1>1, <3>2
  <2>3. DOMAIN chosen = 1..Len(chosen)  BY <1>1, LenProperties
  <2> QED  BY <2>1, <2>2, <2>3 DEF Abstract!ToSet
<1>8. more \in [1..n -> Command \ Abstract!ToSet(chosen)]  BY <1>7
<1>9. \A x, y \in 1..n : more[x] = more[y] => x = y
  <2> SUFFICES ASSUME NEW x \in 1..n, NEW y \in 1..n, more[x] = more[y] PROVE x = y
    OBVIOUS
  <2>1. Len(chosen) + x = Len(chosen) + y  BY <1>5, <1>6
  <2> QED  BY <1>1, <2>1
<1>10. \A x \in 1..n : more[x] = a[Len(chosen) + x]  OBVIOUS
<1> HIDE DEF n, more, a
<1>11. more \in Seq(Command) /\ Len(more) = n /\ DOMAIN more = 1..n /\ more # <<>>
  <2>1. more \in [1..n -> Command]  BY <1>8
  <2>2. more \in Seq(Command) /\ Len(more) = n  BY <1>3, <2>1, FunctionIsSeq
  <2>3. more # <<>>  BY <1>3, <2>2, EmptySeq
  <2> QED  BY <2>1, <2>2, <2>3
<1>12. more \in Abstract!SeqOf(Command \ Abstract!ToSet(chosen),
                               Abstract!Cardinality(Command))
  <2>1. Abstract!Cardinality(Command) = Cardinality(Command)
    BY DEF Abstract!Cardinality, Cardinality
  <2>2. n \in 0..Cardinality(Command)  BY <1>3, FS_CardinalityType
  <2> QED  BY <1>8, <2>1, <2>2 DEF Abstract!SeqOf
<1>13. Abstract!IsInjective(more)  BY <1>9, <1>11 DEF Abstract!IsInjective
<1>14. a = chosen \o more
  <2>1. /\ chosen \o more \in Seq(Command)
        /\ Len(chosen \o more) = Len(chosen) + n
        /\ \A x \in 1..Len(chosen) + n :
             (chosen \o more)[x] = IF x <= Len(chosen) THEN chosen[x]
                                   ELSE more[x - Len(chosen)]
    BY <1>1, <1>11, ConcatProperties
  <2>2. Len(a) = Len(chosen) + n  BY <1>1, <1>3 DEF n
  <2>3. ASSUME NEW x \in 1..Len(a) PROVE a[x] = (chosen \o more)[x]
    <3>1. CASE x <= Len(chosen)
      <4>1. x \in 1..Len(chosen)  BY <1>1, <3>1
      <4> QED  BY <1>4, <2>1, <2>2, <3>1, <4>1
    <3>2. CASE ~(x <= Len(chosen))
      <4>1. x - Len(chosen) \in 1..n /\ Len(chosen) + (x - Len(chosen)) = x
        BY <1>1, <1>3, <2>2, <3>2
      <4>2. more[x - Len(chosen)] = a[x]  BY <1>10, <4>1
      <4> QED  BY <2>1, <2>2, <3>2, <4>2
    <3> QED  BY <3>1, <3>2
  <2> QED  BY <1>3, <2>1, <2>2, <2>3
<1>15. chosen' = chosen \o more  BY <1>2, <1>14
<1>16. applied' = [applied EXCEPT ![i] = chosen']  BY <1>1, <1>2 DEF a
<1> QED  BY <1>11, <1>12, <1>13, <1>15, <1>16 DEF Abstract!Decide

\* Every step is one of the abstract log, or leaves it alone.
LEMMA StepMaps ==
  ASSUME ~LateRounds, IsFiniteSet(Command), Base, Base', Remembered, Covered,
         OneLog, OneLog', CommitsApplied, [Next]_vars, Remember \/ UNCHANGED logvars
  PROVE  [Abstract!Next]_(Abstract!vars)
<1>1. Typing /\ Typing' /\ chosen \in Seq(Command)  BY DEF Base, Remembered
<1>2. CASE chosen' = chosen
  <2>1. CASE applied' = applied /\ Answers' = Answers
    BY <1>2, <2>1 DEF Abstract!vars
  <2>2. ASSUME NEW i \in Server, Answers' = Answers, AppliesMore(i)
        PROVE  [Abstract!Next]_(Abstract!vars)
    BY <1>1, <1>2, <2>2, FollowMaps DEF Abstract!Next
  <2>3. ASSUME NEW c \in Command, applied' = applied, Answer(c)
        PROVE  [Abstract!Next]_(Abstract!vars)
    BY <1>1, <1>2, <2>3, AnswerMaps DEF Abstract!Next
  <2>4. ASSUME NEW i \in Server, StartsAgain(i)
        PROVE  [Abstract!Next]_(Abstract!vars)
    BY <1>2, <2>4 DEF StartsAgain, Abstract!Restart, Abstract!Next
  <2> QED  BY <1>1, <2>1, <2>2, <2>3, <2>4, StepsApply
<1>3. ASSUME NEW i \in Server, chosen' = applied'[i], AppliesMore(i),
             Len(applied'[i]) > Len(chosen)
      PROVE  [Abstract!Next]_(Abstract!vars)
  <2>1. \A n \in 1..Len(chosen) :
          n \in 1..Len(applied'[i]) => applied'[i][n] = chosen[n]
    BY <1>3, RememberStep
  <2>2. Answers' = Answers
    <3>1. applied'[i] # applied[i]
      <4>1. Len(applied[i]) <= Len(chosen)  BY DEF Covered
      <4>2. /\ Len(applied[i]) \in Nat /\ Len(applied'[i]) \in Nat
            /\ Len(chosen) \in Nat
        BY <1>1, LenProperties DEF Typing, TypeOK
      <4> QED  BY <1>3, <4>1, <4>2
    <3> QED  BY <1>1, <3>1, StepsApply DEF StartsAgain
  <2> QED  BY <1>1, <1>3, <2>1, <2>2, DecideMaps DEF Abstract!Next
<1> QED  BY <1>1, <1>2, <1>3, CoveredStep

LEMMA LogInvariant ==
  ASSUME ~LateRounds
  PROVE  LogSpec => [](Remembered /\ Covered)
<1>1. Init /\ chosen = <<>> => Remembered /\ Covered
  <2>1. Init /\ chosen = <<>> => Covered  BY DEF Init, Covered
  <2> QED  BY <2>1, InitRemembered
<1>2. /\ Typing /\ Typing' /\ VotesBacked /\ VotesBacked' /\ Sent /\ Sent'
      /\ Remembered /\ Covered /\ [Next /\ Remember]_logvars
      => Remembered' /\ Covered'
  <2> SUFFICES ASSUME Base, Base', Remembered, Covered, [Next /\ Remember]_logvars
               PROVE  Remembered' /\ Covered'
    BY DEF Base
  <2>1. [Next]_vars /\ (Remember \/ UNCHANGED logvars)  BY DEF logvars
  <2>2. Typing /\ Typing' /\ chosen \in Seq(Command)  BY DEF Base, Remembered
  <2>3. Covered' /\ (chosen' = chosen \/ \E i \in Server : chosen' = applied'[i])
    BY <2>1, <2>2, CoveredStep
  <2>4. Remembered'  BY <2>1, <2>3, RememberStep
  <2> QED  BY <2>3, <2>4
<1>3. [Next /\ Remember]_logvars => [Next]_vars  BY DEF logvars
<1>4. LogSpec => Spec  BY <1>3, PTL DEF LogSpec, Spec
<1> QED
  BY <1>1, <1>2, <1>4, TypingInvariant, VotesInvariant, SentHolds, PTL DEF LogSpec

\* The servers apply prefixes of one sequence that only grows, each command at
\* one place of it, and clients are answered with commands of it, whatever is
\* lost or late and whoever crashes and starts again (append_entries,
\* update_commit_id, apply_commited_entries, _load_state, handle_put_file).
THEOREM LogImplemented ==
  ASSUME ~LateRounds, IsFiniteSet(Command)
  PROVE  LogSpec => ImplementsReplicatedLog
<1>1. Typing /\ Placed /\ Remembered /\ Covered => OneLog  BY SafeOneLog
<1>2. Typing /\ Explainable => CommitsApplied  BY CommittedApplied
<1>3. /\ Typing /\ Typing' /\ VotesBacked /\ VotesBacked' /\ Sent /\ Sent'
      /\ Remembered /\ Covered /\ OneLog /\ OneLog' /\ CommitsApplied
      /\ [Next /\ Remember]_logvars
      => [Abstract!Next]_(Abstract!vars)
  <2> SUFFICES ASSUME Base, Base', Remembered, Covered, OneLog, OneLog',
                      CommitsApplied, [Next /\ Remember]_logvars
               PROVE  [Abstract!Next]_(Abstract!vars)
    BY DEF Base
  <2>1. [Next]_vars /\ (Remember \/ UNCHANGED logvars)  BY DEF logvars
  <2> QED  BY <2>1, StepMaps
<1>4. Init /\ chosen = <<>> => Abstract!Init  BY InitMaps
<1>5. [Next /\ Remember]_logvars => [Next]_vars  BY DEF logvars
<1>6. LogSpec => Spec  BY <1>5, PTL DEF LogSpec, Spec
<1> QED
  BY <1>1, <1>2, <1>3, <1>4, <1>6, LogInvariant, TypingInvariant, VotesInvariant,
     SentHolds, AlwaysPlaced, AlwaysExplained, PTL
  DEF LogSpec, ImplementsReplicatedLog, Abstract!Spec
=============================================================================

-------------------------- MODULE RaftSafetyProofs --------------------------
(***************************************************************************)
(* State machine safety of Raft, for every number of servers, commands,    *)
(* terms and crashes, if what a round does after its leader stepped down   *)
(* is lost: what one server has applied, no other server applies           *)
(* differently, every later leader has, and no crash takes away.           *)
(*                                                                         *)
(* The argument needs the past: what voters had in their logs when they    *)
(* voted, and what followers had taken from a leader.  The invariant says  *)
(* that there is a past that explains the state: a set H of logs, B of     *)
(* elections that were won, V of votes and A of acceptances.  Every step   *)
(* extends it.                                                             *)
(***************************************************************************)
EXTENDS RaftProofs

-----------------------------------------------------------------------------
(* Logs.                                                                   *)

\* k begins with the first n entries of l.
Has(k, l, n) == n <= Len(k) /\ Agree(l, k, n)

Sorted(k) == \A m, n \in 1..Len(k) : m <= n => k[m].term <= k[n].term

\* The entries of one term lie side by side, at the same places in all logs.
Dense(k, l) ==
  \A m \in 1..Len(k), n \in 1..Len(l) :
    n <= m /\ k[m].term = l[n].term => k[n].term = l[n].term

\* Entries of b's term come behind the log that b was elected with.
Rooted(k, b) ==
  \A n \in 1..Len(k) : k[n].term = b.term =>
    Len(b.base) < n /\ Has(k, b.base, Len(b.base))

\* k is the log b was elected with, and what b has appended to it.
Leads(k, b) ==
  /\ Has(k, b.base, Len(b.base))
  /\ \A n \in Len(b.base) + 1..Len(k) : k[n].term = b.term

LEMMA DensePrefix ==
  ASSUME NEW k \in Seq(Entry), NEW k0 \in Seq(Entry), NEW l \in Seq(Entry),
         NEW l0 \in Seq(Entry), Dense(k0, l0),
         Len(k) <= Len(k0), Agree(k, k0, Len(k)),
         Len(l) <= Len(l0), Agree(l, l0, Len(l))
  PROVE  Dense(k, l)
<1> SUFFICES ASSUME NEW m \in 1..Len(k), NEW n \in 1..Len(l), n <= m,
                    k[m].term = l[n].term
             PROVE  k[n].term = l[n].term
  BY DEF Dense
<1>1. /\ Len(k) \in Nat /\ Len(l) \in Nat /\ Len(k0) \in Nat /\ Len(l0) \in Nat
  BY LenProperties
<1>2. /\ m \in 1..Len(k0) /\ n \in 1..Len(l0) /\ n \in 1..Len(k)
      /\ k[m] = k0[m] /\ l[n] = l0[n] /\ k[n] = k0[n]
  BY <1>1 DEF Agree
<1> QED  BY <1>2 DEF Dense

LEMMA EntryTerm ==
  ASSUME NEW l \in Seq(Entry), NEW n \in 1..Len(l)
  PROVE  l[n].term \in Nat /\ l[n].command \in Command
<1>1. l[n] \in Entry  BY ElementOfSeq
<1> QED  BY <1>1 DEF Entry

LEMMA LeadsAgree ==
  ASSUME NEW b, b.base \in Seq(Entry), NEW k \in Seq(Entry), NEW l \in Seq(Entry),
         Leads(k, b), Leads(l, b), Match(k, l),
         NEW n \in Nat, n <= Len(k), n <= Len(l)
  PROVE  Agree(k, l, n)
<1>1. Len(b.base) \in Nat /\ Len(k) \in Nat /\ Len(l) \in Nat  BY LenProperties
<1>2. CASE n <= Len(b.base)
  BY <1>1, <1>2 DEF Leads, Has, Agree
<1>3. CASE n > Len(b.base)
  <2>1. k[n].term = b.term /\ l[n].term = b.term /\ n \in 1..Len(k)
    BY <1>1, <1>3 DEF Leads
  <2> QED  BY <2>1 DEF Match
<1> QED  BY <1>1, <1>2, <1>3

LEMMA HasTrans ==
  ASSUME NEW k, NEW l, NEW j, NEW m \in Nat, NEW n \in Nat, n <= m,
         Has(k, l, m), Has(l, j, n)
  PROVE  Has(k, j, n)
BY DEF Has, Agree

-----------------------------------------------------------------------------
(* What a follower does with a request.                                    *)

\* The log g of a follower after a request m that is not stale
Followed(g, m) ==
  IF PrevMatches(g, m.prev_log_id, m.prev_log_term)
  THEN Merge(g, m.prev_log_id, m.entries)
  ELSE IF m.prev_log_id <= Len(g) THEN SubSeq(g, 1, m.prev_log_id - 1) ELSE g

\* A follower that agrees has the log that the request is the end of.
LEMMA Taken ==
  ASSUME NEW g \in Seq(Entry), NEW k \in Seq(Entry), Match(g, k), NEW m,
         m.entries \in Seq(Entry), m.prev_log_id \in Nat, Carries(m, k),
         PrevMatches(g, m.prev_log_id, m.prev_log_term)
  PROVE  Has(Followed(g, m), k, Len(k))
<1> DEFINE prev == m.prev_log_id
<1>1. Len(g) \in Nat /\ Len(k) \in Nat /\ Len(m.entries) \in Nat
      /\ Len(k) = prev + Len(m.entries)
  BY LenProperties DEF Carries
<1>2. Followed(g, m) = IF Differing(g, prev, m.entries) = {} THEN g ELSE k
  BY MergeResult DEF Followed
<1>4. CASE Differing(g, prev, m.entries) = {}
  <2>1. Followed(g, m) = g  BY <1>2, <1>4
  <2>2. Len(k) > 0 => Len(k) <= Len(g) /\ g[Len(k)].term = k[Len(k)].term
    <3>1. CASE Len(m.entries) = 0
      BY <1>1, <3>1 DEF PrevMatches, Carries
    <3>2. CASE Len(m.entries) # 0
      <4>1. Len(m.entries) \in 1..Len(m.entries)  BY <1>1, <3>2
      <4>2. /\ ~(prev + Len(m.entries) > Len(g))
            /\ g[prev + Len(m.entries)].term = m.entries[Len(m.entries)].term
        <5> HIDE DEF prev
        <5> QED  BY <1>4, <4>1 DEF Differing
      <4>3. m.entries[Len(m.entries)] = k[prev + Len(m.entries)]
        BY <4>1 DEF Carries
      <4> QED  BY <1>1, <4>2, <4>3
    <3> QED  BY <3>1, <3>2
  <2>3. CASE Len(k) = 0  BY <1>1, <2>1, <2>3 DEF Has, Agree
  <2>4. CASE Len(k) # 0
    <3>1. Len(k) <= Len(g) /\ Len(k) \in 1..Len(g) /\ g[Len(k)].term = k[Len(k)].term
      BY <1>1, <2>2, <2>4
    <3>2. Agree(g, k, Len(k))  BY <1>1, <3>1 DEF Match
    <3> QED  BY <2>1, <3>1, <3>2 DEF Has, Agree
  <2> QED  BY <2>3, <2>4
<1>5. CASE Differing(g, prev, m.entries) # {}
  BY <1>1, <1>2, <1>5 DEF Has, Agree
<1> QED  BY <1>4, <1>5

\* It keeps the entries it shares with l, if those are in k too as far as k goes.
LEMMA Survives ==
  ASSUME NEW g \in Seq(Entry), NEW k \in Seq(Entry), NEW l, Match(g, k), NEW m,
         m.entries \in Seq(Entry), m.prev_log_id \in Nat, Carries(m, k),
         NEW c \in Nat, Has(g, l, c),
         \A x \in 1..c : x <= Len(k) => k[x] = l[x]
  PROVE  Has(Followed(g, m), l, c)
<1> DEFINE prev == m.prev_log_id
<1>1. Len(g) \in Nat /\ Len(k) \in Nat /\ Len(m.entries) \in Nat
      /\ Len(k) = prev + Len(m.entries) /\ prev <= Len(k)
  BY LenProperties DEF Carries
<1>2. c <= Len(g) /\ \A x \in 1..c : l[x] = g[x]
  BY DEF Has, Agree
<1>3. CASE PrevMatches(g, prev, m.prev_log_term)
  <2>1. CASE Differing(g, prev, m.entries) = {}
    <3>1. Followed(g, m) = g  BY <1>3, <2>1, MergeResult DEF Followed
    <3> QED  BY <3>1
  <2>2. CASE Differing(g, prev, m.entries) # {}
    <3>1. Followed(g, m) = k  BY <1>3, <2>2, MergeResult DEF Followed
    <3>2. PICK x \in 1..Len(m.entries) :
            prev + x > Len(g) \/ g[prev + x].term # m.entries[x].term
      BY <2>2 DEF Differing
    <3>3. m.entries[x] = k[prev + x] /\ prev + x \in 1..Len(k)
      BY <1>1, <3>2 DEF Carries
    <3>4. prev + x > c
      <4> SUFFICES ASSUME prev + x <= c PROVE FALSE  BY <1>1
      <4>1. prev + x \in 1..c /\ prev + x <= Len(g)  BY <1>1, <1>2, <3>3
      <4>2. k[prev + x] = g[prev + x]  BY <1>2, <3>3, <4>1
      <4> QED  BY <1>1, <3>2, <3>3, <4>1, <4>2
    <3>5. c <= Len(k) /\ \A x1 \in 1..c : x1 <= Len(k)
      BY <1>1, <3>3, <3>4
    <3> QED  BY <3>1, <3>5 DEF Has, Agree
  <2> QED  BY <2>1, <2>2
<1>4. CASE ~PrevMatches(g, prev, m.prev_log_term) /\ prev <= Len(g)
  <2>1. prev > 0 /\ g[prev].term # m.prev_log_term /\ k[prev].term = m.prev_log_term
    BY <1>1, <1>4 DEF PrevMatches, Carries
  <2>2. prev > c
    <3> SUFFICES ASSUME prev <= c PROVE FALSE  BY <1>1
    <3>1. prev \in 1..c  BY <1>1, <2>1
    <3>2. k[prev] = g[prev]  BY <1>1, <1>2, <3>1
    <3> QED  BY <2>1, <3>2
  <2>3. Followed(g, m) = SubSeq(g, 1, prev - 1)  BY <1>4 DEF Followed
  <2>4. /\ Len(SubSeq(g, 1, prev - 1)) = prev - 1
        /\ \A x \in 1..prev - 1 : SubSeq(g, 1, prev - 1)[x] = g[x]
    BY <1>1, <1>4, <2>1
  <2> QED  BY <1>1, <1>2, <2>2, <2>3, <2>4 DEF Has, Agree
<1>5. CASE ~PrevMatches(g, prev, m.prev_log_term) /\ ~(prev <= Len(g))
  BY <1>5 DEF Followed
<1> QED  BY <1>3, <1>4, <1>5

-----------------------------------------------------------------------------
(* The past.                                                               *)

\* B holds one record for each term that has had a leader: who it was, the log
\* it was elected with, and who had voted for it, itself included.
Offices(H, B) ==
  /\ \A b \in B :
       /\ b.who \in Server /\ b.term \in Nat /\ Elected(b.who, b.term)
       /\ b.quorum \in SUBSET Server /\ Cardinality(b.quorum) >= Majority
       /\ b.base \in H /\ \A n \in 1..Len(b.base) : b.base[n].term < b.term
  /\ \A b, c \in B : b.term = c.term => b = c
  /\ \A k \in H : /\ Sorted(k)
                  /\ \A b \in B : Rooted(k, b)
                  /\ \A n \in 1..Len(k) : \E b \in B : b.term = k[n].term
                  /\ \A l \in H : Dense(k, l)
  /\ \A i \in Server : \A n \in 1..Len(log[i]) : log[i][n].term <= current_term[i]
  /\ \A i \in Server : state[i] = "leader" =>
       \E b \in B : b.who = i /\ b.term = current_term[i] /\ Leads(log[i], b)

UpToDate(l, k) == is_up_to_date(l, Len(k), LastTerm(k))

\* i waits for the votes of term t, in which nobody has been elected so far.
Running(B, i, t) ==
  /\ ballot[i].open /\ ballot[i].term = t /\ current_term[i] = t
  /\ \A b \in B : b.term # t

\* V holds the votes, with the logs the voters had.
Votes(H, B, V) ==
  /\ \A x \in V : /\ x.who \in Server /\ x.term \in Nat /\ x.log \in H
                  /\ current_term[x.who] >= x.term
  /\ \A b \in B : \A v \in b.quorum :
       \E x \in V : x.who = v /\ x.term = b.term /\ UpToDate(x.log, b.base)
  /\ \A i \in Server : Running(B, i, ballot[i].term) => \A v \in ballot[i].granted :
       \E x \in V : x.who = v /\ x.term = ballot[i].term /\ UpToDate(x.log, log[i])
  /\ \A m \in net : m.op = "VoteRequest" =>
       /\ m.term <= current_term[m.src]
       /\ Running(B, m.src, m.term) =>
            m.last_log_id = Len(log[m.src]) /\ m.last_log_term = LastTerm(log[m.src])

\* k still has what a stands for up to n, or somebody was elected between a's
\* term and t, or in t, without it.
Keeps(B, k, a, n, t) ==
  \/ Has(k, a.log, n)
  \/ \E b \in B : a.term < b.term /\ b.term <= t /\ ~Has(b.base, a.log, n)

\* A holds the logs that followers have taken from a leader, and the leader's own.
Accepts(H, B, V, A) ==
  /\ \A a \in A :
       /\ a.who \in Server /\ a.term \in Nat /\ current_term[a.who] >= a.term
       /\ a.log \in H /\ \E b \in B : b.term = a.term /\ Leads(a.log, b)
       /\ \A n \in 1..Len(a.log) : a.log[n].term = a.term =>
            Keeps(B, log[a.who], a, n, current_term[a.who])
  /\ \A a \in A : \A x \in V : a.who = x.who /\ a.term < x.term =>
       \A n \in 1..Len(a.log) : a.log[n].term = a.term =>
         Keeps(B, x.log, a, n, x.term - 1)

\* A majority has accepted l up to n in the term of the entry there.
Decided(A, l, n) ==
  /\ n \in 1..Len(l)
  /\ \E Q \in SUBSET Server :
       /\ Cardinality(Q) >= Majority
       /\ \A v \in Q : \E a \in A : a.who = v /\ a.term = l[n].term /\ Has(a.log, l, n)

\* What was decided in a term, every later leader was elected with: the first
\* that was not would have got a vote from one of those who had accepted it, and
\* then it is in a log less up to date than its own.
LEMMA LeadersHave ==
  ASSUME NEW H, NEW B, NEW V, NEW A, History(H), Offices(H, B), Votes(H, B, V),
         Accepts(H, B, V, A), NEW l \in H, NEW n, Decided(A, l, n),
         NEW c0 \in B, l[n].term < c0.term
  PROVE  Has(c0.base, l, n)
<1> SUFFICES ASSUME ~Has(c0.base, l, n) PROVE FALSE  OBVIOUS
<1> DEFINE t == l[n].term
           Bad == {c \in B : t < c.term /\ ~Has(c.base, l, n)}
           T == {c.term : c \in Bad}
<1>0. \A k \in H : k \in Seq(Entry) /\ Len(k) \in Nat
  BY LenProperties DEF History
<1>1. n \in 1..Len(l) /\ n \in Nat /\ n > 0 /\ t \in Nat
  BY <1>0, EntryTerm DEF Decided
<1>2. PICK c \in Bad : \A b \in Bad : c.term <= b.term
  <2>1. T \in SUBSET Nat /\ T # {}  BY DEF Offices
  <2>2. Min(T) \in T /\ \A y \in T : Min(T) <= y  BY <2>1, MinExists
  <2> QED  BY <2>2
<1> DEFINE u == c.term
           base == c.base
<1>3. c \in B /\ t < u /\ ~Has(base, l, n) /\ u \in Nat /\ base \in H
  BY <1>2 DEF Offices
<1>4. PICK Q \in SUBSET Server :
        /\ Cardinality(Q) >= Majority
        /\ \A v \in Q : \E a \in A : a.who = v /\ a.term = t /\ Has(a.log, l, n)
  BY DEF Decided
<1>5. PICK v \in Q : v \in c.quorum
  <2>1. c.quorum \in SUBSET Server /\ Cardinality(c.quorum) >= Majority
    BY <1>3 DEF Offices
  <2>2. IsFiniteSet(Server) /\ IsFiniteSet(Q) /\ IsFiniteSet(c.quorum)
    BY <2>1, ServerAssumption, FS_Subset
  <2>3. /\ Cardinality(Server) \in Nat /\ Cardinality(Q) \in Nat
        /\ Cardinality(c.quorum) \in Nat
    BY <2>2, FS_CardinalityType
  <2>4. Cardinality(Q) + Cardinality(c.quorum) > Cardinality(Server)
    BY <1>4, <2>1, <2>3 DEF Majority
  <2>5. Q \cap c.quorum # {}
    <3> DEFINE R == c.quorum
    <3> HIDE DEF R
    <3>1. Q \cap R # {}
      BY <2>1, <2>2, <2>4, FS_MajoritiesIntersect DEF R
    <3> QED  BY <3>1 DEF R
  <2> QED  BY <2>5
<1>6. PICK a \in A : a.who = v /\ a.term = t /\ Has(a.log, l, n)
  BY <1>4
<1>7. PICK x \in V : x.who = v /\ x.term = u /\ UpToDate(x.log, base)
  BY <1>3, <1>5 DEF Votes
<1>8. a.log \in H /\ a.log[n].term = a.term /\ n \in 1..Len(a.log) /\ x.log \in H
  BY <1>0, <1>1, <1>6, <1>7 DEF Accepts, Votes, Has, Agree
<1>9. Keeps(B, x.log, a, n, u - 1)
  BY <1>3, <1>6, <1>7, <1>8 DEF Accepts
<1>10. \A k : Has(k, a.log, n) => Has(k, l, n)
  BY <1>6 DEF Has, Agree
<1>11. Has(x.log, l, n)
  <2>1. ASSUME NEW b \in B, t < b.term, b.term <= u - 1, ~Has(b.base, a.log, n)
        PROVE  FALSE
    <3>1. \A k : Has(k, l, n) => Has(k, a.log, n)
      BY <1>1, <1>6 DEF Has, Agree
    <3>2. b \in Bad /\ b.term \in Nat  BY <2>1, <3>1 DEF Offices
    <3> QED  BY <1>2, <1>3, <2>1, <3>2
  <2> QED  BY <1>6, <1>9, <1>10, <2>1 DEF Keeps
<1> DEFINE k == x.log
           p == Len(k)
           m == Len(base)
<1>12. k \in H /\ p \in Nat /\ n <= p /\ p \in 1..p /\ k # <<>> /\ k[n].term = t
  BY <1>0, <1>1, <1>8, <1>11 DEF Has, Agree
<1>13. t <= k[p].term /\ k[p].term \in Nat /\ LastTerm(k) = k[p].term
  <2>1. n \in 1..p  BY <1>1, <1>12
  <2>2. Sorted(k)  BY <1>12 DEF Offices
  <2>3. k[n].term <= k[p].term  BY <1>12, <2>1, <2>2 DEF Sorted
  <2>4. k[p].term \in Nat  BY <1>0, <1>12, EntryTerm
  <2> QED  BY <1>12, <2>3, <2>4 DEF LastTerm
<1>14. m \in Nat /\ base # <<>> /\ m \in 1..m
       /\ LastTerm(base) = base[m].term /\ base[m].term \in Nat
  <2>1. base # <<>>
    BY <1>1, <1>7, <1>12, <1>13 DEF UpToDate, is_up_to_date, LastTerm
  <2>2. m \in 1..m /\ m \in Nat  BY <1>0, <1>3, <2>1, EmptySeq
  <2> QED  BY <1>0, <1>3, <2>1, <2>2, EntryTerm DEF LastTerm
<1>15. CASE base[m].term = k[p].term /\ m >= p
  <2>1. Dense(base, k)  BY <1>3, <1>12 DEF Offices
  <2>2. base[p].term = k[p].term /\ p \in 1..m
    BY <1>12, <1>14, <1>15, <2>1 DEF Dense
  <2>3. Match(base, k)  BY <1>3, <1>12 DEF History
  <2>4. Agree(base, k, p)  BY <1>12, <2>2, <2>3 DEF Match
  <2>5. Has(base, k, p)  BY <1>12, <1>14, <2>2, <2>4 DEF Has, Agree
  <2>6. Has(base, l, n)  BY <1>1, <1>11, <1>12, <2>5, HasTrans
  <2> QED  BY <1>3, <2>6
<1>16. CASE base[m].term > k[p].term
  <2>1. base[m].term < u  BY <1>3, <1>14 DEF Offices
  <2>2. PICK b \in B : b.term = base[m].term
    BY <1>3, <1>14 DEF Offices
  <2>3. t < b.term /\ b.term < u  BY <1>1, <1>3, <1>13, <1>14, <1>16, <2>1, <2>2
  <2>4. Has(b.base, l, n)
    <3> SUFFICES ASSUME ~Has(b.base, l, n) PROVE FALSE  OBVIOUS
    <3>1. b \in Bad  BY <2>3
    <3> QED  BY <1>2, <1>3, <1>14, <2>2, <2>3, <3>1
  <2>5. Has(base, b.base, Len(b.base))
    BY <1>3, <1>14, <2>2 DEF Offices, Rooted
  <2>6. n <= Len(b.base) /\ Len(b.base) \in Nat
    BY <1>0, <2>4 DEF Has, Offices
  <2>7. Has(base, l, n)  BY <1>1, <2>4, <2>5, <2>6, HasTrans
  <2> QED  BY <1>3, <2>7
<1> QED
  BY <1>7, <1>12, <1>13, <1>14, <1>15, <1>16 DEF UpToDate, is_up_to_date

-----------------------------------------------------------------------------
(* What follows of entries that were decided.                              *)

\* The first c entries of k are the beginning of what was decided in term u or
\* before.
Chosen(H, A, k, c, u) ==
  \/ c = 0
  \/ \E l \in H : \E n \in 1..Len(l) :
       c <= n /\ l[n].term <= u /\ Decided(A, l, n) /\ Has(k, l, c)

LEMMA ChosenGrows ==
  ASSUME NEW H, NEW G, H \subseteq G, G \subseteq Seq(Entry), NEW A, NEW D,
         A \subseteq D,
         NEW k, NEW j, NEW c \in Nat, NEW e \in Nat, e <= c,
         NEW u \in Nat, NEW w \in Nat, u <= w, Has(j, k, e), Chosen(H, A, k, c, u)
  PROVE  Chosen(G, D, j, e, w)
<1>1. CASE e = 0  BY <1>1 DEF Chosen
<1>2. CASE e # 0
  <2>1. PICK l \in H : \E n \in 1..Len(l) :
          c <= n /\ l[n].term <= u /\ Decided(A, l, n) /\ Has(k, l, c)
    BY <1>2 DEF Chosen
  <2>2. PICK n \in 1..Len(l) :
          c <= n /\ l[n].term <= u /\ Decided(A, l, n) /\ Has(k, l, c)
    BY <2>1
  <2>3. l \in Seq(Entry) /\ Len(l) \in Nat /\ l[n].term \in Nat
    BY LenProperties, EntryTerm
  <2>4. Decided(D, l, n)  BY <2>2 DEF Decided
  <2>5. Has(j, l, e)  BY <2>2, <2>3, HasTrans DEF Has, Agree
  <2>6. e <= n /\ l[n].term <= w  BY <2>2, <2>3
  <2> QED  BY <2>1, <2>4, <2>5, <2>6 DEF Chosen
<1> QED  BY <1>1, <1>2

Past(H, B, V, A) ==
  History(H) /\ Offices(H, B) /\ Votes(H, B, V) /\ Accepts(H, B, V, A)

\* The log of a leader does not contradict what was decided in its term or before.
LEMMA LeadersFollow ==
  ASSUME NEW H, NEW B, NEW V, NEW A, Past(H, B, V, A), NEW k, NEW c \in Nat,
         NEW u \in Nat, Chosen(H, A, k, c, u),
         NEW b \in B, u <= b.term, NEW g \in H, Leads(g, b)
  PROVE  \A x \in 1..c : x <= Len(g) => g[x] = k[x]
<1> SUFFICES ASSUME NEW x \in 1..c, x <= Len(g) PROVE g[x] = k[x]
  OBVIOUS
<1>1. \A l \in H : l \in Seq(Entry) /\ Len(l) \in Nat
  BY LenProperties DEF Past, History
<1>2. PICK l \in H : \E n \in 1..Len(l) :
        c <= n /\ l[n].term <= u /\ Decided(A, l, n) /\ Has(k, l, c)
  BY DEF Chosen
<1>3. PICK n \in 1..Len(l) :
        c <= n /\ l[n].term <= u /\ Decided(A, l, n) /\ Has(k, l, c)
  BY <1>2
<1>4. l[n].term \in Nat /\ b.term \in Nat /\ k[x] = l[x] /\ b.base \in H
  BY <1>1, <1>3, EntryTerm DEF Has, Agree, Past, Offices
<1>5. CASE l[n].term < b.term
  <2>1. Has(b.base, l, n)  BY <1>3, <1>5, LeadersHave DEF Past
  <2>2. n \in Nat /\ n <= Len(b.base) /\ Len(b.base) \in Nat
    BY <1>1, <1>4, <2>1 DEF Has
  <2>3. Has(g, l, n)  BY <2>1, <2>2, HasTrans DEF Leads
  <2> QED  BY <1>1, <1>3, <1>4, <2>3 DEF Has, Agree
<1>6. CASE l[n].term = b.term
  <2>1. PICK Q \in SUBSET Server :
          /\ Cardinality(Q) >= Majority
          /\ \A v \in Q : \E a \in A : a.who = v /\ a.term = l[n].term /\ Has(a.log, l, n)
    BY <1>3 DEF Decided
  <2>2. Q # {}
    <3>1. Cardinality(Server) \in Nat  BY ServerAssumption, FS_CardinalityType
    <3> QED  BY <2>1, <3>1, FS_EmptySet DEF Majority
  <2>3. PICK a \in A : a.term = l[n].term /\ Has(a.log, l, n)
    BY <2>1, <2>2
  <2>4. a.log \in H /\ Leads(a.log, b)
    BY <1>6, <2>3 DEF Past, Accepts, Offices
  <2>5. x <= Len(a.log) /\ a.log[x] = l[x] /\ x \in Nat /\ x \in 1..x
    BY <1>1, <1>3, <2>3, <2>4 DEF Has, Agree
  <2>6. Match(g, a.log)  BY <2>4 DEF Past, History
  <2>7. Agree(g, a.log, x)
    BY <1>1, <1>4, <2>4, <2>5, <2>6, LeadsAgree
  <2> QED  BY <1>4, <2>5, <2>7 DEF Agree
<1> QED  BY <1>3, <1>4, <1>5, <1>6

\* A leader has what was decided in its term or before.
LEMMA LeadersStore ==
  ASSUME Typing, NEW H, NEW B, NEW V, NEW A, Past(H, B, V, A), NEW k,
         NEW c \in Nat, NEW u \in Nat, Chosen(H, A, k, c, u),
         NEW i \in Server, state[i] = "leader", u <= current_term[i]
  PROVE  Has(log[i], k, c)
<1>1. \A l \in H : l \in Seq(Entry) /\ Len(l) \in Nat
  BY LenProperties DEF Past, History
<1>2. PICK b \in B : b.term = current_term[i] /\ Leads(log[i], b)
  BY DEF Past, Offices
<1>3. log[i] \in H /\ current_term[i] \in Nat /\ b.base \in H
  BY DEF Past, History, Typing, TypeOK, Offices
<1>4. \A x \in 1..c : x <= Len(log[i]) => log[i][x] = k[x]
  BY <1>2, <1>3, LeadersFollow
<1>5. c <= Len(log[i])
  <2>1. CASE c = 0  BY <1>1, <1>3, <2>1
  <2>2. CASE c # 0
    <3>1. PICK l \in H : \E n \in 1..Len(l) :
            c <= n /\ l[n].term <= u /\ Decided(A, l, n)
      BY <2>2 DEF Chosen
    <3>2. PICK n \in 1..Len(l) : c <= n /\ l[n].term <= u /\ Decided(A, l, n)
      BY <3>1
    <3>3. l[n].term \in Nat  BY <1>1, EntryTerm
    <3>4. CASE l[n].term < b.term
      <4>1. Has(b.base, l, n)  BY <3>2, <3>4, LeadersHave DEF Past
      <4> QED  BY <1>1, <1>2, <1>3, <3>2, <4>1 DEF Has, Leads
    <3>5. CASE l[n].term = b.term
      <4>1. Within(l, i)  BY DEF Past, History
      <4> QED  BY <1>1, <1>2, <1>3, <3>2, <3>5, <4>1 DEF Within
    <3> QED  BY <1>2, <1>3, <3>2, <3>3, <3>4, <3>5
  <2> QED  BY <2>1, <2>2
<1> QED  BY <1>1, <1>3, <1>4, <1>5 DEF Has, Agree

\* All that was decided is one sequence.
LEMMA ChosenAgree ==
  ASSUME NEW H, NEW B, NEW V, NEW A, Past(H, B, V, A),
         NEW j, NEW c \in Nat, NEW u \in Nat, Chosen(H, A, j, c, u),
         NEW k, NEW d \in Nat, NEW w \in Nat, Chosen(H, A, k, d, w),
         NEW x, x \in 1..c, x \in 1..d
  PROVE  j[x] = k[x]
<1>1. \A l \in H : l \in Seq(Entry) /\ Len(l) \in Nat
  BY LenProperties DEF Past, History
<1>2. PICK l \in H : \E n \in 1..Len(l) :
        c <= n /\ Decided(A, l, n) /\ Has(j, l, c)
  BY DEF Chosen
<1>3. PICK n \in 1..Len(l) : c <= n /\ Decided(A, l, n) /\ Has(j, l, c)
  BY <1>2
<1>4. PICK m \in H : \E p \in 1..Len(m) :
        d <= p /\ Decided(A, m, p) /\ Has(k, m, d)
  BY DEF Chosen
<1>5. PICK p \in 1..Len(m) : d <= p /\ Decided(A, m, p) /\ Has(k, m, d)
  BY <1>4
<1>6. j[x] = l[x] /\ k[x] = m[x]  BY <1>3, <1>5 DEF Has, Agree
<1>7. l[n].term \in Nat /\ m[p].term \in Nat  BY <1>1, EntryTerm
<1>8. ASSUME NEW l1 \in H, NEW n1 \in 1..Len(l1), NEW l2 \in H, NEW n2 \in 1..Len(l2),
             Decided(A, l1, n1), l1[n1].term < l2[n2].term, x <= n1
      PROVE  l1[x] = l2[x]
  <2>1. PICK b \in B : b.term = l2[n2].term  BY DEF Past, Offices
  <2>2. Has(b.base, l1, n1)  BY <1>8, <2>1, LeadersHave DEF Past
  <2>3. Has(l2, b.base, Len(b.base))  BY <2>1 DEF Past, Offices, Rooted
  <2>4. n1 \in Nat /\ n1 <= Len(b.base) /\ Len(b.base) \in Nat
    BY <1>1, <2>1, <2>2 DEF Has, Past, Offices
  <2>5. Has(l2, l1, n1)  BY <2>2, <2>3, <2>4, HasTrans
  <2> QED  BY <1>1, <1>8, <2>5 DEF Has, Agree
<1>9. ASSUME NEW l1 \in H, NEW n1 \in 1..Len(l1), NEW l2 \in H, NEW n2 \in 1..Len(l2),
             l1[n1].term = l2[n2].term, n1 <= n2, x <= n1
      PROVE  l1[x] = l2[x]
  <2>1. Dense(l2, l1) /\ Match(l1, l2)  BY DEF Past, Offices, History
  <2>2. l2[n1].term = l1[n1].term /\ n1 <= Len(l2)
    BY <1>1, <1>9, <2>1 DEF Dense
  <2>3. Agree(l1, l2, n1)  BY <2>1, <2>2 DEF Match
  <2> QED  BY <1>1, <1>9, <2>3 DEF Agree
<1>10. x <= n /\ x <= p  BY <1>3, <1>5
<1>11. CASE l[n].term < m[p].term  BY <1>3, <1>6, <1>8, <1>10, <1>11
<1>12. CASE m[p].term < l[n].term  BY <1>5, <1>6, <1>8, <1>10, <1>12
<1>13. CASE l[n].term = m[p].term /\ n <= p  BY <1>6, <1>9, <1>10, <1>13
<1>14. CASE l[n].term = m[p].term /\ p <= n  BY <1>6, <1>9, <1>10, <1>14
<1> QED  BY <1>7, <1>11, <1>12, <1>13, <1>14

\* What was decided is in the saved logs of a majority.
LEMMA ChosenIsStored ==
  ASSUME NEW H, NEW B, NEW V, NEW A, Past(H, B, V, A), NEW k, NEW c \in Nat,
         NEW u \in Nat, Chosen(H, A, k, c, u), c > 0
  PROVE  \E Q \in SUBSET Server : /\ Cardinality(Q) >= Majority
                                  /\ \A v \in Q : Has(log[v], k, c)
<1>1. \A l \in H : l \in Seq(Entry) /\ Len(l) \in Nat
  BY LenProperties DEF Past, History
<1>2. PICK l \in H : \E n \in 1..Len(l) :
        c <= n /\ Decided(A, l, n) /\ Has(k, l, c)
  BY DEF Chosen
<1>3. PICK n \in 1..Len(l) : c <= n /\ Decided(A, l, n) /\ Has(k, l, c)
  BY <1>2
<1>4. PICK Q \in SUBSET Server :
        /\ Cardinality(Q) >= Majority
        /\ \A v \in Q : \E a \in A : a.who = v /\ a.term = l[n].term /\ Has(a.log, l, n)
  BY <1>3 DEF Decided
<1>5. ASSUME NEW v \in Q PROVE Has(log[v], k, c)
  <2>1. PICK a \in A : a.who = v /\ a.term = l[n].term /\ Has(a.log, l, n)
    BY <1>4
  <2>2. a.log \in H /\ n \in 1..Len(a.log) /\ a.log[n].term = a.term
    BY <1>1, <2>1 DEF Past, Accepts, Has, Agree
  <2>3. Keeps(B, log[v], a, n, current_term[v])
    BY <2>1, <2>2 DEF Past, Accepts
  <2>4. ASSUME NEW b \in B, a.term < b.term, ~Has(b.base, a.log, n) PROVE FALSE
    <3>1. Has(b.base, l, n)  BY <1>3, <2>1, <2>4, LeadersHave DEF Past
    <3> QED  BY <1>1, <2>1, <2>4, <3>1 DEF Has, Agree
  <2>5. Has(log[v], a.log, n)  BY <2>3, <2>4 DEF Keeps
  <2>6. Has(log[v], l, n)  BY <2>1, <2>5 DEF Has, Agree
  <2>7. log[v] \in H  BY DEF Past, History
  <2> QED  BY <1>1, <1>3, <2>6, <2>7 DEF Has, Agree
<1> QED  BY <1>4, <1>5

-----------------------------------------------------------------------------
(* What leaders know, and what has been committed.                         *)

\* What the leader i knows of its peers' logs, and what may come back to it
Knows(A, i) ==
  /\ \A j \in Server :
       /\ next_id[i][j] <= Len(log[i]) + 1
       /\ match_id[i][j] > 0 => \E a \in A : /\ a.who = j /\ a.term = current_term[i]
                                             /\ match_id[i][j] <= Len(a.log)
  /\ \A n \in 1..Len(log[i]) : log[i][n].term = current_term[i] =>
       \E a \in A : a.who = i /\ a.term = current_term[i] /\ n <= Len(a.log)
  /\ LET q == round[i].req
         r == round[i].reply
     IN  r # None /\ q.term = current_term[i] =>
           /\ q.prev_log_id + Len(q.entries) <= Len(log[i])
           /\ r.success => \E a \in A : /\ a.who = q.dst /\ a.term = q.term
                                        /\ Len(a.log) = q.prev_log_id + Len(q.entries)

\* The request m is the end of a log of its leader, as far as that is committed.
Sound(H, B, A, m) ==
  \E b \in B, k \in H :
    /\ b.who = m.src /\ b.term = m.term /\ Leads(k, b) /\ Carries(m, k)
    /\ m.leader_commit <= Len(k) /\ Chosen(H, A, k, m.leader_commit, m.term)

Replication(H, B, A) ==
  /\ \A m \in net : m.op = "AppendEntries" => Sound(H, B, A, m)
  /\ \A i \in Server : state[i] = "leader" => Knows(A, i)
  /\ \A i \in Server : round[i].reply # None =>
       \E b \in B : b.term = round[i].req.term

Commits(H, A) ==
  \A i \in Server :
    /\ Chosen(H, A, log[i], commit_id[i], current_term[i])
    /\ \E l \in H : /\ Len(applied[i]) <= Len(l)
                    /\ \A n \in 1..Len(applied[i]) : l[n].command = applied[i][n]
                    /\ Chosen(H, A, l, Len(applied[i]), current_term[i])

Explained(H, B, V, A) == Past(H, B, V, A) /\ Replication(H, B, A) /\ Commits(H, A)

LEMMA AppliedSafe ==
  ASSUME Typing, NEW H, NEW B, NEW V, NEW A, Explained(H, B, V, A)
  PROVE  StateMachineSafety /\ LeaderCompleteness /\ AppliedIsStored
<1>1. Past(H, B, V, A) /\ Commits(H, A)  BY DEF Explained
<1>2. \A i \in Server : /\ applied[i] \in Seq(Command) /\ Len(applied[i]) \in Nat
                        /\ current_term[i] \in Nat /\ log[i] \in Seq(Entry)
                        /\ Len(log[i]) \in Nat
  BY LenProperties DEF Typing, TypeOK
<1>3. StateMachineSafety
  <2> SUFFICES ASSUME NEW i \in Server, NEW j \in Server,
                      NEW n \in DOMAIN applied[i] \cap DOMAIN applied[j]
               PROVE  applied[i][n] = applied[j][n]
    BY DEF StateMachineSafety
  <2>1. n \in 1..Len(applied[i]) /\ n \in 1..Len(applied[j])  BY <1>2
  <2>2. PICK l \in H : /\ l[n].command = applied[i][n]
                       /\ Chosen(H, A, l, Len(applied[i]), current_term[i])
    BY <1>1, <2>1 DEF Commits
  <2>3. PICK k \in H : /\ k[n].command = applied[j][n]
                       /\ Chosen(H, A, k, Len(applied[j]), current_term[j])
    BY <1>1, <2>1 DEF Commits
  <2>4. l[n] = k[n]  BY <1>1, <1>2, <2>1, <2>2, <2>3, ChosenAgree
  <2> QED  BY <2>2, <2>3, <2>4
<1>4. LeaderCompleteness
  <2> SUFFICES ASSUME NEW i \in Server, NEW j \in Server, state[i] = "leader",
                      current_term[i] >= current_term[j]
               PROVE  /\ Len(applied[j]) <= Len(log[i])
                      /\ \A n \in 1..Len(applied[j]) : log[i][n].command = applied[j][n]
    BY DEF LeaderCompleteness
  <2>1. PICK l \in H :
          /\ \A n \in 1..Len(applied[j]) : l[n].command = applied[j][n]
          /\ Chosen(H, A, l, Len(applied[j]), current_term[j])
    BY <1>1 DEF Commits
  <2>2. Has(log[i], l, Len(applied[j]))
    BY <1>1, <1>2, <2>1, LeadersStore
  <2> QED  BY <2>1, <2>2 DEF Has, Agree
<1>5. AppliedIsStored
  <2> SUFFICES ASSUME NEW i \in Server, NEW n \in 1..Len(applied[i])
               PROVE  Cardinality({j \in Server : n <= Len(log[j])
                        /\ log[j][n].command = applied[i][n]}) >= Majority
    BY DEF AppliedIsStored
  <2> DEFINE S == {j \in Server : n <= Len(log[j]) /\ log[j][n].command = applied[i][n]}
  <2>1. PICK l \in H :
          /\ \A p \in 1..Len(applied[i]) : l[p].command = applied[i][p]
          /\ Chosen(H, A, l, Len(applied[i]), current_term[i])
    BY <1>1 DEF Commits
  <2>2. Len(applied[i]) > 0  BY <1>2
  <2>3. PICK Q \in SUBSET Server :
          Cardinality(Q) >= Majority /\ \A v \in Q : Has(log[v], l, Len(applied[i]))
    BY <1>1, <1>2, <2>1, <2>2, ChosenIsStored
  <2>4. Q \subseteq S
    <3> SUFFICES ASSUME NEW v \in Q PROVE v \in S  OBVIOUS
    <3>1. Has(log[v], l, Len(applied[i])) /\ v \in Server  BY <2>3
    <3>2. n <= Len(log[v]) /\ log[v][n] = l[n]  BY <1>2, <3>1 DEF Has, Agree
    <3> QED  BY <2>1, <3>1, <3>2
  <2>5. IsFiniteSet(S)  BY ServerAssumption, FS_Subset
  <2>6. Cardinality(Q) <= Cardinality(S) /\ Cardinality(Q) \in Nat
        /\ Cardinality(S) \in Nat
    <3> HIDE DEF S
    <3>1. IsFiniteSet(Q) /\ Cardinality(Q) <= Cardinality(S)
      BY <2>4, <2>5, FS_Subset
    <3> QED  BY <2>5, <3>1, FS_CardinalityType
  <2>7. Majority \in Nat
    BY ServerAssumption, FS_CardinalityType DEF Majority
  <2> HIDE DEF S
  <2>8. Cardinality(S) >= Majority  BY <2>3, <2>6, <2>7
  <2> QED  BY <2>8 DEF S
<1> QED  BY <1>3, <1>4, <1>5

-----------------------------------------------------------------------------
(* How a step extends the past.                                            *)

Base == Typing /\ VotesBacked /\ Sent

\* The elections won in this step
NewOffices ==
  {[who |-> i, term |-> current_term[i], base |-> log[i],
    quorum |-> ballot'[i].granted \cup {i}] :
     i \in {j \in Server : state[j] # "leader" /\ state'[j] = "leader"}}

\* What servers have in their logs as long as nobody is elected in their term
NewVotes(H, B) ==
  {x \in [who : Server, term : Nat, log : H] :
     /\ x.term = current_term'[x.who] /\ x.log = log[x.who]
     /\ \A b \in B : b.term # x.term}

\* What servers have of logs of a leader of their term
NewAccepts(G, B) ==
  {a \in [who : Server, term : Nat, log : G] :
     /\ a.term = current_term'[a.who] /\ Has(log'[a.who], a.log, Len(a.log))
     /\ \E b \in B : b.term = a.term /\ Leads(a.log, b)}

Extended(H, B, V, A, G, C, W, D) ==
  /\ History(G)' /\ Grown(H, G)
  /\ C = B \cup NewOffices
  /\ W = V \cup NewVotes(H, B)
  /\ D = A \cup NewAccepts(G, B)

LEMMA CanExtend ==
  ASSUME ~LateRounds, Base, Base', [Next]_vars, NEW CONSTANT H, NEW CONSTANT B,
         NEW CONSTANT V, NEW CONSTANT A, History(H)
  PROVE  \E G, C, W, D : Extended(H, B, V, A, G, C, W, D)
<1>1. PICK G : History(G)' /\ Grown(H, G)
  BY StepHistory DEF Base
<1> QED  BY <1>1 DEF Extended

\* Who has just been elected counted its votes, in a term that nobody had led.
LEMMA NewOffice ==
  ASSUME Base, Base', [Next]_vars, NEW CONSTANT H, NEW CONSTANT B,
         History(H), Offices(H, B),
         NEW CONSTANT i \in Server, state[i] # "leader", state'[i] = "leader"
  PROVE  /\ Tally(i) /\ current_term' = current_term /\ log' = log
         /\ ballot[i].open /\ ballot[i].term = current_term[i]
         /\ Elected(i, current_term[i])'
         /\ \A b \in B : b.term # current_term[i]
         /\ \A n \in 1..Len(log[i]) : log[i][n].term < current_term[i]
<1>1. /\ Tally(i) /\ current_term' = current_term /\ log' = log
      /\ ballot[i].open /\ ballot[i].term = current_term[i]
  <2>1. state'[i] # "follower" /\ state'[i] # "candidate" /\ state'[i] # state[i]
    OBVIOUS
  <2> QED  BY <2>1, LeadersBefore DEF Base
<1>2. current_term[i] \in Nat /\ current_term' \in [Server -> Nat]
  BY DEF Base, Typing, TypeOK
<1>3. Elected(i, current_term[i])'
  <2>1. (Typing /\ VotesBacked /\ state[i] = "leader" /\ current_term[i] > 0)'
    BY DEF Base, Sent
  <2>2. Elected(i, current_term[i])'
    BY <2>1, LeaderElectedNext DEF ElectedLeaders
  <2> QED  BY <2>2
<1>4. ASSUME NEW b \in B, b.term = current_term[i] PROVE FALSE
  <2>1. Elected(b.who, b.term) /\ b.term \in Nat  BY DEF Offices
  <2>2. b.who # i  BY <1>1, <1>4, <2>1 DEF Elected
  <2>3. Elected(b.who, b.term)'  BY <2>1, ElectedStays DEF Base
  <2>4. Elected(b.who, current_term[i])'  BY <1>1, <1>4, <2>3
  <2>5. b.who = i  BY <2>4, OneWinnerNext DEF WinnerAlone, Base
  <2> QED  BY <2>2, <2>5
<1>5. ASSUME NEW n \in 1..Len(log[i]) PROVE log[i][n].term < current_term[i]
  <2>1. log[i] \in H  BY DEF History
  <2>2. PICK b \in B : b.term = log[i][n].term  BY <2>1 DEF Offices
  <2>3. log[i][n].term # current_term[i]  BY <1>4, <2>2
  <2>4. log[i][n].term <= current_term[i]  BY DEF Offices
  <2>5. log[i][n].term \in Nat  BY <2>2 DEF Offices
  <2> QED  BY <1>2, <2>3, <2>4, <2>5
<1> QED  BY <1>1, <1>3, <1>4, <1>5

\* A leader that stays keeps its log, or appends a command to it.
LEMMA LeaderLog ==
  ASSUME Base, [Next]_vars, NEW i \in Server, state[i] = "leader",
         state'[i] = "leader"
  PROVE  /\ current_term'[i] = current_term[i]
         /\ log'[i] = log[i] \/ \E c \in Command : Submit(i, c)
<1>1. current_term'[i] = current_term[i]
  <2>1. state'[i] # "follower" /\ state'[i] # "candidate" /\ state[i] # "candidate"
    OBVIOUS
  <2> QED  BY <2>1, LeadersBefore DEF Base
<1>2. log \in [Server -> Seq(Entry)]  BY DEF Base, Typing, TypeOK
<1>3. ASSUME NEW k \in Server, NEW c \in Command, Submit(k, c)
      PROVE  log'[i] = log[i] \/ \E c1 \in Command : Submit(i, c1)
  <2>1. CASE k = i  BY <1>3, <2>1
  <2>2. CASE k # i  BY <1>2, <1>3, <2>2 DEF Submit
  <2> QED  BY <2>1, <2>2
<1>4. ASSUME NEW m \in net, HandleAppendEntries(m) PROVE log'[i] = log[i]
  <2>1. m.op = "AppendEntries" /\ m.dst \in Server /\ m.term \in Nat
        /\ current_term \in [Server -> Nat]
    BY <1>4 DEF HandleAppendEntries, Base, Typing, TypeOK, Request, VoteRequest,
                AppendRequest
  <2>2. CASE m.dst = i
    <3>1. m.term # current_term[i]  BY <2>1, <2>2, NoRival DEF Base
    <3>2. current_term'[i] = Adopt(i, m.term)
      BY <1>4, <2>1, <2>2 DEF HandleAppendEntries
    <3>3. m.term < current_term[i]  BY <1>1, <2>1, <3>1, <3>2 DEF Adopt
    <3> QED  BY <1>2, <1>4, <2>2, <3>3 DEF HandleAppendEntries
  <2>3. CASE m.dst # i
    BY <1>2, <1>4, <2>1, <2>3 DEF HandleAppendEntries
  <2> QED  BY <2>2, <2>3
<1>5. log' = log => log'[i] = log[i]  OBVIOUS
<1> QED  BY <1>1, <1>3, <1>4, <1>5, LogSteps DEF Base

\* How a follower's log changes
LEMMA FollowerLog ==
  ASSUME Base, NEW m \in net, HandleAppendEntries(m)
  PROVE  /\ m.dst \in Server /\ m.src \in Server /\ m.op = "AppendEntries"
         /\ m \in AppendRequest
         /\ current_term' = [current_term EXCEPT ![m.dst] = Adopt(m.dst, m.term)]
         /\ log' = [log EXCEPT ![m.dst] =
                      IF m.term < current_term[m.dst] THEN log[m.dst]
                      ELSE Followed(log[m.dst], m)]
<1>1. m \in AppendRequest
  BY DEF HandleAppendEntries, Base, Typing, TypeOK, Request, VoteRequest
<1> QED  BY <1>1 DEF HandleAppendEntries, Followed, AppendRequest

-----------------------------------------------------------------------------
(* The elections won so far.                                               *)

LEMMA AppendedEntry ==
  ASSUME NEW l \in Seq(Entry), NEW t \in Nat, NEW c \in Command, NEW k,
         k = Append(l, [term |-> t, command |-> c])
  PROVE  /\ k \in Seq(Entry) /\ Len(k) = Len(l) + 1
         /\ \A n \in 1..Len(l) : k[n] = l[n]
         /\ k[Len(l) + 1].term = t
<1> DEFINE e == [term |-> t, command |-> c]
<1>1. e \in Entry /\ e.term = t  BY DEF Entry
<1>2. k = Append(l, e)  OBVIOUS
<1> HIDE DEF e
<1> QED  BY <1>1, <1>2, AppendProperties

Shortened(H, k) == \E l \in H : Len(k) <= Len(l) /\ Agree(k, l, Len(k))

\* A leader's new entry stands where no other log has one of its term.
LEMMA AppendedLog ==
  ASSUME Base, NEW CONSTANT H, NEW CONSTANT B, History(H), Offices(H, B),
         NEW i \in Server, NEW c \in Command, Submit(i, c)
  PROVE  /\ Sorted(log'[i]) /\ \A b \in B : Rooted(log'[i], b)
         /\ \A n \in 1..Len(log'[i]) : \E b \in B : b.term = log'[i][n].term
         /\ Dense(log'[i], log'[i])
         /\ \A l \in H : Dense(log'[i], l) /\ Dense(l, log'[i])
<1> DEFINE new == log'[i]
           p == Len(log[i])
           t == current_term[i]
<1>1. /\ log \in [Server -> Seq(Entry)] /\ log[i] \in Seq(Entry) /\ t \in Nat
      /\ p \in Nat /\ state[i] = "leader" /\ log[i] \in H
      /\ \A l \in H : l \in Seq(Entry) /\ Len(l) \in Nat
  BY LenProperties DEF Base, Typing, TypeOK, Submit, History
<1>2. new = Append(log[i], [term |-> t, command |-> c])
  BY <1>1 DEF Submit
<1>3. /\ Len(new) = p + 1 /\ new[p + 1].term = t
      /\ \A n \in 1..p : new[n] = log[i][n]
  BY <1>1, <1>2, AppendedEntry
<1> HIDE DEF new, t
<1>4. \A n \in 1..p : log[i][n].term <= t /\ log[i][n].term \in Nat
  BY <1>1, EntryTerm DEF Offices, t
<1>5. PICK o \in B : o.term = t /\ Leads(log[i], o)
  BY <1>1 DEF Offices, t
<1>6. Sorted(new)
  <2> SUFFICES ASSUME NEW m \in 1..Len(new), NEW n \in 1..Len(new), m <= n
               PROVE  new[m].term <= new[n].term
    BY DEF Sorted
  <2>1. CASE n = p + 1
    BY <1>1, <1>3, <1>4, <2>1
  <2>2. CASE n # p + 1
    <3>1. m \in 1..p /\ n \in 1..p  BY <1>1, <1>3, <2>2
    <3>2. Sorted(log[i])  BY <1>1 DEF Offices
    <3> QED  BY <1>3, <3>1, <3>2 DEF Sorted
  <2> QED  BY <2>1, <2>2
<1>7. ASSUME NEW b \in B PROVE Rooted(new, b)
  <2> SUFFICES ASSUME NEW n \in 1..Len(new), new[n].term = b.term
               PROVE  Len(b.base) < n /\ Has(new, b.base, Len(b.base))
    BY DEF Rooted
  <2>1. Len(b.base) \in Nat  BY <1>1 DEF Offices
  <2>2. Len(b.base) < n /\ Has(log[i], b.base, Len(b.base))
    <3>1. CASE n = p + 1
      <4>1. b = o  BY <1>3, <1>5, <3>1 DEF Offices
      <4> QED  BY <1>1, <1>5, <2>1, <3>1, <4>1 DEF Leads, Has
    <3>2. CASE n # p + 1
      <4>1. n \in 1..p /\ log[i][n].term = b.term  BY <1>1, <1>3, <3>2
      <4> QED  BY <1>1, <4>1 DEF Offices, Rooted
    <3> QED  BY <3>1, <3>2
  <2> QED  BY <1>1, <1>3, <2>1, <2>2 DEF Has, Agree
<1>8. ASSUME NEW n \in 1..Len(new) PROVE \E b \in B : b.term = new[n].term
  <2>1. CASE n = p + 1  BY <1>3, <1>5, <2>1
  <2>2. CASE n # p + 1
    <3>1. n \in 1..p  BY <1>1, <1>3, <2>2
    <3> QED  BY <1>1, <1>3, <3>1 DEF Offices
  <2> QED  BY <2>1, <2>2
<1>9. ASSUME NEW l \in H, NEW n \in 1..Len(l), l[n].term = t
      PROVE  n <= p /\ log[i][n].term = t
  BY <1>1, <1>9 DEF History, Within, t
<1>10. ASSUME NEW l \in H PROVE Dense(new, l)
  <2> SUFFICES ASSUME NEW m \in 1..Len(new), NEW n \in 1..Len(l), n <= m,
                      new[m].term = l[n].term
               PROVE  new[n].term = l[n].term
    BY DEF Dense
  <2>1. CASE m = p + 1
    <3>1. n \in 1..p /\ log[i][n].term = t  BY <1>1, <1>3, <1>9, <2>1
    <3> QED  BY <1>3, <2>1, <3>1
  <2>2. CASE m # p + 1
    <3>1. m \in 1..p /\ n \in 1..p  BY <1>1, <1>3, <2>2
    <3>2. Dense(log[i], l)  BY <1>1 DEF Offices
    <3> QED  BY <1>3, <3>1, <3>2 DEF Dense
  <2> QED  BY <2>1, <2>2
<1>11. ASSUME NEW l \in H PROVE Dense(l, new)
  <2> SUFFICES ASSUME NEW m \in 1..Len(l), NEW n \in 1..Len(new), n <= m,
                      l[m].term = new[n].term
               PROVE  l[n].term = new[n].term
    BY DEF Dense
  <2>1. CASE n = p + 1
    BY <1>1, <1>3, <1>9, <2>1
  <2>2. CASE n # p + 1
    <3>1. n \in 1..p  BY <1>1, <1>3, <2>2
    <3>2. Dense(l, log[i])  BY <1>1 DEF Offices
    <3> QED  BY <1>3, <3>1, <3>2 DEF Dense
  <2> QED  BY <2>1, <2>2
<1>12. Dense(new, new)
  <2> SUFFICES ASSUME NEW m \in 1..Len(new), NEW n \in 1..Len(new), n <= m,
                      new[m].term = new[n].term
               PROVE  new[n].term = new[n].term
    BY DEF Dense
  <2> QED  OBVIOUS
<1> QED  BY <1>6, <1>7, <1>8, <1>10, <1>11, <1>12 DEF new

LEMMA OfficesStep ==
  ASSUME ~LateRounds, Base, Base', [Next]_vars,
         NEW CONSTANT H, NEW CONSTANT B, NEW CONSTANT V, NEW CONSTANT A,
         NEW CONSTANT G, NEW CONSTANT C, NEW CONSTANT W, NEW CONSTANT D,
         Explained(H, B, V, A), Extended(H, B, V, A, G, C, W, D)
  PROVE  Offices(G, C)'
<1>1. /\ History(H) /\ Offices(H, B) /\ Replication(H, B, A)
      /\ History(G)' /\ Grown(H, G) /\ C = B \cup NewOffices /\ H \subseteq G
  BY DEF Explained, Past, Extended, Grown
<1>2. /\ log \in [Server -> Seq(Entry)] /\ log' \in [Server -> Seq(Entry)]
      /\ current_term \in [Server -> Nat] /\ current_term' \in [Server -> Nat]
      /\ \A b \in Ballot : b.granted \in SUBSET Server
  BY DEF Base, Typing, TypeOK, Ballot
<1>3. \A k \in G : k \in Seq(Entry) /\ Len(k) \in Nat
  BY <1>1, LenProperties DEF History
\* A new office b, if there is one
<1>4. ASSUME NEW b \in NewOffices
      PROVE  /\ b.who \in Server /\ state[b.who] # "leader" /\ state'[b.who] = "leader"
             /\ b.term = current_term[b.who] /\ b.base = log[b.who]
             /\ b.quorum = ballot'[b.who].granted \cup {b.who}
  BY <1>4 DEF NewOffices
<1>5. ASSUME NEW b \in NewOffices
      PROVE  /\ Tally(b.who) /\ current_term' = current_term /\ log' = log
             /\ Elected(b.who, b.term)' /\ \A c \in B : c.term # b.term
             /\ \A n \in 1..Len(b.base) : b.base[n].term < b.term
  BY <1>1, <1>4, <1>5, NewOffice
<1>6. ASSUME NEW b \in C
      PROVE  /\ b.who \in Server /\ b.term \in Nat /\ Elected(b.who, b.term)'
             /\ b.quorum \in SUBSET Server /\ Cardinality(b.quorum) >= Majority
             /\ b.base \in G /\ \A n \in 1..Len(b.base) : b.base[n].term < b.term
  <2>1. CASE b \in B
    <3>1. b.term \in Nat /\ Elected(b.who, b.term)  BY <1>1, <2>1 DEF Offices
    <3>2. Elected(b.who, b.term)'  BY <3>1, ElectedStays DEF Base
    <3> QED  BY <1>1, <2>1, <3>2 DEF Offices
  <2>2. CASE b \in NewOffices
    <3> DEFINE i == b.who
               P == ballot'[i].granted
    <3>1. i \in Server /\ b.term \in Nat /\ b.base \in G
      BY <1>1, <1>2, <1>4, <2>2 DEF History
    <3>2. P \in SUBSET Server /\ Cardinality(P) + 1 >= Majority /\ i \notin P
      <4>1. state'[i] = "leader"  BY <1>4, <2>2
      <4>2. ballot'[i] \in Ballot  BY <3>1 DEF Base, Typing, TypeOK
      <4>3. Majority' = Majority  OBVIOUS
      <4> QED  BY <3>1, <4>1, <4>2 DEF Base, VotesBacked, Ballot
    <3>3. IsFiniteSet(P)  BY <3>2, ServerAssumption, FS_Subset
    <3>4. Cardinality(P \cup {i}) = Cardinality(P) + 1  BY <3>2, <3>3, FS_AddElement
    <3> QED  BY <1>4, <1>5, <2>2, <3>1, <3>2, <3>4
  <2> QED  BY <1>1, <2>1, <2>2
<1>7. ASSUME NEW b \in C, NEW c \in C, b.term = c.term PROVE b = c
  <2>1. CASE b \in B /\ c \in B  BY <1>1, <1>7, <2>1 DEF Offices
  <2>2. CASE b \in NewOffices /\ c \in NewOffices
    <3>1. Elected(b.who, b.term)' /\ c.who \in Server /\ state'[c.who] = "leader"
          /\ b.term = current_term'[c.who]
      BY <1>4, <1>5, <1>7, <2>2
    <3>2. Elected(b.who, current_term[c.who])'  BY <3>1
    <3>3. b.who = c.who  BY <3>1, <3>2, OneWinnerNext DEF WinnerAlone, Base
    <3> QED  BY <2>2, <3>3 DEF NewOffices
  <2> QED  BY <1>1, <1>5, <1>7, <2>1, <2>2
<1>8. \A k \in H : \A b \in C : Rooted(k, b)
  <2> SUFFICES ASSUME NEW k \in H, NEW b \in NewOffices, NEW n \in 1..Len(k),
                      k[n].term = b.term
               PROVE  FALSE
    BY <1>1 DEF Offices, Rooted
  <2>1. PICK c \in B : c.term = k[n].term  BY <1>1 DEF Offices
  <2> QED  BY <1>5, <2>1
\* New logs: prefixes, and the one that a leader appended to
<1>9. ASSUME NEW k \in G, Shortened(H, k)
      PROVE  /\ Sorted(k) /\ \A b \in C : Rooted(k, b)
             /\ \A n \in 1..Len(k) : \E b \in C : b.term = k[n].term
  <2>1. PICK l \in H : Len(k) <= Len(l) /\ Agree(k, l, Len(k))
    BY <1>9 DEF Shortened
  <2>2. /\ Len(k) \in Nat /\ Len(l) \in Nat /\ Sorted(l)
        /\ \A n \in 1..Len(k) : n \in 1..Len(l) /\ k[n] = l[n]
    BY <1>1, <1>3, <2>1 DEF Agree, Offices
  <2>3. Sorted(k)  BY <2>2 DEF Sorted
  <2>4. ASSUME NEW b \in C PROVE Rooted(k, b)
    <3> SUFFICES ASSUME NEW n \in 1..Len(k), k[n].term = b.term
                 PROVE  Len(b.base) < n /\ Has(k, b.base, Len(b.base))
      BY DEF Rooted
    <3>1. Len(b.base) < n /\ Has(l, b.base, Len(b.base))
      BY <1>8, <2>2 DEF Rooted
    <3>2. Len(b.base) \in Nat /\ Len(b.base) <= Len(k)  BY <1>3, <1>6, <2>2, <3>1
    <3> QED  BY <2>2, <3>1, <3>2 DEF Has, Agree
  <2>5. \A n \in 1..Len(k) : \E b \in C : b.term = k[n].term
    BY <1>1, <2>2 DEF Offices
  <2> QED  BY <2>3, <2>4, <2>5
<1>10. \A k \in H : Shortened(H, k)
  BY <1>1, <1>3 DEF Shortened, Agree
<1>11. ASSUME NEW k, NEW l, Shortened(H, k), Shortened(H, l), k \in G, l \in G
       PROVE  Dense(k, l)
  <2>1. PICK k0 \in H : Len(k) <= Len(k0) /\ Agree(k, k0, Len(k))
    BY <1>11 DEF Shortened
  <2>2. PICK l0 \in H : Len(l) <= Len(l0) /\ Agree(l, l0, Len(l))
    BY <1>11 DEF Shortened
  <2>3. Dense(k0, l0)  BY <1>1 DEF Offices
  <2> QED  BY <1>1, <1>3, <1>11, <2>1, <2>2, <2>3, DensePrefix
<1>12. ASSUME NEW k \in G, ~Shortened(H, k)
       PROVE  /\ Sorted(k) /\ \A b \in C : Rooted(k, b)
              /\ \A n \in 1..Len(k) : \E b \in C : b.term = k[n].term
              /\ \A l \in G : Dense(k, l) /\ Dense(l, k)
  <2>1. PICK i \in Server, c \in Command : Submit(i, c) /\ k = log'[i]
    BY <1>1, <1>10, <1>12 DEF Grown, Shortened
  <2>2. NewOffices = {}
    BY <1>4, <2>1 DEF Submit, node
  <2>3. /\ Sorted(k) /\ \A b \in B : Rooted(k, b)
        /\ \A n \in 1..Len(k) : \E b \in B : b.term = k[n].term
        /\ Dense(k, k) /\ \A l \in H : Dense(k, l) /\ Dense(l, k)
    BY <1>1, <2>1, AppendedLog
  <2>4. ASSUME NEW l \in G PROVE Dense(k, l) /\ Dense(l, k)
    <3>1. CASE Shortened(H, l)
      <4>1. PICK l0 \in H : Len(l) <= Len(l0) /\ Agree(l, l0, Len(l))
        BY <3>1 DEF Shortened
      <4>2. Dense(k, l0) /\ Dense(l0, k)  BY <2>3
      <4>3. Len(k) <= Len(k) /\ Agree(k, k, Len(k)) /\ l \in G
            /\ k \in Seq(Entry) /\ l \in Seq(Entry) /\ l0 \in Seq(Entry)
        BY <1>1, <1>3 DEF Agree
      <4> QED  BY <4>1, <4>2, <4>3, DensePrefix
    <3>2. CASE ~Shortened(H, l)
      <4>1. PICK j \in Server, d \in Command : Submit(j, d) /\ l = log'[j]
        BY <1>1, <1>10, <3>2 DEF Grown, Shortened
      <4>2. j = i
        <5> SUFFICES ASSUME j # i PROVE FALSE  OBVIOUS
        <5>1. log'[j] = log[j]  BY <1>2, <2>1 DEF Submit
        <5>2. log[j] \in H  BY <1>1 DEF History
        <5> QED  BY <1>10, <3>2, <4>1, <5>1, <5>2
      <4> QED  BY <2>1, <2>3, <4>1, <4>2
    <3> QED  BY <3>1, <3>2
  <2> QED  BY <1>1, <2>2, <2>3, <2>4
<1>13. \A k \in G : /\ Sorted(k) /\ \A b \in C : Rooted(k, b)
                    /\ \A n \in 1..Len(k) : \E b \in C : b.term = k[n].term
                    /\ \A l \in G : Dense(k, l)
  BY <1>9, <1>11, <1>12
\* The terms in the servers' logs
<1>14. ASSUME NEW i \in Server, NEW n \in 1..Len(log'[i])
       PROVE  log'[i][n].term <= current_term'[i]
  <2>1. current_term[i] <= current_term'[i]
    BY StepVotes DEF Base, VotesStay
  <2>2. CASE log'[i] = log[i]
    <3>1. log[i][n].term <= current_term[i]  BY <1>1, <1>14, <2>2 DEF Offices
    <3>2. log[i][n].term \in Nat  BY <1>2, <1>14, <2>2, EntryTerm
    <3> QED  BY <1>2, <2>1, <2>2, <3>1, <3>2
  <2>3. ASSUME NEW k \in Server, NEW c \in Command, Submit(k, c), log'[i] # log[i]
        PROVE  log'[i][n].term <= current_term'[i]
    <3>1. k = i /\ current_term' = current_term
      BY <1>2, <2>3 DEF Submit
    <3>2. log'[i] = Append(log[i], [term |-> current_term[i], command |-> c])
      BY <1>2, <2>3, <3>1 DEF Submit
    <3>3. CASE n = Len(log[i]) + 1
      <4>1. log'[i][n] = [term |-> current_term[i], command |-> c]
        BY <1>2, <3>2, <3>3 DEF Entry
      <4> QED  BY <1>2, <3>1, <4>1
    <3>4. CASE n # Len(log[i]) + 1
      <4>1. Len(log[i]) \in Nat /\ Len(log'[i]) = Len(log[i]) + 1
        BY <1>2, <3>2, LenProperties, AppendedEntry
      <4>2. n \in 1..Len(log[i]) /\ log'[i][n] = log[i][n]
        BY <1>2, <1>14, <3>2, <3>4, <4>1, AppendedEntry
      <4> QED  BY <1>1, <3>1, <4>2 DEF Offices
    <3> QED  BY <3>3, <3>4
  <2>4. ASSUME NEW m \in net, HandleAppendEntries(m), log'[i] # log[i]
        PROVE  log'[i][n].term <= current_term'[i]
    <3>1. /\ m.dst = i /\ m.op = "AppendEntries" /\ ~(m.term < current_term[i])
          /\ log'[i] = Followed(log[i], m) /\ current_term'[i] = Adopt(i, m.term)
          /\ m.term \in Nat /\ m.prev_log_id \in Nat /\ m.entries \in Seq(Entry)
      BY <1>2, <2>4, FollowerLog DEF AppendRequest
    <3>2. current_term'[i] = m.term  BY <1>2, <3>1 DEF Adopt
    <3>3. PICK b \in B, k \in H : b.term = m.term /\ Leads(k, b) /\ Carries(m, k)
      BY <1>1, <3>1 DEF Replication, Sound
    <3>4. log[i] \in H /\ Match(log[i], k)  BY <1>1 DEF History
    <3>5. log'[i] = log[i] \/ log'[i] = k \/ log'[i] = SubSeq(log[i], 1, m.prev_log_id - 1)
      BY <1>3, <1>1, <3>1, <3>3, <3>4, MergeResult DEF Followed
    <3>6. CASE log'[i] = k
      <4>1. k \in Seq(Entry) /\ Len(b.base) \in Nat /\ n \in 1..Len(k)
        BY <1>1, <1>3, <1>14, <3>6 DEF Offices
      <4>2. CASE n <= Len(b.base)
        <5>1. n \in 1..Len(b.base) /\ k[n] = b.base[n]
          BY <3>3, <4>1, <4>2 DEF Leads, Has, Agree
        <5>2. b.base[n].term < b.term /\ b.base[n].term \in Nat /\ b.term \in Nat
          BY <1>1, <1>3, <5>1, EntryTerm DEF Offices
        <5> QED  BY <3>2, <3>3, <3>6, <5>1, <5>2
      <4>3. CASE n > Len(b.base)
        <5>1. k[n].term = b.term  BY <3>3, <4>1, <4>3 DEF Leads
        <5> QED  BY <3>1, <3>2, <3>3, <3>6, <5>1
      <4> QED  BY <4>1, <4>2, <4>3
    <3>7. CASE log'[i] = SubSeq(log[i], 1, m.prev_log_id - 1) /\ log'[i] # k
      <4>1. ~PrevMatches(log[i], m.prev_log_id, m.prev_log_term)
            /\ m.prev_log_id <= Len(log[i])
        BY <1>1, <1>3, <2>4, <3>1, <3>3, <3>4, <3>7, MergeResult DEF Followed
      <4>2. m.prev_log_id > 0  BY <3>1, <4>1 DEF PrevMatches
      <4>3. log[i] \in Seq(Entry) /\ Len(log[i]) \in Nat  BY <1>1, <1>3, <3>4
      <4>4. n \in 1..Len(log[i]) /\ log'[i][n] = log[i][n]
        BY <1>14, <3>1, <3>7, <4>1, <4>2, <4>3
      <4>5. log[i][n].term <= current_term[i] /\ log[i][n].term \in Nat
        BY <1>1, <4>3, <4>4, EntryTerm DEF Offices
      <4> QED  BY <1>2, <2>1, <4>4, <4>5
    <3> QED  BY <2>4, <3>5, <3>6, <3>7
  <2> QED  BY <2>2, <2>3, <2>4, LogSteps DEF Base
<1>15. ASSUME NEW i \in Server, state'[i] = "leader"
       PROVE  \E b \in C : b.who = i /\ b.term = current_term'[i] /\ Leads(log'[i], b)
  <2>1. CASE state[i] = "leader"
    <3>1. PICK b \in B : b.who = i /\ b.term = current_term[i] /\ Leads(log[i], b)
      BY <1>1, <2>1 DEF Offices
    <3>2. current_term'[i] = current_term[i]  BY <1>15, <2>1, LeaderLog
    <3>3. CASE log'[i] = log[i]  BY <1>1, <3>1, <3>2, <3>3
    <3>4. ASSUME NEW c \in Command, Submit(i, c) PROVE Leads(log'[i], b)
      <4>1. log'[i] = Append(log[i], [term |-> current_term[i], command |-> c])
        BY <1>2, <3>4 DEF Submit
      <4>2. Len(b.base) \in Nat /\ Len(log[i]) \in Nat /\ Len(b.base) <= Len(log[i])
        BY <1>1, <1>2, <1>3, <3>1, LenProperties DEF Offices, Leads, Has
      <4>3. /\ Len(log'[i]) = Len(log[i]) + 1
            /\ \A n \in 1..Len(log[i]) : log'[i][n] = log[i][n]
            /\ log'[i][Len(log[i]) + 1].term = current_term[i]
        BY <1>2, <4>1, AppendedEntry
      <4>4. Has(log'[i], b.base, Len(b.base))
        BY <3>1, <4>2, <4>3 DEF Leads, Has, Agree
      <4>5. ASSUME NEW n \in Len(b.base) + 1..Len(log'[i])
            PROVE  log'[i][n].term = b.term
        <5>1. CASE n = Len(log[i]) + 1  BY <3>1, <4>3, <5>1
        <5>2. CASE n # Len(log[i]) + 1
          <6>1. n \in 1..Len(log[i]) /\ n \in Len(b.base) + 1..Len(log[i])
            BY <4>2, <4>3, <5>2
          <6> QED  BY <3>1, <4>3, <6>1 DEF Leads
        <5> QED  BY <5>1, <5>2
      <4> QED  BY <4>4, <4>5 DEF Leads
    <3> QED  BY <1>1, <1>15, <2>1, <3>1, <3>2, <3>3, <3>4, LeaderLog
  <2>2. CASE state[i] # "leader"
    <3> DEFINE o == [who |-> i, term |-> current_term[i], base |-> log[i],
                     quorum |-> ballot'[i].granted \cup {i}]
    <3>0. o \in NewOffices /\ o.who = i  BY <1>15, <2>2 DEF NewOffices
    <3>1. PICK b \in NewOffices : b.who = i
      BY <3>0
    <3>2. b.term = current_term'[i] /\ b.base = log'[i] /\ Len(log[i]) \in Nat
      BY <1>2, <1>4, <1>5, <3>1, LenProperties
    <3> QED  BY <1>1, <1>5, <3>1, <3>2 DEF Leads, Has, Agree
  <2> QED  BY <2>1, <2>2
<1>16. Majority' = Majority  OBVIOUS
<1> QED  BY <1>6, <1>7, <1>13, <1>14, <1>15 DEF Offices

-----------------------------------------------------------------------------
(* What servers have accepted.                                             *)

\* A server keeps what it has accepted, unless it follows a leader of a later
\* term that was elected without it.
LEMMA AcceptedStays ==
  ASSUME ~LateRounds, Base, Base', [Next]_vars,
         NEW CONSTANT H, NEW CONSTANT B, NEW CONSTANT V, NEW CONSTANT A,
         Explained(H, B, V, A), NEW a \in A,
         NEW n \in 1..Len(a.log), a.log[n].term = a.term
  PROVE  Keeps(B, log'[a.who], a, n, current_term'[a.who])
<1> DEFINE v == a.who
<1>1. /\ History(H) /\ Offices(H, B) /\ Replication(H, B, A)
      /\ \A l \in H : l \in Seq(Entry) /\ Len(l) \in Nat
  BY LenProperties DEF Explained, Past, History
<1>2. /\ v \in Server /\ a.term \in Nat /\ current_term[v] >= a.term /\ a.log \in H
      /\ Keeps(B, log[v], a, n, current_term[v])
  BY DEF Explained, Past, Accepts
<1>3. /\ log \in [Server -> Seq(Entry)] /\ current_term \in [Server -> Nat]
      /\ current_term'[v] \in Nat /\ current_term[v] <= current_term'[v]
      /\ log[v] \in H /\ n \in Nat
  <2>1. /\ current_term \in [Server -> Nat] /\ current_term' \in [Server -> Nat]
        /\ \A i \in Server : current_term[i] <= current_term'[i]
        /\ log \in [Server -> Seq(Entry)]
    BY StepVotes DEF Base, Typing, TypeOK, VotesStay
  <2> QED  BY <1>1, <1>2, <2>1 DEF History
<1>4. ASSUME NEW b \in B, a.term < b.term, b.term <= current_term[v],
             ~Has(b.base, a.log, n)
      PROVE  Keeps(B, log'[v], a, n, current_term'[v])
  <2>1. b.term \in Nat  BY <1>1 DEF Offices
  <2>2. b.term <= current_term'[v]  BY <1>2, <1>3, <1>4, <2>1
  <2> QED  BY <1>4, <2>2 DEF Keeps
<1>5. CASE Has(log[v], a.log, n)
  <2>1. CASE log'[v] = log[v]  BY <1>5, <2>1 DEF Keeps
  <2>2. ASSUME NEW i \in Server, NEW c \in Command, Submit(i, c)
        PROVE  Has(log'[v], a.log, n)
    <3>1. CASE i = v
      <4>1. log'[v] = Append(log[v], [term |-> current_term[v], command |-> c])
        BY <1>3, <2>2, <3>1 DEF Submit
      <4>2. /\ Len(log'[v]) = Len(log[v]) + 1 /\ Len(log[v]) \in Nat
            /\ \A x \in 1..Len(log[v]) : log'[v][x] = log[v][x]
        BY <1>1, <1>2, <1>3, <4>1, AppendedEntry
      <4>3. n <= Len(log[v]) /\ \A x \in 1..n : a.log[x] = log[v][x]
        BY <1>5 DEF Has, Agree
      <4>4. n <= Len(log'[v])  BY <1>3, <4>2, <4>3
      <4>5. ASSUME NEW x \in 1..n PROVE a.log[x] = log'[v][x]
        <5>1. x \in 1..Len(log[v])  BY <1>3, <4>2, <4>3
        <5> QED  BY <4>2, <4>3, <5>1
      <4> QED  BY <4>4, <4>5 DEF Has, Agree
    <3>2. CASE i # v
      <4>1. log'[v] = log[v]  BY <1>2, <1>3, <2>2, <3>2 DEF Submit
      <4> QED  BY <1>5, <4>1
    <3> QED  BY <3>1, <3>2
  <2>3. ASSUME NEW m \in net, HandleAppendEntries(m), log'[v] # log[v]
        PROVE  Keeps(B, log'[v], a, n, current_term'[v])
    <3>1. /\ m.dst = v /\ m.op = "AppendEntries" /\ ~(m.term < current_term[v])
          /\ log'[v] = Followed(log[v], m) /\ current_term'[v] = Adopt(v, m.term)
          /\ m.term \in Nat /\ m.prev_log_id \in Nat /\ m.entries \in Seq(Entry)
      BY <1>2, <1>3, <2>3, FollowerLog DEF AppendRequest
    <3>2. current_term'[v] = m.term /\ a.term <= m.term
      BY <1>2, <1>3, <3>1 DEF Adopt
    <3>3. PICK b \in B, k \in H : b.term = m.term /\ Leads(k, b) /\ Carries(m, k)
      BY <1>1, <3>1 DEF Replication, Sound
    <3>4. CASE a.term < m.term /\ ~Has(b.base, a.log, n)
      BY <3>1, <3>2, <3>3, <3>4 DEF Keeps
    <3>5. ASSUME \A x \in 1..n : x <= Len(k) => k[x] = a.log[x]
          PROVE  Keeps(B, log'[v], a, n, current_term'[v])
      <4>1. Match(log[v], k)  BY <1>1, <1>3 DEF History
      <4>2. Has(Followed(log[v], m), a.log, n)
        BY <1>1, <1>3, <1>5, <3>1, <3>3, <3>5, <4>1, Survives
      <4> QED  BY <3>1, <4>2 DEF Keeps
    <3>6. CASE a.term < m.term /\ Has(b.base, a.log, n)
      <4>1. n <= Len(b.base) /\ Len(b.base) \in Nat
        BY <1>1, <3>6 DEF Has, Offices
      <4>2. Has(k, a.log, n)  BY <1>3, <3>3, <3>6, <4>1, HasTrans DEF Leads
      <4> QED  BY <3>5, <4>2 DEF Has, Agree
    <3>7. CASE a.term = m.term
      <4>1. Leads(a.log, b)
        BY <1>1, <3>3, <3>7 DEF Explained, Past, Accepts, Offices
      <4>2. ASSUME NEW x \in 1..n, x <= Len(k) PROVE k[x] = a.log[x]
        <5>1. x \in Nat /\ x \in 1..x /\ x <= Len(a.log) /\ b.base \in Seq(Entry)
          BY <1>1, <1>2 DEF Offices
        <5>2. Match(k, a.log)  BY <1>1, <1>2 DEF History
        <5>3. Agree(k, a.log, x)
          BY <1>1, <1>2, <3>3, <4>1, <4>2, <5>1, <5>2, LeadsAgree
        <5> QED  BY <5>1, <5>3 DEF Agree
      <4> QED  BY <3>5, <4>2
    <3> QED  BY <1>2, <3>1, <3>2, <3>4, <3>6, <3>7
  <2> QED  BY <2>1, <2>2, <2>3, LogSteps DEF Base, Keeps
<1> QED  BY <1>2, <1>4, <1>5 DEF Keeps

LEMMA AcceptsStep ==
  ASSUME ~LateRounds, Base, Base', [Next]_vars,
         NEW CONSTANT H, NEW CONSTANT B, NEW CONSTANT V, NEW CONSTANT A,
         NEW CONSTANT G, NEW CONSTANT C, NEW CONSTANT W, NEW CONSTANT D,
         Explained(H, B, V, A), Extended(H, B, V, A, G, C, W, D)
  PROVE  Accepts(G, C, W, D)'
<1>1. /\ History(H) /\ Offices(H, B) /\ Accepts(H, B, V, A) /\ Votes(H, B, V)
      /\ H \subseteq G /\ B \subseteq C
      /\ W = V \cup NewVotes(H, B) /\ D = A \cup NewAccepts(G, B)
  BY DEF Explained, Past, Extended, Grown
<1>2. /\ current_term \in [Server -> Nat] /\ current_term' \in [Server -> Nat]
      /\ \A i \in Server : current_term[i] <= current_term'[i]
  BY StepVotes DEF Base, Typing, TypeOK, VotesStay
<1>3. \A k, a, n, t : Keeps(B, k, a, n, t) => Keeps(C, k, a, n, t)
  BY <1>1 DEF Keeps
<1>4. ASSUME NEW a \in NewAccepts(G, B)
      PROVE  /\ a.who \in Server /\ a.term \in Nat /\ a.log \in G
             /\ a.term = current_term'[a.who]
             /\ \E b \in B : b.term = a.term /\ Leads(a.log, b)
             /\ \A n \in 1..Len(a.log) : Has(log'[a.who], a.log, n)
  <2>1. /\ a.who \in Server /\ a.term \in Nat /\ a.log \in G
        /\ a.term = current_term'[a.who] /\ Has(log'[a.who], a.log, Len(a.log))
        /\ \E b \in B : b.term = a.term /\ Leads(a.log, b)
    BY <1>4 DEF NewAccepts
  <2>2. a.log \in Seq(Entry) /\ log'[a.who] \in Seq(Entry)
    BY <2>1 DEF Extended, History, Base, Typing, TypeOK
  <2>3. Len(a.log) \in Nat /\ Len(log'[a.who]) \in Nat  BY <2>2, LenProperties
  <2> QED  BY <2>1, <2>3 DEF Has, Agree
<1>5. ASSUME NEW a \in D
      PROVE  /\ a.who \in Server /\ a.term \in Nat /\ current_term'[a.who] >= a.term
             /\ a.log \in G /\ \E b \in C : b.term = a.term /\ Leads(a.log, b)
             /\ \A n \in 1..Len(a.log) : a.log[n].term = a.term =>
                  Keeps(C, log'[a.who], a, n, current_term'[a.who])
  <2>1. CASE a \in A
    <3>1. /\ a.who \in Server /\ a.term \in Nat /\ current_term'[a.who] >= a.term
          /\ a.log \in G /\ \E b \in C : b.term = a.term /\ Leads(a.log, b)
      BY <1>1, <1>2, <2>1 DEF Accepts
    <3>2. ASSUME NEW n \in 1..Len(a.log), a.log[n].term = a.term
          PROVE  Keeps(C, log'[a.who], a, n, current_term'[a.who])
      BY <1>3, <2>1, <3>2, AcceptedStays
    <3> QED  BY <3>1, <3>2
  <2>2. CASE a \in NewAccepts(G, B)
    BY <1>1, <1>2, <1>4, <2>2 DEF Keeps
  <2> QED  BY <1>1, <2>1, <2>2
<1>6. ASSUME NEW a \in D, NEW x \in W, a.who = x.who, a.term < x.term,
             NEW n \in 1..Len(a.log), a.log[n].term = a.term
      PROVE  Keeps(C, x.log, a, n, x.term - 1)
  <2>1. x.term \in Nat /\ x.who \in Server /\ a.term \in Nat
        /\ x.term <= current_term'[x.who]
    <3>1. CASE x \in V  BY <1>1, <1>2, <1>5, <3>1 DEF Votes
    <3>2. CASE x \in NewVotes(H, B)  BY <1>2, <1>5, <3>2 DEF NewVotes
    <3> QED  BY <1>1, <3>1, <3>2
  <2>2. a \in A
    <3> SUFFICES ASSUME a \in NewAccepts(G, B) PROVE FALSE  BY <1>1
    <3>1. a.term = current_term'[x.who]  BY <1>4, <1>6
    <3> QED  BY <1>2, <1>6, <2>1, <3>1
  <2>3. CASE x \in V
    BY <1>1, <1>3, <1>6, <2>2, <2>3 DEF Accepts
  <2>4. CASE x \in NewVotes(H, B)
    <3>1. /\ x.term = current_term'[x.who] /\ x.log = log[x.who]
          /\ \A b \in B : b.term # x.term
      BY <2>4 DEF NewVotes
    <3>2. Keeps(B, log[x.who], a, n, current_term[x.who])
      BY <1>1, <1>6, <2>2 DEF Accepts
    <3>3. ASSUME NEW b \in B, b.term <= current_term[x.who] PROVE b.term <= x.term - 1
      <4>1. b.term \in Nat /\ b.term # x.term  BY <1>1, <3>1 DEF Offices
      <4> QED  BY <1>2, <2>1, <3>1, <3>3, <4>1
    <3>4. Keeps(B, x.log, a, n, x.term - 1)
      BY <3>1, <3>2, <3>3 DEF Keeps
    <3> QED  BY <1>3, <3>4
  <2> QED  BY <1>1, <2>3, <2>4
<1> QED  BY <1>5, <1>6 DEF Accepts

-----------------------------------------------------------------------------
(* The votes so far.                                                       *)

\* A candidate asks for votes with its last entry.
LEMMA NewCalls ==
  ASSUME Base, [Next]_vars, NEW m \in net', m \notin net, m.op = "VoteRequest"
  PROVE  /\ m.src \in Server /\ m.term = current_term'[m.src] /\ log' = log
         /\ m.last_log_id = Len(log[m.src]) /\ m.last_log_term = LastTerm(log[m.src])
<1>1. ASSUME NEW i \in Server, Election(i)
      PROVE  /\ m.src = i /\ m.term = current_term'[i] /\ log' = log
             /\ m.last_log_id = Len(log[i]) /\ m.last_log_term = LastTerm(log[i])
  <2>1. current_term \in [Server -> Nat]  BY DEF Base, Typing, TypeOK
  <2> QED  BY <1>1, <2>1 DEF Election, Send
<1>2. ASSUME NEW i \in Server, Beat(i) PROVE FALSE
  BY <1>2 DEF Beat, Send, Heartbeat
<1>3. ASSUME NEW i \in Server, NEW r \in AnswerOf(i), NEW j \in Peers(i),
             Replicate(i, j, r)
      PROVE  FALSE
  BY <1>3 DEF Replicate, Send, ReplicateRequest
<1>4. ASSUME NEW i \in Server, Tally(i) \/ Restart(i) PROVE FALSE
  BY <1>4 DEF Tally, Restart
<1>5. ASSUME NEW i \in Server, NEW r \in AnswerOf(i), EndRound(i, r) PROVE FALSE
  BY <1>5 DEF EndRound
<1>6. ASSUME NEW n \in net,
             HandleVoteRequest(n) \/ HandleAppendEntries(n) \/ RestartInHandler(n)
      PROVE  FALSE
  <2>1. net' = net \ {n}
    BY <1>6 DEF HandleVoteRequest, HandleAppendEntries, RestartInHandler
  <2> QED  BY <2>1
<1>7. ASSUME NEW i \in Server, NEW c \in Command, Submit(i, c) PROVE FALSE
  BY <1>7 DEF Submit
<1>8. ASSUME NEW c \in Command, Answer(c) \/ GiveUp(c) PROVE FALSE
  BY <1>8 DEF Answer, GiveUp
<1>9. CASE UNCHANGED vars  BY <1>9 DEF vars
<1> QED
  BY <1>1, <1>2, <1>3, <1>4, <1>5, <1>6, <1>7, <1>8, <1>9 DEF Next

\* A vote counts for the candidate whose request the voter has just granted.
LEMMA NewGrant ==
  ASSUME Base, [Next]_vars, NEW j \in Server, NEW v, v \in ballot'[j].granted,
         v \notin ballot[j].granted
  PROVE  \E m \in net :
           /\ m.op = "VoteRequest" /\ m.src = j /\ m.dst = v /\ v \in Server
           /\ m.term = ballot[j].term /\ current_term'[v] = m.term /\ log' = log
           /\ is_up_to_date(log[v], m.last_log_id, m.last_log_term)
<1>1. /\ ballot \in [Server -> Ballot] /\ current_term \in [Server -> Nat]
      /\ ballot[j] \in Ballot
  BY DEF Base, Typing, TypeOK
<1>2. ASSUME NEW i \in Server, Election(i) PROVE FALSE
  <2>1. ballot'[i].granted = {} /\ (j # i => ballot'[j] = ballot[j])
    BY <1>1, <1>2 DEF Election
  <2> QED  BY <2>1
<1>3. ASSUME NEW i \in Server, Tally(i) PROVE FALSE
  <2>1. PICK got \in SUBSET ballot[i].granted :
          \/ ballot' = [ballot EXCEPT ![i] = Counted(ballot[i].term, got)]
          \/ ballot' = [ballot EXCEPT ![i] = Counted(ballot[i].term, {})]
    BY <1>3 DEF Tally
  <2>2. ballot'[i].granted \in SUBSET got /\ (j # i => ballot'[j] = ballot[j])
    BY <1>1, <2>1 DEF Counted
  <2> QED  BY <2>2
<1>4. ASSUME NEW i \in Server, Volatile(i) PROVE FALSE
  <2>1. ballot'[i].granted = {} /\ (j # i => ballot'[j] = ballot[j])
    BY <1>1, <1>4 DEF Volatile, Closed
  <2> QED  BY <2>1
<1>5. ASSUME NEW m \in net, HandleVoteRequest(m)
      PROVE  /\ m.op = "VoteRequest" /\ m.src = j /\ m.dst = v /\ v \in Server
             /\ m.term = ballot[j].term /\ current_term'[v] = m.term /\ log' = log
             /\ is_up_to_date(log[v], m.last_log_id, m.last_log_term)
  <2> DEFINE w == m.dst
             granted == /\ m.term >= current_term[w]
                        /\ VoteAfter(w, m.term) \in {None, m.src}
                        /\ is_up_to_date(log[w], m.last_log_id, m.last_log_term)
             heard == granted /\ ballot[m.src].open /\ ballot[m.src].term = m.term
  <2>1. w \in Server /\ m.src \in Server /\ m.term \in Nat
    BY DEF Base, Typing, TypeOK, Request, VoteRequest, AppendRequest
  <2>2. /\ current_term' = [current_term EXCEPT ![w] = Adopt(w, m.term)]
        /\ ballot' = IF heard THEN [ballot EXCEPT ![m.src] = WithVote(@, w)] ELSE ballot
        /\ m.op = "VoteRequest" /\ log' = log
    BY <1>5 DEF HandleVoteRequest
  <2>3. granted => /\ current_term'[w] = m.term
                   /\ is_up_to_date(log[w], m.last_log_id, m.last_log_term)
    BY <1>1, <2>1, <2>2 DEF Adopt
  <2>4. heard => granted /\ ballot[m.src].term = m.term
    OBVIOUS
  <2> HIDE DEF granted, heard
  <2>5. heard /\ j = m.src
    <3>1. ~(heard /\ j = m.src) => ballot'[j] = ballot[j]  BY <1>1, <2>1, <2>2
    <3> QED  BY <3>1
  <2>6. ballot'[j] = [ballot[j] EXCEPT !.granted = ballot[j].granted \cup {w}]
    BY <1>1, <2>1, <2>2, <2>5 DEF WithVote
  <2>7. v = w  BY <1>1, <2>6 DEF Ballot
  <2> QED  BY <2>1, <2>2, <2>3, <2>4, <2>5, <2>7
<1>6. ASSUME ballot' = ballot PROVE FALSE  BY <1>6
<1>7. ASSUME NEW i \in Server,
             \/ Beat(i)
             \/ \E r \in AnswerOf(i) : \/ \E k \in Peers(i) : Replicate(i, k, r)
                                       \/ EndRound(i, r)
      PROVE  FALSE
  BY <1>6, <1>7 DEF Beat, Replicate, EndRound
<1>8. ASSUME NEW m \in net, HandleAppendEntries(m) \/ RestartInHandler(m)
      PROVE  FALSE
  <2>1. m.dst \in Server
    BY DEF Base, Typing, TypeOK, Request, VoteRequest, AppendRequest
  <2> QED  BY <1>4, <1>6, <1>8, <2>1 DEF HandleAppendEntries, RestartInHandler
<1>9. ASSUME NEW c \in Command,
             (\E i \in Server : Submit(i, c)) \/ Answer(c) \/ GiveUp(c)
      PROVE  FALSE
  BY <1>6, <1>9 DEF Submit, Answer, GiveUp
<1>10. CASE UNCHANGED vars  BY <1>6, <1>10 DEF vars
<1>11. ASSUME NEW i \in Server, Restart(i) PROVE FALSE
  BY <1>4, <1>11 DEF Restart
<1> QED
  BY <1>2, <1>3, <1>5, <1>7, <1>8, <1>9, <1>10, <1>11 DEF Next

\* A candidate that still waits for the votes of t after a step waited for them
\* before, with the same log, or has just begun to.
LEMMA RunningBefore ==
  ASSUME Base, Base', [Next]_vars,
         NEW CONSTANT H, NEW CONSTANT B, NEW CONSTANT A, Replication(H, B, A),
         NEW i \in Server, NEW t \in Nat,
         ballot'[i].open, ballot'[i].term = t, current_term'[i] = t,
         \A b \in B : b.term # t
  PROVE  \/ ballot'[i].granted = {} /\ current_term[i] < t
         \/ Running(B, i, t) /\ log'[i] = log[i]
<1>1. /\ current_term \in [Server -> Nat] /\ log \in [Server -> Seq(Entry)]
      /\ current_term[i] <= current_term'[i] /\ current_term[i] \in Nat
      /\ ballot[i].term \in Nat
  <2>1. current_term[i] <= current_term'[i]  BY StepVotes DEF Base, VotesStay
  <2> QED  BY <2>1 DEF Base, Typing, TypeOK, Ballot
<1>2. CASE ballot'[i].term = current_term[i] + 1 /\ ballot'[i].granted = {}
  BY <1>1, <1>2
<1>3. CASE ballot'[i].term = ballot[i].term /\ ballot[i].open
  <2>1. current_term[i] = t
    <3>1. ballot[i].term <= current_term[i]  BY DEF Base, VotesBacked
    <3> QED  BY <1>1, <1>3, <3>1
  <2>2. Running(B, i, t)  BY <1>3, <2>1 DEF Running
  <2>3. ASSUME NEW k \in Server, NEW c \in Command, Submit(k, c)
        PROVE  log'[i] = log[i]
    <3>1. state[i] # "leader"  BY <1>3 DEF Base, VotesBacked
    <3> QED  BY <1>1, <2>3, <3>1 DEF Submit
  <2>4. ASSUME NEW m \in net, HandleAppendEntries(m)
        PROVE  log'[i] = log[i]
    <3>1. /\ m.dst \in Server /\ m.op = "AppendEntries" /\ m.term \in Nat
          /\ current_term' = [current_term EXCEPT ![m.dst] = Adopt(m.dst, m.term)]
          /\ log' = [log EXCEPT ![m.dst] =
                       IF m.term < current_term[m.dst] THEN log[m.dst]
                       ELSE Followed(log[m.dst], m)]
      BY <2>4, FollowerLog DEF AppendRequest
    <3>2. m.term # t
      <4>1. \E b \in B : b.term = m.term  BY <3>1 DEF Replication, Sound
      <4> QED  BY <4>1
    <3>3. CASE m.dst = i
      <4>1. m.term < current_term[i]  BY <1>1, <2>1, <3>1, <3>2, <3>3 DEF Adopt
      <4> QED  BY <1>1, <3>1, <3>3, <4>1
    <3>4. CASE m.dst # i  BY <1>1, <3>1, <3>4
    <3> QED  BY <3>3, <3>4
  <2>5. log'[i] = log[i]  BY <2>3, <2>4, LogSteps DEF Base
  <2> QED  BY <2>2, <2>5
<1> QED  BY <1>2, <1>3, StepBallots DEF Base, BallotStep

LEMMA VotesStep ==
  ASSUME ~LateRounds, Base, Base', [Next]_vars,
         NEW CONSTANT H, NEW CONSTANT B, NEW CONSTANT V, NEW CONSTANT A,
         NEW CONSTANT G, NEW CONSTANT C, NEW CONSTANT W, NEW CONSTANT D,
         Explained(H, B, V, A), Extended(H, B, V, A, G, C, W, D)
  PROVE  Votes(G, C, W)'
<1>1. /\ History(H) /\ Offices(H, B) /\ Votes(H, B, V) /\ Replication(H, B, A)
      /\ H \subseteq G /\ C = B \cup NewOffices /\ W = V \cup NewVotes(H, B)
  BY DEF Explained, Past, Extended, Grown
<1>2. /\ current_term \in [Server -> Nat] /\ current_term' \in [Server -> Nat]
      /\ log \in [Server -> Seq(Entry)] /\ ballot \in [Server -> Ballot]
      /\ ballot' \in [Server -> Ballot]
      /\ \A i \in Server : current_term[i] <= current_term'[i]
      /\ \A i \in Server : log[i] \in H
  <2>1. \A i \in Server : current_term[i] <= current_term'[i]
    BY StepVotes DEF Base, VotesStay
  <2>2. \A i \in Server : log[i] \in H  BY <1>1 DEF History
  <2> QED  BY <2>1, <2>2 DEF Base, Typing, TypeOK
<1>3. ASSUME NEW x \in W
      PROVE  x.who \in Server /\ x.term \in Nat /\ x.log \in G
             /\ current_term'[x.who] >= x.term
  <2>1. CASE x \in V  BY <1>1, <1>2, <2>1 DEF Votes
  <2>2. CASE x \in NewVotes(H, B)  BY <1>1, <1>2, <2>2 DEF NewVotes
  <2> QED  BY <1>1, <2>1, <2>2
<1>4. ASSUME NEW v \in Server, \A b \in B : b.term # current_term'[v]
      PROVE  \E x \in W : x.who = v /\ x.term = current_term'[v] /\ x.log = log[v]
  <2> DEFINE x == [who |-> v, term |-> current_term'[v], log |-> log[v]]
  <2>1. x \in [who : Server, term : Nat, log : H]  BY <1>2
  <2>2. x.who = v /\ x.term = current_term'[v] /\ x.log = log[v]  OBVIOUS
  <2> HIDE DEF x
  <2>3. x \in NewVotes(H, B)  BY <1>4, <2>1, <2>2 DEF NewVotes
  <2> QED  BY <1>1, <2>2, <2>3
<1>5. ASSUME NEW b \in NewOffices, NEW v \in b.quorum
      PROVE  \E x \in W : x.who = v /\ x.term = b.term /\ UpToDate(x.log, b.base)
  <2>1. PICK i \in Server :
          /\ state[i] # "leader" /\ state'[i] = "leader"
          /\ b.who = i /\ b.term = current_term[i] /\ b.base = log[i]
          /\ b.quorum = ballot'[i].granted \cup {i}
    BY DEF NewOffices
  <2>2. /\ Tally(i) /\ current_term' = current_term
        /\ ballot[i].open /\ ballot[i].term = current_term[i]
        /\ \A c \in B : c.term # current_term[i]
    BY <1>1, <2>1, NewOffice
  <2>3. CASE v = i
    <3>1. PICK x \in W : x.who = v /\ x.term = b.term /\ x.log = b.base
      BY <1>4, <2>1, <2>2, <2>3
    <3>2. UpToDate(b.base, b.base)
      BY <1>2, <2>1, LastTermType, LenProperties DEF UpToDate, is_up_to_date
    <3> QED  BY <3>1, <3>2
  <2>4. CASE v # i
    <3>1. v \in ballot'[i].granted  BY <1>5, <2>1, <2>4
    <3>2. Running(B, i, ballot[i].term)  BY <2>2 DEF Running
    <3>3. v \in ballot[i].granted
      <4> SUFFICES ASSUME v \notin ballot[i].granted PROVE FALSE  OBVIOUS
      <4>1. \E m \in net : m.op = "VoteRequest" /\ current_term'[v] = m.term
                           /\ ballot[i].term = m.term
        BY <3>1, NewGrant
      <4>2. PICK got \in SUBSET ballot[i].granted :
              \/ ballot' = [ballot EXCEPT ![i] = Counted(ballot[i].term, got)]
              \/ ballot' = [ballot EXCEPT ![i] = Counted(ballot[i].term, {})]
        BY <2>2 DEF Tally
      <4>3. ballot'[i].granted \in SUBSET got  BY <1>2, <4>2 DEF Counted
      <4> QED  BY <3>1, <4>3
    <3>4. \E x \in V : x.who = v /\ x.term = ballot[i].term /\ UpToDate(x.log, log[i])
      BY <1>1, <3>2, <3>3 DEF Votes
    <3> QED  BY <1>1, <2>1, <2>2, <3>4
  <2> QED  BY <2>3, <2>4
<1>6. ASSUME NEW b \in C, NEW v \in b.quorum
      PROVE  \E x \in W : x.who = v /\ x.term = b.term /\ UpToDate(x.log, b.base)
  <2>1. CASE b \in B  BY <1>1, <2>1 DEF Votes
  <2> QED  BY <1>1, <1>5, <2>1
<1>7. ASSUME NEW i \in Server, ballot'[i].open, current_term'[i] = ballot'[i].term,
             \A b \in C : b.term # ballot'[i].term, NEW v \in ballot'[i].granted
      PROVE  \E x \in W : /\ x.who = v /\ x.term = ballot'[i].term
                          /\ UpToDate(x.log, log'[i])
  <2> DEFINE t == ballot'[i].term
  <2>1. t \in Nat /\ \A b \in B : b.term # t  BY <1>1, <1>2, <1>7 DEF Ballot
  <2>2. Running(B, i, t) /\ log'[i] = log[i]
    BY <1>1, <1>7, <2>1, RunningBefore
  <2>3. ballot[i].term = t  BY <2>2 DEF Running
  <2>4. CASE v \in ballot[i].granted
    BY <1>1, <2>2, <2>3, <2>4 DEF Votes
  <2>5. CASE v \notin ballot[i].granted
    <3>1. PICK m \in net :
            /\ m.op = "VoteRequest" /\ m.src = i /\ m.dst = v /\ v \in Server
            /\ m.term = ballot[i].term /\ current_term'[v] = m.term
            /\ is_up_to_date(log[v], m.last_log_id, m.last_log_term)
      BY <1>7, <2>5, NewGrant
    <3>2. m.last_log_id = Len(log[i]) /\ m.last_log_term = LastTerm(log[i])
      BY <1>1, <2>2, <2>3, <3>1 DEF Votes
    <3>3. PICK x \in W : x.who = v /\ x.term = current_term'[v] /\ x.log = log[v]
      BY <1>4, <2>1, <2>3, <3>1
    <3> QED  BY <2>2, <2>3, <3>1, <3>2, <3>3 DEF UpToDate
  <2> QED  BY <2>4, <2>5
<1>8. ASSUME NEW m \in net', m.op = "VoteRequest"
      PROVE  /\ m.term <= current_term'[m.src]
             /\ ballot'[m.src].open /\ ballot'[m.src].term = m.term
                /\ current_term'[m.src] = m.term /\ (\A b \in C : b.term # m.term)
                => /\ m.last_log_id = Len(log'[m.src])
                   /\ m.last_log_term = LastTerm(log'[m.src])
  <2>1. CASE m \notin net
    <3>1. /\ m.src \in Server /\ m.term = current_term'[m.src] /\ log' = log
          /\ m.last_log_id = Len(log[m.src]) /\ m.last_log_term = LastTerm(log[m.src])
      BY <1>8, <2>1, NewCalls
    <3> QED  BY <1>2, <3>1
  <2>2. CASE m \in net
    <3>1. m.src \in Server /\ m.term \in Nat
      BY <2>2 DEF Base, Typing, TypeOK, Request, VoteRequest, AppendRequest
    <3>2. m.term <= current_term[m.src]  BY <1>1, <1>8, <2>2 DEF Votes
    <3>3. m.term <= current_term'[m.src]  BY <1>2, <3>1, <3>2
    <3>4. ASSUME ballot'[m.src].open, ballot'[m.src].term = m.term,
                 current_term'[m.src] = m.term, \A b \in C : b.term # m.term
          PROVE  /\ m.last_log_id = Len(log'[m.src])
                 /\ m.last_log_term = LastTerm(log'[m.src])
      <4>1. Running(B, m.src, m.term) /\ log'[m.src] = log[m.src]
        <5>1. ~(current_term[m.src] < m.term)  BY <1>2, <3>1, <3>2
        <5> QED  BY <1>1, <3>1, <3>4, <5>1, RunningBefore
      <4> QED  BY <1>1, <1>8, <2>2, <4>1 DEF Votes
    <3> QED  BY <3>3, <3>4
  <2> QED  BY <2>1, <2>2
<1> QED  BY <1>3, <1>6, <1>7, <1>8 DEF Votes, Running

-----------------------------------------------------------------------------
(* What leaders know.                                                      *)

\* What a leader turns to next for a peer is at most behind its log.
LEMMA NextBound ==
  ASSUME ~LateRounds, Typing, NEW i \in Server, NEW A, Knows(A, i),
         state[i] = "leader", NEW r \in AnswerOf(i), NEW j \in Server
  PROVE  NextOn(i, r)[j] <= Len(log[i]) + 1
<1> DEFINE q == round[i].req
<1>1. /\ next_id[i] \in [Server -> Nat \ {0}] /\ next_id[i][j] <= Len(log[i]) + 1
      /\ Len(log[i]) \in Nat
  BY LenProperties DEF Typing, TypeOK, Knows
<1>2. CASE r = None \/ r.term > current_term[i]
  BY <1>1, <1>2 DEF NextOn
<1>3. CASE r # None /\ ~(r.term > current_term[i])
  <2>1. r = round[i].reply /\ q.term = current_term[i]
    BY <1>3 DEF AnswerOf
  <2>2. /\ q.prev_log_id + Len(q.entries) <= Len(log[i])
        /\ q.prev_log_id \in Nat /\ Len(q.entries) \in Nat /\ q.dst \in Server
    <3>1. q \in AppendRequest  BY <1>3, AnswerTypes
    <3> QED  BY <1>3, <2>1, <3>1, LenProperties DEF Knows, AppendRequest
  <2> HIDE DEF q
  <2>3. CASE ~r.success
    <3>1. NextOn(i, r) = [next_id[i] EXCEPT ![q.dst] =
                            IF q.prev_log_id > 1 THEN q.prev_log_id ELSE 1]
      BY <1>3, <2>3 DEF NextOn, q
    <3> QED  BY <1>1, <2>2, <3>1
  <2>4. CASE r.success /\ q.entries # <<>>
    <3>1. NextOn(i, r) = [next_id[i] EXCEPT ![q.dst] =
                            q.prev_log_id + Len(q.entries) + 1]
      BY <1>3, <2>4 DEF NextOn, q
    <3> QED  BY <1>1, <2>2, <3>1
  <2>5. CASE r.success /\ q.entries = <<>>
    BY <1>1, <1>3, <2>5 DEF NextOn, q
  <2> QED  BY <2>3, <2>4, <2>5
<1> QED  BY <1>2, <1>3

\* A new append request is the end of its leader's log, and commits what the
\* leader has committed.
LEMMA NewSound ==
  ASSUME ~LateRounds, Base, [Next]_vars,
         NEW H, NEW B, NEW V, NEW A, Explained(H, B, V, A),
         NEW m \in net', m \notin net, m.op = "AppendEntries"
  PROVE  Sound(H, B, A, m)
<1>1. /\ History(H) /\ Offices(H, B) /\ Replication(H, B, A) /\ Commits(H, A) /\ Typing
  BY DEF Explained, Past, Base
<1>2. ASSUME NEW i \in Server, state[i] = "leader", m.src = i,
             m.term = current_term[i], m.leader_commit = commit_id[i],
             Carries(m, log[i])
      PROVE  Sound(H, B, A, m)
  <2>1. PICK b \in B : b.who = i /\ b.term = current_term[i] /\ Leads(log[i], b)
    BY <1>1, <1>2 DEF Offices
  <2>2. log[i] \in H /\ Chosen(H, A, log[i], commit_id[i], current_term[i])
    BY <1>1 DEF History, Commits
  <2>3. Len(log[i]) \in Nat  BY <1>1, LenProperties DEF Typing, TypeOK
  <2>4. commit_id[i] <= Len(log[i])  BY <2>2, <2>3 DEF Chosen, Has
  <2> QED  BY <1>2, <2>1, <2>2, <2>4 DEF Sound
<1>3. ASSUME NEW i \in Server, Election(i) PROVE FALSE
  BY <1>3 DEF Election, Send
<1>4. ASSUME NEW i \in Server, Beat(i) PROVE Sound(H, B, A, m)
  <2>1. \E j \in Peers(i) : m = Heartbeat(i, j)
    BY <1>4 DEF Beat, Send
  <2>2. /\ m.src = i /\ m.term = current_term[i] /\ m.leader_commit = commit_id[i]
        /\ m.prev_log_id = Len(log[i]) /\ m.prev_log_term = LastTerm(log[i])
        /\ m.entries = <<>>
    BY <2>1 DEF Heartbeat
  <2>3. Len(log[i]) \in Nat /\ (log[i] = <<>> => Len(log[i]) = 0)
    BY <1>1, LenProperties DEF Typing, TypeOK
  <2>4. Carries(m, log[i])
    BY <2>2, <2>3 DEF Carries, LastTerm
  <2> QED  BY <1>2, <1>4, <2>2, <2>4 DEF Beat
<1>5. ASSUME NEW i \in Server, NEW r \in AnswerOf(i), NEW j \in Peers(i),
             Replicate(i, j, r)
      PROVE  Sound(H, B, A, m)
  <2> DEFINE next == NextOn(i, r)[j]
             q == ReplicateRequest(i, j, TermOn(i, r), next)
  <2>1. m = q /\ StateOn(i, r) = "leader"
    BY <1>5 DEF Replicate, Send
  <2>2. state[i] = "leader" /\ TermOn(i, r) = current_term[i]
    BY <1>1, <2>1, AnswerTypes DEF StateOn, StateAfter, TermOn, Adopt
  <2>3. /\ next \in Nat \ {0} /\ log[i] \in Seq(Entry) /\ Len(log[i]) \in Nat
        /\ next <= Len(log[i]) + 1
    <3>1. NextOn(i, r) \in [Server -> Nat \ {0}] /\ j \in Server
      BY <1>1, AnswerTypes DEF Peers
    <3>2. log[i] \in Seq(Entry)  BY <1>1 DEF Typing, TypeOK
    <3>3. Knows(A, i)  BY <1>1, <2>2 DEF Replication
    <3>4. next <= Len(log[i]) + 1  BY <1>1, <2>2, <3>1, <3>3, NextBound
    <3> QED  BY <3>1, <3>2, <3>4, LenProperties
  <2> HIDE DEF next
  <2>4. /\ m.src = i /\ m.term = current_term[i] /\ m.prev_log_id = next - 1
        /\ m.leader_commit = commit_id[i]
        /\ m.prev_log_term = IF next - 1 > 0 /\ next - 1 <= Len(log[i])
                             THEN log[i][next - 1].term ELSE 0
        /\ m.entries = SubSeq(log[i], next, Len(log[i]))
    BY <2>1, <2>2 DEF ReplicateRequest
  <2>5. /\ Len(m.entries) = Len(log[i]) - (next - 1)
        /\ \A k \in 1..Len(m.entries) : m.entries[k] = log[i][(next - 1) + k]
    <3>1. CASE next <= Len(log[i])
      <4>1. /\ Len(m.entries) = Len(log[i]) - next + 1
            /\ \A k \in 1..Len(m.entries) : m.entries[k] = log[i][next + k - 1]
        BY <2>3, <2>4, <3>1
      <4> QED  BY <2>3, <4>1
    <3>2. CASE next = Len(log[i]) + 1
      BY <2>3, <2>4, <3>2
    <3> QED  BY <2>3, <3>1, <3>2
  <2>6. Carries(m, log[i])
    BY <2>3, <2>4, <2>5 DEF Carries
  <2> QED  BY <1>2, <2>2, <2>4, <2>6
<1>6. ASSUME NEW i \in Server, Tally(i) \/ Restart(i) PROVE FALSE
  BY <1>6 DEF Tally, Restart
<1>7. ASSUME NEW i \in Server, NEW r \in AnswerOf(i), EndRound(i, r) PROVE FALSE
  BY <1>7 DEF EndRound
<1>8. ASSUME NEW n \in net,
             HandleVoteRequest(n) \/ HandleAppendEntries(n) \/ RestartInHandler(n)
      PROVE  FALSE
  <2>1. net' = net \ {n}
    BY <1>8 DEF HandleVoteRequest, HandleAppendEntries, RestartInHandler
  <2> QED  BY <2>1
<1>9. ASSUME NEW c \in Command,
             (\E i \in Server : Submit(i, c)) \/ Answer(c) \/ GiveUp(c)
      PROVE  FALSE
  BY <1>9 DEF Submit, Answer, GiveUp
<1>10. CASE UNCHANGED vars  BY <1>10 DEF vars
<1> QED
  BY <1>3, <1>4, <1>5, <1>6, <1>7, <1>8, <1>9, <1>10 DEF Next

LEMMA SoundGrows ==
  ASSUME NEW H, NEW G, H \subseteq G, G \subseteq Seq(Entry), NEW B, NEW C,
         B \subseteq C, NEW A, NEW D, A \subseteq D, NEW m,
         m.term \in Nat, m.leader_commit \in Nat, Sound(H, B, A, m)
  PROVE  Sound(G, C, D, m)
<1>1. PICK b \in B, k \in H :
        /\ b.who = m.src /\ b.term = m.term /\ Leads(k, b) /\ Carries(m, k)
        /\ m.leader_commit <= Len(k) /\ Chosen(H, A, k, m.leader_commit, m.term)
  BY DEF Sound
<1>2. Has(k, k, m.leader_commit)  BY <1>1 DEF Has, Agree
<1>3. m.leader_commit <= m.leader_commit /\ m.term <= m.term  OBVIOUS
<1>4. Chosen(G, D, k, m.leader_commit, m.term)
  BY <1>1, <1>2, <1>3, ChosenGrows
<1> QED  BY <1>1, <1>4 DEF Sound

\* A leader's next_id and match_id change when a call of its round returns.
LEMMA IndexSteps ==
  ASSUME Base, [Next]_vars, NEW i \in Server, state[i] = "leader",
         state'[i] = "leader"
  PROVE  \/ next_id'[i] = next_id[i] /\ match_id'[i] = match_id[i]
         \/ \E r \in AnswerOf(i) : Return(i, r)
<1>1. /\ next_id \in [Server -> [Server -> Nat \ {0}]]
      /\ match_id \in [Server -> [Server -> Nat]]
      /\ state \in [Server -> {"follower", "candidate", "leader"}]
  BY DEF Base, Typing, TypeOK
<1>2. UNCHANGED <<next_id, match_id>> =>
        next_id'[i] = next_id[i] /\ match_id'[i] = match_id[i]
  OBVIOUS
<1>3. ASSUME NEW k \in Server, Tally(k)
      PROVE  next_id'[i] = next_id[i] /\ match_id'[i] = match_id[i]
  <2>1. k # i  BY <1>3 DEF Tally, Base, VotesBacked
  <2>2. \/ UNCHANGED <<next_id, match_id>>
        \/ /\ next_id' = [next_id EXCEPT ![k] = FirstNextId(k)]
           /\ match_id' = [match_id EXCEPT ![k] = [j \in Server |-> 0]]
    BY <1>3 DEF Tally
  <2> QED  BY <1>1, <1>2, <2>1, <2>2
<1>4. ASSUME NEW k \in Server, NEW r \in AnswerOf(k), Return(k, r)
      PROVE  \/ next_id'[i] = next_id[i] /\ match_id'[i] = match_id[i]
             \/ \E r1 \in AnswerOf(i) : Return(i, r1)
  <2>1. CASE k = i  BY <1>4, <2>1
  <2>2. CASE k # i  BY <1>1, <1>4, <2>2 DEF Return
  <2> QED  BY <2>1, <2>2
<1>5. ASSUME NEW k \in Server, Volatile(k)
      PROVE  next_id'[i] = next_id[i] /\ match_id'[i] = match_id[i]
  <2>1. k # i  BY <1>1, <1>5 DEF Volatile
  <2> QED  BY <1>1, <1>5, <2>1 DEF Volatile
<1>6. ASSUME NEW k \in Server, Election(k) \/ Beat(k)
      PROVE  UNCHANGED <<next_id, match_id>>
  BY <1>6 DEF Election, Beat, node
<1>7. ASSUME NEW m \in net, HandleVoteRequest(m) \/ HandleAppendEntries(m)
      PROVE  UNCHANGED <<next_id, match_id>>
  BY <1>7 DEF HandleVoteRequest, HandleAppendEntries
<1>8. ASSUME NEW m \in net, RestartInHandler(m)
      PROVE  next_id'[i] = next_id[i] /\ match_id'[i] = match_id[i]
  <2>1. m.dst \in Server
    BY DEF Base, Typing, TypeOK, Request, VoteRequest, AppendRequest
  <2> QED  BY <1>5, <1>8, <2>1 DEF RestartInHandler
<1>9. ASSUME NEW c \in Command,
             (\E k \in Server : Submit(k, c)) \/ Answer(c) \/ GiveUp(c)
      PROVE  UNCHANGED <<next_id, match_id>>
  BY <1>9 DEF Submit, Answer, GiveUp, node
<1>10. CASE UNCHANGED vars  BY <1>10 DEF vars, node
<1>11. ASSUME NEW k \in Server, NEW r \in AnswerOf(k),
              (\E j \in Peers(k) : Replicate(k, j, r)) \/ EndRound(k, r)
       PROVE  Return(k, r)
  BY <1>11 DEF Replicate, EndRound
<1>12. ASSUME NEW k \in Server, Restart(k) PROVE Volatile(k)
  BY <1>12 DEF Restart
<1> QED
  BY <1>2, <1>3, <1>4, <1>5, <1>6, <1>7, <1>8, <1>9, <1>10, <1>11, <1>12 DEF Next

\* A round has an answer that it had before, or that its request has just got.
LEMMA RoundSteps ==
  ASSUME Base, [Next]_vars, NEW i \in Server, round'[i].reply # None
  PROVE  \/ round'[i] = round[i]
         \/ \E m \in net : /\ HandleAppendEntries(m) /\ m.src = i /\ round'[i].req = m
                           /\ round'[i].reply.success =>
                                /\ ~(m.term < current_term[m.dst])
                                /\ PrevMatches(log[m.dst], m.prev_log_id,
                                               m.prev_log_term)
<1>1. round \in [Server -> Round]  BY DEF Base, Typing, TypeOK
<1>2. round' = round => round'[i] = round[i]  OBVIOUS
<1>3. ASSUME NEW k \in Server, Beat(k) PROVE round'[i] = round[i]
  <2>1. round'[k].reply = None /\ (k # i => round'[i] = round[i])
    BY <1>1, <1>3 DEF Beat
  <2> QED  BY <2>1
<1>4. ASSUME NEW k \in Server, NEW r \in AnswerOf(k),
             (\E j \in Peers(k) : Replicate(k, j, r)) \/ EndRound(k, r)
      PROVE  round'[i] = round[i]
  <2>1. round'[k].reply = None /\ (k # i => round'[i] = round[i])
    <3>1. CASE EndRound(k, r)  BY <1>1, <3>1 DEF EndRound, Idle
    <3>2. ASSUME NEW j \in Peers(k), Replicate(k, j, r)
          PROVE  round'[k].reply = None /\ (k # i => round'[i] = round[i])
      <4> DEFINE q == ReplicateRequest(k, j, TermOn(k, r), NextOn(k, r)[j])
      <4>1. round' = [round EXCEPT ![k] = [phase |-> "wait",
                                           todo |-> round[k].todo \ {j},
                                           req |-> q, reply |-> None]]
        BY <3>2 DEF Replicate
      <4> HIDE DEF q
      <4> QED  BY <1>1, <4>1
    <3> QED  BY <1>4, <3>1, <3>2
  <2> QED  BY <2>1
<1>5. ASSUME NEW k \in Server, Volatile(k) PROVE round'[i] = round[i]
  <2>1. round'[k].reply = None /\ (k # i => round'[i] = round[i])
    BY <1>1, <1>5 DEF Volatile, Idle
  <2> QED  BY <2>1
<1>6. ASSUME NEW m \in net, HandleAppendEntries(m), round'[i] # round[i]
      PROVE  /\ m.src = i /\ round'[i].req = m
             /\ round'[i].reply.success =>
                  /\ ~(m.term < current_term[m.dst])
                  /\ PrevMatches(log[m.dst], m.prev_log_id, m.prev_log_term)
  <2> DEFINE success == /\ ~(m.term < current_term[m.dst])
                        /\ PrevMatches(log[m.dst], m.prev_log_id, m.prev_log_term)
             waiting == round[m.src].phase = "wait" /\ round[m.src].req = m
             a == [success |-> success, term |-> Adopt(m.dst, m.term)]
  <2>1. round' = IF waiting THEN [round EXCEPT ![m.src].reply = a] ELSE round
    BY <1>6 DEF HandleAppendEntries
  <2>2. a.success = success  OBVIOUS
  <2> HIDE DEF a, success
  <2>3. waiting /\ m.src = i  BY <1>1, <1>6, <2>1
  <2>4. round'[i] = [round[i] EXCEPT !.reply = a] /\ round[i] \in Round
    BY <1>1, <2>1, <2>3
  <2>5. round'[i].req = m /\ round'[i].reply = a  BY <2>3, <2>4 DEF Round
  <2> QED  BY <2>2, <2>3, <2>5 DEF success
<1>7. ASSUME NEW m \in net, RestartInHandler(m) PROVE round'[i] = round[i]
  <2>1. m.dst \in Server
    BY DEF Base, Typing, TypeOK, Request, VoteRequest, AppendRequest
  <2> QED  BY <1>5, <1>7, <2>1 DEF RestartInHandler
<1>8. ASSUME NEW k \in Server, Election(k) \/ Tally(k) PROVE round' = round
  BY <1>8 DEF Election, Tally
<1>9. ASSUME NEW m \in net, HandleVoteRequest(m) PROVE round' = round
  BY <1>9 DEF HandleVoteRequest
<1>10. ASSUME NEW c \in Command,
              (\E k \in Server : Submit(k, c)) \/ Answer(c) \/ GiveUp(c)
       PROVE  round' = round
  BY <1>10 DEF Submit, Answer, GiveUp
<1>11. CASE UNCHANGED vars  BY <1>11 DEF vars
<1>12. ASSUME NEW k \in Server, Restart(k) PROVE round'[i] = round[i]
  BY <1>5, <1>12 DEF Restart
<1> QED
  BY <1>2, <1>3, <1>4, <1>6, <1>7, <1>8, <1>9, <1>10, <1>11, <1>12 DEF Next

\* Who has a leader's log up to its last entry has accepted it.
LEMMA NewAccept ==
  ASSUME NEW CONSTANT H, NEW CONSTANT B, NEW CONSTANT V, NEW CONSTANT A,
         NEW CONSTANT G, NEW CONSTANT C, NEW CONSTANT W, NEW CONSTANT D,
         Base', Extended(H, B, V, A, G, C, W, D),
         NEW v \in Server, NEW k \in G, NEW b \in B, b.term = current_term'[v],
         Leads(k, b), Has(log'[v], k, Len(k))
  PROVE  \E a \in D : a.who = v /\ a.term = current_term'[v] /\ a.log = k
<1> DEFINE a == [who |-> v, term |-> current_term'[v], log |-> k]
<1>1. current_term'[v] \in Nat  BY DEF Base, Typing, TypeOK
<1>2. a \in [who : Server, term : Nat, log : G]  BY <1>1
<1>3. a.who = v /\ a.term = current_term'[v] /\ a.log = k  OBVIOUS
<1> HIDE DEF a
<1>4. a \in NewAccepts(G, B)  BY <1>2, <1>3 DEF NewAccepts
<1> QED  BY <1>3, <1>4 DEF Extended

LEMMA LeaderKnows ==
  ASSUME ~LateRounds, Base, Base', [Next]_vars,
         NEW CONSTANT H, NEW CONSTANT B, NEW CONSTANT V, NEW CONSTANT A,
         NEW CONSTANT G, NEW CONSTANT C, NEW CONSTANT W, NEW CONSTANT D,
         Explained(H, B, V, A), Extended(H, B, V, A, G, C, W, D),
         NEW i \in Server, state[i] = "leader", state'[i] = "leader"
  PROVE  Knows(D, i)'
<1>1. /\ History(H) /\ Offices(H, B) /\ Replication(H, B, A) /\ Typing
      /\ H \subseteq G /\ B \subseteq C /\ A \subseteq D /\ Knows(A, i)
  BY DEF Explained, Past, Extended, Grown, Base, Replication
<1>2. /\ current_term'[i] = current_term[i] /\ current_term[i] \in Nat
      /\ log[i] \in Seq(Entry) /\ log'[i] \in Seq(Entry) /\ Len(log[i]) \in Nat
      /\ Len(log'[i]) \in Nat
      /\ log[i] \in H /\ log'[i] \in G
  <2>1. current_term'[i] = current_term[i]  BY LeaderLog
  <2>2. log[i] \in Seq(Entry) /\ log'[i] \in Seq(Entry) /\ current_term[i] \in Nat
    BY DEF Base, Typing, TypeOK
  <2>3. log[i] \in H /\ log'[i] \in G  BY <1>1 DEF Extended, History
  <2> QED  BY <2>1, <2>2, <2>3, LenProperties
<1>3. Len(log[i]) <= Len(log'[i])
  <2>1. Len(log'[i]) >= Len(log[i])
    BY <1>2, StepAppends DEF Base, LeaderAppends
  <2> QED  BY <1>2, <2>1
<1>4. PICK b \in B : /\ b.who = i /\ b.term = current_term[i]
                     /\ Leads(log[i], b) /\ Leads(log'[i], b)
  <2>1. PICK b \in B : b.who = i /\ b.term = current_term[i] /\ Leads(log[i], b)
    BY <1>1 DEF Offices
  <2>2. Offices(G, C)'  BY OfficesStep
  <2>3. PICK c \in C : c.term = current_term'[i] /\ Leads(log'[i], c)
    BY <2>2 DEF Offices
  <2>4. b = c  BY <1>1, <1>2, <2>1, <2>2, <2>3 DEF Offices
  <2> QED  BY <2>1, <2>3, <2>4
\* next_id and match_id
<1>5. ASSUME NEW j \in Server
      PROVE  /\ next_id'[i][j] <= Len(log'[i]) + 1
             /\ match_id'[i][j] > 0 =>
                  \E a \in D : /\ a.who = j /\ a.term = current_term'[i]
                               /\ match_id'[i][j] <= Len(a.log)
  <2>1. /\ next_id'[i][j] \in Nat /\ next_id[i][j] <= Len(log[i]) + 1
        /\ next_id[i][j] \in Nat
        /\ match_id[i][j] > 0 => \E a \in D : /\ a.who = j /\ a.term = current_term'[i]
                                             /\ match_id[i][j] <= Len(a.log)
    BY <1>1, <1>2 DEF Knows, Base, Typing, TypeOK
  <2>2. CASE next_id'[i] = next_id[i] /\ match_id'[i] = match_id[i]
    BY <1>2, <1>3, <2>1, <2>2
  <2>3. ASSUME NEW r \in AnswerOf(i), Return(i, r)
        PROVE  /\ next_id'[i][j] <= Len(log'[i]) + 1
               /\ match_id'[i][j] > 0 =>
                    \E a \in D : /\ a.who = j /\ a.term = current_term'[i]
                                 /\ match_id'[i][j] <= Len(a.log)
    <3>1. next_id'[i] = NextOn(i, r) /\ match_id'[i] = MatchOn(i, r)
      BY <1>1, <2>3 DEF Return, Typing, TypeOK
    <3>2. NextOn(i, r)[j] <= Len(log[i]) + 1  BY <1>1, NextBound
    <3>3. next_id'[i][j] <= Len(log'[i]) + 1
      BY <1>2, <1>3, <2>1, <3>1, <3>2
    <3> DEFINE q == round[i].req
    <3>4. CASE r # None /\ r.term <= current_term[i] /\ r.success /\ q.entries # <<>>
      <4>1. r = round[i].reply /\ q.term = current_term[i]
        BY <3>4 DEF AnswerOf
      <4>2. PICK a \in A : /\ a.who = q.dst /\ a.term = q.term
                           /\ Len(a.log) = q.prev_log_id + Len(q.entries)
        BY <1>1, <3>4, <4>1 DEF Knows
      <4>3. /\ MatchOn(i, r) = [match_id[i] EXCEPT ![q.dst] =
                                  q.prev_log_id + Len(q.entries)]
            /\ match_id[i] \in [Server -> Nat]
        BY <1>1, <3>4 DEF MatchOn, Typing, TypeOK
      <4>4. Len(a.log) \in Nat
        <5>1. a.log \in H  BY DEF Explained, Past, Accepts
        <5>2. a.log \in Seq(Entry)  BY <1>1, <5>1 DEF History
        <5> QED  BY <5>2, LenProperties
      <4> HIDE DEF q
      <4>5. CASE j = q.dst
        <5>1. match_id'[i][j] = Len(a.log)  BY <3>1, <4>2, <4>3, <4>5
        <5>2. a \in D /\ a.who = j /\ a.term = current_term'[i]
          BY <1>1, <1>2, <4>1, <4>2, <4>5
        <5> QED  BY <3>3, <4>4, <5>1, <5>2
      <4>6. CASE j # q.dst
        <5>1. match_id'[i][j] = match_id[i][j]  BY <3>1, <4>3, <4>6
        <5> QED  BY <2>1, <3>3, <5>1
      <4> QED  BY <4>5, <4>6
    <3>5. CASE ~(r # None /\ r.term <= current_term[i] /\ r.success
                 /\ q.entries # <<>>)
      <4>1. match_id'[i] = match_id[i]  BY <3>1, <3>5 DEF MatchOn
      <4> QED  BY <2>1, <3>3, <4>1
    <3> QED  BY <3>4, <3>5
  <2> QED  BY <2>2, <2>3, IndexSteps
\* What it has appended itself
<1>6. ASSUME NEW n \in 1..Len(log'[i]), log'[i][n].term = current_term'[i]
      PROVE  \E a \in D : a.who = i /\ a.term = current_term'[i] /\ n <= Len(a.log)
  <2>1. b.term = current_term'[i] /\ Has(log'[i], log'[i], Len(log'[i]))
    BY <1>2, <1>4 DEF Has, Agree
  <2>2. PICK a \in D : a.who = i /\ a.term = current_term'[i] /\ a.log = log'[i]
    BY <1>2, <1>4, <2>1, NewAccept
  <2> QED  BY <1>6, <2>2
\* The answer to its last request
<1>7. ASSUME round'[i].reply # None, round'[i].req.term = current_term'[i]
      PROVE  /\ round'[i].req.prev_log_id + Len(round'[i].req.entries) <= Len(log'[i])
             /\ round'[i].reply.success =>
                  \E a \in D :
                    /\ a.who = round'[i].req.dst /\ a.term = round'[i].req.term
                    /\ Len(a.log) = round'[i].req.prev_log_id + Len(round'[i].req.entries)
  <2>1. CASE round'[i] = round[i]
    <3>1. /\ round[i].req.prev_log_id + Len(round[i].req.entries) <= Len(log[i])
          /\ round[i].reply.success =>
               \E a \in A :
                 /\ a.who = round[i].req.dst /\ a.term = round[i].req.term
                 /\ Len(a.log) = round[i].req.prev_log_id + Len(round[i].req.entries)
      BY <1>1, <1>2, <1>7, <2>1 DEF Knows
    <3>2. round[i].req.prev_log_id \in Nat /\ Len(round[i].req.entries) \in Nat
      <4>1. round[i].req \in AppendRequest  BY <1>1, <1>7, <2>1 DEF Typing
      <4> QED  BY <4>1, LenProperties DEF AppendRequest
    <3>3. round'[i].req.prev_log_id + Len(round'[i].req.entries) <= Len(log'[i])
      <4>1. PICK p \in Nat, e \in Nat :
              p = round[i].req.prev_log_id /\ e = Len(round[i].req.entries)
        BY <3>2
      <4>2. p + e <= Len(log[i])  BY <3>1, <4>1
      <4>3. p + e <= Len(log'[i])  BY <1>2, <1>3, <4>2
      <4> QED  BY <2>1, <4>1, <4>3
    <3> QED  BY <1>1, <2>1, <3>1, <3>3
  <2>2. ASSUME NEW m \in net, HandleAppendEntries(m), m.src = i, round'[i].req = m,
               round'[i].reply.success =>
                 /\ ~(m.term < current_term[m.dst])
                 /\ PrevMatches(log[m.dst], m.prev_log_id, m.prev_log_term)
        PROVE  /\ m.prev_log_id + Len(m.entries) <= Len(log'[i])
               /\ round'[i].reply.success =>
                    \E a \in D : /\ a.who = m.dst /\ a.term = m.term
                                 /\ Len(a.log) = m.prev_log_id + Len(m.entries)
    <3>1. /\ m.dst \in Server /\ m.op = "AppendEntries" /\ m.term \in Nat
          /\ m.prev_log_id \in Nat /\ m.entries \in Seq(Entry)
          /\ current_term' = [current_term EXCEPT ![m.dst] = Adopt(m.dst, m.term)]
          /\ log' = [log EXCEPT ![m.dst] =
                       IF m.term < current_term[m.dst] THEN log[m.dst]
                       ELSE Followed(log[m.dst], m)]
      BY <2>2, FollowerLog DEF AppendRequest
    <3>2. PICK o \in B, k \in H : o.term = m.term /\ Leads(k, o) /\ Carries(m, k)
      BY <1>1, <3>1 DEF Replication, Sound
    <3>3. o = b  BY <1>1, <1>2, <1>4, <1>7, <2>2, <3>2 DEF Offices
    <3>4. k \in Seq(Entry) /\ Len(k) \in Nat /\ Len(b.base) \in Nat
          /\ Len(k) = m.prev_log_id + Len(m.entries)
      <4>1. k \in Seq(Entry) /\ b.base \in Seq(Entry)
        BY <1>1 DEF History, Offices
      <4> QED  BY <3>2, <4>1, LenProperties DEF Carries
    <3>5. Len(k) <= Len(log[i])
      <4>1. CASE Len(k) <= Len(b.base)
        BY <1>2, <1>4, <3>4, <4>1 DEF Leads, Has
      <4>2. CASE Len(k) > Len(b.base)
        <5>1. Len(k) \in 1..Len(k) /\ k[Len(k)].term = current_term[i]
          BY <1>4, <3>2, <3>3, <3>4, <4>2 DEF Leads
        <5>2. Within(k, i)  BY <1>1 DEF History
        <5> QED  BY <5>1, <5>2 DEF Within
      <4> QED  BY <3>4, <4>1, <4>2
    <3>6. m.prev_log_id + Len(m.entries) <= Len(log'[i])
      BY <1>2, <1>3, <3>4, <3>5
    <3>7. ASSUME round'[i].reply.success
          PROVE  \E a \in D : /\ a.who = m.dst /\ a.term = m.term
                              /\ Len(a.log) = m.prev_log_id + Len(m.entries)
      <4>1. current_term \in [Server -> Nat] /\ log \in [Server -> Seq(Entry)]
        BY <1>1 DEF Typing, TypeOK
      <4>2. current_term'[m.dst] = m.term /\ log'[m.dst] = Followed(log[m.dst], m)
        BY <2>2, <3>1, <3>7, <4>1 DEF Adopt
      <4>3. Match(log[m.dst], k) /\ log[m.dst] \in Seq(Entry)
        BY <1>1, <3>1, <4>1 DEF History
      <4>4. Has(log'[m.dst], k, Len(k))
        BY <2>2, <3>1, <3>2, <3>4, <3>7, <4>2, <4>3, Taken
      <4>5. k \in G /\ o.term = current_term'[m.dst]  BY <1>1, <3>2, <4>2
      <4>6. PICK a \in D : a.who = m.dst /\ a.term = current_term'[m.dst] /\ a.log = k
        BY <3>1, <3>2, <4>4, <4>5, NewAccept
      <4> QED  BY <3>4, <4>2, <4>6
    <3> QED  BY <3>6, <3>7
  <2>3. CASE round'[i] # round[i]
    <3>1. PICK m \in net :
            /\ HandleAppendEntries(m) /\ m.src = i /\ round'[i].req = m
            /\ round'[i].reply.success =>
                 /\ ~(m.term < current_term[m.dst])
                 /\ PrevMatches(log[m.dst], m.prev_log_id, m.prev_log_term)
      BY <1>7, <2>3, RoundSteps
    <3> QED  BY <2>2, <3>1
  <2> QED  BY <2>1, <2>3
<1> QED  BY <1>5, <1>6, <1>7 DEF Knows

LEMMA WinnerKnows ==
  ASSUME ~LateRounds, Base, Base', [Next]_vars,
         NEW CONSTANT H, NEW CONSTANT B, NEW CONSTANT V, NEW CONSTANT A,
         NEW CONSTANT D, Explained(H, B, V, A),
         NEW CONSTANT i \in Server, state[i] # "leader", state'[i] = "leader"
  PROVE  Knows(D, i)'
<1>1. /\ Tally(i) /\ current_term' = current_term /\ log' = log
      /\ \A b \in B : b.term # current_term[i]
      /\ \A n \in 1..Len(log[i]) : log[i][n].term < current_term[i]
  <2>1. History(H) /\ Offices(H, B)  BY DEF Explained, Past
  <2> QED  BY <2>1, NewOffice
<1>2. /\ next_id'[i] = FirstNextId(i) /\ match_id'[i] = [j \in Server |-> 0]
      /\ round' = round
  <2>1. PICK got \in SUBSET ballot[i].granted :
          IF Won(i, got)
          THEN /\ next_id' = [next_id EXCEPT ![i] = FirstNextId(i)]
               /\ match_id' = [match_id EXCEPT ![i] = [j \in Server |-> 0]]
          ELSE state' = state
    BY <1>1 DEF Tally
  <2>2. Won(i, got)  BY <2>1
  <2> QED  BY <1>1, <2>1, <2>2 DEF Tally, Base, Typing, TypeOK
<1>3. Len(log[i]) \in Nat /\ current_term[i] \in Nat
      /\ \A n \in 1..Len(log[i]) : log[i][n].term \in Nat
  <2>1. log[i] \in Seq(Entry)  BY DEF Base, Typing, TypeOK
  <2> QED  BY <2>1, LenProperties, EntryTerm DEF Base, Typing, TypeOK
<1>4. \A j \in Server : next_id'[i][j] <= Len(log'[i]) + 1 /\ ~(match_id'[i][j] > 0)
  BY <1>1, <1>2, <1>3 DEF FirstNextId
<1>5. \A n \in 1..Len(log'[i]) : log'[i][n].term # current_term'[i]
  BY <1>1, <1>3
<1>6. ~(round'[i].reply # None /\ round'[i].req.term = current_term'[i])
  BY <1>1, <1>2 DEF Explained, Replication
<1> QED  BY <1>4, <1>5, <1>6 DEF Knows

LEMMA ReplicationStep ==
  ASSUME ~LateRounds, Base, Base', [Next]_vars,
         NEW CONSTANT H, NEW CONSTANT B, NEW CONSTANT V, NEW CONSTANT A,
         NEW CONSTANT G, NEW CONSTANT C, NEW CONSTANT W, NEW CONSTANT D,
         Explained(H, B, V, A), Extended(H, B, V, A, G, C, W, D)
  PROVE  Replication(G, C, D)'
<1>1. /\ Replication(H, B, A) /\ H \subseteq G /\ B \subseteq C /\ A \subseteq D
      /\ G \subseteq Seq(Entry)
  BY DEF Explained, Extended, Grown, History
<1>2. ASSUME NEW m \in net', m.op = "AppendEntries" PROVE Sound(G, C, D, m)
  <2>1. Sound(H, B, A, m)
    <3>1. CASE m \in net  BY <1>1, <1>2, <3>1 DEF Replication
    <3>2. CASE m \notin net  BY <1>2, <3>2, NewSound
    <3> QED  BY <3>1, <3>2
  <2>2. m.term \in Nat /\ m.leader_commit \in Nat
    BY <1>2 DEF Base, Typing, TypeOK, Request, VoteRequest, AppendRequest
  <2> QED  BY <1>1, <2>1, <2>2, SoundGrows
<1>3. ASSUME NEW CONSTANT i \in Server, state'[i] = "leader" PROVE Knows(D, i)'
  BY <1>3, LeaderKnows, WinnerKnows
<1>4. ASSUME NEW i \in Server, round'[i].reply # None
      PROVE  \E b \in C : b.term = round'[i].req.term
  <2>1. CASE round'[i] = round[i]  BY <1>1, <1>4, <2>1 DEF Replication
  <2>2. ASSUME NEW m \in net, HandleAppendEntries(m), round'[i].req = m
        PROVE  \E b \in C : b.term = round'[i].req.term
    <3>1. Sound(H, B, A, m)  BY <1>1, <2>2 DEF Replication, HandleAppendEntries
    <3> QED  BY <1>1, <2>2, <3>1 DEF Sound
  <2> QED  BY <1>4, <2>1, <2>2, RoundSteps
<1> QED  BY <1>2, <1>3, <1>4 DEF Replication, Sound, Chosen, Decided

-----------------------------------------------------------------------------
(* What has been committed.                                                *)

\* What is committed moves when a follower follows, a round ends, or a server
\* starts again.
LEMMA CommitSteps ==
  ASSUME Typing, [Next]_vars, NEW i \in Server
  PROVE  \/ commit_id'[i] = commit_id[i] /\ applied'[i] = applied[i]
         \/ commit_id'[i] = 0 /\ applied'[i] = <<>>
         \/ \E m \in net : HandleAppendEntries(m) /\ m.dst = i
         \/ \E r \in AnswerOf(i) : EndRound(i, r)
<1> DEFINE Same == commit_id'[i] = commit_id[i] /\ applied'[i] = applied[i]
<1>1. commit_id \in [Server -> Nat] /\ applied \in [Server -> Seq(Command)]
  BY DEF Typing, TypeOK
<1>2. UNCHANGED <<commit_id, applied>> => Same  OBVIOUS
<1>3. ASSUME NEW k \in Server, Election(k) \/ Tally(k) \/ Beat(k)
      PROVE  UNCHANGED <<commit_id, applied>>
  BY <1>3 DEF Election, Tally, Beat, node
<1>4. ASSUME NEW k \in Server, NEW r \in AnswerOf(k), NEW j \in Peers(k),
             Replicate(k, j, r)
      PROVE  UNCHANGED <<commit_id, applied>>
  BY <1>4 DEF Replicate
<1>5. ASSUME NEW k \in Server, NEW r \in AnswerOf(k), EndRound(k, r)
      PROVE  Same \/ \E r1 \in AnswerOf(i) : EndRound(i, r1)
  <2>1. CASE k = i  BY <1>5, <2>1
  <2>2. CASE k # i  BY <1>1, <1>5, <2>2 DEF EndRound
  <2> QED  BY <2>1, <2>2
<1>6. ASSUME NEW k \in Server, Volatile(k)
      PROVE  Same \/ (commit_id'[i] = 0 /\ applied'[i] = <<>>)
  BY <1>1, <1>6 DEF Volatile
<1>7. ASSUME NEW m \in net, HandleVoteRequest(m)
      PROVE  UNCHANGED <<commit_id, applied>>
  BY <1>7 DEF HandleVoteRequest
<1>8. ASSUME NEW m \in net, HandleAppendEntries(m), m.dst # i PROVE Same
  BY <1>1, <1>8 DEF HandleAppendEntries
<1>9. ASSUME NEW m \in net, RestartInHandler(m)
      PROVE  Same \/ (commit_id'[i] = 0 /\ applied'[i] = <<>>)
  <2>1. m.dst \in Server
    BY DEF Typing, TypeOK, Request, VoteRequest, AppendRequest
  <2> QED  BY <1>6, <1>9, <2>1 DEF RestartInHandler
<1>10. ASSUME NEW c \in Command,
              (\E k \in Server : Submit(k, c)) \/ Answer(c) \/ GiveUp(c)
       PROVE  UNCHANGED <<commit_id, applied>>
  BY <1>10 DEF Submit, Answer, GiveUp, node
<1>11. CASE UNCHANGED vars  BY <1>11 DEF vars, node
<1>12. ASSUME NEW k \in Server, Restart(k) PROVE Volatile(k)
  BY <1>12 DEF Restart
<1> QED
  BY <1>2, <1>3, <1>4, <1>5, <1>6, <1>7, <1>8, <1>9, <1>10, <1>11, <1>12 DEF Next

\* No server cuts off what it has committed.
LEMMA CommittedStays ==
  ASSUME ~LateRounds, Base, Base', [Next]_vars,
         NEW CONSTANT H, NEW CONSTANT B, NEW CONSTANT V, NEW CONSTANT A,
         Explained(H, B, V, A), NEW i \in Server
  PROVE  Has(log'[i], log[i], commit_id[i])
<1> DEFINE c == commit_id[i]
<1>1. /\ History(H) /\ Offices(H, B) /\ Replication(H, B, A) /\ Past(H, B, V, A)
      /\ Chosen(H, A, log[i], c, current_term[i])
  BY DEF Explained, Past, Commits
<1>2. /\ c \in Nat /\ current_term[i] \in Nat /\ log \in [Server -> Seq(Entry)]
      /\ log[i] \in H /\ log[i] \in Seq(Entry) /\ Len(log[i]) \in Nat
  BY <1>1, LenProperties DEF Base, Typing, TypeOK, History
<1>3. Has(log[i], log[i], c)
  BY <1>1, <1>2 DEF Chosen, Has, Agree
<1> HIDE DEF c
<1>4. CASE log'[i] = log[i]  BY <1>3, <1>4 DEF c
<1>5. ASSUME NEW k \in Server, NEW d \in Command, Submit(k, d)
      PROVE  Has(log'[i], log[i], c)
  <2>1. CASE k = i
    <3>1. log'[i] = Append(log[i], [term |-> current_term[i], command |-> d])
      BY <1>2, <1>5, <2>1 DEF Submit
    <3>2. /\ Len(log'[i]) = Len(log[i]) + 1
          /\ \A n \in 1..Len(log[i]) : log'[i][n] = log[i][n]
      BY <1>2, <3>1, AppendedEntry
    <3> QED  BY <1>2, <1>3, <3>2 DEF Has, Agree
  <2>2. CASE k # i
    <3>1. log'[i] = log[i]  BY <1>2, <1>5, <2>2 DEF Submit
    <3> QED  BY <1>3, <3>1
  <2> QED  BY <2>1, <2>2
<1>6. ASSUME NEW m \in net, HandleAppendEntries(m), log'[i] # log[i]
      PROVE  Has(log'[i], log[i], c)
  <2>1. /\ m.dst = i /\ m.op = "AppendEntries" /\ ~(m.term < current_term[i])
        /\ log'[i] = Followed(log[i], m)
        /\ m.term \in Nat /\ m.prev_log_id \in Nat /\ m.entries \in Seq(Entry)
    BY <1>2, <1>6, FollowerLog DEF AppendRequest
  <2>2. PICK b \in B, k \in H : b.term = m.term /\ Leads(k, b) /\ Carries(m, k)
    BY <1>1, <2>1 DEF Replication, Sound
  <2>3. current_term[i] <= b.term  BY <1>2, <2>1, <2>2
  <2>4. \A x \in 1..c : x <= Len(k) => k[x] = log[i][x]
    BY <1>1, <1>2, <2>2, <2>3, LeadersFollow DEF c
  <2>5. k \in Seq(Entry) /\ Match(log[i], k)  BY <1>1, <1>2 DEF History
  <2>6. Has(Followed(log[i], m), log[i], c)
    BY <1>2, <1>3, <2>1, <2>2, <2>4, <2>5, Survives
  <2> QED  BY <2>1, <2>6
<1> QED  BY <1>4, <1>5, <1>6, LogSteps DEF Base, c

\* What is applied continues what was applied before.
LEMMA ApplyContinues ==
  ASSUME NEW done \in Seq(Command), NEW k \in Seq(Entry), NEW c \in Nat,
         c <= Len(k), Len(done) < c, NEW l,
         \A n \in 1..Len(done) : l[n].command = done[n] /\ l[n] = k[n]
  PROVE  /\ Len(Apply(done, k, c)) = c
         /\ \A n \in 1..c : k[n].command = Apply(done, k, c)[n]
<1> DEFINE d == Len(done)
           new == [n \in 1..c - d |-> k[d + n].command]
<1>1. d \in Nat /\ Len(k) \in Nat /\ c - d \in Nat  BY LenProperties
<1>2. new \in [1..c - d -> Command]
  <2>1. ASSUME NEW n \in 1..c - d PROVE k[d + n].command \in Command
    <3>1. d + n \in 1..Len(k)  BY <1>1
    <3> QED  BY <3>1, EntryTerm
  <2> QED  BY <2>1
<1>3. \A n \in 1..c - d : new[n] = k[d + n].command  OBVIOUS
<1>4. Apply(done, k, c) = done \o new  BY DEF Apply
<1> HIDE DEF new
<1>5. new \in Seq(Command) /\ Len(new) = c - d  BY <1>1, <1>2, FunctionIsSeq
<1>6. /\ Len(done \o new) = c
      /\ \A n \in 1..c : (done \o new)[n] = IF n <= d THEN done[n] ELSE new[n - d]
  BY <1>1, <1>5, ConcatProperties
<1>7. ASSUME NEW n \in 1..c PROVE k[n].command = (done \o new)[n]
  <2>1. CASE n <= d  BY <1>1, <1>6, <2>1
  <2>2. CASE ~(n <= d)
    <3>1. n - d \in 1..c - d /\ d + (n - d) = n  BY <1>1, <2>2
    <3> QED  BY <1>3, <1>6, <2>2, <3>1
  <2> QED  BY <2>1, <2>2
<1> QED  BY <1>4, <1>6, <1>7

OneSequence(H, B, V, A) ==
  Past(H, B, V, A) =>
    \A j, k : \A c, d, u, w \in Nat :
      Chosen(H, A, j, c, u) /\ Chosen(H, A, k, d, w) =>
        \A x \in 1..c : x \in 1..d => j[x] = k[x]

\* ChosenAgree of the state after a step
LEMMA ChosenAgreeNext ==
  ASSUME NEW CONSTANT H, NEW CONSTANT B, NEW CONSTANT V, NEW CONSTANT A
  PROVE  OneSequence(H, B, V, A)'
<1>1. OneSequence(H, B, V, A)  BY ChosenAgree DEF OneSequence
<1> QED  BY <1>1, PTL

\* What was applied is the beginning of a log that was chosen.
Handed(H, A, i) ==
  \E l \in H : /\ Len(applied[i]) <= Len(l)
               /\ \A n \in 1..Len(applied[i]) : l[n].command = applied[i][n]
               /\ Chosen(H, A, l, Len(applied[i]), current_term[i])

LEMMA HandedGrows ==
  ASSUME Base, Base', [Next]_vars,
         NEW CONSTANT H, NEW CONSTANT A, NEW CONSTANT G, NEW CONSTANT D,
         H \subseteq G, G \subseteq Seq(Entry), A \subseteq D,
         NEW i \in Server, Handed(H, A, i)
  PROVE  \E l \in G : /\ Len(applied[i]) <= Len(l)
                      /\ \A n \in 1..Len(applied[i]) : l[n].command = applied[i][n]
                      /\ Chosen(G, D, l, Len(applied[i]), current_term'[i])
<1>1. PICK l \in H : /\ Len(applied[i]) <= Len(l)
                     /\ \A n \in 1..Len(applied[i]) : l[n].command = applied[i][n]
                     /\ Chosen(H, A, l, Len(applied[i]), current_term[i])
  BY DEF Handed
<1>2. /\ Len(applied[i]) \in Nat /\ current_term[i] \in Nat
      /\ current_term'[i] \in Nat /\ current_term[i] <= current_term'[i]
  <2>1. current_term[i] <= current_term'[i]  BY StepVotes DEF Base, VotesStay
  <2> QED  BY <2>1, LenProperties DEF Base, Typing, TypeOK
<1>3. Has(l, l, Len(applied[i]))  BY <1>1 DEF Has, Agree
<1>4. Len(applied[i]) <= Len(applied[i])  BY <1>2
<1>5. Chosen(G, D, l, Len(applied[i]), current_term'[i])
  BY <1>1, <1>2, <1>3, <1>4, ChosenGrows
<1> QED  BY <1>1, <1>5

\* Applying what has just been committed
LEMMA HandedOver ==
  ASSUME Base, Base', [Next]_vars,
         NEW CONSTANT H, NEW CONSTANT A, NEW CONSTANT G, NEW CONSTANT C,
         NEW CONSTANT W, NEW CONSTANT D, Past(G, C, W, D)',
         H \subseteq G, G \subseteq Seq(Entry), A \subseteq D,
         NEW i \in Server, Handed(H, A, i), NEW c \in Nat, c <= Len(log'[i]),
         Chosen(G, D, log'[i], c, current_term'[i]),
         applied'[i] = Apply(applied[i], log'[i], c)
  PROVE  \E l \in G : /\ Len(applied'[i]) <= Len(l)
                      /\ \A n \in 1..Len(applied'[i]) : l[n].command = applied'[i][n]
                      /\ Chosen(G, D, l, Len(applied'[i]), current_term'[i])
<1>1. PICK l \in G : /\ Len(applied[i]) <= Len(l)
                     /\ \A n \in 1..Len(applied[i]) : l[n].command = applied[i][n]
                     /\ Chosen(G, D, l, Len(applied[i]), current_term'[i])
  BY HandedGrows
<1>2. /\ Len(applied[i]) \in Nat /\ applied[i] \in Seq(Command)
      /\ log'[i] \in Seq(Entry) /\ current_term'[i] \in Nat
  BY LenProperties DEF Base, Typing, TypeOK
<1>3. CASE c <= Len(applied[i])
  <2>1. applied'[i] = applied[i]  BY <1>2, <1>3 DEF Apply
  <2> QED  BY <1>1, <2>1
<1>4. CASE Len(applied[i]) < c
  <2>1. PICK k \in Seq(Entry), t \in Nat, done \in Seq(Command), e \in Nat :
          k = log'[i] /\ t = current_term'[i] /\ done = applied[i] /\ e = Len(done)
    BY <1>2
  <2>2. \A n \in 1..e : l[n].command = done[n] /\ l[n] = k[n]
    <3>1. OneSequence(G, C, W, D)'  BY ChosenAgreeNext
    <3>2. \A j1, k1 : \A d1, e1, u1, w1 \in Nat :
            Chosen(G, D, j1, d1, u1) /\ Chosen(G, D, k1, e1, w1) =>
              \A x \in 1..d1 : x \in 1..e1 => j1[x] = k1[x]
      BY <3>1 DEF OneSequence
    <3>3. Chosen(G, D, l, e, t) /\ Chosen(G, D, k, c, t)  BY <1>1, <2>1
    <3>4. \A x \in 1..e : x \in 1..c => l[x] = k[x]
      BY <3>2, <3>3
    <3>5. \A x \in 1..e : x \in 1..c  BY <1>4, <2>1
    <3> QED  BY <1>1, <2>1, <3>4, <3>5
  <2>3. e < c /\ c <= Len(k)  BY <1>4, <2>1
  <2>4. /\ Len(Apply(done, k, c)) = c
        /\ \A n \in 1..c : k[n].command = Apply(done, k, c)[n]
    <3>1. Len(done) < c /\ \A n \in 1..Len(done) : l[n].command = done[n] /\ l[n] = k[n]
      BY <2>1, <2>2, <2>3
    <3> QED  BY <2>3, <3>1, ApplyContinues
  <2>5. applied'[i] = Apply(done, k, c)  BY <2>1
  <2>6. log'[i] \in G  BY DEF Past, History
  <2> QED  BY <2>1, <2>3, <2>4, <2>5, <2>6
<1> QED  BY <1>2, <1>3, <1>4

\* A leader commits what a majority has accepted from it.
LEMMA NewlyChosen ==
  ASSUME ~LateRounds, Base, Base', [Next]_vars,
         NEW CONSTANT H, NEW CONSTANT B, NEW CONSTANT V, NEW CONSTANT A,
         NEW CONSTANT G, NEW CONSTANT C, NEW CONSTANT W, NEW CONSTANT D,
         Explained(H, B, V, A), Extended(H, B, V, A, G, C, W, D),
         Past(G, C, W, D)', NEW i \in Server, NEW r \in AnswerOf(i), EndRound(i, r),
         NEW n \in Committable(i, StateOn(i, r), TermOn(i, r), MatchOn(i, r))
  PROVE  Chosen(G, D, log'[i], n, current_term'[i])
<1>1. /\ log' = log /\ state'[i] = StateOn(i, r) /\ current_term'[i] = TermOn(i, r)
      /\ match_id'[i] = MatchOn(i, r)
  BY DEF EndRound, Return, Base, Typing, TypeOK
<1>2. /\ n \in commit_id[i] + 1..Len(log[i]) /\ state'[i] = "leader"
      /\ Cardinality({j \in Peers(i) : match_id'[i][j] >= n}) + 1 >= Majority
      /\ log[i][n].term = current_term'[i]
  BY <1>1 DEF Committable
<1>3. /\ log'[i] \in G /\ log'[i] \in Seq(Entry) /\ Len(log'[i]) \in Nat
      /\ n \in 1..Len(log'[i]) /\ n \in Nat
      /\ current_term'[i] \in Nat /\ match_id'[i] \in [Server -> Nat]
  BY <1>1, <1>2, LenProperties DEF Past, History, Base, Typing, TypeOK
<1>4. state[i] = "leader"
  BY <1>1, <1>2, AnswerTypes DEF StateOn, StateAfter, Base
<1>5. Knows(D, i)'  BY <1>2, <1>4, LeaderKnows
<1>6. PICK b \in C : b.term = current_term'[i] /\ Leads(log'[i], b)
  BY <1>2 DEF Past, Offices
<1> DEFINE P == {j \in Peers(i) : match_id'[i][j] >= n}
           Q == P \cup {i}
<1>7. ASSUME NEW v \in Q
      PROVE  \E a \in D : a.who = v /\ a.term = current_term'[i] /\ Has(a.log, log'[i], n)
  <2>1. \E a \in D : a.who = v /\ a.term = current_term'[i] /\ n <= Len(a.log)
    <3>1. CASE v = i
      BY <1>1, <1>2, <1>3, <1>5, <3>1 DEF Knows
    <3>2. CASE v # i
      <4>1. v \in Server /\ match_id'[i][v] >= n  BY <1>7, <3>2 DEF Peers
      <4>2. match_id'[i][v] > 0 /\ match_id'[i][v] \in Nat  BY <1>3, <4>1
      <4>3. PICK a \in D : /\ a.who = v /\ a.term = current_term'[i]
                           /\ match_id'[i][v] <= Len(a.log)
        BY <1>5, <4>1, <4>2 DEF Knows
      <4>4. Len(a.log) \in Nat
        <5>1. a.log \in Seq(Entry)  BY DEF Past, Accepts, History
        <5> QED  BY <5>1, LenProperties
      <4> QED  BY <1>3, <4>1, <4>2, <4>3, <4>4
    <3> QED  BY <3>1, <3>2
  <2>2. PICK a \in D : a.who = v /\ a.term = current_term'[i] /\ n <= Len(a.log)
    BY <2>1
  <2>3. a.log \in G /\ Leads(a.log, b)
    BY <1>6, <2>2 DEF Past, Accepts, Offices
  <2>4. b.base \in Seq(Entry) /\ a.log \in Seq(Entry) /\ Match(log'[i], a.log)
    BY <1>3, <2>3 DEF Past, Offices, History
  <2>5. Agree(log'[i], a.log, n)
    BY <1>3, <1>6, <2>2, <2>3, <2>4, LeadsAgree
  <2> QED  BY <1>3, <2>2, <2>5 DEF Has, Agree
<1>8. Cardinality(Q) >= Majority /\ Q \in SUBSET Server
  <2>1. P \in SUBSET Server /\ i \notin P  BY DEF Peers
  <2>2. IsFiniteSet(P)  BY <2>1, ServerAssumption, FS_Subset
  <2>3. Cardinality(P) + 1 >= Majority  BY <1>2
  <2> HIDE DEF P
  <2>4. Cardinality(P \cup {i}) = Cardinality(P) + 1  BY <2>1, <2>2, FS_AddElement
  <2> QED  BY <2>1, <2>3, <2>4
<1> HIDE DEF Q
<1>9. Decided(D, log'[i], n)
  BY <1>1, <1>2, <1>3, <1>7, <1>8 DEF Decided
<1>10. Has(log'[i], log'[i], n)  BY <1>3 DEF Has, Agree
<1> QED  BY <1>1, <1>2, <1>3, <1>9, <1>10 DEF Chosen

LEMMA CommitsStep ==
  ASSUME ~LateRounds, Base, Base', [Next]_vars,
         NEW CONSTANT H, NEW CONSTANT B, NEW CONSTANT V, NEW CONSTANT A,
         NEW CONSTANT G, NEW CONSTANT C, NEW CONSTANT W, NEW CONSTANT D,
         Explained(H, B, V, A), Extended(H, B, V, A, G, C, W, D)
  PROVE  Commits(G, D)'
<1>1. /\ History(H) /\ Offices(H, B) /\ Replication(H, B, A) /\ Commits(H, A) /\ Typing
      /\ H \subseteq G /\ A \subseteq D /\ G \subseteq Seq(Entry)
  BY DEF Explained, Past, Extended, Grown, Base, History
<1>2. Past(G, C, W, D)'
  BY OfficesStep, VotesStep, AcceptsStep DEF Past, Extended
<1> SUFFICES ASSUME NEW i \in Server
             PROVE  /\ Chosen(G, D, log'[i], commit_id'[i], current_term'[i])
                    /\ \E l \in G :
                         /\ Len(applied'[i]) <= Len(l)
                         /\ \A n \in 1..Len(applied'[i]) : l[n].command = applied'[i][n]
                         /\ Chosen(G, D, l, Len(applied'[i]), current_term'[i])
  BY DEF Commits, Chosen, Decided
<1>3. /\ commit_id[i] \in Nat /\ commit_id[i] <= Len(applied[i])
      /\ applied \in [Server -> Seq(Command)] /\ commit_id \in [Server -> Nat]
      /\ Len(applied[i]) \in Nat /\ current_term[i] \in Nat
      /\ current_term'[i] \in Nat /\ current_term[i] <= current_term'[i]
      /\ log \in [Server -> Seq(Entry)] /\ log'[i] \in Seq(Entry)
      /\ log'[i] \in G /\ Len(log'[i]) \in Nat
  <2>1. current_term[i] <= current_term'[i]  BY StepVotes DEF Base, VotesStay
  <2>2. log'[i] \in G  BY <1>2 DEF Past, History
  <2> QED  BY <1>1, <2>1, <2>2, LenProperties DEF Base, Typing, TypeOK
<1>4. Chosen(G, D, log'[i], commit_id[i], current_term'[i])
  <2>1. Chosen(H, A, log[i], commit_id[i], current_term[i])  BY <1>1 DEF Commits
  <2>2. Has(log'[i], log[i], commit_id[i])  BY CommittedStays
  <2>3. commit_id[i] <= commit_id[i]  BY <1>3
  <2> QED  BY <1>1, <1>3, <2>1, <2>2, <2>3, ChosenGrows
<1>5. Handed(H, A, i)  BY <1>1 DEF Commits, Handed
<1>6. CASE commit_id'[i] = commit_id[i] /\ applied'[i] = applied[i]
  BY <1>1, <1>4, <1>5, <1>6, HandedGrows
<1>7. CASE commit_id'[i] = 0 /\ applied'[i] = <<>>
  BY <1>3, <1>7 DEF Chosen
<1>8. ASSUME NEW c \in Nat, commit_id'[i] = c,
             applied'[i] = Apply(applied[i], log'[i], c), c <= Len(log'[i]),
             Chosen(G, D, log'[i], c, current_term'[i])
      PROVE  /\ Chosen(G, D, log'[i], commit_id'[i], current_term'[i])
             /\ \E l \in G :
                  /\ Len(applied'[i]) <= Len(l)
                  /\ \A n \in 1..Len(applied'[i]) : l[n].command = applied'[i][n]
                  /\ Chosen(G, D, l, Len(applied'[i]), current_term'[i])
  BY <1>1, <1>2, <1>5, <1>8, HandedOver
<1>9. Apply(applied[i], log'[i], commit_id[i]) = applied[i]
  BY <1>3 DEF Apply
\* A follower commits what the request says is committed.
<1>10. ASSUME NEW m \in net, HandleAppendEntries(m), m.dst = i
       PROVE  \/ commit_id'[i] = commit_id[i] /\ applied'[i] = applied[i]
              \/ \E c \in Nat : /\ commit_id'[i] = c /\ c <= Len(log'[i])
                                /\ applied'[i] = Apply(applied[i], log'[i], c)
                                /\ Chosen(G, D, log'[i], c, current_term'[i])
  <2> DEFINE success == /\ ~(m.term < current_term[i])
                        /\ PrevMatches(log[i], m.prev_log_id, m.prev_log_term)
             new == IF success THEN Merge(log[i], m.prev_log_id, m.entries)
                    ELSE IF ~(m.term < current_term[i]) /\ ~success
                            /\ m.prev_log_id <= Len(log[i])
                         THEN SubSeq(log[i], 1, m.prev_log_id - 1)
                         ELSE log[i]
             commit == IF success /\ m.leader_commit > commit_id[i]
                       THEN IF m.leader_commit <= Len(new) THEN m.leader_commit
                            ELSE Len(new)
                       ELSE commit_id[i]
  <2>1. /\ log' = [log EXCEPT ![i] = new]
        /\ commit_id' = [commit_id EXCEPT ![i] = commit]
        /\ applied' = [applied EXCEPT ![i] = Apply(@, new, commit)]
    BY <1>10 DEF HandleAppendEntries
  <2>2. log'[i] = new /\ commit_id'[i] = commit /\ applied'[i] = Apply(applied[i], new, commit)
    BY <1>3, <2>1
  <2>3. commit = IF success /\ m.leader_commit > commit_id[i]
                 THEN IF m.leader_commit <= Len(new) THEN m.leader_commit ELSE Len(new)
                 ELSE commit_id[i]
    OBVIOUS
  <2> HIDE DEF new, commit
  <2>4. CASE ~(success /\ m.leader_commit > commit_id[i])
    BY <1>9, <2>2, <2>3, <2>4
  <2>5. CASE success /\ m.leader_commit > commit_id[i]
    <3>1. /\ m.op = "AppendEntries" /\ m.term \in Nat /\ m.leader_commit \in Nat
          /\ m.prev_log_id \in Nat /\ m.entries \in Seq(Entry)
          /\ current_term' = [current_term EXCEPT ![i] = Adopt(i, m.term)]
          /\ log' = [log EXCEPT ![i] = IF m.term < current_term[i] THEN log[i]
                                       ELSE Followed(log[i], m)]
      BY <1>10, FollowerLog DEF Base, AppendRequest
    <3>2. log'[i] = Followed(log[i], m) /\ current_term'[i] = m.term
      <4>1. current_term \in [Server -> Nat]  BY <1>1 DEF Typing, TypeOK
      <4> QED  BY <1>3, <2>5, <3>1, <4>1 DEF Adopt
    <3>3. PICK k \in H : /\ Carries(m, k) /\ m.leader_commit <= Len(k)
                         /\ Chosen(H, A, k, m.leader_commit, m.term)
      BY <1>1, <3>1 DEF Replication, Sound
    <3>4. /\ k \in Seq(Entry) /\ Len(k) \in Nat /\ log[i] \in Seq(Entry)
          /\ Match(log[i], k)
      <4>1. k \in Seq(Entry) /\ log[i] \in Seq(Entry) /\ Match(log[i], k)
        BY <1>1 DEF History
      <4> QED  BY <4>1, LenProperties
    <3>5. Has(log'[i], k, Len(k))  BY <2>5, <3>1, <3>2, <3>3, <3>4, Taken
    <3>6. Has(log'[i], k, m.leader_commit) /\ m.leader_commit <= Len(log'[i])
      BY <1>3, <3>1, <3>3, <3>4, <3>5 DEF Has, Agree
    <3>7. Chosen(G, D, log'[i], m.leader_commit, current_term'[i])
      <4>1. m.leader_commit <= m.leader_commit /\ m.term <= current_term'[i]
        BY <3>1, <3>2
      <4> QED  BY <1>1, <1>3, <3>1, <3>3, <3>6, <4>1, ChosenGrows
    <3>8. commit = m.leader_commit  BY <2>2, <2>3, <2>5, <3>6
    <3> QED  BY <2>2, <3>1, <3>6, <3>7, <3>8
  <2> QED  BY <2>4, <2>5
\* A leader commits what a majority has.
<1>11. ASSUME NEW r \in AnswerOf(i), EndRound(i, r)
       PROVE  \/ commit_id'[i] = commit_id[i] /\ applied'[i] = applied[i]
              \/ \E c \in Nat : /\ commit_id'[i] = c /\ c <= Len(log'[i])
                                /\ applied'[i] = Apply(applied[i], log'[i], c)
                                /\ Chosen(G, D, log'[i], c, current_term'[i])
  <2> DEFINE ready == Committable(i, StateOn(i, r), TermOn(i, r), MatchOn(i, r))
             commit == IF ready = {} THEN commit_id[i] ELSE Max(ready)
  <2>1. /\ log' = log
        /\ commit_id' = [commit_id EXCEPT ![i] = commit]
        /\ applied' = [applied EXCEPT ![i] = Apply(@, log[i], commit)]
    BY <1>11 DEF EndRound
  <2>2. commit_id'[i] = commit /\ applied'[i] = Apply(applied[i], log'[i], commit)
    BY <1>3, <2>1
  <2>3. CASE ready = {}  BY <1>9, <2>2, <2>3
  <2>4. CASE ready # {}
    <3>1. ready \subseteq 1..Len(log'[i])
      BY <1>3, <2>1 DEF Committable
    <3>2. Max(ready) \in ready
      <4>1. ready \in SUBSET Nat /\ \A y \in ready : y <= Len(log'[i])
        BY <1>3, <3>1
      <4> HIDE DEF ready
      <4> QED  BY <1>3, <2>4, <4>1, MaxExists
    <3>3. Chosen(G, D, log'[i], Max(ready), current_term'[i])
      BY <1>2, <1>11, <3>2, NewlyChosen
    <3>4. commit = Max(ready) /\ commit \in Nat /\ commit <= Len(log'[i])
      BY <1>3, <2>4, <3>1, <3>2
    <3> QED  BY <2>2, <3>3, <3>4
  <2> QED  BY <2>3, <2>4
<1> QED  BY <1>1, <1>6, <1>7, <1>8, <1>10, <1>11, CommitSteps

-----------------------------------------------------------------------------

Explainable == \E H, B, V, A : Explained(H, B, V, A)

\* In the beginning there is the empty log.
LEMMA InitPast == Init => Explained({<<>>}, {}, {}, {})
<1> SUFFICES ASSUME Init PROVE Explained({<<>>}, {}, {}, {})  OBVIOUS
<1>1. History({<<>>})  BY DEF Init, History, Match, Within
<1>2. Offices({<<>>}, {})
  BY DEF Init, Offices, Sorted, Dense
<1>3. Votes({<<>>}, {}, {})
  BY DEF Init, Votes, Running, Closed
<1>4. Accepts({<<>>}, {}, {}, {})  BY DEF Accepts
<1>5. Replication({<<>>}, {}, {})
  BY DEF Init, Replication, Idle
<1>6. Commits({<<>>}, {})
  BY DEF Init, Commits, Chosen
<1> QED  BY <1>1, <1>2, <1>3, <1>4, <1>5, <1>6 DEF Explained, Past

LEMMA InitExplained == Init => Explainable
BY InitPast DEF Explainable

LEMMA ExplainedStep ==
  ASSUME ~LateRounds, Base, Base', [Next]_vars,
         NEW CONSTANT H, NEW CONSTANT B, NEW CONSTANT V, NEW CONSTANT A,
         NEW CONSTANT G, NEW CONSTANT C, NEW CONSTANT W, NEW CONSTANT D,
         Explained(H, B, V, A), Extended(H, B, V, A, G, C, W, D)
  PROVE  Explained(G, C, W, D)'
<1>1. Past(G, C, W, D)'
  BY OfficesStep, VotesStep, AcceptsStep DEF Explained, Past, Extended
<1>2. Replication(G, C, D)'  BY ReplicationStep
<1>3. Commits(G, D)'  BY CommitsStep
<1> QED  BY <1>1, <1>2, <1>3 DEF Explained

LEMMA StepExplained ==
  ASSUME ~LateRounds, Base, Base', Explainable, [Next]_vars
  PROVE  Explainable'
<1>1. PICK H, B, V, A : Explained(H, B, V, A)  BY DEF Explainable
<1>2. PICK G, C, W, D : Extended(H, B, V, A, G, C, W, D)
  BY <1>1, CanExtend DEF Explained, Past
<1>3. Explained(G, C, W, D)'  BY <1>1, <1>2, ExplainedStep
<1> QED  BY <1>3 DEF Explainable

LEMMA AlwaysExplained ==
  ASSUME ~LateRounds
  PROVE  Spec => []Explainable
<1>1. Typing /\ Typing' /\ VotesBacked /\ VotesBacked' /\ Sent /\ Sent'
        /\ Explainable /\ [Next]_vars => Explainable'
  BY StepExplained DEF Base
<1> QED
  BY <1>1, InitExplained, TypingInvariant, VotesInvariant, SentHolds, PTL DEF Spec

LEMMA ExplainedSafe ==
  Typing /\ Explainable => StateMachineSafety /\ LeaderCompleteness /\ AppliedIsStored
BY AppliedSafe DEF Explainable

\* Two servers never apply different commands at the same place of the log
\* (apply_commited_entries), whatever is lost or late and whoever crashes.
THEOREM StateMachinesAgree ==
  ASSUME ~LateRounds
  PROVE  Spec => []StateMachineSafety
BY ExplainedSafe, AlwaysExplained, TypingInvariant, PTL

\* Whoever leads has all that was applied in its term or before (vote,
\* update_commit_id).
THEOREM LeadersAreComplete ==
  ASSUME ~LateRounds
  PROVE  Spec => []LeaderCompleteness
BY ExplainedSafe, AlwaysExplained, TypingInvariant, PTL

\* What a server has applied is in the saved logs of a majority, so that no
\* crash loses it (_save_state).
THEOREM AppliedStored ==
  ASSUME ~LateRounds
  PROVE  Spec => []AppliedIsStored
BY ExplainedSafe, AlwaysExplained, TypingInvariant, PTL

=============================================================================

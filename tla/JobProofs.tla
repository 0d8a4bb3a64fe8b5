----------------------------- MODULE JobProofs ------------------------------
(***************************************************************************)
(* Theorems about Job, for any workers, input, kills and snapshots, if a   *)
(* worker has one connection at a time: until the coordinator restarts, no *)
(* task is lost, handed out twice or counted twice, and no saved snapshot  *)
(* ever counts a task that it hands out again.                             *)
(***************************************************************************)
EXTENDS Job, FiniteSetTheorems, SequenceTheorems, TLAPS

-----------------------------------------------------------------------------
(* Tasks that are queued, ts, in progress, p, and finished, f of tot.      *)

Holders(p) == {w \in Worker : p[w] # None}

\* No task is at two places, and with the finished ones they are all.
Accounts(ts, p, f, tot) ==
  /\ ts \in Seq(Task) /\ p \in [Worker -> Task \cup {None}] /\ f \in Nat
  /\ \A j, k \in 1..Len(ts) : ts[j] = ts[k] => j = k
  /\ \A v, w \in Worker : p[v] # None /\ p[v] = p[w] => v = w
  /\ \A k \in 1..Len(ts), w \in Worker : ts[k] # p[w]
  /\ IsFiniteSet(Unfinished(ts, p))
  /\ f + Cardinality(Unfinished(ts, p)) = tot
  /\ Len(ts) + Cardinality(Holders(p)) = Cardinality(Unfinished(ts, p))

LEMMA UnfinishedIs ==
  ASSUME NEW ts \in Seq(Task), NEW p \in [Worker -> Task \cup {None}], NEW u
  PROVE  u \in Unfinished(ts, p) <=> \/ \E k \in 1..Len(ts) : u = ts[k]
                                     \/ \E w \in Worker : u = p[w] /\ u # None
BY LenProperties DEF Unfinished, Values

LEMMA HoldersFinite ==
  ASSUME NEW p
  PROVE  IsFiniteSet(Holders(p)) /\ Cardinality(Holders(p)) \in Nat
<1>1. Holders(p) \in SUBSET Worker  BY DEF Holders
<1> QED  BY <1>1, WorkerAssumption, FS_Subset, FS_CardinalityType

\* Queueing again what a worker had in progress (the finally clause)
LEMMA Requeued ==
  ASSUME NEW ts, NEW p, NEW f, NEW tot, Accounts(ts, p, f, tot),
         NEW w \in Worker, p[w] # None
  PROVE  /\ Accounts(<<p[w]>> \o ts, [p EXCEPT ![w] = None], f, tot)
         /\ Unfinished(<<p[w]>> \o ts, [p EXCEPT ![w] = None]) = Unfinished(ts, p)
<1> DEFINE t == p[w]
           qs == <<t>> \o ts
           q == [p EXCEPT ![w] = None]
<1>1. /\ ts \in Seq(Task) /\ p \in [Worker -> Task \cup {None}] /\ Len(ts) \in Nat
      /\ t \in Task
  BY LenProperties DEF Accounts
<1>2. q \in [Worker -> Task \cup {None}] /\ q[w] = None
      /\ \A v \in Worker \ {w} : q[v] = p[v]
  BY <1>1
<1>3. /\ qs \in Seq(Task) /\ Len(qs) = Len(ts) + 1 /\ qs[1] = t
      /\ \A k \in 2..Len(ts) + 1 : qs[k] = ts[k - 1]
  <2>1. <<t>> \in Seq(Task) /\ Len(<<t>>) = 1 /\ <<t>>[1] = t  BY <1>1
  <2>2. /\ qs \in Seq(Task) /\ Len(qs) = 1 + Len(ts)
        /\ \A k \in 1..1 + Len(ts) : qs[k] = IF k <= 1 THEN <<t>>[k] ELSE ts[k - 1]
    BY <1>1, <2>1, ConcatProperties
  <2> QED  BY <1>1, <2>1, <2>2
<1> HIDE DEF qs, q
<1>4. \A k \in 1..Len(qs) : k = 1 \/ (k - 1 \in 1..Len(ts) /\ qs[k] = ts[k - 1])
  BY <1>1, <1>3
<1>5. \A j, k \in 1..Len(qs) : qs[j] = qs[k] => j = k
  <2> SUFFICES ASSUME NEW j \in 1..Len(qs), NEW k \in 1..Len(qs), qs[j] = qs[k]
               PROVE  j = k
    OBVIOUS
  <2>1. \A n \in 1..Len(ts) : ts[n] # t  BY DEF Accounts
  <2>2. CASE j = 1 \/ k = 1  BY <1>3, <1>4, <2>1, <2>2
  <2>3. CASE j # 1 /\ k # 1
    <3>1. ts[j - 1] = ts[k - 1] /\ j - 1 \in 1..Len(ts) /\ k - 1 \in 1..Len(ts)
      BY <1>4, <2>3
    <3>2. j - 1 = k - 1  BY <3>1 DEF Accounts
    <3> QED  BY <1>3, <3>2
  <2> QED  BY <2>2, <2>3
<1>6. \A u, v \in Worker : q[u] # None /\ q[u] = q[v] => u = v
  BY <1>2 DEF Accounts
<1>7. \A k \in 1..Len(qs), v \in Worker : qs[k] # q[v]
  <2> SUFFICES ASSUME NEW k \in 1..Len(qs), NEW v \in Worker PROVE qs[k] # q[v]
    OBVIOUS
  <2>1. qs[k] \in Task  BY <1>3, ElementOfSeq
  <2>2. CASE v = w  BY <1>2, <2>1, <2>2, TaskAssumption
  <2>3. CASE v # w /\ k = 1
    <3>1. q[v] = p[v] /\ qs[k] = p[w]  BY <1>2, <1>3, <2>3
    <3> QED  BY <2>3, <3>1 DEF Accounts
  <2>4. CASE v # w /\ k # 1
    <3>1. q[v] = p[v] /\ k - 1 \in 1..Len(ts) /\ qs[k] = ts[k - 1]
      BY <1>2, <1>4, <2>4
    <3> QED  BY <3>1 DEF Accounts
  <2> QED  BY <2>2, <2>3, <2>4
<1>8. Unfinished(qs, q) = Unfinished(ts, p)
  <2>1. ASSUME NEW u \in Unfinished(qs, q) PROVE u \in Unfinished(ts, p)
    <3>1. CASE \E k \in 1..Len(qs) : u = qs[k]
      BY <1>1, <1>3, <1>4, <3>1, UnfinishedIs
    <3>2. CASE \E v \in Worker : u = q[v] /\ u # None
      BY <1>1, <1>2, <3>2, UnfinishedIs
    <3> QED  BY <1>2, <1>3, <3>1, <3>2, UnfinishedIs
  <2>2. ASSUME NEW u \in Unfinished(ts, p) PROVE u \in Unfinished(qs, q)
    <3>1. ASSUME NEW k \in 1..Len(ts), u = ts[k] PROVE u \in Unfinished(qs, q)
      <4>1. k + 1 \in 1..Len(qs) /\ qs[k + 1] = ts[k]  BY <1>1, <1>3
      <4> QED  BY <1>2, <1>3, <3>1, <4>1, UnfinishedIs
    <3>2. ASSUME NEW v \in Worker, u = p[v], u # None PROVE u \in Unfinished(qs, q)
      <4>1. CASE v = w
        <5>1. 1 \in 1..Len(qs)  BY <1>1, <1>3
        <5> QED  BY <1>2, <1>3, <3>2, <4>1, <5>1, UnfinishedIs
      <4>2. CASE v # w  BY <1>2, <1>3, <3>2, <4>2, UnfinishedIs
      <4> QED  BY <4>1, <4>2
    <3> QED  BY <1>1, <3>1, <3>2, UnfinishedIs
  <2> QED  BY <2>1, <2>2
<1>9. Cardinality(Holders(q)) = Cardinality(Holders(p)) - 1
  <2>1. Holders(q) = Holders(p) \ {w} /\ w \in Holders(p)  BY <1>2 DEF Holders
  <2> QED  BY <2>1, HoldersFinite, FS_RemoveElement
<1>10. Len(qs) + Cardinality(Holders(q)) = Len(ts) + Cardinality(Holders(p))
  BY <1>1, <1>3, <1>9, HoldersFinite
<1>11. Accounts(qs, q, f, tot)
  BY <1>2, <1>3, <1>5, <1>6, <1>7, <1>8, <1>10 DEF Accounts
<1> QED  BY <1>8, <1>11 DEF qs, q

\* Handing out the first task of the queue
LEMMA Assigned ==
  ASSUME NEW ts, NEW p, NEW f, NEW tot, Accounts(ts, p, f, tot), ts # <<>>,
         NEW w \in Worker, p[w] = None
  PROVE  /\ Accounts(Tail(ts), [p EXCEPT ![w] = Head(ts)], f, tot)
         /\ Unfinished(Tail(ts), [p EXCEPT ![w] = Head(ts)]) = Unfinished(ts, p)
<1> DEFINE t == Head(ts)
           qs == Tail(ts)
           q == [p EXCEPT ![w] = t]
<1>1. /\ ts \in Seq(Task) /\ p \in [Worker -> Task \cup {None}]
      /\ Len(ts) \in Nat /\ Len(ts) > 0
  BY LenProperties, EmptySeq DEF Accounts
<1>2. /\ t = ts[1] /\ t \in Task /\ 1 \in 1..Len(ts)
  <2>1. t = ts[1] /\ 1 \in 1..Len(ts)  BY <1>1
  <2> QED  BY <1>1, <2>1, ElementOfSeq
<1>3. q \in [Worker -> Task \cup {None}] /\ q[w] = t
      /\ \A v \in Worker \ {w} : q[v] = p[v]
  BY <1>1, <1>2
<1>4. /\ qs \in Seq(Task) /\ Len(qs) = Len(ts) - 1
      /\ \A k \in 1..Len(ts) - 1 : qs[k] = ts[k + 1]
  BY <1>1
<1> HIDE DEF qs, q, t
<1>5. \A k \in 1..Len(qs) : k + 1 \in 1..Len(ts) /\ k + 1 # 1 /\ qs[k] = ts[k + 1]
  BY <1>1, <1>4
<1>6. \A j, k \in 1..Len(qs) : qs[j] = qs[k] => j = k
  BY <1>1, <1>4, <1>5 DEF Accounts
<1>7. \A u, v \in Worker : q[u] # None /\ q[u] = q[v] => u = v
  BY <1>2, <1>3 DEF Accounts
<1>8. \A k \in 1..Len(qs), v \in Worker : qs[k] # q[v]
  BY <1>2, <1>3, <1>5 DEF Accounts
<1>9. Unfinished(qs, q) = Unfinished(ts, p)
  <2>1. ASSUME NEW u \in Unfinished(qs, q) PROVE u \in Unfinished(ts, p)
    <3>1. ASSUME NEW k \in 1..Len(qs), u = qs[k] PROVE u \in Unfinished(ts, p)
      BY <1>1, <1>5, <3>1, UnfinishedIs
    <3>2. ASSUME NEW v \in Worker, u = q[v], u # None PROVE u \in Unfinished(ts, p)
      <4>1. CASE v = w  BY <1>1, <1>2, <1>3, <3>2, <4>1, UnfinishedIs
      <4>2. CASE v # w  BY <1>1, <1>3, <3>2, <4>2, UnfinishedIs
      <4> QED  BY <4>1, <4>2
    <3> QED  BY <1>3, <1>4, <3>1, <3>2, UnfinishedIs
  <2>2. ASSUME NEW u \in Unfinished(ts, p) PROVE u \in Unfinished(qs, q)
    <3>1. ASSUME NEW k \in 1..Len(ts), u = ts[k] PROVE u \in Unfinished(qs, q)
      <4>1. CASE k = 1
        <5>1. u = q[w] /\ u # None  BY <1>2, <1>3, <3>1, <4>1, TaskAssumption
        <5> QED  BY <1>3, <1>4, <5>1, UnfinishedIs
      <4>2. CASE k # 1
        <5>1. k - 1 \in 1..Len(qs) /\ qs[k - 1] = ts[k]  BY <1>1, <1>4, <4>2
        <5> QED  BY <1>3, <1>4, <3>1, <5>1, UnfinishedIs
      <4> QED  BY <4>1, <4>2
    <3>2. ASSUME NEW v \in Worker, u = p[v], u # None PROVE u \in Unfinished(qs, q)
      <4>1. v # w  BY <3>2
      <4> QED  BY <1>3, <1>4, <3>2, <4>1, UnfinishedIs
    <3> QED  BY <1>1, <3>1, <3>2, UnfinishedIs
  <2> QED  BY <2>1, <2>2
<1>10. Cardinality(Holders(q)) = Cardinality(Holders(p)) + 1
  <2>1. Holders(q) = Holders(p) \cup {w} /\ w \notin Holders(p)
    BY <1>2, <1>3, TaskAssumption DEF Holders
  <2> QED  BY <2>1, HoldersFinite, FS_AddElement
<1>11. Len(qs) + Cardinality(Holders(q)) = Len(ts) + Cardinality(Holders(p))
  BY <1>1, <1>4, <1>10, HoldersFinite
<1>12. Accounts(qs, q, f, tot)
  BY <1>3, <1>4, <1>6, <1>7, <1>8, <1>9, <1>11 DEF Accounts
<1> QED  BY <1>9, <1>12 DEF qs, q, t

\* Counting the task of a worker as finished
LEMMA Completed ==
  ASSUME NEW ts, NEW p, NEW f, NEW tot, Accounts(ts, p, f, tot),
         NEW w \in Worker, p[w] # None
  PROVE  /\ Accounts(ts, [p EXCEPT ![w] = None], f + 1, tot)
         /\ Unfinished(ts, [p EXCEPT ![w] = None]) = Unfinished(ts, p) \ {p[w]}
<1> DEFINE t == p[w]
           q == [p EXCEPT ![w] = None]
<1>1. /\ ts \in Seq(Task) /\ p \in [Worker -> Task \cup {None}] /\ Len(ts) \in Nat
      /\ f \in Nat
  BY LenProperties DEF Accounts
<1>2. q \in [Worker -> Task \cup {None}] /\ q[w] = None
      /\ \A v \in Worker \ {w} : q[v] = p[v]
  BY <1>1
<1> HIDE DEF q
<1>3. \A u, v \in Worker : q[u] # None /\ q[u] = q[v] => u = v
  BY <1>2 DEF Accounts
<1>4. \A k \in 1..Len(ts), v \in Worker : ts[k] # q[v]
  <2>1. \A k \in 1..Len(ts) : ts[k] \in Task  BY <1>1, ElementOfSeq
  <2> QED  BY <1>2, <2>1, TaskAssumption DEF Accounts
<1>5. Unfinished(ts, q) = Unfinished(ts, p) \ {t} /\ t \in Unfinished(ts, p)
  <2>1. t \in Unfinished(ts, p)  BY <1>1, UnfinishedIs
  <2>2. ASSUME NEW u \in Unfinished(ts, q) PROVE u \in Unfinished(ts, p) \ {t}
    <3>1. ASSUME NEW k \in 1..Len(ts), u = ts[k] PROVE u \in Unfinished(ts, p) \ {t}
      BY <1>1, <3>1, UnfinishedIs DEF Accounts
    <3>2. ASSUME NEW v \in Worker, u = q[v], u # None
          PROVE  u \in Unfinished(ts, p) \ {t}
      <4>1. v # w /\ u = p[v]  BY <1>2, <3>2
      <4>2. u # t  BY <3>2, <4>1 DEF Accounts
      <4> QED  BY <1>1, <3>2, <4>1, <4>2, UnfinishedIs
    <3> QED  BY <1>1, <1>2, <3>1, <3>2, UnfinishedIs
  <2>3. ASSUME NEW u \in Unfinished(ts, p), u # t PROVE u \in Unfinished(ts, q)
    <3>1. ASSUME NEW k \in 1..Len(ts), u = ts[k] PROVE u \in Unfinished(ts, q)
      BY <1>1, <1>2, <3>1, UnfinishedIs
    <3>2. ASSUME NEW v \in Worker, u = p[v], u # None PROVE u \in Unfinished(ts, q)
      <4>1. v # w  BY <2>3, <3>2
      <4> QED  BY <1>1, <1>2, <3>2, <4>1, UnfinishedIs
    <3> QED  BY <1>1, <3>1, <3>2, UnfinishedIs
  <2> QED  BY <2>1, <2>2, <2>3
<1>6. /\ IsFiniteSet(Unfinished(ts, q)) /\ Cardinality(Unfinished(ts, p)) \in Nat
      /\ Cardinality(Unfinished(ts, q)) = Cardinality(Unfinished(ts, p)) - 1
  BY <1>5, FS_RemoveElement, FS_CardinalityType DEF Accounts
<1>7. Cardinality(Holders(q)) = Cardinality(Holders(p)) - 1
  <2>1. Holders(q) = Holders(p) \ {w} /\ w \in Holders(p)  BY <1>2 DEF Holders
  <2> QED  BY <2>1, HoldersFinite, FS_RemoveElement
<1>8. f + 1 + Cardinality(Unfinished(ts, q)) = tot  BY <1>1, <1>6 DEF Accounts
<1>9. Len(ts) + Cardinality(Holders(q)) = Cardinality(Unfinished(ts, q))
  BY <1>1, <1>6, <1>7, HoldersFinite DEF Accounts
<1>10. Accounts(ts, q, f + 1, tot)
  BY <1>1, <1>2, <1>3, <1>4, <1>6, <1>8, <1>9 DEF Accounts
<1> QED  BY <1>5, <1>10 DEF q

\* The tasks of a job that starts afresh (split_numbers)
LEMMA CeilType ==
  ASSUME NEW a \in Nat \ {0}, NEW b \in Nat \ {0}
  PROVE  ceil(a, b) \in Nat \ {0}
BY DEF ceil

LEMMA ChunkSizes ==
  ASSUME NEW of \in Input
  PROVE  /\ Len(of) \in Nat \ {0} /\ of \in Seq(Nat)
         /\ chunk_size(of) \in Nat \ {0} /\ NumTasks(of) \in Nat \ {0}
<1>1. of \in Seq(Nat) /\ of # <<>>  BY InputAssumption DEF Input
<1>2. Len(of) \in Nat \ {0}  BY <1>1, EmptySeq, LenProperties
<1>3. chunk_size(of) \in Nat \ {0}  BY <1>2, CeilType, InputAssumption DEF chunk_size
<1> QED  BY <1>1, <1>2, <1>3, CeilType DEF NumTasks

LEMMA FreshTasks ==
  ASSUME NEW r \in 1..MaxStart, NEW of \in Input
  PROVE  /\ Accounts(split_numbers(r, of), [w \in Worker |-> None], 0, NumTasks(of))
         /\ Unfinished(split_numbers(r, of), [w \in Worker |-> None])
              = {[run |-> r, of |-> of, n |-> n] : n \in 1..NumTasks(of)}
<1> DEFINE ts == split_numbers(r, of)
           N == NumTasks(of)
           p == [w \in Worker |-> None]
           U == Unfinished(ts, p)
<1>1. N \in Nat
  BY ChunkSizes
<1>2. ts = [n \in 1..N |-> [run |-> r, of |-> of, n |-> n]]  BY DEF split_numbers
<1>3. \A n \in 1..N : ts[n] = [run |-> r, of |-> of, n |-> n] /\ ts[n] \in Task
  BY <1>1, <1>2 DEF Task
<1>4. ts \in [1..N -> Task] /\ DOMAIN ts = 1..N  BY <1>2, <1>3
<1>5. p \in [Worker -> Task \cup {None}] /\ \A w \in Worker : p[w] = None
  OBVIOUS
<1> HIDE DEF ts, p, N
<1>6. ts \in Seq(Task) /\ Len(ts) = N
  BY <1>1, <1>4, LenProperties, SeqDef
<1>7. \A j, k \in 1..N : ts[j] = ts[k] => j = k
  <2> SUFFICES ASSUME NEW j \in 1..N, NEW k \in 1..N, ts[j] = ts[k]
               PROVE  j = k
    OBVIOUS
  <2>1. ts[j] = [run |-> r, of |-> of, n |-> j] /\ ts[k] = [run |-> r, of |-> of, n |-> k]  BY <1>3
  <2>2. [run |-> r, of |-> of, n |-> j] = [run |-> r, of |-> of, n |-> k]  BY <2>1
  <2>3. [run |-> r, of |-> of, n |-> j].n = j /\ [run |-> r, of |-> of, n |-> k].n = k  OBVIOUS
  <2> QED  BY <2>2, <2>3
<1>8. U = {ts[n] : n \in 1..N}
  <2>1. \A u : u \in U <=> \E n \in 1..N : u = ts[n]
    BY <1>5, <1>6, UnfinishedIs
  <2> QED  BY <2>1
<1>9. IsFiniteSet(U) /\ Cardinality(U) = N
  <2>1. ts \in Surjection(1..N, U)
    <3>1. ts \in [1..N -> U]  BY <1>4, <1>8
    <3> QED  BY <1>8, <3>1 DEF Surjection
  <2>2. ts \in Injection(1..N, U)
    <3>1. ts \in [1..N -> U]  BY <1>4, <1>8
    <3> QED  BY <1>4, <1>7, <3>1 DEF Injection, IsInjective
  <2>3. IsFiniteSet(1..N) /\ Cardinality(1..N) = N
    BY <1>1, FS_Interval
  <2>4. IsFiniteSet(U) /\ (Cardinality(U) = Cardinality(1..N)
                            <=> ts \in Injection(1..N, U))
    BY <2>1, <2>3, FS_Surjection
  <2> QED  BY <2>2, <2>3, <2>4
<1>10. Cardinality(Holders(p)) = 0
  <2>1. Holders(p) = {}  BY <1>5 DEF Holders
  <2> QED  BY <2>1, FS_EmptySet
<1>11. \A k \in 1..Len(ts), w \in Worker : ts[k] # p[w]
  BY <1>3, <1>5, <1>6, TaskAssumption
<1>12. Accounts(ts, p, 0, N)
  BY <1>1, <1>5, <1>6, <1>7, <1>9, <1>10, <1>11 DEF Accounts
<1> DEFINE task_of(n) == [run |-> r, of |-> of, n |-> n]
<1>13. U = {task_of(n) : n \in 1..N}
  <2>1. \A n \in 1..N : ts[n] = task_of(n)  BY <1>3
  <2> HIDE DEF task_of
  <2> QED  BY <1>8, <2>1
<1> QED  BY <1>12, <1>13 DEF ts, p, N

\* The tasks of a job that is restored: what was in progress is queued first.
LEMMA Requeueing ==
  ASSUME NEW ts, NEW p, NEW f, NEW tot, Accounts(ts, p, f, tot),
         NEW again \in Listings(Values(p))
  PROVE  /\ Accounts(again \o ts, [w \in Worker |-> None], f, tot)
         /\ Unfinished(again \o ts, [w \in Worker |-> None]) = Unfinished(ts, p)
<1> DEFINE V == Values(p)
           n == Cardinality(V)
           qs == again \o ts
           q == [w \in Worker |-> None]
<1>1. /\ ts \in Seq(Task) /\ p \in [Worker -> Task \cup {None}] /\ Len(ts) \in Nat
  BY LenProperties DEF Accounts
<1>2. \A u : u \in V <=> \E w \in Worker : u = p[w] /\ u # None
  BY <1>1 DEF Values
<1>3. V \subseteq Task  BY <1>1, <1>2
<1>4. V \subseteq Unfinished(ts, p)  BY DEF Unfinished
<1>5. IsFiniteSet(V) /\ n \in Nat
  BY <1>4, FS_Subset, FS_CardinalityType DEF Accounts
<1>6. n = Cardinality(Holders(p))
  <2> DEFINE h == [w \in Holders(p) |-> p[w]]
  <2>1. h \in [Holders(p) -> V]
    BY <1>2 DEF Holders
  <2>2. \A u \in V : \E w \in Holders(p) : h[w] = u  BY <1>2 DEF Holders
  <2>3. \A v, w \in Holders(p) : h[v] = h[w] => v = w  BY DEF Holders, Accounts
  <2> HIDE DEF h, V
  <2>4. h \in Surjection(Holders(p), V)  BY <2>1, <2>2 DEF Surjection
  <2>5. h \in Injection(Holders(p), V)  BY <2>1, <2>3 DEF Injection, IsInjective
  <2>6. IsFiniteSet(Holders(p))  BY HoldersFinite
  <2> QED  BY <2>4, <2>5, <2>6, FS_Surjection
<1>7. again \in [1..n -> V] /\ Values(again) = V  BY DEF Listings
<1>8. \A u \in V : \E k \in 1..n : again[k] = u
  BY <1>7 DEF Values
<1> HIDE DEF V
<1>9. \A j, k \in 1..n : again[j] = again[k] => j = k
  <2>1. again \in Surjection(1..n, V)  BY <1>7, <1>8 DEF Surjection
  <2>2. IsFiniteSet(1..n) /\ Cardinality(1..n) = n  BY <1>5, FS_Interval
  <2>3. again \in Injection(1..n, V)  BY <2>1, <2>2, FS_Surjection
  <2> QED  BY <1>7, <2>3 DEF Injection, IsInjective
<1> HIDE DEF n
<1>10. again \in Seq(Task) /\ Len(again) = n
  <2>1. again \in [1..n -> Task] /\ DOMAIN again = 1..n  BY <1>3, <1>7
  <2> QED  BY <1>5, <2>1, LenProperties, SeqDef
<1>11. /\ qs \in Seq(Task) /\ Len(qs) = n + Len(ts)
       /\ \A k \in 1..n + Len(ts) : qs[k] = IF k <= n THEN again[k] ELSE ts[k - n]
  BY <1>1, <1>10, ConcatProperties
<1>12. q \in [Worker -> Task \cup {None}] /\ \A w \in Worker : q[w] = None
  OBVIOUS
<1> HIDE DEF qs, q
<1>13. \A k \in 1..Len(qs) : \/ k \in 1..n /\ qs[k] = again[k] /\ qs[k] \in V
                             \/ /\ k - n \in 1..Len(ts) /\ k > n
                                /\ qs[k] = ts[k - n] /\ qs[k] \notin V
  <2> SUFFICES ASSUME NEW k \in 1..Len(qs)
               PROVE  \/ k \in 1..n /\ qs[k] = again[k] /\ qs[k] \in V
                      \/ /\ k - n \in 1..Len(ts) /\ k > n
                         /\ qs[k] = ts[k - n] /\ qs[k] \notin V
    OBVIOUS
  <2>1. CASE k <= n
    <3>1. k \in 1..n /\ qs[k] = again[k]  BY <1>1, <1>5, <1>11, <2>1
    <3> QED  BY <1>7, <3>1
  <2>2. CASE ~(k <= n)
    <3>1. k - n \in 1..Len(ts) /\ k > n /\ qs[k] = ts[k - n]
      BY <1>1, <1>5, <1>11, <2>2
    <3>2. ts[k - n] \notin V  BY <1>2, <3>1 DEF Accounts
    <3> QED  BY <3>1, <3>2
  <2> QED  BY <2>1, <2>2
<1>14. \A j, k \in 1..Len(qs) : qs[j] = qs[k] => j = k
  <2> SUFFICES ASSUME NEW j \in 1..Len(qs), NEW k \in 1..Len(qs), qs[j] = qs[k]
               PROVE  j = k
    OBVIOUS
  <2>1. CASE qs[j] \in V  BY <1>9, <1>13, <2>1
  <2>2. CASE qs[j] \notin V
    <3>1. j - n \in 1..Len(ts) /\ k - n \in 1..Len(ts) /\ ts[j - n] = ts[k - n]
      BY <1>13, <2>2
    <3>2. j - n = k - n  BY <3>1 DEF Accounts
    <3> QED  BY <1>5, <1>11, <3>2
  <2> QED  BY <2>1, <2>2
<1>15. \A k \in 1..Len(qs), w \in Worker : qs[k] # q[w]
  <2>1. \A k \in 1..Len(qs) : qs[k] \in Task  BY <1>11, ElementOfSeq
  <2> QED  BY <1>12, <2>1, TaskAssumption
<1>16. Unfinished(qs, q) = Unfinished(ts, p)
  <2>1. ASSUME NEW u \in Unfinished(qs, q) PROVE u \in Unfinished(ts, p)
    <3>1. PICK k \in 1..Len(qs) : u = qs[k]  BY <1>11, <1>12, UnfinishedIs
    <3> QED  BY <1>1, <1>4, <1>13, <3>1, UnfinishedIs
  <2>2. ASSUME NEW u \in Unfinished(ts, p) PROVE u \in Unfinished(qs, q)
    <3>1. ASSUME NEW k \in 1..Len(ts), u = ts[k] PROVE u \in Unfinished(qs, q)
      <4>1. /\ k + n \in 1..n + Len(ts) /\ ~(k + n <= n) /\ (k + n) - n = k
        BY <1>1, <1>5
      <4>2. qs[k + n] = ts[k]  BY <1>11, <4>1
      <4> QED  BY <1>11, <1>12, <3>1, <4>1, <4>2, UnfinishedIs
    <3>2. ASSUME u \in V PROVE u \in Unfinished(qs, q)
      <4>1. PICK k \in 1..n : again[k] = u  BY <1>8, <3>2
      <4>2. k \in 1..n + Len(ts) /\ qs[k] = u  BY <1>1, <1>5, <1>11, <4>1
      <4> QED  BY <1>11, <1>12, <4>2, UnfinishedIs
    <3> QED  BY <1>1, <1>2, <3>1, <3>2, UnfinishedIs
  <2> QED  BY <2>1, <2>2
<1>17. Cardinality(Holders(q)) = 0
  <2>1. Holders(q) = {}  BY <1>12 DEF Holders
  <2> QED  BY <2>1, FS_EmptySet
<1>18. Len(qs) + Cardinality(Holders(q)) = Len(ts) + Cardinality(Holders(p))
  BY <1>1, <1>5, <1>6, <1>11, <1>17
<1>19. Accounts(qs, q, f, tot)
  <2>1. \A v, w \in Worker : q[v] # None /\ q[v] = q[w] => v = w  BY <1>12
  <2> QED
    BY <1>11, <1>12, <1>14, <1>15, <1>16, <1>18, <2>1 DEF Accounts
<1> QED  BY <1>16, <1>19 DEF qs, q

-----------------------------------------------------------------------------
(* The invariant.                                                          *)

OneSlot == \A s, t \in Slots : s = t

\* A connection is a record.
Wired(r) ==
  \E o, h, u, d : r = [open |-> o, handler |-> h, up |-> u, down |-> d]
Wires == conn = [c \in Conn |-> conn[c]] /\ \A c \in Conn : Wired(conn[c])

Served(c) == conn[c].handler = "serving"

\* A worker has a task in progress exactly as long as its connection is served.
Serving == \A c \in Conn : Served(c) <=> in_progress[c[1]] # None

\* What is not finished is accounted for, and at most the others are counted:
\* exactly these, until a snapshot is restored.
Counts(ts, p, f, tot, exact) ==
  f \in Nat /\ \E g \in Nat : f <= g /\ (exact => f = g) /\ Accounts(ts, p, g, tot)

\* The snapshots that may be restored
Stored == {latest, IF saving = None THEN None ELSE saving.data} \ {None}
Sums(s) == Counts(s.tasks, s.in_progress, s.finished, s.total, FALSE)

\* The snapshot that is being taken
Snapped(r) ==
  \E i, a, m, f, s, n : r = [id |-> i, active |-> a, marker_received |-> m,
                             inflight |-> f, worker_state |-> s, finished |-> n]

\* No coordinator runs.
Idle ==
  /\ in_progress = [w \in Worker |-> None]
  /\ saving = None /\ ~snap.active
  /\ \A c \in Conn : ~Served(c)

Accounted ==
  /\ starts \in Nat /\ Wires /\ Snapped(snap)
  /\ starts = 0 => phase = "off" /\ latest = None
  /\ phase = "off" => Idle
  /\ phase = "up" => /\ Counts(tasks, in_progress, finished, total, starts = 1)
                     /\ Serving
                     /\ snap.active => snap.finished \in Nat /\ snap.finished <= finished
  /\ \A s \in Stored : Sums(s)

LEMMA FewerCounted ==
  ASSUME NEW ts, NEW p, NEW f, NEW tot, NEW exact, Counts(ts, p, f, tot, exact),
         NEW e \in Nat, e <= f
  PROVE  Counts(ts, p, e, tot, FALSE)
<1>1. PICK g \in Nat : f <= g /\ Accounts(ts, p, g, tot)  BY DEF Counts
<1>2. e <= g  BY <1>1 DEF Counts
<1> QED  BY <1>1, <1>2 DEF Counts

LEMMA CountsType ==
  ASSUME NEW ts, NEW p, NEW f, NEW tot, NEW exact, Counts(ts, p, f, tot, exact)
  PROVE  f \in Nat /\ ts \in Seq(Task) /\ p \in [Worker -> Task \cup {None}]
BY DEF Counts, Accounts

LEMMA CountsRequeued ==
  ASSUME NEW ts, NEW p, NEW f, NEW tot, NEW exact, Counts(ts, p, f, tot, exact),
         NEW w \in Worker, p[w] # None
  PROVE  Counts(<<p[w]>> \o ts, [p EXCEPT ![w] = None], f, tot, exact)
<1>1. PICK g \in Nat : f <= g /\ (exact => f = g) /\ Accounts(ts, p, g, tot)
  BY DEF Counts
<1>2. Accounts(<<p[w]>> \o ts, [p EXCEPT ![w] = None], g, tot)  BY <1>1, Requeued
<1> QED  BY <1>1, <1>2 DEF Counts

LEMMA CountsAssigned ==
  ASSUME NEW ts, NEW p, NEW f, NEW tot, NEW exact, Counts(ts, p, f, tot, exact),
         ts # <<>>, NEW w \in Worker, p[w] = None
  PROVE  Counts(Tail(ts), [p EXCEPT ![w] = Head(ts)], f, tot, exact)
<1>1. PICK g \in Nat : f <= g /\ (exact => f = g) /\ Accounts(ts, p, g, tot)
  BY DEF Counts
<1>2. Accounts(Tail(ts), [p EXCEPT ![w] = Head(ts)], g, tot)  BY <1>1, Assigned
<1> QED  BY <1>1, <1>2 DEF Counts

LEMMA CountsCompleted ==
  ASSUME NEW ts, NEW p, NEW f, NEW tot, NEW exact, Counts(ts, p, f, tot, exact),
         NEW w \in Worker, p[w] # None
  PROVE  Counts(ts, [p EXCEPT ![w] = None], f + 1, tot, exact)
<1>1. PICK g \in Nat : f <= g /\ (exact => f = g) /\ Accounts(ts, p, g, tot)
  BY DEF Counts
<1>2. Accounts(ts, [p EXCEPT ![w] = None], g + 1, tot)  BY <1>1, Completed
<1>3. f + 1 \in Nat /\ g + 1 \in Nat /\ f + 1 <= g + 1 /\ (exact => f + 1 = g + 1)
  BY <1>1 DEF Counts
<1> QED  BY <1>2, <1>3 DEF Counts

LEMMA InitAccounted == Init => Accounted
<1> SUFFICES ASSUME Init PROVE Accounted  OBVIOUS
<1>1. conn = [c \in Conn |-> Unused]  BY DEF Init
<1>2. Wired(Unused) /\ Unused.handler = "none"  BY DEF Wired, Unused
<1>3. Wires /\ \A c \in Conn : ~Served(c)  BY <1>1, <1>2 DEF Wires, Served
<1>4. Snapped(snap) /\ ~snap.active  BY DEF Init, NoSnapshot, Snapped
<1> QED  BY <1>3, <1>4 DEF Init, Accounted, Idle, Stored

\* The fields of a connection set one by one
WithOpen(r, x) == [r EXCEPT !.open = x]
WithHandler(r, x) == [r EXCEPT !.handler = x]
WithUp(r, x) == [r EXCEPT !.up = x]
WithDown(r, x) == [r EXCEPT !.down = x]

LEMMA OneField ==
  ASSUME NEW r, Wired(r), NEW x
  PROVE  /\ Wired(WithOpen(r, x)) /\ WithOpen(r, x).handler = r.handler
         /\ Wired(WithHandler(r, x)) /\ WithHandler(r, x).handler = x
         /\ Wired(WithUp(r, x)) /\ WithUp(r, x).handler = r.handler
         /\ Wired(WithDown(r, x)) /\ WithDown(r, x).handler = r.handler
<1>1. PICK o, h, u, d : r = [open |-> o, handler |-> h, up |-> u, down |-> d]
  BY DEF Wired
<1>2. /\ WithOpen(r, x) = [open |-> x, handler |-> h, up |-> u, down |-> d]
      /\ WithHandler(r, x) = [open |-> o, handler |-> x, up |-> u, down |-> d]
      /\ WithUp(r, x) = [open |-> o, handler |-> h, up |-> x, down |-> d]
      /\ WithDown(r, x) = [open |-> o, handler |-> h, up |-> u, down |-> x]
  BY <1>1 DEF WithOpen, WithHandler, WithUp, WithDown
<1>3. ASSUME NEW a, NEW b, NEW f, NEW e
      PROVE  /\ Wired([open |-> a, handler |-> b, up |-> f, down |-> e])
             /\ [open |-> a, handler |-> b, up |-> f, down |-> e].handler = b
  BY DEF Wired
<1>4. r.handler = h  BY <1>1
<1>5. Wired(WithOpen(r, x)) /\ WithOpen(r, x).handler = r.handler
  BY <1>2, <1>3, <1>4
<1>6. Wired(WithHandler(r, x)) /\ WithHandler(r, x).handler = x
  BY <1>2, <1>3, <1>4
<1>7. Wired(WithUp(r, x)) /\ WithUp(r, x).handler = r.handler
  BY <1>2, <1>3, <1>4
<1>8. Wired(WithDown(r, x)) /\ WithDown(r, x).handler = r.handler
  BY <1>2, <1>3, <1>4
<1> QED  BY <1>5, <1>6, <1>7, <1>8

\* The changes that the actions make to a connection: the reply to a hello,
\* the end of the handler, and the end of the worker
Replied(r, msgs, rest) == WithDown(WithHandler(WithUp(r, rest), "serving"), msgs)
Ended(r) == WithUp(WithHandler(r, "ended"), <<>>)
Hung(r, msgs) == WithDown(WithUp(WithOpen(r, FALSE), msgs), <<>>)

LEMMA RepliedRecord ==
  ASSUME NEW r, Wired(r), NEW msgs, NEW rest
  PROVE  Wired(Replied(r, msgs, rest)) /\ Replied(r, msgs, rest).handler = "serving"
<1> DEFINE a == WithUp(r, rest)
           b == WithHandler(a, "serving")
<1>1. Wired(a)  BY OneField
<1> HIDE DEF a
<1>2. Wired(b) /\ b.handler = "serving"  BY <1>1, OneField
<1> HIDE DEF b
<1>3. Wired(WithDown(b, msgs)) /\ WithDown(b, msgs).handler = "serving"
  BY <1>2, OneField
<1> QED  BY <1>3 DEF Replied, a, b

LEMMA EndedRecord ==
  ASSUME NEW r, Wired(r)
  PROVE  Wired(Ended(r)) /\ Ended(r).handler = "ended"
<1> DEFINE a == WithHandler(r, "ended")
<1>1. Wired(a) /\ a.handler = "ended"  BY OneField
<1> HIDE DEF a
<1>2. Wired(WithUp(a, <<>>)) /\ WithUp(a, <<>>).handler = "ended"
  BY <1>1, OneField
<1> QED  BY <1>2 DEF Ended, a

LEMMA HungRecord ==
  ASSUME NEW r, Wired(r), NEW msgs
  PROVE  Wired(Hung(r, msgs)) /\ Hung(r, msgs).handler = r.handler
<1> DEFINE a == WithOpen(r, FALSE)
           b == WithUp(a, msgs)
<1>1. Wired(a) /\ a.handler = r.handler  BY OneField
<1> HIDE DEF a
<1>2. Wired(b) /\ b.handler = r.handler  BY <1>1, OneField
<1> HIDE DEF b
<1>3. Wired(WithDown(b, <<>>)) /\ WithDown(b, <<>>).handler = r.handler
  BY <1>2, OneField
<1> QED  BY <1>3 DEF Hung, a, b

\* A connection whose handler returns, or is killed
LEMMA ClosedRecord ==
  ASSUME NEW c, Wired(conn[c])
  PROVE  Wired(Closed(c)) /\ Closed(c).handler # "serving"
<1>1. Wired(Unused) /\ Unused.handler = "none"  BY DEF Wired, Unused
<1>2. CASE conn[c].open
  <2>1. Ended(conn[c]) = [conn[c] EXCEPT !.handler = "ended", !.up = <<>>]
    BY DEF Ended, WithUp, WithHandler
  <2>2. Closed(c) = Ended(conn[c])  BY <1>2, <2>1, Zenon DEF Closed
  <2> QED  BY <2>2, EndedRecord
<1>3. CASE ~conn[c].open  BY <1>1, <1>3 DEF Closed
<1> QED  BY <1>2, <1>3

\* Only c changes.
Rewired(c, r) == conn' = [conn EXCEPT ![c] = r]

LEMMA RewiredServing ==
  ASSUME Wires, NEW c, NEW r, Rewired(c, r), c \in Conn => Wired(r)
  PROVE  /\ Wires'
         /\ c \in Conn => (Served(c)' <=> r.handler = "serving")
         /\ \A d \in Conn \ {c} : Served(d)' <=> Served(d)
<1>1. conn' = [conn EXCEPT ![c] = r]  BY DEF Rewired
<1>2. conn = [d \in Conn |-> conn[d]]  BY DEF Wires
<1>3. /\ conn' = [d \in Conn |-> conn'[d]]
      /\ c \in Conn => conn'[c] = r
      /\ \A d \in Conn \ {c} : conn'[d] = conn[d]
  BY <1>1, <1>2
<1>4. ASSUME NEW d \in Conn PROVE Wired(conn'[d])
  <2>1. CASE d = c
    <3>1. conn'[d] = r /\ Wired(r)  BY <1>3, <2>1
    <3> QED  BY <3>1
  <2>2. CASE d # c
    <3>1. conn'[d] = conn[d] /\ Wired(conn[d])  BY <1>3, <2>2 DEF Wires
    <3> QED  BY <3>1
  <2> QED  BY <2>1, <2>2
<1> QED  BY <1>3, <1>4 DEF Wires, Served

\* The connections are as they were, for the tasks.
SameServed == Wires' /\ \A d \in Conn : Served(d)' <=> Served(d)

LEMMA SameConn ==
  ASSUME Wires, conn' = conn
  PROVE  SameServed
BY DEF SameServed, Wires, Served

LEMMA SameHandler ==
  ASSUME Wires, NEW c, NEW r, Rewired(c, r),
         c \in Conn => Wired(r) /\ (r.handler = "serving" <=> Served(c))
  PROVE  SameServed
<1>1. c \in Conn => Wired(r)  OBVIOUS
<1>2. /\ Wires'
      /\ c \in Conn => (Served(c)' <=> r.handler = "serving")
      /\ \A d \in Conn \ {c} : Served(d)' <=> Served(d)
  BY <1>1, RewiredServing
<1> QED  BY <1>2 DEF SameServed

LEMMA UpServed ==
  ASSUME Wires, NEW c, NEW msgs, conn' = [conn EXCEPT ![c].up = msgs]
  PROVE  SameServed
<1> DEFINE r == WithUp(conn[c], msgs)
<1>1. c \in Conn => Wired(r) /\ r.handler = conn[c].handler
  BY OneField DEF Wires
<1>2. Rewired(c, r)  BY DEF Rewired, WithUp
<1> HIDE DEF r
<1> QED  BY <1>1, <1>2, SameHandler DEF Served

LEMMA DownServed ==
  ASSUME Wires, NEW c, NEW msgs, conn' = [conn EXCEPT ![c].down = msgs]
  PROVE  SameServed
<1> DEFINE r == WithDown(conn[c], msgs)
<1>1. c \in Conn => Wired(r) /\ r.handler = conn[c].handler
  BY OneField DEF Wires
<1>2. Rewired(c, r)  BY DEF Rewired, WithDown
<1> HIDE DEF r
<1> QED  BY <1>1, <1>2, SameHandler DEF Served

\* The worker's end of c is closed.
LEMMA HangServed ==
  ASSUME Wires, NEW c, NEW msgs, Hang(c, msgs)
  PROVE  SameServed
<1> DEFINE r == IF conn[c].handler = "ended" THEN Unused ELSE Hung(conn[c], msgs)
<1>1. Wired(Unused) /\ Unused.handler = "none"  BY DEF Wired, Unused
<1>2. ASSUME c \in Conn PROVE Wired(r) /\ (r.handler = "serving" <=> Served(c))
  <2>1. Wired(conn[c])  BY <1>2 DEF Wires
  <2>2. CASE conn[c].handler = "ended"  BY <1>1, <2>2 DEF Served
  <2>3. CASE conn[c].handler # "ended"  BY <2>1, <2>3, HungRecord DEF Served
  <2> QED  BY <2>2, <2>3
<1>3. Rewired(c, r)  BY DEF Rewired, Hang, Hung, WithOpen, WithUp, WithDown
<1> HIDE DEF r
<1> QED  BY <1>2, <1>3, SameHandler

\* Workers neither take nor lose tasks: the coordinator sees what they do.
LEMMA WorkServed ==
  ASSUME Wires, NEW w \in Worker, Work(w) \/ Kill(w)
  PROVE  SameServed
<1>1. CASE LoadSnapshot(w) \/ Refused(w)
  BY <1>1, SameConn DEF LoadSnapshot, Refused
<1>2. CASE Connect(w)
  <2>1. PICK s \in Slots :
          /\ conn[<<w, s>>] = Unused
          /\ conn' = [conn EXCEPT ![<<w, s>>] =
                  [open |-> TRUE, handler |-> "hello",
                   up |-> <<[type |-> "hello"]>>, down |-> <<>>]]
    BY <1>2 DEF Connect
  <2> DEFINE r == [open |-> TRUE, handler |-> "hello",
                   up |-> <<[type |-> "hello"]>>, down |-> <<>>]
             c == <<w, s>>
  <2>2. Wired(r) /\ r.handler = "hello" /\ Unused.handler = "none"
    BY DEF Wired, Unused
  <2>3. Rewired(c, r)  BY <2>1 DEF Rewired
  <2>4. ~Served(c)  BY <2>1, <2>2 DEF Served
  <2> HIDE DEF r, c
  <2> QED  BY <2>2, <2>3, <2>4, SameHandler
<1>3. CASE TakeTask(w)
  <2>1. conn' = [conn EXCEPT ![Mine(w)].down = Tail(conn[Mine(w)].down)]
    BY <1>3 DEF TakeTask
  <2> QED  BY <2>1, DownServed
<1>4. CASE \E msgs : Hang(Mine(w), msgs)  BY <1>4, HangServed
<1>5. CASE ReplyMarker(w)
  <2> DEFINE c == Mine(w)
             msgs == Tail(conn[c].down)
             sent == Sent(w, [type |-> "marker", sid |-> Head(conn[Mine(w)].down).sid,
                              numid |-> numid[w], task |-> task[w]])
             r == WithDown(conn[c], msgs)
             between == [conn EXCEPT ![c] = r]
  <2>1. conn' = [between EXCEPT ![c] = WithUp(between[c], sent)]
    BY <1>5 DEF ReplyMarker, WithDown, WithUp
  <2>2. conn = [d \in Conn |-> conn[d]]  BY DEF Wires
  <2> HIDE DEF c, sent, msgs, r
  <2>3. CASE c \in Conn
    <3>1. between[c] = r  BY <2>2, <2>3
    <3>2. Rewired(c, WithUp(r, sent))  BY <2>1, <2>2, <2>3, <3>1 DEF Rewired
    <3>3. Wired(r) /\ r.handler = conn[c].handler
      BY <2>3, OneField DEF Wires, r
    <3>4. Wired(WithUp(r, sent)) /\ WithUp(r, sent).handler = conn[c].handler
      BY <3>3, OneField
    <3> QED  BY <3>2, <3>4, SameHandler DEF Served
  <2>4. CASE c \notin Conn
    <3>1. conn' = conn  BY <2>1, <2>2, <2>4
    <3> QED  BY <3>1, SameConn
  <2> QED  BY <2>3, <2>4
<1>6. CASE Process(w)
  <2>1. \/ conn' = conn
        \/ \E msgs : conn' = [conn EXCEPT ![Mine(w)].up = msgs]
    BY <1>6 DEF Process
  <2> QED  BY <2>1, SameConn, UpServed
<1>7. TakeShutdown(w) \/ Finish(w) \/ LoseCoordinator(w) \/ Kill(w)
        => \E msgs : Hang(Mine(w), msgs)
  BY DEF TakeShutdown, Finish, LoseCoordinator, Kill
<1> QED  BY <1>1, <1>2, <1>3, <1>4, <1>5, <1>6, <1>7 DEF Work

-----------------------------------------------------------------------------
(* Each step keeps the invariant.                                          *)

\* A step that moves no task, and only writes a snapshot or begins to.
LEMMA Quiet ==
  ASSUME Accounted, SameServed, starts # 0,
         UNCHANGED <<starts, tasks, in_progress, finished, total>>,
         phase' # "off", phase' = "up" => phase = "up", Snapped(snap'),
         phase' = "up" /\ snap'.active =>
           \/ snap.active /\ snap'.finished = snap.finished
           \/ snap'.finished = finished,
         \A s \in Stored' : s \in Stored \/ Sums(s)
  PROVE  Accounted'
<1>1. starts' \in Nat /\ starts' # 0 /\ Wires' /\ (Snapped(snap))' /\ phase' # "off"
  BY DEF Accounted, SameServed
<1>2. \A s \in Stored' : Sums(s)  BY DEF Accounted
<1>3. ASSUME phase' = "up"
      PROVE  /\ Counts(tasks, in_progress, finished, total, starts = 1)'
             /\ Serving'
             /\ (snap.active => snap.finished \in Nat /\ snap.finished <= finished)'
  <2>1. /\ Counts(tasks, in_progress, finished, total, starts = 1) /\ Serving
        /\ snap.active => snap.finished \in Nat /\ snap.finished <= finished
    BY <1>3 DEF Accounted
  <2>2. Counts(tasks, in_progress, finished, total, starts = 1)'
    <3>1. /\ tasks' = tasks /\ in_progress' = in_progress /\ finished' = finished
          /\ total' = total /\ starts' = starts
      OBVIOUS
    <3> QED  BY <2>1, <3>1
  <2>3. Serving'  BY <2>1 DEF Serving, SameServed
  <2>4. finished \in Nat  BY <2>1 DEF Counts
  <2>5. (snap.active => snap.finished \in Nat /\ snap.finished <= finished)'
    BY <1>3, <2>1, <2>4
  <2> QED  BY <2>2, <2>3, <2>5
<1> QED  BY <1>1, <1>2, <1>3 DEF Accounted

\* A step that the coordinator does not see
LEMMA Unseen ==
  ASSUME Accounted, SameServed, UNCHANGED <<coordinator, latest>>
  PROVE  Accounted'
<1>1. /\ phase' = phase /\ starts' = starts /\ tasks' = tasks
      /\ in_progress' = in_progress /\ finished' = finished /\ total' = total
      /\ snap' = snap /\ saving' = saving /\ latest' = latest
  BY DEF coordinator
<1>2. Stored' = Stored  BY <1>1 DEF Stored
<1>3. (phase = "off" => Idle)'  BY <1>1 DEF Accounted, SameServed, Idle
<1>4. Counts(tasks, in_progress, finished, total, starts = 1)'
        <=> Counts(tasks, in_progress, finished, total, starts = 1)
  BY <1>1
<1>5. Serving' <=> Serving  BY <1>1 DEF Serving, SameServed
<1> QED  BY <1>1, <1>2, <1>3, <1>4, <1>5 DEF Accounted, SameServed

LEMMA WorkKeeps ==
  ASSUME Accounted, NEW w \in Worker, Work(w) \/ Kill(w)
  PROVE  Accounted'
<1>1. UNCHANGED <<coordinator, latest>>
  BY DEF Work, Kill, LoadSnapshot, Connect, Refused, TakeTask, TakeShutdown,
     ReplyMarker, Process, Finish, LoseCoordinator
<1>2. SameServed  BY WorkServed DEF Accounted
<1> QED  BY <1>1, <1>2, Unseen

\* The snapshot that is being taken, with another field
SnapActive(r, x) == [r EXCEPT !.active = x]
SnapReceived(r, x) == [r EXCEPT !.marker_received = x]
SnapInflight(r, x) == [r EXCEPT !.inflight = x]
SnapState(r, x) == [r EXCEPT !.worker_state = x]

LEMMA SnapField ==
  ASSUME NEW r, Snapped(r), NEW x
  PROVE  /\ Snapped(SnapActive(r, x)) /\ SnapActive(r, x).active = x
         /\ SnapActive(r, x).id = r.id
         /\ SnapActive(r, x).marker_received = r.marker_received
         /\ SnapActive(r, x).inflight = r.inflight
         /\ SnapActive(r, x).worker_state = r.worker_state
         /\ SnapActive(r, x).finished = r.finished
         /\ Snapped(SnapReceived(r, x)) /\ SnapReceived(r, x).marker_received = x
         /\ SnapReceived(r, x).id = r.id
         /\ SnapReceived(r, x).active = r.active
         /\ SnapReceived(r, x).inflight = r.inflight
         /\ SnapReceived(r, x).worker_state = r.worker_state
         /\ SnapReceived(r, x).finished = r.finished
         /\ Snapped(SnapInflight(r, x)) /\ SnapInflight(r, x).inflight = x
         /\ SnapInflight(r, x).id = r.id
         /\ SnapInflight(r, x).active = r.active
         /\ SnapInflight(r, x).marker_received = r.marker_received
         /\ SnapInflight(r, x).worker_state = r.worker_state
         /\ SnapInflight(r, x).finished = r.finished
         /\ Snapped(SnapState(r, x)) /\ SnapState(r, x).worker_state = x
         /\ SnapState(r, x).id = r.id
         /\ SnapState(r, x).active = r.active
         /\ SnapState(r, x).marker_received = r.marker_received
         /\ SnapState(r, x).inflight = r.inflight
         /\ SnapState(r, x).finished = r.finished
<1>1. PICK i, a, m, f, s, n :
        r = [id |-> i, active |-> a, marker_received |-> m, inflight |-> f,
             worker_state |-> s, finished |-> n]
  BY DEF Snapped
<1>2. ASSUME NEW i2, NEW a2, NEW m2, NEW f2, NEW s2, NEW n2
      PROVE  Snapped([id |-> i2, active |-> a2, marker_received |-> m2,
                      inflight |-> f2, worker_state |-> s2, finished |-> n2])
  BY DEF Snapped
<1>3. /\ Snapped(SnapActive(r, x)) /\ SnapActive(r, x).active = x
      /\ SnapActive(r, x).id = r.id
      /\ SnapActive(r, x).marker_received = r.marker_received
      /\ SnapActive(r, x).inflight = r.inflight
      /\ SnapActive(r, x).worker_state = r.worker_state
      /\ SnapActive(r, x).finished = r.finished
  <2>1. SnapActive(r, x)
          = [id |-> i, active |-> x, marker_received |-> m, inflight |-> f,
             worker_state |-> s, finished |-> n]
    BY <1>1 DEF SnapActive
  <2> QED  BY <1>1, <1>2, <2>1
<1>4. /\ Snapped(SnapReceived(r, x)) /\ SnapReceived(r, x).marker_received = x
      /\ SnapReceived(r, x).id = r.id
      /\ SnapReceived(r, x).active = r.active
      /\ SnapReceived(r, x).inflight = r.inflight
      /\ SnapReceived(r, x).worker_state = r.worker_state
      /\ SnapReceived(r, x).finished = r.finished
  <2>1. SnapReceived(r, x)
          = [id |-> i, active |-> a, marker_received |-> x, inflight |-> f,
             worker_state |-> s, finished |-> n]
    BY <1>1 DEF SnapReceived
  <2> QED  BY <1>1, <1>2, <2>1
<1>5. /\ Snapped(SnapInflight(r, x)) /\ SnapInflight(r, x).inflight = x
      /\ SnapInflight(r, x).id = r.id
      /\ SnapInflight(r, x).active = r.active
      /\ SnapInflight(r, x).marker_received = r.marker_received
      /\ SnapInflight(r, x).worker_state = r.worker_state
      /\ SnapInflight(r, x).finished = r.finished
  <2>1. SnapInflight(r, x)
          = [id |-> i, active |-> a, marker_received |-> m, inflight |-> x,
             worker_state |-> s, finished |-> n]
    BY <1>1 DEF SnapInflight
  <2> QED  BY <1>1, <1>2, <2>1
<1>6. /\ Snapped(SnapState(r, x)) /\ SnapState(r, x).worker_state = x
      /\ SnapState(r, x).id = r.id
      /\ SnapState(r, x).active = r.active
      /\ SnapState(r, x).marker_received = r.marker_received
      /\ SnapState(r, x).inflight = r.inflight
      /\ SnapState(r, x).finished = r.finished
  <2>1. SnapState(r, x)
          = [id |-> i, active |-> a, marker_received |-> m, inflight |-> f,
             worker_state |-> x, finished |-> n]
    BY <1>1 DEF SnapState
  <2> QED  BY <1>1, <1>2, <2>1
<1> QED  BY <1>3, <1>4, <1>5, <1>6

LEMMA StoreKeeps ==
  ASSUME Accounted, Store
  PROVE  Accounted'
<1>1. /\ saving # None /\ saving' = None /\ latest' \in {latest, saving.data}
      /\ UNCHANGED <<starts, tasks, in_progress, finished, total, phase, conn>>
      /\ snap' = SnapActive(snap, FALSE)
  BY DEF Store, SnapActive
<1>2. SameServed  BY <1>1, SameConn DEF Accounted
<1>3. starts # 0 /\ phase # "off" /\ Snapped(snap)
  BY <1>1 DEF Accounted, Idle
<1>4. Snapped(snap') /\ ~snap'.active  BY <1>1, <1>3, SnapField
<1>5. \A s \in Stored' : s \in Stored  BY <1>1 DEF Stored
<1> QED  BY <1>1, <1>2, <1>3, <1>4, <1>5, Quiet

LEMMA EndKeeps ==
  ASSUME Accounted, EndLoop \/ SaveResults \/ Done
  PROVE  Accounted'
<1>1. /\ phase = "up" /\ phase' \in {"up", "done"} /\ latest' \in {None, latest}
      /\ UNCHANGED <<starts, tasks, in_progress, finished, total, snap, saving, conn>>
  BY DEF EndLoop, SaveResults, Done
<1>2. SameServed  BY <1>1, SameConn DEF Accounted
<1>3. starts # 0 /\ Snapped(snap')  BY <1>1 DEF Accounted
<1>4. \A s \in Stored' : s \in Stored  BY <1>1 DEF Stored
<1> QED  BY <1>1, <1>2, <1>3, <1>4, Quiet

LEMMA NothingKeeps ==
  ASSUME Accounted, NothingRead
  PROVE  Accounted'
<1>1. /\ phase = "off" /\ starts \in Nat /\ starts' = starts + 1
      /\ UNCHANGED <<phase, in_progress, snap, saving, conn, latest>>
  BY DEF NothingRead, Accounted
<1>2. SameServed  BY <1>1, SameConn DEF Accounted
<1>3. Idle'  BY <1>1, <1>2 DEF Accounted, SameServed, Idle
<1>4. Stored' = Stored  BY <1>1 DEF Stored
<1> QED  BY <1>1, <1>2, <1>3, <1>4 DEF Accounted, SameServed

\* An action of a handler on connection c, which the coordinator answers or not
LEMMA PoppedServed ==
  ASSUME Wires, NEW c \in Conn, conn' = [conn EXCEPT ![c] = Popped(c)]
  PROVE  SameServed
<1>1. Popped(c) = WithUp(conn[c], Tail(conn[c].up))  BY DEF Popped, WithUp
<1>2. Wired(Popped(c)) /\ Popped(c).handler = conn[c].handler
  BY <1>1, OneField DEF Wires
<1>3. Rewired(c, Popped(c))  BY DEF Rewired
<1> QED  BY <1>2, <1>3, SameHandler DEF Served

LEMMA MarkerKeeps ==
  ASSUME Accounted, NEW c \in Conn, HandleMarker(c)
  PROVE  Accounted'
<1>1. /\ phase = "up" /\ conn' = [conn EXCEPT ![c] = Popped(c)]
      /\ UNCHANGED <<phase, starts, tasks, in_progress, finished, total, latest>>
  BY DEF HandleMarker, Receives
<1>2. SameServed  BY <1>1, PoppedServed DEF Accounted
<1>3. /\ starts # 0 /\ Snapped(snap)
      /\ Counts(tasks, in_progress, finished, total, starts = 1)
      /\ snap.active => snap.finished \in Nat /\ snap.finished <= finished
  BY <1>1 DEF Accounted
<1> DEFINE w == c[1]
           m == Head(conn[c].up)
           marked == SnapReceived(snap, [snap.marker_received EXCEPT ![w] = TRUE])
           next == SnapState(marked,
                     [snap.worker_state EXCEPT ![w] = [task_id |-> m.task, numid |-> m.numid]])
<1>4. /\ snap' = next \/ snap' = snap
      /\ \/ saving' = saving
         \/ snap.active /\ saving' = [conn |-> c, data |-> Contents(next)]
  <2>1. /\ marked.worker_state = snap.worker_state /\ Snapped(marked)
        /\ marked.active = snap.active /\ marked.finished = snap.finished
    BY <1>3, SnapField
  <2>2. next = [snap EXCEPT !.marker_received[w] = TRUE,
                            !.worker_state[w] = [task_id |-> m.task, numid |-> m.numid]]
    BY <2>1 DEF SnapReceived, SnapState
  <2> HIDE DEF next
  <2> QED  BY <2>2 DEF HandleMarker
<1>5. Snapped(next) /\ next.active = snap.active /\ next.finished = snap.finished
  <2>1. /\ Snapped(marked) /\ marked.active = snap.active
        /\ marked.finished = snap.finished
    BY <1>3, SnapField
  <2> HIDE DEF marked
  <2> QED  BY <2>1, SnapField
<1> HIDE DEF next
<1>6. ASSUME snap.active PROVE Sums(Contents(next))
  <2>1. /\ Contents(next).finished = snap.finished /\ Contents(next).total = total
        /\ Contents(next).tasks = tasks /\ Contents(next).in_progress = in_progress
    BY <1>5 DEF Contents
  <2>2. Counts(tasks, in_progress, snap.finished, total, FALSE)
    BY <1>3, <1>6, FewerCounted
  <2> QED  BY <2>1, <2>2 DEF Sums
<1>7. \A s \in Stored' : s \in Stored \/ Sums(s)
  <2>1. CASE saving' = saving  BY <1>1, <2>1 DEF Stored
  <2>2. CASE snap.active /\ saving' = [conn |-> c, data |-> Contents(next)]
    <3>1. saving'.data = Contents(next)  BY <2>2
    <3>2. \A s \in Stored' : s \in Stored \/ s = Contents(next)
      BY <1>1, <3>1 DEF Stored
    <3> QED  BY <1>6, <2>2, <3>2
  <2> QED  BY <1>4, <2>1, <2>2
<1>8. Snapped(snap') /\ snap'.active = snap.active /\ snap'.finished = snap.finished
  BY <1>3, <1>4, <1>5
<1> QED  BY <1>1, <1>2, <1>3, <1>7, <1>8, Quiet

LEMMA SnapshotKeeps ==
  ASSUME Accounted, StartSnapshot
  PROVE  Accounted'
<1> DEFINE sends(c) == workers[c[1]] = c[2] /\ conn[c].open
           msgs(c) == Append(conn[c].down, [type |-> "marker", sid |-> snap.id + 1])
           r(c) == IF sends(c) THEN WithDown(conn[c], msgs(c)) ELSE conn[c]
<1>1. conn' = [c \in Conn |-> r(c)]  BY DEF StartSnapshot, WithDown
<1>2. ASSUME NEW c \in Conn PROVE Wired(r(c)) /\ r(c).handler = conn[c].handler
  <2>1. Wired(conn[c])  BY DEF Accounted, Wires
  <2> HIDE DEF sends, msgs
  <2>2. CASE sends(c)  BY <2>1, <2>2, OneField
  <2>3. CASE ~sends(c)  BY <2>1, <2>3
  <2> QED  BY <2>2, <2>3
<1> HIDE DEF r
<1>3. SameServed
  <2>1. \A c \in Conn : conn'[c] = r(c)  BY <1>1
  <2>2. conn' = [c \in Conn |-> conn'[c]]  BY <1>1
  <2> QED  BY <1>2, <2>1, <2>2 DEF SameServed, Wires, Served
<1>4. /\ starts # 0 /\ phase = "up"
      /\ UNCHANGED <<phase, starts, tasks, in_progress, finished, total, saving, latest>>
      /\ \E active : snap' = start(active)
  BY DEF Accounted, StartSnapshot
<1>5. Snapped(snap') /\ snap'.finished = finished
  <2>1. PICK active : snap' = start(active)  BY <1>4
  <2>2. start(active).finished = finished  BY DEF start
  <2>3. Snapped(start(active))  BY DEF start, Snapped
  <2> QED  BY <2>1, <2>2, <2>3
<1>6. Stored' = Stored  BY <1>4 DEF Stored
<1> QED  BY <1>3, <1>4, <1>5, <1>6, Quiet

LEMMA CrashKeeps ==
  ASSUME Accounted, Crash
  PROVE  Accounted'
<1>1. /\ starts \in Nat \ {0} /\ starts' = starts /\ phase' = "off"
      /\ in_progress' = [w \in Worker |-> None]
      /\ snap' = NoSnapshot /\ saving' = None
      /\ latest' \in {latest} \cup (IF saving = None THEN {} ELSE {saving.data})
  BY DEF Accounted, Crash
<1> DEFINE r(c) == IF conn[c].handler = "none" THEN conn[c] ELSE Closed(c)
<1>2. conn' = [c \in Conn |-> r(c)]  BY DEF Crash
<1>3. ASSUME NEW c \in Conn PROVE Wired(r(c)) /\ r(c).handler # "serving"
  <2>1. Wired(conn[c])  BY DEF Accounted, Wires
  <2> QED  BY <2>1, ClosedRecord
<1> HIDE DEF r
<1>4. Wires' /\ \A c \in Conn : ~Served(c)'
  <2>1. \A c \in Conn : conn'[c] = r(c)  BY <1>2
  <2>2. conn' = [c \in Conn |-> conn'[c]]  BY <1>2
  <2> QED  BY <1>3, <2>1, <2>2 DEF Wires, Served
<1>5. Snapped(snap') /\ ~snap'.active  BY <1>1 DEF NoSnapshot, Snapped
<1>6. Idle'  BY <1>1, <1>4, <1>5 DEF Idle
<1>7. \A s \in Stored' : s \in Stored  BY <1>1 DEF Stored
<1> QED  BY <1>1, <1>4, <1>5, <1>6, <1>7 DEF Accounted

LEMMA StartKeeps ==
  ASSUME Accounted, Start
  PROVE  Accounted'
<1>1. /\ starts \in Nat /\ starts < MaxStart /\ starts' = starts + 1
      /\ phase = "off" /\ phase' = "up" /\ Idle /\ Snapped(snap)
      /\ starts = 0 => latest = None
      /\ UNCHANGED <<in_progress, snap, saving, conn, latest>>
      /\ Restore \/ StartFresh
  BY DEF Start, Accounted
<1>2. SameServed  BY <1>1, SameConn DEF Accounted
<1>3. Serving'
  <2>1. \A c \in Conn : c[1] \in Worker  BY DEF Conn
  <2> QED  BY <1>1, <1>2, <2>1 DEF Serving, SameServed, Idle
<1>4. in_progress' = [w \in Worker |-> None]  BY <1>1 DEF Idle
<1>5. Counts(tasks, in_progress, finished, total, starts = 1)'
  <2>1. CASE StartFresh
    <3>1. PICK of \in Input : /\ tasks' = split_numbers(starts + 1, of)
                              /\ finished' = 0 /\ total' = NumTasks(of)
      BY <2>1 DEF StartFresh
    <3>2. starts + 1 \in 1..MaxStart  BY <1>1, BoundsAssumption
    <3>3. Accounts(split_numbers(starts + 1, of), [w \in Worker |-> None], 0, NumTasks(of))
      BY <3>2, FreshTasks
    <3>4. Accounts(tasks', in_progress', finished', total')  BY <1>4, <3>1, <3>3
    <3> QED  BY <3>1, <3>4 DEF Counts
  <2>2. CASE Restore
    <3>1. PICK again \in Listings(Values(latest.in_progress)) :
            tasks' = again \o latest.tasks
      BY <2>2 DEF Restore
    <3>2. latest # None /\ finished' = latest.finished /\ total' = latest.total
      BY <2>2 DEF Restore
    <3>3. Sums(latest)  BY <3>2 DEF Accounted, Stored
    <3>4. PICK g \in Nat :
            /\ latest.finished \in Nat /\ latest.finished <= g
            /\ Accounts(latest.tasks, latest.in_progress, g, latest.total)
      BY <3>3 DEF Sums, Counts
    <3>5. Accounts(again \o latest.tasks, [w \in Worker |-> None], g, latest.total)
      BY <3>4, Requeueing
    <3>6. Accounts(tasks', in_progress', g, total')  BY <1>4, <3>1, <3>2, <3>5
    <3>7. starts' # 1  BY <1>1, <3>2
    <3> QED  BY <3>2, <3>4, <3>6, <3>7 DEF Counts
  <2> QED  BY <1>1, <2>1, <2>2
<1>6. Stored' = Stored  BY <1>1 DEF Stored
<1>7. ~snap'.active /\ (Snapped(snap))'  BY <1>1 DEF Idle
<1>8. starts' \in Nat /\ starts' # 0 /\ Wires'  BY <1>1, <1>2 DEF SameServed
<1> QED  BY <1>1, <1>3, <1>5, <1>6, <1>7, <1>8 DEF Accounted

\* With one slot a worker has one connection.
LEMMA OneConnection ==
  ASSUME OneSlot, NEW c \in Conn, NEW d \in Conn, c[1] = d[1]
  PROVE  c = d
BY DEF OneSlot, Conn

\* The handler of c ends, and its worker has nothing in progress any more.
LEMMA LeftServing ==
  ASSUME OneSlot, Wires, Serving, in_progress \in [Worker -> Task \cup {None}],
         NEW c \in Conn, NEW r, Rewired(c, r), Wired(r), r.handler # "serving",
         in_progress' = [in_progress EXCEPT ![c[1]] = None]
  PROVE  Wires' /\ Serving'
<1>1. c[1] \in Worker  BY DEF Conn
<1>2. /\ Wires'
      /\ ~Served(c)'
      /\ \A d \in Conn \ {c} : Served(d)' <=> Served(d)
  BY RewiredServing
<1>3. ASSUME NEW d \in Conn PROVE Served(d)' <=> (in_progress[d[1]] # None)'
  <2>1. CASE d = c  BY <1>1, <1>2, <2>1
  <2>2. CASE d # c
    <3>1. d[1] # c[1]  BY <2>2, OneConnection
    <3>2. in_progress'[d[1]] = in_progress[d[1]]  BY <3>1 DEF Conn
    <3> QED  BY <1>2, <2>2, <3>2 DEF Serving
  <2> QED  BY <2>1, <2>2
<1> QED  BY <1>2, <1>3 DEF Serving

\* What the steps of a handler have to show
LEMMA Handled ==
  ASSUME Accounted, phase = "up", Wires', UNCHANGED <<starts, phase, saving, latest>>,
         finished' \in {finished, finished + 1},
         snap' = snap \/ \E x : snap' = SnapInflight(snap, x),
         Counts(tasks', in_progress', finished', total', starts = 1), Serving'
  PROVE  Accounted'
<1>1. /\ starts \in Nat \ {0} /\ Snapped(snap) /\ finished \in Nat
      /\ snap.active => snap.finished \in Nat /\ snap.finished <= finished
  BY DEF Accounted, Counts
<1>2. Snapped(snap') /\ snap'.active = snap.active /\ snap'.finished = snap.finished
  BY <1>1, SnapField
<1>3. snap'.active => snap'.finished \in Nat /\ snap'.finished <= finished'
  BY <1>1, <1>2
<1>4. Stored' = Stored  BY DEF Stored
<1>5. Counts(tasks, in_progress, finished, total, starts = 1)'  OBVIOUS
<1> QED  BY <1>1, <1>2, <1>3, <1>4, <1>5 DEF Accounted

LEMMA HelloKeeps ==
  ASSUME OneSlot, Accounted, NEW c \in Conn, HandleHello(c)
  PROVE  Accounted'
<1> DEFINE w == c[1]
           reply(msg) == [Popped(c) EXCEPT !.handler = "serving", !.down = Append(@, msg)]
           sent(msg) == Replied(conn[c], Append(conn[c].down, msg), Tail(conn[c].up))
<1>1. /\ phase = "up" /\ starts \in Nat \ {0} /\ Wires /\ w \in Worker
      /\ conn[c].handler = "hello" /\ Wired(conn[c])
      /\ UNCHANGED <<phase, starts, finished, total, snap, saving, latest>>
      /\ Counts(tasks, in_progress, finished, total, starts = 1) /\ Serving
      /\ in_progress[w] = None
  <2>1. phase = "up" /\ conn[c].handler = "hello"  BY DEF HandleHello, Receives
  <2>2. ~Served(c)  BY <2>1 DEF Served
  <2>3. UNCHANGED <<phase, starts, finished, total, snap, saving, latest>>
    BY DEF HandleHello
  <2> QED  BY <2>1, <2>2, <2>3 DEF Accounted, Wires, Serving, Conn
<1>2. \A msg : reply(msg) = sent(msg)
  BY DEF Popped, Replied, WithUp, WithHandler, WithDown
<1>3. \A msg : Wired(sent(msg)) /\ sent(msg).handler = "serving"
  BY <1>1, RepliedRecord
<1>4. CASE tasks = <<>>
  <2> DEFINE r == IF conn[c].open
                  THEN WithHandler(reply([type |-> "shutdown"]), "ended") ELSE Unused
  <2>1. Rewired(c, r) /\ Leave(w, in_progress)
    BY <1>4 DEF HandleHello, Rewired, WithHandler
  <2>2. Wired(r) /\ r.handler # "serving"
    <3>1. Wired(Unused) /\ Unused.handler = "none"  BY DEF Wired, Unused
    <3> HIDE DEF reply, sent
    <3>2. Wired(reply([type |-> "shutdown"]))
      <4>1. reply([type |-> "shutdown"]) = sent([type |-> "shutdown"])  BY <1>2
      <4> QED  BY <1>3, <4>1
    <3>3. /\ Wired(WithHandler(reply([type |-> "shutdown"]), "ended"))
          /\ WithHandler(reply([type |-> "shutdown"]), "ended").handler = "ended"
      BY <3>2, OneField
    <3> QED  BY <3>1, <3>3
  <2> HIDE DEF r
  <2>3. Wires'  BY <1>1, <2>1, <2>2, RewiredServing
  <2>4. in_progress \in [Worker -> Task \cup {None}]  BY <1>1, CountsType
  <2>5. /\ tasks' = tasks /\ in_progress' = in_progress
        /\ in_progress' = [in_progress EXCEPT ![c[1]] = None]
    BY <1>1, <2>1, <2>4 DEF Leave
  <2>6. Serving'  BY <1>1, <2>1, <2>2, <2>4, <2>5, LeftServing
  <2>7. Counts(tasks', in_progress', finished', total', starts = 1)  BY <1>1, <2>5
  <2> QED  BY <1>1, <2>3, <2>6, <2>7, Handled
<1>5. CASE tasks # <<>>
  <2> DEFINE r == sent([type |-> "task", task |-> Head(tasks)])
  <2>1. Rewired(c, r)  BY <1>2, <1>5 DEF HandleHello, Rewired
  <2>2. /\ in_progress' = [in_progress EXCEPT ![w] = Head(tasks)]
        /\ tasks' = Tail(tasks)
    BY <1>5 DEF HandleHello
  <2>3. Wired(r) /\ r.handler = "serving"  BY <1>3
  <2> HIDE DEF r
  <2>4. /\ Wires'
        /\ Served(c)'
        /\ \A d \in Conn \ {c} : Served(d)' <=> Served(d)
    BY <1>1, <2>1, <2>3, RewiredServing
  <2>5. Counts(tasks', in_progress', finished', total', starts = 1)
    BY <1>1, <1>5, <2>2, CountsAssigned
  <2>6. Head(tasks) # None /\ in_progress \in [Worker -> Task \cup {None}]
    <3>1. tasks \in Seq(Task) /\ in_progress \in [Worker -> Task \cup {None}]
      BY <1>1, CountsType
    <3> QED  BY <1>5, <3>1, TaskAssumption
  <2>7. ASSUME NEW d \in Conn PROVE Served(d)' <=> (in_progress[d[1]] # None)'
    <3>1. CASE d = c  BY <1>1, <2>2, <2>4, <2>6, <3>1
    <3>2. CASE d # c
      <4>1. d[1] # c[1]  BY <3>2, OneConnection
      <4>2. in_progress'[d[1]] = in_progress[d[1]]  BY <2>2, <2>6, <4>1 DEF Conn
      <4> QED  BY <1>1, <2>4, <3>2, <4>2 DEF Serving
    <3> QED  BY <3>1, <3>2
  <2>8. Serving'  BY <2>7 DEF Serving
  <2> QED  BY <1>1, <2>4, <2>5, <2>8, Handled
<1> QED  BY <1>4, <1>5

\* What the finally clause does to a worker that has a task in progress
LEMMA LeaveKeeps ==
  ASSUME OneSlot, Accounted, NEW c \in Conn, phase = "up", Served(c),
         NEW r, Rewired(c, r), Wired(r), r.handler # "serving",
         UNCHANGED <<phase, starts, finished, total, snap, saving, latest>>,
         Leave(c[1], in_progress)
  PROVE  Accounted'
<1>1. /\ Wires /\ c[1] \in Worker /\ Serving
      /\ Counts(tasks, in_progress, finished, total, starts = 1)
  BY DEF Accounted, Conn
<1>2. Wires'  BY <1>1, RewiredServing
<1>3. in_progress[c[1]] # None  BY <1>1 DEF Serving
<1>4. /\ tasks' = <<in_progress[c[1]]>> \o tasks
      /\ in_progress' = [in_progress EXCEPT ![c[1]] = None]
  BY <1>3 DEF Leave
<1>5. Counts(tasks', in_progress', finished', total', starts = 1)
  BY <1>1, <1>3, <1>4, CountsRequeued
<1>6. Serving'  BY <1>1, <1>4, LeftServing, CountsType
<1> QED  BY <1>2, <1>5, <1>6, Handled

LEMMA ResultKeeps ==
  ASSUME OneSlot, Accounted, NEW c \in Conn, HandleResult(c)
  PROVE  Accounted'
<1>1. /\ phase = "up" /\ Served(c) /\ Wires /\ Wired(conn[c])
      /\ UNCHANGED <<phase, starts, finished, total, saving, latest>>
      /\ Counts(tasks, in_progress, finished, total, starts = 1) /\ Serving
  BY DEF HandleResult, Receives, Accounted, Wires, Served
<1>2. CASE /\ \E n : snap' = save_inflight(c[1], n)
           /\ conn' = [conn EXCEPT ![c] = Popped(c)]
           /\ UNCHANGED <<tasks, in_progress, workers>>
  <2>1. SameServed  BY <1>1, <1>2, PoppedServed
  <2>2. snap' = snap \/ \E x : snap' = SnapInflight(snap, x)
    BY <1>2 DEF save_inflight, SnapInflight
  <2>3. Counts(tasks', in_progress', finished', total', starts = 1)  BY <1>1, <1>2
  <2>4. Serving'  BY <1>1, <1>2, <2>1 DEF Serving, SameServed
  <2>5. Wires'  BY <2>1 DEF SameServed
  <2> QED  BY <1>1, <2>2, <2>3, <2>4, <2>5, Handled
<1>3. CASE /\ Leave(c[1], in_progress)
           /\ conn' = [conn EXCEPT ![c] = Closed(c)]
           /\ UNCHANGED snap
  <2>1. Wired(Closed(c)) /\ Closed(c).handler # "serving"  BY <1>1, ClosedRecord
  <2>2. Rewired(c, Closed(c))  BY <1>3 DEF Rewired
  <2> QED  BY <1>1, <1>3, <2>1, <2>2, LeaveKeeps
<1> QED  BY <1>2, <1>3 DEF HandleResult

LEMMA FinishKeeps ==
  ASSUME OneSlot, Accounted, NEW c \in Conn, HandleFinish(c)
  PROVE  Accounted'
<1>1. /\ phase = "up" /\ Served(c) /\ Wires /\ Wired(conn[c]) /\ c[1] \in Worker
      /\ UNCHANGED <<phase, starts, total, snap, saving, latest>>
      /\ finished' = finished + 1
      /\ Leave(c[1], [in_progress EXCEPT ![c[1]] = None])
      /\ Rewired(c, Closed(c))
      /\ Counts(tasks, in_progress, finished, total, starts = 1) /\ Serving
  BY DEF HandleFinish, Receives, Accounted, Wires, Served, Rewired, Conn
<1>2. Wired(Closed(c)) /\ Closed(c).handler # "serving"  BY <1>1, ClosedRecord
<1>3. Wires'  BY <1>1, <1>2, RewiredServing
<1>4. in_progress \in [Worker -> Task \cup {None}] /\ in_progress[c[1]] # None
  BY <1>1, CountsType DEF Serving
<1>5. tasks' = tasks /\ in_progress' = [in_progress EXCEPT ![c[1]] = None]
  BY <1>1, <1>4 DEF Leave
<1>6. Counts(tasks', in_progress', finished', total', starts = 1)
  BY <1>1, <1>4, <1>5, CountsCompleted
<1>7. Serving'  BY <1>1, <1>2, <1>4, <1>5, LeftServing
<1> QED  BY <1>1, <1>3, <1>6, <1>7, Handled

LEMMA DisconnectKeeps ==
  ASSUME OneSlot, Accounted, NEW c \in Conn, HandleDisconnect(c)
  PROVE  Accounted'
<1>1. /\ phase = "up" /\ Wires /\ Rewired(c, Unused)
      /\ UNCHANGED <<phase, starts, finished, total, snap, saving, latest>>
      /\ Counts(tasks, in_progress, finished, total, starts = 1) /\ Serving
  BY DEF HandleDisconnect, Accounted, Rewired
<1>2. Wired(Unused) /\ Unused.handler = "none"  BY DEF Wired, Unused
<1>3. CASE Served(c)
  <2>1. Leave(c[1], in_progress)  BY <1>3 DEF HandleDisconnect, Served
  <2> QED  BY <1>1, <1>2, <1>3, <2>1, LeaveKeeps
<1>4. CASE ~Served(c)
  <2>1. UNCHANGED <<tasks, in_progress, workers>>
    BY <1>4 DEF HandleDisconnect, Served
  <2>2. SameServed  BY <1>1, <1>2, <1>4, SameHandler
  <2>3. Counts(tasks', in_progress', finished', total', starts = 1)  BY <1>1, <2>1
  <2>4. Wires' /\ Serving'  BY <1>1, <2>1, <2>2 DEF Serving, SameServed
  <2> QED  BY <1>1, <2>3, <2>4, Handled
<1> QED  BY <1>3, <1>4

LEMMA NextKeeps ==
  ASSUME OneSlot, Accounted, [Next]_vars
  PROVE  Accounted'
<1>1. CASE Start  BY <1>1, StartKeeps
<1>2. CASE Store  BY <1>2, StoreKeeps
<1>3. CASE StartSnapshot  BY <1>3, SnapshotKeeps
<1>4. CASE EndLoop \/ SaveResults \/ Done  BY <1>4, EndKeeps
<1>5. CASE Crash  BY <1>5, CrashKeeps
<1>6. ASSUME NEW c \in Conn, Handle(c) PROVE Accounted'
  BY <1>6, HelloKeeps, ResultKeeps, MarkerKeeps, FinishKeeps, DisconnectKeeps
  DEF Handle
<1>7. ASSUME NEW w \in Worker, Work(w) \/ Kill(w) PROVE Accounted'
  BY <1>7, WorkKeeps
<1>8. CASE UNCHANGED vars
  <2>1. UNCHANGED <<coordinator, latest, conn>>  BY <1>8 DEF vars
  <2>2. SameServed  BY <2>1, SameConn DEF Accounted
  <2> QED  BY <2>1, <2>2, Unseen
<1>9. CASE NothingRead  BY <1>9, NothingKeeps
<1> QED  BY <1>1, <1>2, <1>3, <1>4, <1>5, <1>6, <1>7, <1>8, <1>9 DEF Next

-----------------------------------------------------------------------------

\* Before the first restart every task is queued, in the hands of one worker,
\* or counted as finished, and never two of these (handle_worker, split_numbers).
THEOREM TasksKept ==
  ASSUME OneSlot
  PROVE  Spec => []TasksAccounted
<1>1. Accounted => TasksAccounted
  BY DEF Accounted, Counts, Accounts, Holders, TasksAccounted
<1> QED  BY <1>1, InitAccounted, NextKeeps, PTL DEF Spec

\* No saved snapshot counts a task as finished that it hands out again, over
\* any number of restarts (save_snapshot, snapshot.start, run).
THEOREM NeverOvercounted ==
  ASSUME OneSlot
  PROVE  Spec => []SnapshotNeverOvercounts
<1>1. Accounted => SnapshotNeverOvercounts
  <2> SUFFICES ASSUME Accounted, latest # None
               PROVE  latest.finished
                        + Cardinality(Unfinished(latest.tasks, latest.in_progress))
                        <= latest.total
    BY DEF SnapshotNeverOvercounts
  <2> DEFINE U == Unfinished(latest.tasks, latest.in_progress)
  <2>1. Sums(latest)  BY DEF Accounted, Stored
  <2>2. PICK g \in Nat :
          /\ latest.finished \in Nat /\ latest.finished <= g
          /\ Accounts(latest.tasks, latest.in_progress, g, latest.total)
    BY <2>1 DEF Sums, Counts
  <2>3. Cardinality(U) \in Nat /\ g + Cardinality(U) = latest.total
    BY <2>2, FS_CardinalityType DEF Accounts
  <2> HIDE DEF U
  <2>4. latest.finished + Cardinality(U) <= latest.total  BY <2>2, <2>3
  <2> QED  BY <2>4 DEF U
<1> QED  BY <1>1, InitAccounted, NextKeeps, PTL DEF Spec
=============================================================================

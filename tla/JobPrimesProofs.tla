-------------------------- MODULE JobPrimesProofs ---------------------------
(***************************************************************************)
(* Theorems about Job, for any workers, input, kills and snapshots, if a   *)
(* worker has one connection at a time: no prime is lost, neither by a     *)
(* saved snapshot nor by the job, whatever is killed and restored.         *)
(***************************************************************************)
EXTENDS JobProofs

-----------------------------------------------------------------------------
(* Chunks: a prime is in one of them.                                      *)

LEMMA PrimesUpToZero ==
  ASSUME NEW of, NEW n
  PROVE  PrimesUpTo(of, n, 0) = {}
BY DEF PrimesUpTo

LEMMA PrimesUpToNext ==
  ASSUME NEW of, NEW n, NEW k \in Nat
  PROVE  PrimesUpTo(of, n, k + 1) = PrimesUpTo(of, n, k) \cup ({Chunk(of, n)[k + 1]} \cap Primes)
<1>1. 1..k + 1 = (1..k) \cup {k + 1}  OBVIOUS
<1>2. \A a : a \in 1..k + 1 <=> a \in 1..k \/ a = k + 1  BY <1>1
<1> QED  BY <1>2 DEF PrimesUpTo

LEMMA PrimesUpToMono ==
  ASSUME NEW of, NEW n, NEW j \in Nat, NEW k \in Nat, j <= k
  PROVE  PrimesUpTo(of, n, j) \subseteq PrimesUpTo(of, n, k)
<1>1. \A a : a \in 1..j => a \in 1..k  OBVIOUS
<1> QED  BY <1>1 DEF PrimesUpTo

\* The chunks cover the input (split_numbers).
LEMMA EveryPrime ==
  ASSUME NEW of \in Input, NEW p \in PrimesOf(of)
  PROVE  \E n \in 1..NumTasks(of) : p \in PrimesUpTo(of, n, Len(Chunk(of, n)))
<1> DEFINE cs == chunk_size(of)
           N == NumTasks(of)
           L == Len(of)
<1>1. PICK i \in 1..L : p = of[i] /\ p \in Primes  BY DEF PrimesOf
<1> DEFINE q == (i - 1) \div cs
           n == q + 1
           first == q * cs
<1>2. /\ cs \in Nat \ {0} /\ N \in Nat /\ L \in Nat \ {0} /\ i \in 1..L
      /\ N = (L + cs - 1) \div cs /\ of \in Seq(Nat)
  BY ChunkSizes DEF NumTasks, ceil
<1> HIDE DEF cs, N, L
<1>3. q \in Nat /\ q * cs <= i - 1 /\ i - 1 < q * cs + cs
  <2>1. i - 1 \in Nat  BY <1>2
  <2>2. \A x \in Nat : x \div cs \in Nat /\ (x \div cs) * cs <= x
                       /\ x < (x \div cs) * cs + cs
    BY <1>2
  <2> QED  BY <2>1, <2>2
<1>4. L <= N * cs
  <2>1. L + cs - 1 < N * cs + cs  BY <1>2
  <2>2. N * cs \in Int  BY <1>2
  <2> QED  BY <1>2, <2>1, <2>2
<1> HIDE DEF q
<1>5. q < N
  <2>1. q * cs < N * cs  BY <1>2, <1>3, <1>4
  <2> QED  BY <1>2, <1>3, <2>1
<1>6. /\ n \in 1..N /\ first \in Nat /\ i - first \in 1..cs
      /\ i - first \in 1..L - first /\ first + (i - first) = i
  BY <1>2, <1>3, <1>5
<1> DEFINE size == IF n = N THEN L - first ELSE cs
<1>7. Chunk(of, n) = [k \in 1..size |-> of[first + k]]
  <2>1. n - 1 = q  BY <1>3
  <2> QED  BY <2>1 DEF Chunk, cs, N, L
<1> HIDE DEF n, first
<1>8. size \in Nat /\ i - first \in 1..size  BY <1>2, <1>6
<1> HIDE DEF size
<1>9. Len(Chunk(of, n)) = size
  <2> DEFINE T == {of[first + k] : k \in 1..size}
  <2>1. Chunk(of, n) \in [1..size -> T]  BY <1>7
  <2>2. Chunk(of, n) \in Seq(T) /\ DOMAIN Chunk(of, n) = 1..size
    BY <1>7, <1>8, <2>1, SeqDef
  <2> HIDE DEF T
  <2> QED  BY <1>8, <2>2, LenProperties
<1>10. Chunk(of, n)[i - first] = p
  BY <1>1, <1>6, <1>7, <1>8
<1>11. p \in PrimesUpTo(of, n, Len(Chunk(of, n)))
  BY <1>1, <1>8, <1>9, <1>10 DEF PrimesUpTo
<1> QED  BY <1>6, <1>11 DEF N

-----------------------------------------------------------------------------
(* What is on its way on a connection.                                     *)

IsSeq(s) == \E S : s \in Seq(S)

LEMMA SeqEmpty == IsSeq(<<>>) /\ Len(<<>>) = 0
<1>1. <<>> \in Seq({})  OBVIOUS
<1> QED  BY <1>1 DEF IsSeq

LEMMA SeqOne ==
  ASSUME NEW m
  PROVE  IsSeq(<<m>>) /\ Len(<<m>>) = 1 /\ <<m>>[1] = m
<1>1. <<m>> \in Seq({m})  OBVIOUS
<1> QED  BY <1>1 DEF IsSeq

LEMMA SeqAppend ==
  ASSUME NEW s, IsSeq(s), NEW m
  PROVE  /\ IsSeq(Append(s, m)) /\ Len(s) \in Nat /\ Len(Append(s, m)) = Len(s) + 1
         /\ \A k \in 1..Len(s) : Append(s, m)[k] = s[k]
         /\ Append(s, m)[Len(s) + 1] = m
         /\ Append(s, m) # <<>>
         /\ Head(Append(s, m)) = IF s = <<>> THEN m ELSE Head(s)
<1>1. PICK S : s \in Seq(S)  BY DEF IsSeq
<1>2. s \in Seq(S \cup {m})  BY <1>1
<1> DEFINE T == S \cup {m}
           a == Append(s, m)
<1>3. m \in T  OBVIOUS
<1> HIDE DEF T
<1>4. s \in Seq(T)  BY <1>2 DEF T
<1>5. /\ a \in Seq(T) /\ Len(s) \in Nat /\ Len(a) = Len(s) + 1
      /\ \A k \in 1..Len(s) : a[k] = s[k]
      /\ a[Len(s) + 1] = m
  BY <1>3, <1>4, AppendProperties
<1> HIDE DEF a
<1>6. a # <<>>  BY <1>5
<1>7. Head(a) = a[1]  BY <1>5, <1>6
<1>8. CASE s = <<>>
  <2>1. Len(s) = 0  BY <1>8
  <2>2. a[1] = m  BY <1>5, <2>1
  <2> QED  BY <1>5, <1>6, <1>7, <1>8, <2>2 DEF IsSeq, a
<1>9. CASE s # <<>>
  <2>1. Head(s) = s[1] /\ 1 \in 1..Len(s)  BY <1>4, <1>9
  <2>2. a[1] = s[1]  BY <1>5, <2>1
  <2> QED  BY <1>5, <1>6, <1>7, <1>9, <2>1, <2>2 DEF IsSeq, a
<1> QED  BY <1>8, <1>9

LEMMA SeqTail ==
  ASSUME NEW s, IsSeq(s), s # <<>>
  PROVE  /\ IsSeq(Tail(s)) /\ Len(s) \in Nat \ {0} /\ Len(Tail(s)) = Len(s) - 1
         /\ Head(s) = s[1]
         /\ \A k \in 1..Len(s) - 1 : Tail(s)[k] = s[k + 1]
<1>1. PICK S : s \in Seq(S)  BY DEF IsSeq
<1>2. Len(s) \in Nat \ {0} /\ Head(s) = s[1]  BY <1>1
<1>3. /\ Tail(s) \in Seq(S) /\ Len(Tail(s)) = Len(s) - 1
      /\ \A k \in 1..Len(s) - 1 : Tail(s)[k] = s[k + 1]
  BY <1>1
<1> QED  BY <1>2, <1>3 DEF IsSeq

LEMMA SeqSub ==
  ASSUME NEW s, IsSeq(s), NEW n \in 0..Len(s)
  PROVE  /\ IsSeq(SubSeq(s, 1, n)) /\ Len(s) \in Nat /\ Len(SubSeq(s, 1, n)) = n
         /\ \A k \in 1..n : SubSeq(s, 1, n)[k] = s[k]
<1>1. PICK S : s \in Seq(S)  BY DEF IsSeq
<1>2. Len(s) \in Nat  BY <1>1
<1>3. \A i \in 1..n : s[i] \in S  BY <1>1, <1>2, ElementOfSeq
<1>4. /\ SubSeq(s, 1, n) \in Seq(S) /\ Len(SubSeq(s, 1, n)) = n
      /\ \A k \in 1..n : SubSeq(s, 1, n)[k] = s[k]
  BY <1>1, <1>2, <1>3
<1> QED  BY <1>2, <1>4 DEF IsSeq

\* The primes that messages 1 .. k - 1 report
Told(s, k) == {s[j].prime : j \in {i \in 1..k - 1 : s[i].type = "result"}}

\* The message m of a worker on task t counts on primes that are in Q.
Speaks(m, t, Q, st) ==
  /\ m.type = "finish" => PrimesUpTo(t.of, t.n, Len(Chunk(t.of, t.n))) \subseteq Q
  /\ m.type = "marker" => /\ m.task \in Task /\ m.task.run <= st /\ m.numid \in Nat
                          /\ PrimesUpTo(m.task.of, m.task.n, m.numid) \subseteq Q

\* Each message counts on primes in P and on those sent before it.
Flows(s, t, P, st) ==
  \A k \in 1..Len(s) : Speaks(s[k], t, P \cup Told(s, k), st)

\* Everything that is known once all messages are read
Reach(s, P) == P \cup Told(s, Len(s) + 1)

LEMMA SpeaksMore ==
  ASSUME NEW m, NEW t, NEW Q, NEW R, Q \subseteq R, NEW st, Speaks(m, t, Q, st)
  PROVE  Speaks(m, t, R, st)
BY DEF Speaks

LEMMA FlowsMore ==
  ASSUME NEW s, NEW t, NEW P, NEW Q, P \subseteq Q, NEW st, Flows(s, t, P, st)
  PROVE  Flows(s, t, Q, st) /\ Reach(s, P) \subseteq Reach(s, Q)
<1>1. ASSUME NEW k \in 1..Len(s) PROVE Speaks(s[k], t, Q \cup Told(s, k), st)
  <2>1. Speaks(s[k], t, P \cup Told(s, k), st)  BY DEF Flows
  <2>2. P \cup Told(s, k) \subseteq Q \cup Told(s, k)  OBVIOUS
  <2> QED  BY <2>1, <2>2, SpeaksMore
<1> QED  BY <1>1 DEF Flows, Reach

LEMMA FlowsEmpty ==
  ASSUME NEW t, NEW P, NEW st
  PROVE  Flows(<<>>, t, P, st)
BY SeqEmpty DEF Flows

\* The messages of a prefix report the same.
LEMMA ToldPrefix ==
  ASSUME NEW s, NEW r, NEW k \in Nat, \A j \in 1..k - 1 : r[j] = s[j]
  PROVE  Told(r, k) = Told(s, k)
<1>1. {i \in 1..k - 1 : r[i].type = "result"} = {i \in 1..k - 1 : s[i].type = "result"}
  OBVIOUS
<1> QED  BY <1>1 DEF Told

LEMMA FlowsAppend ==
  ASSUME NEW s, IsSeq(s), NEW t, NEW P, NEW st, Flows(s, t, P, st),
         NEW m, Speaks(m, t, Reach(s, P), st)
  PROVE  /\ Flows(Append(s, m), t, P, st)
         /\ Reach(s, P) \subseteq Reach(Append(s, m), P)
         /\ m.type = "result" => m.prime \in Reach(Append(s, m), P)
<1> DEFINE a == Append(s, m)
           n == Len(s)
<1>1. /\ n \in Nat /\ Len(a) = n + 1 /\ a[n + 1] = m
      /\ \A k \in 1..n : a[k] = s[k]
  BY SeqAppend
<1> HIDE DEF a, n
<1>2. ASSUME NEW k \in 1..n + 1 PROVE Told(a, k) = Told(s, k)
  <2>1. \A j \in 1..k - 1 : a[j] = s[j]  BY <1>1
  <2> QED  BY <1>1, <2>1, ToldPrefix
<1>3. ASSUME NEW k \in 1..Len(a) PROVE Speaks(a[k], t, P \cup Told(a, k), st)
  <2>1. k \in 1..n + 1 /\ Told(a, k) = Told(s, k)  BY <1>1, <1>2
  <2>2. CASE k = n + 1  BY <1>1, <2>1, <2>2 DEF Reach, n
  <2>3. CASE k # n + 1
    <3>1. k \in 1..n  BY <1>1, <2>1, <2>3
    <3> QED  BY <1>1, <2>1, <3>1 DEF Flows, n
  <2> QED  BY <2>2, <2>3
<1>4. Told(s, n + 1) \subseteq Told(a, n + 2)
      /\ (m.type = "result" => m.prime \in Told(a, n + 2))
  <2>1. \A j \in 1..(n + 1) - 1 : j \in 1..(n + 2) - 1 /\ a[j] = s[j]  BY <1>1
  <2>2. n + 1 \in 1..(n + 2) - 1  BY <1>1
  <2> QED  BY <1>1, <2>1, <2>2 DEF Told
<1>5. Len(a) + 1 = n + 2  BY <1>1
<1>6. Reach(s, P) \subseteq Reach(a, P)
      /\ (m.type = "result" => m.prime \in Reach(a, P))
  BY <1>4, <1>5 DEF Reach, n
<1> QED  BY <1>3, <1>6 DEF Flows, a

LEMMA FlowsSub ==
  ASSUME NEW s, IsSeq(s), NEW t, NEW P, NEW st, Flows(s, t, P, st), NEW n \in 0..Len(s)
  PROVE  Flows(SubSeq(s, 1, n), t, P, st)
<1> DEFINE a == SubSeq(s, 1, n)
<1>1. Len(s) \in Nat /\ Len(a) = n /\ \A k \in 1..n : a[k] = s[k]  BY SeqSub
<1> HIDE DEF a
<1>2. ASSUME NEW k \in 1..Len(a) PROVE Speaks(a[k], t, P \cup Told(a, k), st)
  <2>1. k \in 1..Len(s) /\ k \in Nat /\ a[k] = s[k] /\ \A j \in 1..k - 1 : a[j] = s[j]
    BY <1>1
  <2>2. Told(a, k) = Told(s, k)  BY <2>1, ToldPrefix
  <2> QED  BY <2>1, <2>2 DEF Flows
<1> QED  BY <1>2 DEF Flows, a

\* The first message is read: what it reports is in Q.
LEMMA FlowsTail ==
  ASSUME NEW s, IsSeq(s), s # <<>>, NEW t, NEW P, NEW st, Flows(s, t, P, st),
         NEW Q, P \subseteq Q, Head(s).type = "result" => Head(s).prime \in Q
  PROVE  Flows(Tail(s), t, Q, st) /\ Reach(s, P) \subseteq Reach(Tail(s), Q)
<1> DEFINE a == Tail(s)
           n == Len(s)
<1>1. /\ n \in Nat \ {0} /\ Len(a) = n - 1 /\ Head(s) = s[1]
      /\ \A k \in 1..n - 1 : a[k] = s[k + 1]
  BY SeqTail
<1> HIDE DEF a, n
<1>2. ASSUME NEW k \in 1..n PROVE P \cup Told(s, k + 1) \subseteq Q \cup Told(a, k)
  <2> SUFFICES ASSUME NEW j \in 1..(k + 1) - 1, s[j].type = "result"
               PROVE  s[j].prime \in Q \cup Told(a, k)
    BY DEF Told
  <2>1. CASE j = 1  BY <1>1, <2>1
  <2>2. CASE j # 1
    <3>1. j - 1 \in 1..k - 1 /\ j - 1 \in 1..n - 1 /\ (j - 1) + 1 = j  BY <1>1, <2>2
    <3>2. a[j - 1] = s[j]  BY <1>1, <3>1
    <3> QED  BY <3>1, <3>2 DEF Told
  <2> QED  BY <2>1, <2>2
<1>3. ASSUME NEW k \in 1..Len(a) PROVE Speaks(a[k], t, Q \cup Told(a, k), st)
  <2>1. k \in 1..n /\ k + 1 \in 1..n /\ a[k] = s[k + 1]  BY <1>1
  <2>2. Speaks(s[k + 1], t, P \cup Told(s, k + 1), st)  BY <2>1 DEF Flows, n
  <2>3. P \cup Told(s, k + 1) \subseteq Q \cup Told(a, k)  BY <1>2, <2>1
  <2> QED  BY <2>1, <2>2, <2>3, SpeaksMore
<1>4. Reach(s, P) \subseteq Reach(a, Q)
  <2>1. n \in 1..n /\ Len(a) + 1 = n  BY <1>1
  <2> QED  BY <1>2, <2>1 DEF Reach, n
<1> QED  BY <1>3, <1>4 DEF Flows, a

\* What the first message says is known already.
LEMMA FlowsHead ==
  ASSUME NEW s, IsSeq(s), s # <<>>, NEW t, NEW P, NEW st, Flows(s, t, P, st)
  PROVE  Speaks(Head(s), t, P, st)
<1>1. Len(s) \in Nat \ {0} /\ Head(s) = s[1]  BY SeqTail
<1>2. Speaks(s[1], t, P \cup Told(s, 1), st)
  <2>1. 1 \in 1..Len(s)  BY <1>1
  <2> QED  BY <2>1 DEF Flows
<1>3. Told(s, 1) = {}  BY DEF Told
<1> QED  BY <1>1, <1>2, <1>3

-----------------------------------------------------------------------------
(* The invariant of the connections.                                       *)

\* The fields of a connection, and the changes the actions make to it
Wire(o, h, u, d) == [open |-> o, handler |-> h, up |-> u, down |-> d]

LEMMA WireFields ==
  ASSUME NEW o, NEW h, NEW u, NEW d
  PROVE  /\ Wired(Wire(o, h, u, d))
         /\ Wire(o, h, u, d).open = o /\ Wire(o, h, u, d).handler = h
         /\ Wire(o, h, u, d).up = u /\ Wire(o, h, u, d).down = d
BY DEF Wire, Wired

LEMMA WireSet ==
  ASSUME NEW o, NEW h, NEW u, NEW d, NEW x
  PROVE  /\ WithOpen(Wire(o, h, u, d), x) = Wire(x, h, u, d)
         /\ WithHandler(Wire(o, h, u, d), x) = Wire(o, x, u, d)
         /\ WithUp(Wire(o, h, u, d), x) = Wire(o, h, x, d)
         /\ WithDown(Wire(o, h, u, d), x) = Wire(o, h, u, x)
<1>1. WithOpen(Wire(o, h, u, d), x) = Wire(x, h, u, d)  BY DEF Wire, WithOpen
<1>2. WithHandler(Wire(o, h, u, d), x) = Wire(o, x, u, d)  BY DEF Wire, WithHandler
<1>3. WithUp(Wire(o, h, u, d), x) = Wire(o, h, x, d)  BY DEF Wire, WithUp
<1>4. WithDown(Wire(o, h, u, d), x) = Wire(o, h, u, x)  BY DEF Wire, WithDown
<1> QED  BY <1>1, <1>2, <1>3, <1>4

LEMMA WireIs ==
  ASSUME NEW r, Wired(r), NEW x
  PROVE  /\ r = Wire(r.open, r.handler, r.up, r.down)
         /\ WithOpen(r, x) = Wire(x, r.handler, r.up, r.down)
         /\ WithHandler(r, x) = Wire(r.open, x, r.up, r.down)
         /\ WithUp(r, x) = Wire(r.open, r.handler, x, r.down)
         /\ WithDown(r, x) = Wire(r.open, r.handler, r.up, x)
<1>1. PICK o, h, u, d : r = Wire(o, h, u, d)  BY DEF Wired, Wire
<1>2. r.open = o /\ r.handler = h /\ r.up = u /\ r.down = d  BY <1>1, WireFields
<1> QED  BY <1>1, <1>2, WireSet

LEMMA UnusedIs == Unused = Wire(FALSE, "none", <<>>, <<>>)
BY DEF Unused, Wire

LEMMA RepliedIs ==
  ASSUME NEW r, Wired(r), NEW msgs, NEW rest
  PROVE  Replied(r, msgs, rest) = Wire(r.open, "serving", rest, msgs)
<1> DEFINE a == Wire(r.open, r.handler, rest, r.down)
           b == Wire(r.open, "serving", rest, r.down)
<1>1. WithUp(r, rest) = a  BY WireIs
<1>2. WithHandler(a, "serving") = b  BY WireSet
<1>3. WithDown(b, msgs) = Wire(r.open, "serving", rest, msgs)  BY WireSet
<1> QED  BY <1>1, <1>2, <1>3 DEF Replied

LEMMA EndedIs ==
  ASSUME NEW r, Wired(r)
  PROVE  Ended(r) = Wire(r.open, "ended", <<>>, r.down)
<1> DEFINE a == Wire(r.open, "ended", r.up, r.down)
<1>1. WithHandler(r, "ended") = a  BY WireIs
<1>2. WithUp(a, <<>>) = Wire(r.open, "ended", <<>>, r.down)  BY WireSet
<1> QED  BY <1>1, <1>2 DEF Ended

LEMMA HungIs ==
  ASSUME NEW r, Wired(r), NEW msgs
  PROVE  Hung(r, msgs) = Wire(FALSE, r.handler, msgs, <<>>)
<1> DEFINE no == FALSE
           a == Wire(no, r.handler, r.up, r.down)
           b == Wire(no, r.handler, msgs, r.down)
<1>1. Hung(r, msgs) = WithDown(WithUp(WithOpen(r, no), msgs), <<>>)  BY DEF Hung
<1> HIDE DEF no
<1>2. WithOpen(r, no) = a  BY WireIs
<1>3. WithUp(a, msgs) = b  BY WireSet
<1>4. WithDown(b, <<>>) = Wire(no, r.handler, msgs, <<>>)  BY WireSet
<1> QED  BY <1>1, <1>2, <1>3, <1>4 DEF no

Queues(r) == IsSeq(r.up) /\ IsSeq(r.down)

\* A connection whose worker is on task t, seen from the coordinator
Line(r, t, P, st) ==
  /\ r.handler = "hello" => \A k \in 1..Len(r.up) : r.up[k].type = "hello"
  /\ r.handler = "serving" => Flows(r.up, t, P, st)

\* The same seen from a worker in state a that has done n numbers of its task
Attach(a, r, mine, t, n, P) ==
  /\ a = "waiting" /\ r.handler = "hello" => r.down = <<>>
  /\ a = "waiting" /\ r.handler = "serving" =>
       r.down # <<>> /\ Head(r.down) = [type |-> "task", task |-> t]
  /\ a = "working" => r.handler # "hello"
  /\ a = "working" /\ r.handler = "serving" =>
       mine = t /\ n \in Nat /\ PrimesUpTo(t.of, t.n, n) \subseteq Reach(r.up, P)

OnWorkers(f) == f = [w \in Worker |-> f[w]]
Linked(w) == at[w] \in {"waiting", "working"}

Links ==
  /\ OnWorkers(at) /\ OnWorkers(slot) /\ OnWorkers(task) /\ OnWorkers(numid)
  /\ OnWorkers(workers)
  /\ \A c \in Conn : Queues(conn[c])
  /\ \A w \in Worker : Linked(w) =>
       Mine(w) \in Conn /\ conn[Mine(w)].open /\ conn[Mine(w)].handler # "none"
  /\ phase = "off" => /\ \A c \in Conn : conn[c].handler \in {"none", "ended"}
                      /\ \A w \in Worker : workers[w] = None
  /\ phase = "up" =>
       /\ \A c \in Conn : /\ Line(conn[c], in_progress[c[1]], primes, starts)
                          /\ workers[c[1]] = c[2] => Served(c)
       /\ \A w \in Worker : Linked(w) =>
            Attach(at[w], conn[Mine(w)], task[w], in_progress[w], numid[w], primes)

LEMMA LineMore ==
  ASSUME NEW r, NEW t, NEW P, NEW Q, P \subseteq Q, NEW st, Line(r, t, P, st)
  PROVE  Line(r, t, Q, st)
BY FlowsMore DEF Line

LEMMA AttachMore ==
  ASSUME NEW a, NEW r, NEW mine, NEW t, NEW n, NEW P, NEW Q, P \subseteq Q,
         Attach(a, r, mine, t, n, P)
  PROVE  Attach(a, r, mine, t, n, Q)
<1>1. Reach(r.up, P) \subseteq Reach(r.up, Q)  BY DEF Reach
<1> QED  BY <1>1 DEF Attach

\* A step of worker w, or of the handler of a connection of w: what is to be
\* shown of these two.
LEMMA LinksStep ==
  ASSUME Links, UNCHANGED <<phase, starts>>, primes \subseteq primes', NEW w \in Worker,
         OnWorkers(at'), OnWorkers(slot'), OnWorkers(task'), OnWorkers(numid'),
         OnWorkers(workers'),
         \A v \in Worker \ {w} :
           /\ at'[v] = at[v] /\ slot'[v] = slot[v] /\ task'[v] = task[v]
           /\ numid'[v] = numid[v] /\ workers'[v] = workers[v]
           /\ in_progress'[v] = in_progress[v],
         \A d \in Conn : d[1] # w => conn'[d] = conn[d],
         \A d \in Conn : d[1] = w =>
           /\ Queues(conn'[d])
           /\ phase = "off" => conn'[d].handler \in {"none", "ended"}
           /\ phase = "up" =>
                /\ Line(conn'[d], in_progress'[w], primes', starts)
                /\ workers'[w] = d[2] => conn'[d].handler = "serving",
         phase = "off" => workers'[w] = None,
         at'[w] \in {"waiting", "working"} =>
           /\ <<w, slot'[w]>> \in Conn
           /\ conn'[<<w, slot'[w]>>].open /\ conn'[<<w, slot'[w]>>].handler # "none"
           /\ phase = "up" =>
                Attach(at'[w], conn'[<<w, slot'[w]>>], task'[w], in_progress'[w],
                       numid'[w], primes')
  PROVE  Links'
<1>1. ASSUME NEW d \in Conn
      PROVE  /\ Queues(conn'[d])
             /\ phase = "off" => conn'[d].handler \in {"none", "ended"}
             /\ phase = "up" =>
                  /\ Line(conn'[d], in_progress'[d[1]], primes', starts)
                  /\ workers'[d[1]] = d[2] => conn'[d].handler = "serving"
  <2>1. CASE d[1] = w  BY <2>1
  <2>2. CASE d[1] # w
    <3>1. /\ conn'[d] = conn[d] /\ d[1] \in Worker \ {w}
          /\ workers'[d[1]] = workers[d[1]] /\ in_progress'[d[1]] = in_progress[d[1]]
      BY <2>2 DEF Conn
    <3>2. /\ Queues(conn[d])
          /\ phase = "off" => conn[d].handler \in {"none", "ended"}
          /\ phase = "up" => /\ Line(conn[d], in_progress[d[1]], primes, starts)
                             /\ workers[d[1]] = d[2] => conn[d].handler = "serving"
      BY DEF Links, Served
    <3> QED  BY <3>1, <3>2, LineMore
  <2> QED  BY <2>1, <2>2
<1>2. ASSUME NEW v \in Worker, at'[v] \in {"waiting", "working"}
      PROVE  /\ <<v, slot'[v]>> \in Conn
             /\ conn'[<<v, slot'[v]>>].open /\ conn'[<<v, slot'[v]>>].handler # "none"
             /\ phase = "up" =>
                  Attach(at'[v], conn'[<<v, slot'[v]>>], task'[v], in_progress'[v],
                         numid'[v], primes')
  <2>1. CASE v = w  BY <1>2, <2>1
  <2>2. CASE v # w
    <3>1. /\ at'[v] = at[v] /\ slot'[v] = slot[v] /\ task'[v] = task[v]
          /\ numid'[v] = numid[v] /\ in_progress'[v] = in_progress[v]
      BY <2>2
    <3>2. /\ <<v, slot[v]>> \in Conn
          /\ conn[<<v, slot[v]>>].open /\ conn[<<v, slot[v]>>].handler # "none"
          /\ phase = "up" => Attach(at[v], conn[<<v, slot[v]>>], task[v],
                                    in_progress[v], numid[v], primes)
      BY <1>2, <3>1 DEF Links, Linked, Mine
    <3>3. conn'[<<v, slot[v]>>] = conn[<<v, slot[v]>>]
      <4>1. <<v, slot[v]>>[1] = v  OBVIOUS
      <4> QED  BY <2>2, <3>2, <4>1
    <3> QED  BY <3>1, <3>2, <3>3, AttachMore
  <2> QED  BY <2>1, <2>2
<1>3. ASSUME phase = "off", NEW v \in Worker PROVE workers'[v] = None
  BY <1>3 DEF Links
<1>4. /\ OnWorkers(at)' /\ OnWorkers(slot)' /\ OnWorkers(task)' /\ OnWorkers(numid)'
      /\ OnWorkers(workers)'
  OBVIOUS
<1>5. phase' = phase /\ starts' = starts  OBVIOUS
<1> QED  BY <1>1, <1>2, <1>3, <1>4, <1>5 DEF Links, Linked, Mine, Served

-----------------------------------------------------------------------------
(* The invariant of what the coordinator and the snapshots know.           *)

Now == Unfinished(tasks, in_progress)
Left(r) == Unfinished(r.tasks, r.in_progress)

\* A chunk of the input that no unfinished task covers has its primes in P.
Sound(of, U, P) ==
  \A n \in 1..NumTasks(of) :
    (\A u \in U : ~(u.of = of /\ u.n = n))
      => PrimesUpTo(of, n, Len(Chunk(of, n))) \subseteq P
Past(U, st) == \A u \in U : u.run <= st

\* The state of a worker in a snapshot, and when it may be used for a task of U
StateOK(s, st) ==
  s.numid \in Nat /\ (s.task_id # None => s.task_id \in Task /\ s.task_id.run <= st)
Backs(s, U, P) ==
  s.task_id # None /\ s.task_id \in U => PrimesUpTo(s.task_id.of, s.task_id.n, s.numid) \subseteq P
Answered(s, P, st) ==
  /\ StateOK(s, st) /\ s.task_id # None
  /\ PrimesUpTo(s.task_id.of, s.task_id.n, s.numid) \subseteq P

\* A stored snapshot
Complete(r, st) ==
  /\ Sound(r.input, Left(r), r.primes) /\ Past(Left(r), st)
  /\ \A w \in DOMAIN r.worker_state : Answered(r.worker_state[w], r.primes, st)

\* The states that a worker may start from
Published ==
  {saved[w] : w \in Worker} \cup
  (IF latest = None THEN {} ELSE {latest.worker_state[w] : w \in DOMAIN latest.worker_state})

\* The answers to the markers
Recorded ==
  \A w \in DOMAIN snap.marker_received :
    snap.marker_received[w] => Answered(snap.worker_state[w], primes, starts)

Books ==
  /\ OnWorkers(saved)
  /\ phase = "up" => /\ Sound(input, Now, primes) /\ Past(Now, starts)
                     /\ saving # None => saving.data.primes \subseteq primes
                     /\ snap.active => Recorded
  /\ \A r \in Stored : Complete(r, starts)
  /\ \A s \in Published : /\ StateOK(s, starts)
                          /\ phase = "up" => Backs(s, Now, primes)
                          /\ \A r \in Stored : Backs(s, Left(r), r.primes)
  /\ DOMAIN snap.marker_received = DOMAIN snap.worker_state

-----------------------------------------------------------------------------
(* The workers keep the invariant of the connections.                      *)

Elsewhere(f, g, w) == OnWorkers(g) /\ \A v \in Worker \ {w} : g[v] = f[v]

LEMMA SetOne ==
  ASSUME NEW f, OnWorkers(f), NEW w \in Worker, NEW x
  PROVE  /\ Elsewhere(f, f, w)
         /\ Elsewhere(f, [f EXCEPT ![w] = x], w) /\ [f EXCEPT ![w] = x][w] = x
<1>1. f = [v \in Worker |-> f[v]]  BY DEF OnWorkers
<1> DEFINE g == [f EXCEPT ![w] = x]
<1>2. g = [v \in Worker |-> IF v = w THEN x ELSE f[v]]  BY <1>1
<1> HIDE DEF g
<1>3. g = [v \in Worker |-> g[v]]
  <2>1. \A v \in Worker : g[v] = IF v = w THEN x ELSE f[v]  BY <1>2
  <2> QED  BY <1>2, <2>1
<1>4. g[w] = x /\ \A v \in Worker \ {w} : g[v] = f[v]  BY <1>2
<1>5. Elsewhere(f, f, w)  BY DEF Elsewhere
<1>6. Elsewhere(f, g, w)  BY <1>3, <1>4 DEF Elsewhere, OnWorkers
<1> QED  BY <1>4, <1>5, <1>6 DEF g

Moved(w) ==
  /\ Elsewhere(at, at', w) /\ Elsewhere(slot, slot', w)
  /\ Elsewhere(task, task', w) /\ Elsewhere(numid, numid', w)

\* A step of a worker on its connection
LEMMA WorkerStep ==
  ASSUME OneSlot, Links, Wires, UNCHANGED coordinator, NEW w \in Worker, Moved(w),
         Linked(w), NEW r, Rewired(Mine(w), r), Queues(r),
         phase = "off" => r.handler \in {"none", "ended"},
         phase = "up" => /\ Line(r, in_progress[w], primes, starts)
                         /\ Served(Mine(w)) => r.handler = "serving",
         at'[w] \in {"waiting", "working"} =>
           /\ slot'[w] = slot[w] /\ r.open /\ r.handler # "none"
           /\ phase = "up" => Attach(at'[w], r, task'[w], in_progress[w], numid'[w], primes)
  PROVE  Links'
<1> DEFINE c == Mine(w)
<1>1. c \in Conn /\ c[1] = w /\ c[2] = slot[w]  BY DEF Links, Mine
<1>2. \A d \in Conn : d[1] = w => d = c  BY <1>1, OneConnection
<1>3. conn'[c] = r /\ \A d \in Conn : d # c => conn'[d] = conn[d]
  BY <1>1 DEF Rewired, Wires
<1>4. /\ phase' = phase /\ starts' = starts /\ primes' = primes
      /\ workers' = workers /\ in_progress' = in_progress
  BY DEF coordinator
<1>5. phase = "up" => (workers[w] = c[2] => Served(c))  BY <1>1 DEF Links
<1>6. phase = "off" => workers[w] = None  BY DEF Links
<1>7. OnWorkers(workers')  BY <1>4 DEF Links
<1>8. at'[w] \in {"waiting", "working"} => <<w, slot'[w]>> = c  BY DEF Mine
<1> HIDE DEF c
<1>9. \A d \in Conn : d[1] = w =>
         /\ Queues(conn'[d])
         /\ phase = "off" => conn'[d].handler \in {"none", "ended"}
         /\ phase = "up" =>
              /\ Line(conn'[d], in_progress'[w], primes', starts)
              /\ workers'[w] = d[2] => conn'[d].handler = "serving"
  BY <1>2, <1>3, <1>4, <1>5 DEF c
<1>10. \A d \in Conn : d[1] # w => conn'[d] = conn[d]  BY <1>1, <1>3
<1>11. at'[w] \in {"waiting", "working"} =>
         /\ <<w, slot'[w]>> \in Conn
         /\ conn'[<<w, slot'[w]>>].open /\ conn'[<<w, slot'[w]>>].handler # "none"
         /\ phase = "up" =>
              Attach(at'[w], conn'[<<w, slot'[w]>>], task'[w], in_progress'[w],
                     numid'[w], primes')
  BY <1>1, <1>3, <1>4, <1>8
<1> QED
  BY <1>4, <1>6, <1>7, <1>9, <1>10, <1>11, LinksStep DEF Moved, Elsewhere

\* The worker reads and sends on an open connection.
LEMMA TalkStep ==
  ASSUME OneSlot, Links, Wires, UNCHANGED <<coordinator, slot>>, NEW w \in Worker,
         Moved(w), Linked(w), NEW up, NEW down, IsSeq(up), IsSeq(down),
         Rewired(Mine(w), Wire(conn[Mine(w)].open, conn[Mine(w)].handler, up, down)),
         phase = "up" /\ Served(Mine(w)) => Flows(up, in_progress[w], primes, starts),
         at'[w] = "working",
         phase = "up" => conn[Mine(w)].handler # "hello",
         phase = "up" /\ Served(Mine(w)) =>
           /\ task'[w] = in_progress[w] /\ numid'[w] \in Nat
           /\ PrimesUpTo(in_progress[w].of, in_progress[w].n, numid'[w]) \subseteq Reach(up, primes)
  PROVE  Links'
<1> DEFINE c == Mine(w)
           r == Wire(conn[c].open, conn[c].handler, up, down)
<1>1. c \in Conn /\ conn[c].open /\ conn[c].handler # "none"  BY DEF Links
<1>2. r.open = conn[c].open /\ r.handler = conn[c].handler /\ r.up = up /\ r.down = down
  BY WireFields
<1>3. Queues(r)  BY <1>2 DEF Queues
<1>4. phase = "off" => r.handler \in {"none", "ended"}  BY <1>1, <1>2 DEF Links
<1>5. Rewired(c, r)  OBVIOUS
<1> HIDE DEF c, r
<1>6. phase = "up" => /\ Line(r, in_progress[w], primes, starts)
                      /\ Served(c) => r.handler = "serving"
  BY <1>2 DEF Line, Served, c
<1>7. phase = "up" => Attach(at'[w], r, task'[w], in_progress[w], numid'[w], primes)
  BY <1>2 DEF Attach, Served, c
<1> QED  BY <1>1, <1>2, <1>3, <1>4, <1>5, <1>6, <1>7, WorkerStep DEF c

\* The worker closes its end and leaves.
LEMMA HangStep ==
  ASSUME OneSlot, Links, Wires, UNCHANGED coordinator, NEW w \in Worker, Linked(w),
         NEW msgs, IsSeq(msgs), Hang(Mine(w), msgs),
         NEW next, next \notin {"waiting", "working"}, Forget(w, next),
         phase = "up" =>
           /\ Served(Mine(w)) => Flows(msgs, in_progress[w], primes, starts)
           /\ conn[Mine(w)].handler = "hello" =>
                \A k \in 1..Len(msgs) : msgs[k].type = "hello"
  PROVE  Links'
<1> DEFINE c == Mine(w)
           r == IF conn[c].handler = "ended" THEN Unused
                ELSE Wire(FALSE, conn[c].handler, msgs, <<>>)
<1>1. c \in Conn /\ Wired(conn[c])  BY DEF Links, Wires
<1>2. Rewired(c, r)
  <2>1. Hung(conn[c], msgs) = Wire(FALSE, conn[c].handler, msgs, <<>>)
    BY <1>1, HungIs
  <2> HIDE DEF c
  <2>2. conn' = [conn EXCEPT ![c] = IF conn[c].handler = "ended" THEN Unused
                                    ELSE Hung(conn[c], msgs)]
    BY DEF Hang, Hung, WithOpen, WithUp, WithDown, c
  <2> QED  BY <2>1, <2>2 DEF Rewired
<1>3. Moved(w) /\ at'[w] = next  BY SetOne DEF Forget, Moved, Links
<1>4. CASE conn[c].handler = "ended"
  <2>1. r = Wire(FALSE, "none", <<>>, <<>>)  BY <1>4, UnusedIs
  <2> HIDE DEF r
  <2>2. r.handler = "none" /\ r.up = <<>> /\ r.down = <<>>  BY <2>1 DEF Wire
  <2>3. Queues(r) /\ Line(r, in_progress[w], primes, starts) /\ ~Served(c)
    BY <1>4, <2>2, SeqEmpty DEF Queues, Line, Served
  <2> QED  BY <1>2, <1>3, <2>2, <2>3, WorkerStep
<1>5. CASE conn[c].handler # "ended"
  <2>1. r = Wire(FALSE, conn[c].handler, msgs, <<>>)  BY <1>5
  <2> HIDE DEF r
  <2>2. r.handler = conn[c].handler /\ r.up = msgs /\ r.down = <<>>
    BY <2>1 DEF Wire
  <2>3. Queues(r)  BY <2>2, SeqEmpty DEF Queues
  <2>4. phase = "off" => r.handler \in {"none", "ended"}  BY <1>1, <2>2 DEF Links
  <2> HIDE DEF c
  <2>5. phase = "up" => /\ Line(r, in_progress[w], primes, starts)
                        /\ Served(c) => r.handler = "serving"
    BY <2>2 DEF Line, Served, c
  <2> QED  BY <1>2, <1>3, <2>3, <2>4, <2>5, WorkerStep DEF c
<1> QED  BY <1>4, <1>5

\* What is known of a worker that is served
LEMMA ServedTask ==
  ASSUME Accounted, Links, Books, phase = "up", NEW w \in Worker, Linked(w), Served(Mine(w))
  PROVE  /\ in_progress[w] \in Task /\ in_progress[w] \in Now
         /\ in_progress[w].run <= starts /\ in_progress[w] # None
<1>1. Mine(w) \in Conn /\ Mine(w)[1] = w  BY DEF Links, Mine
<1>2. in_progress[w] # None  BY <1>1 DEF Accounted, Serving
<1>3. tasks \in Seq(Task) /\ in_progress \in [Worker -> Task \cup {None}]
  BY CountsType DEF Accounted
<1>4. in_progress[w] \in Now  BY <1>2, <1>3, UnfinishedIs DEF Now
<1> QED  BY <1>2, <1>3, <1>4 DEF Books, Past

LEMMA TakeTaskLinks ==
  ASSUME OneSlot, Accounted, Links, Books, NEW w \in Worker, TakeTask(w)
  PROVE  Links'
<1> DEFINE c == Mine(w)
           t == Head(conn[c].down).task
<1>1. /\ at[w] = "waiting" /\ conn[c].down # <<>> /\ Head(conn[c].down).type = "task"
      /\ task' = [task EXCEPT ![w] = t]
      /\ numid' = [numid EXCEPT ![w] = StartAt(w, t)]
      /\ at' = [at EXCEPT ![w] = "working"]
      /\ UNCHANGED <<coordinator, slot>>
  BY DEF TakeTask, Arrived
<1>2. Linked(w) /\ Wires /\ c \in Conn /\ Wired(conn[c]) /\ Queues(conn[c])
  BY <1>1 DEF Linked, Links, Accounted, Wires
<1>3. Rewired(c, Wire(conn[c].open, conn[c].handler, conn[c].up, Tail(conn[c].down)))
  <2>1. WithDown(conn[c], Tail(conn[c].down))
          = Wire(conn[c].open, conn[c].handler, conn[c].up, Tail(conn[c].down))
    BY <1>2, WireIs
  <2> HIDE DEF c
  <2>2. conn' = [conn EXCEPT ![c] = WithDown(conn[c], Tail(conn[c].down))]
    BY DEF TakeTask, WithDown, c
  <2> QED  BY <2>1, <2>2 DEF Rewired
<1>4. Moved(w) /\ at'[w] = "working" /\ task'[w] = t /\ numid'[w] = StartAt(w, t)
  BY <1>1, SetOne DEF Moved, Links
<1>5. IsSeq(conn[c].up) /\ IsSeq(Tail(conn[c].down))
  BY <1>1, <1>2, SeqTail DEF Queues
<1>6. phase = "up" =>
        /\ Line(conn[c], in_progress[w], primes, starts)
        /\ Attach(at[w], conn[c], task[w], in_progress[w], numid[w], primes)
  BY <1>2 DEF Links, Mine
<1>7. phase = "up" => conn[c].handler # "hello"  BY <1>1, <1>6 DEF Attach
<1>8. phase = "up" /\ Served(c) => Flows(conn[c].up, in_progress[w], primes, starts)
  BY <1>6 DEF Line, Served
<1>9. ASSUME phase = "up", Served(c)
      PROVE  /\ t = in_progress[w] /\ StartAt(w, t) \in Nat
             /\ PrimesUpTo(in_progress[w].of, in_progress[w].n, StartAt(w, t)) \subseteq primes
  <2>1. t = in_progress[w]
    <3>1. Head(conn[c].down) = [type |-> "task", task |-> in_progress[w]]
      BY <1>1, <1>6, <1>9 DEF Attach, Served
    <3> QED  BY <3>1
  <2>2. in_progress[w] # None /\ in_progress[w] \in Now  BY <1>2, <1>9, ServedTask
  <2>3. StateOK(saved[w], starts) /\ Backs(saved[w], Now, primes)
    BY <1>9 DEF Books, Published
  <2>4. CASE t = saved[w].task_id /\ saved[w].numid > RECOVERY_REWIND_COUNT
    <3> DEFINE k == saved[w].numid - RECOVERY_REWIND_COUNT
    <3>1. StartAt(w, t) = k  BY <2>4 DEF StartAt
    <3>2. saved[w].numid \in Nat /\ RECOVERY_REWIND_COUNT \in Nat
      BY <2>3, InputAssumption DEF StateOK
    <3>3. k \in Nat /\ k <= saved[w].numid  BY <2>4, <3>2
    <3> HIDE DEF k, t
    <3>4. PrimesUpTo(in_progress[w].of, in_progress[w].n, k) \subseteq PrimesUpTo(in_progress[w].of, in_progress[w].n, saved[w].numid)
      BY <3>2, <3>3, PrimesUpToMono
    <3>5. PrimesUpTo(in_progress[w].of, in_progress[w].n, saved[w].numid) \subseteq primes
      BY <2>1, <2>2, <2>3, <2>4 DEF Backs
    <3> QED  BY <2>1, <3>1, <3>3, <3>4, <3>5
  <2>5. CASE ~(t = saved[w].task_id /\ saved[w].numid > RECOVERY_REWIND_COUNT)
    <3>1. StartAt(w, t) = 0  BY <2>5 DEF StartAt
    <3> QED  BY <2>1, <3>1, PrimesUpToZero
  <2> QED  BY <2>4, <2>5
<1> HIDE DEF c, t
<1>10. phase = "up" /\ Served(Mine(w)) =>
         /\ task'[w] = in_progress[w] /\ numid'[w] \in Nat
         /\ PrimesUpTo(in_progress[w].of, in_progress[w].n, numid'[w]) \subseteq Reach(conn[c].up, primes)
  BY <1>4, <1>9 DEF Reach, c
<1> QED  BY <1>1, <1>2, <1>3, <1>4, <1>5, <1>7, <1>8, <1>10, TalkStep DEF c

\* What the worker knows between two numbers
LEMMA AtWork ==
  ASSUME Accounted, Links, Books, NEW w \in Worker, at[w] = "working"
  PROVE  /\ Linked(w) /\ Mine(w) \in Conn /\ Wired(conn[Mine(w)]) /\ Queues(conn[Mine(w)])
         /\ Wires
         /\ phase = "up" => conn[Mine(w)].handler # "hello"
         /\ phase = "up" /\ Served(Mine(w)) =>
              /\ Flows(conn[Mine(w)].up, in_progress[w], primes, starts)
              /\ task[w] = in_progress[w] /\ numid[w] \in Nat
              /\ PrimesUpTo(in_progress[w].of, in_progress[w].n, numid[w]) \subseteq Reach(conn[Mine(w)].up, primes)
<1>1. Linked(w) /\ Wires /\ Mine(w) \in Conn /\ Mine(w)[1] = w
  BY DEF Linked, Links, Accounted, Mine
<1>2. phase = "up" =>
        /\ Line(conn[Mine(w)], in_progress[w], primes, starts)
        /\ Attach(at[w], conn[Mine(w)], task[w], in_progress[w], numid[w], primes)
  BY <1>1 DEF Links
<1> QED  BY <1>1, <1>2 DEF Links, Wires, Line, Attach, Served

\* Sending one message
LEMMA SentIs ==
  ASSUME NEW w, IsSeq(conn[Mine(w)].up), NEW m
  PROVE  /\ IsSeq(Sent(w, m))
         /\ Served(Mine(w)) => Sent(w, m) = Append(conn[Mine(w)].up, m)
<1>1. CASE conn[Mine(w)].handler = "ended"  BY <1>1 DEF Sent, Served
<1>2. CASE conn[Mine(w)].handler # "ended"  BY <1>2, SeqAppend DEF Sent
<1> QED  BY <1>1, <1>2

LEMMA ReplyMarkerLinks ==
  ASSUME OneSlot, Accounted, Links, Books, NEW w \in Worker, ReplyMarker(w)
  PROVE  Links'
<1> DEFINE c == Mine(w)
           m == [type |-> "marker", sid |-> Head(conn[c].down).sid,
                 numid |-> numid[w], task |-> task[w]]
           up == Sent(w, m)
           down == Tail(conn[c].down)
           r == WithDown(conn[c], down)
           between == [conn EXCEPT ![c] = r]
<1>1. at[w] = "working" /\ conn[c].down # <<>> /\ UNCHANGED <<coordinator, worker>>
  BY DEF ReplyMarker, Working, Arrived
<1>2. conn' = [between EXCEPT ![c] = WithUp(between[c], up)]
  BY DEF ReplyMarker, WithDown, WithUp
<1> HIDE DEF up, down, r
<1>3. /\ Linked(w) /\ c \in Conn /\ Wired(conn[c]) /\ Queues(conn[c]) /\ Wires
      /\ phase = "up" => conn[c].handler # "hello"
      /\ phase = "up" /\ Served(c) =>
           /\ Flows(conn[c].up, in_progress[w], primes, starts)
           /\ task[w] = in_progress[w] /\ numid[w] \in Nat
           /\ PrimesUpTo(in_progress[w].of, in_progress[w].n, numid[w]) \subseteq Reach(conn[c].up, primes)
  BY <1>1, AtWork
<1>4. IsSeq(up) /\ (Served(c) => up = Append(conn[c].up, m)) /\ IsSeq(down)
  BY <1>1, <1>3, SentIs, SeqTail DEF Queues, up, down
<1> HIDE DEF c
<1>5. Rewired(c, Wire(conn[c].open, conn[c].handler, up, down))
  <2>1. conn = [d \in Conn |-> conn[d]]  BY <1>3 DEF Wires
  <2>2. between[c] = r  BY <1>3, <2>1
  <2> DEFINE x == WithUp(r, up)
  <2>3. conn' = [conn EXCEPT ![c] = x]
    <3>1. conn' = [between EXCEPT ![c] = x]  BY <1>2, <2>2
    <3> HIDE DEF x
    <3> QED  BY <2>1, <3>1
  <2>4. r = Wire(conn[c].open, conn[c].handler, conn[c].up, down)
    BY <1>3, WireIs DEF r
  <2>5. WithUp(r, up) = Wire(conn[c].open, conn[c].handler, up, down)
    BY <2>4, WireSet
  <2> QED  BY <2>3, <2>5 DEF Rewired
<1>6. Moved(w) /\ at' = at /\ task' = task /\ numid' = numid
  BY <1>1, SetOne DEF Moved, Links, worker
<1>7. ASSUME phase = "up", Served(c)
      PROVE  /\ Flows(up, in_progress[w], primes, starts)
             /\ Reach(conn[c].up, primes) \subseteq Reach(up, primes)
  <2>1. in_progress[w] \in Task /\ in_progress[w].run <= starts
    BY <1>3, <1>7, ServedTask DEF c
  <2>2. m.type = "marker" /\ m.numid = numid[w] /\ m.task = task[w]  OBVIOUS
  <2> HIDE DEF m
  <2>3. Speaks(m, in_progress[w], Reach(conn[c].up, primes), starts)
    BY <1>3, <1>7, <2>1, <2>2 DEF Speaks
  <2> QED  BY <1>3, <1>4, <1>7, <2>3, FlowsAppend DEF Queues
<1>8. phase = "up" /\ Served(c) =>
        /\ task'[w] = in_progress[w] /\ numid'[w] \in Nat
        /\ PrimesUpTo(in_progress[w].of, in_progress[w].n, numid'[w]) \subseteq Reach(up, primes)
  BY <1>3, <1>6, <1>7
<1>9. UNCHANGED <<coordinator, slot>> /\ at'[w] = "working"  BY <1>1, <1>6 DEF worker
<1> HIDE DEF between, m
<1> QED  BY <1>3, <1>4, <1>5, <1>6, <1>7, <1>8, <1>9, TalkStep DEF c

LEMMA ProcessLinks ==
  ASSUME OneSlot, Accounted, Links, Books, NEW w \in Worker, Process(w)
  PROVE  Links'
<1> DEFINE c == Mine(w)
           n == Chunk(task[w].of, task[w].n)[numid[w] + 1]
           m == [type |-> "result", prime |-> n]
           up == IF n \in Primes THEN Sent(w, m) ELSE conn[c].up
           down == conn[c].down
<1>1. /\ at[w] = "working" /\ UNCHANGED <<coordinator, at, slot, task>>
      /\ numid' = [numid EXCEPT ![w] = numid[w] + 1]
      /\ conn' = IF n \in Primes THEN [conn EXCEPT ![c] = WithUp(conn[c], Sent(w, m))]
                 ELSE conn
  BY DEF Process, Working, WithUp
<1>2. /\ Linked(w) /\ c \in Conn /\ Wired(conn[c]) /\ Queues(conn[c]) /\ Wires
      /\ phase = "up" => conn[c].handler # "hello"
      /\ phase = "up" /\ Served(c) =>
           /\ Flows(conn[c].up, in_progress[w], primes, starts)
           /\ task[w] = in_progress[w] /\ numid[w] \in Nat
           /\ PrimesUpTo(in_progress[w].of, in_progress[w].n, numid[w]) \subseteq Reach(conn[c].up, primes)
  BY <1>1, AtWork
<1> HIDE DEF n
<1>3. /\ IsSeq(up) /\ IsSeq(down)
      /\ Served(c) /\ n \in Primes => up = Append(conn[c].up, m)
      /\ n \notin Primes => up = conn[c].up
  BY <1>2, SentIs DEF Queues
<1> HIDE DEF c
<1>4. Rewired(c, Wire(conn[c].open, conn[c].handler, up, down))
  <2>1. conn = [d \in Conn |-> conn[d]]  BY <1>2 DEF Wires
  <2>2. WithUp(conn[c], Sent(w, m)) = Wire(conn[c].open, conn[c].handler, Sent(w, m), down)
    BY <1>2, WireIs
  <2>3. conn[c] = Wire(conn[c].open, conn[c].handler, conn[c].up, down)
    BY <1>2, WireIs
  <2> HIDE DEF m
  <2>4. CASE n \in Primes  BY <1>1, <2>2, <2>4 DEF Rewired
  <2>5. CASE n \notin Primes
    <3>1. conn' = [conn EXCEPT ![c] = conn[c]]  BY <1>1, <1>2, <2>1, <2>5
    <3> QED  BY <2>3, <2>5, <3>1 DEF Rewired
  <2> QED  BY <2>4, <2>5
<1>5. Moved(w) /\ at' = at /\ task' = task /\ numid'[w] = numid[w] + 1
  BY <1>1, SetOne DEF Moved, Links
<1> HIDE DEF up, down
<1>6. ASSUME phase = "up", Served(c)
      PROVE  /\ Flows(up, in_progress[w], primes, starts)
             /\ PrimesUpTo(in_progress[w].of, in_progress[w].n, numid[w] + 1) \subseteq Reach(up, primes)
  <2>1. PrimesUpTo(in_progress[w].of, in_progress[w].n, numid[w] + 1)
          = PrimesUpTo(in_progress[w].of, in_progress[w].n, numid[w]) \cup ({n} \cap Primes)
    BY <1>2, <1>6, PrimesUpToNext DEF n
  <2>2. CASE n \notin Primes
    BY <1>2, <1>3, <1>6, <2>1, <2>2
  <2>3. CASE n \in Primes
    <3>1. m.type = "result" /\ m.prime = n /\ m.type # "finish" /\ m.type # "marker"
      OBVIOUS
    <3> HIDE DEF m
    <3>2. Speaks(m, in_progress[w], Reach(conn[c].up, primes), starts)
      BY <3>1 DEF Speaks
    <3>3. /\ Flows(up, in_progress[w], primes, starts)
          /\ Reach(conn[c].up, primes) \subseteq Reach(up, primes)
          /\ n \in Reach(up, primes)
      BY <1>2, <1>3, <1>6, <2>3, <3>1, <3>2, FlowsAppend DEF Queues
    <3> QED  BY <1>2, <1>6, <2>1, <3>3
  <2> QED  BY <2>2, <2>3
<1>7. phase = "up" /\ Served(c) =>
        /\ task'[w] = in_progress[w] /\ numid'[w] \in Nat
        /\ PrimesUpTo(in_progress[w].of, in_progress[w].n, numid'[w]) \subseteq Reach(up, primes)
  BY <1>2, <1>5, <1>6
<1>8. UNCHANGED <<coordinator, slot>> /\ at'[w] = "working"  BY <1>1, <1>5
<1> HIDE DEF m
<1> QED  BY <1>2, <1>3, <1>4, <1>5, <1>6, <1>7, <1>8, TalkStep DEF c

LEMMA FinishLinks ==
  ASSUME OneSlot, Accounted, Links, Books, NEW w \in Worker, Finish(w)
  PROVE  Links'
<1> DEFINE c == Mine(w)
           m == [type |-> "finish"]
           up == Sent(w, m)
<1>1. /\ at[w] = "working" /\ numid[w] = Len(Chunk(task[w].of, task[w].n)) /\ UNCHANGED coordinator
      /\ Hang(c, up) /\ Forget(w, "off")
  BY DEF Finish
<1>2. /\ Linked(w) /\ c \in Conn /\ Queues(conn[c]) /\ Wires
      /\ phase = "up" => conn[c].handler # "hello"
      /\ phase = "up" /\ Served(c) =>
           /\ Flows(conn[c].up, in_progress[w], primes, starts)
           /\ task[w] = in_progress[w] /\ numid[w] \in Nat
           /\ PrimesUpTo(in_progress[w].of, in_progress[w].n, numid[w]) \subseteq Reach(conn[c].up, primes)
  BY <1>1, AtWork
<1> HIDE DEF up
<1>3. IsSeq(up) /\ (Served(c) => up = Append(conn[c].up, m))
  BY <1>2, SentIs DEF Queues, up
<1> HIDE DEF c
<1>4. ASSUME phase = "up", Served(c) PROVE Flows(up, in_progress[w], primes, starts)
  <2>1. m.type = "finish"  OBVIOUS
  <2> HIDE DEF m
  <2>2. Speaks(m, in_progress[w], Reach(conn[c].up, primes), starts)
    BY <1>1, <1>2, <1>4, <2>1 DEF Speaks
  <2> QED  BY <1>2, <1>3, <1>4, <2>2, FlowsAppend DEF Queues
<1>5. "off" \notin {"waiting", "working"}  OBVIOUS
<1> QED  BY <1>1, <1>2, <1>3, <1>4, <1>5, HangStep DEF c

LEMMA LeavingLinks ==
  ASSUME OneSlot, Accounted, Links, NEW w \in Worker,
         TakeShutdown(w) \/ LoseCoordinator(w) \/ Kill(w)
  PROVE  Links'
<1> DEFINE c == Mine(w)
<1>1. Linked(w) /\ UNCHANGED coordinator
      /\ \E next \in {"off", "exited"} : Forget(w, next)
  BY DEF TakeShutdown, LoseCoordinator, Kill, Linked
<1>2. Wires /\ c \in Conn /\ c[1] = w /\ IsSeq(conn[c].up)
  BY <1>1 DEF Links, Accounted, Mine, Queues
<1>3. PICK n \in 0..Len(conn[c].up) : Hang(c, SubSeq(conn[c].up, 1, n)) \/ Hang(c, <<>>)
  <2>1. Len(conn[c].up) \in Nat  BY <1>2, SeqAppend
  <2>2. 0 \in 0..Len(conn[c].up)  BY <2>1
  <2> QED  BY <2>2 DEF TakeShutdown, LoseCoordinator, Kill
<1>4. phase = "up" => Line(conn[c], in_progress[w], primes, starts)
  BY <1>2 DEF Links
<1>5. PICK next \in {"off", "exited"} : Forget(w, next)  BY <1>1
<1>6. next \notin {"waiting", "working"}  OBVIOUS
<1>7. CASE Hang(c, <<>>)
  <2>1. /\ IsSeq(<<>>) /\ Flows(<<>>, in_progress[w], primes, starts)
        /\ \A k \in 1..Len(<<>>) : <<>>[k].type = "hello"
    BY SeqEmpty, FlowsEmpty
  <2> QED  BY <1>1, <1>2, <1>5, <1>6, <1>7, <2>1, HangStep
<1>8. CASE Hang(c, SubSeq(conn[c].up, 1, n))
  <2> DEFINE up == SubSeq(conn[c].up, 1, n)
  <2>1. /\ IsSeq(up) /\ Len(up) = n /\ Len(conn[c].up) \in Nat
        /\ \A k \in 1..n : up[k] = conn[c].up[k]
    BY <1>2, SeqSub
  <2>2. ASSUME phase = "up", Served(c) PROVE Flows(up, in_progress[w], primes, starts)
    BY <1>2, <1>4, <2>2, FlowsSub DEF Line, Served
  <2> HIDE DEF up
  <2>3. ASSUME phase = "up", conn[c].handler = "hello"
        PROVE  \A k \in 1..Len(up) : up[k].type = "hello"
    BY <1>4, <2>1, <2>3 DEF Line
  <2>4. Hang(c, up)  BY <1>8 DEF up
  <2> HIDE DEF c
  <2> QED  BY <1>1, <1>2, <1>5, <1>6, <2>1, <2>2, <2>3, <2>4, HangStep DEF c
<1> QED  BY <1>3, <1>7, <1>8

LEMMA IdleLinks ==
  ASSUME Accounted, Links, NEW w \in Worker, LoadSnapshot(w) \/ Refused(w)
  PROVE  Links'
<1>1. /\ UNCHANGED <<coordinator, conn, slot, task, numid>>
      /\ \E x \in {"loaded", "off"} : at' = [at EXCEPT ![w] = x]
  BY DEF LoadSnapshot, Refused
<1>2. Moved(w) /\ at'[w] \notin {"waiting", "working"}
  <2>1. PICK x \in {"loaded", "off"} : at' = [at EXCEPT ![w] = x]  BY <1>1
  <2>2. OnWorkers(at) /\ OnWorkers(slot) /\ OnWorkers(task) /\ OnWorkers(numid)
    BY DEF Links
  <2>3. Elsewhere(at, at', w) /\ at'[w] = x  BY <2>1, <2>2, SetOne
  <2>4. /\ Elsewhere(slot, slot, w) /\ Elsewhere(task, task, w)
        /\ Elsewhere(numid, numid, w)
    BY <2>2, SetOne
  <2> QED  BY <1>1, <2>3, <2>4 DEF Moved
<1>3. /\ phase' = phase /\ starts' = starts /\ primes' = primes
      /\ workers' = workers /\ in_progress' = in_progress /\ conn' = conn
  BY <1>1 DEF coordinator
<1>4. \A d \in Conn : d[1] = w =>
        /\ Queues(conn'[d])
        /\ phase = "off" => conn'[d].handler \in {"none", "ended"}
        /\ phase = "up" => /\ Line(conn'[d], in_progress'[w], primes', starts)
                           /\ workers'[w] = d[2] => conn'[d].handler = "serving"
  BY <1>3 DEF Links, Served
<1>5. OnWorkers(workers') /\ (phase = "off" => workers'[w] = None)
  BY <1>3 DEF Links
<1> QED  BY <1>2, <1>3, <1>4, <1>5, LinksStep DEF Moved, Elsewhere

LEMMA ConnectLinks ==
  ASSUME OneSlot, Accounted, Links, NEW w \in Worker, Connect(w)
  PROVE  Links'
<1> DEFINE hello == <<[type |-> "hello"]>>
           r == [open |-> TRUE, handler |-> "hello", up |-> hello, down |-> <<>>]
<1>1. PICK s \in Slots :
        /\ at[w] = "loaded" /\ phase = "up" /\ conn[<<w, s>>] = Unused
        /\ conn' = [conn EXCEPT ![<<w, s>>] = r]
        /\ at' = [at EXCEPT ![w] = "waiting"] /\ slot' = [slot EXCEPT ![w] = s]
        /\ UNCHANGED <<coordinator, latest, saved, task, numid, kills>>
  BY DEF Connect
<1> DEFINE c == <<w, s>>
<1>2. c \in Conn /\ c[1] = w /\ c[2] = s  BY DEF Conn
<1>3. r.open /\ r.handler = "hello" /\ r.up = hello /\ r.down = <<>>  OBVIOUS
<1>4. /\ IsSeq(hello) /\ IsSeq(<<>>)
      /\ \A k \in 1..Len(hello) : hello[k].type = "hello"
  BY SeqOne, SeqEmpty
<1>5. /\ Moved(w) /\ at'[w] = "waiting" /\ slot'[w] = s
  BY <1>1, SetOne DEF Moved, Links
<1>6. /\ phase' = phase /\ starts' = starts /\ primes' = primes
      /\ workers' = workers /\ in_progress' = in_progress
  BY <1>1 DEF coordinator
<1>7. OnWorkers(workers) /\ (workers[w] = s => conn[c].handler = "serving")
  BY <1>1, <1>2 DEF Links, Served
<1>8. workers[w] # s  BY <1>1, <1>7 DEF Unused
<1>9. conn'[c] = r /\ \A d \in Conn : d # c => conn'[d] = conn[d]
  <2>1. conn = [d \in Conn |-> conn[d]]  BY DEF Accounted, Wires
  <2> HIDE DEF r
  <2> QED  BY <1>1, <1>2, <2>1
<1> HIDE DEF r, hello, c
<1>10. \A d \in Conn : d[1] = w => d = c  BY <1>2, OneConnection
<1>11. /\ Queues(r) /\ Line(r, in_progress[w], primes, starts)
       /\ Attach("waiting", r, task[w], in_progress[w], numid[w], primes)
  BY <1>3, <1>4 DEF Queues, Line, Attach
<1>12. <<w, slot'[w]>> = c  BY <1>5 DEF c
<1>13. \A d \in Conn : d[1] # w => conn'[d] = conn[d]  BY <1>2, <1>9
<1>14. \A d \in Conn : d[1] = w =>
         /\ Queues(conn'[d])
         /\ Line(conn'[d], in_progress'[w], primes', starts)
         /\ workers'[w] # d[2]
  BY <1>2, <1>6, <1>8, <1>9, <1>10, <1>11
<1>15. task' = task /\ numid' = numid  BY <1>1
<1>16. /\ <<w, slot'[w]>> \in Conn
       /\ conn'[<<w, slot'[w]>>].open /\ conn'[<<w, slot'[w]>>].handler # "none"
       /\ Attach(at'[w], conn'[<<w, slot'[w]>>], task'[w], in_progress'[w],
                 numid'[w], primes')
  BY <1>2, <1>3, <1>5, <1>6, <1>9, <1>11, <1>12, <1>15
<1>17. phase # "off"  BY <1>1
<1> QED
  BY <1>5, <1>6, <1>7, <1>13, <1>14, <1>16, <1>17, LinksStep DEF Moved, Elsewhere

LEMMA WorkLinks ==
  ASSUME OneSlot, Accounted, Links, Books, NEW w \in Worker, Work(w) \/ Kill(w)
  PROVE  Links'
BY IdleLinks, ConnectLinks, TakeTaskLinks, LeavingLinks, ReplyMarkerLinks, ProcessLinks,
   FinishLinks DEF Work

\* A worker changes nothing of the books but the state that it starts from.
LEMMA WorkBooks ==
  ASSUME Links, Books, NEW w \in Worker, Work(w) \/ Kill(w)
  PROVE  Books'
<1>1. /\ UNCHANGED <<coordinator, latest>>
      /\ \/ saved' = saved
         \/ \E x : saved' = [saved EXCEPT ![w] = x] /\ (x = Fresh \/ x \in Published)
  <2>1. CASE LoadSnapshot(w)
    <3>1. PICK x \in {Fresh} \cup {latest.worker_state[v] :
                v \in IF latest = None THEN {} ELSE {w} \cap DOMAIN latest.worker_state} :
            saved' = [saved EXCEPT ![w] = x]
      BY <2>1 DEF LoadSnapshot
    <3>2. x = Fresh \/ x \in Published  BY <3>1 DEF Published
    <3> QED  BY <2>1, <3>1, <3>2 DEF LoadSnapshot
  <2>2. CASE Connect(w) \/ TakeTask(w) \/ ReplyMarker(w) \/ Process(w)
    BY <2>2 DEF Connect, TakeTask, ReplyMarker, Process, worker
  <2>3. CASE Refused(w)  BY <2>3 DEF Refused
  <2>4. CASE TakeShutdown(w) \/ Finish(w) \/ LoseCoordinator(w) \/ Kill(w)
    BY <2>4 DEF TakeShutdown, Finish, LoseCoordinator, Kill, Forget
  <2> QED  BY <2>1, <2>2, <2>3, <2>4 DEF Work
<1>2. OnWorkers(saved') /\ \A v \in Worker : saved'[v] = Fresh \/ saved'[v] \in Published
  <2>1. OnWorkers(saved) /\ \A v \in Worker : saved[v] \in Published
    BY DEF Books, Published
  <2>2. CASE saved' = saved  BY <2>1, <2>2
  <2>3. ASSUME NEW x, saved' = [saved EXCEPT ![w] = x], x = Fresh \/ x \in Published
        PROVE  OnWorkers(saved')
               /\ \A v \in Worker : saved'[v] = Fresh \/ saved'[v] \in Published
    <3>1. Elsewhere(saved, saved', w) /\ saved'[w] = x  BY <2>1, <2>3, SetOne
    <3> QED  BY <2>1, <2>3, <3>1 DEF Elsewhere
  <2> QED  BY <1>1, <2>2, <2>3
<1>3. /\ phase' = phase /\ starts' = starts /\ primes' = primes /\ tasks' = tasks
      /\ in_progress' = in_progress /\ snap' = snap /\ saving' = saving /\ latest' = latest
      /\ input' = input
  BY <1>1 DEF coordinator, job
<1>4. \A s \in Published' : s = Fresh \/ s \in Published
  BY <1>2, <1>3 DEF Published
<1>5. Fresh.task_id = None /\ Fresh.numid = 0  BY DEF Fresh
<1>6. StateOK(Fresh, starts) /\ \A U, P : Backs(Fresh, U, P)
  BY <1>5 DEF StateOK, Backs
<1>7. Stored' = Stored /\ Now' = Now /\ (Recorded' <=> Recorded)
  BY <1>3 DEF Stored, Now, Recorded
<1>8. \A s \in Published' : /\ StateOK(s, starts)
                            /\ phase = "up" => Backs(s, Now, primes)
                            /\ \A r \in Stored : Backs(s, Left(r), r.primes)
  BY <1>4, <1>6 DEF Books
<1> QED  BY <1>2, <1>3, <1>7, <1>8 DEF Books

-----------------------------------------------------------------------------
(* The coordinator's handlers keep the invariant.                          *)

\* A step of the handler of c
LEMMA HandlerStep ==
  ASSUME OneSlot, Links, Wires, phase = "up", UNCHANGED <<phase, starts, worker>>,
         primes \subseteq primes', NEW c \in Conn, NEW r, Rewired(c, r), Queues(r),
         Elsewhere(workers, workers', c[1]),
         \A v \in Worker \ {c[1]} : in_progress'[v] = in_progress[v],
         Line(r, in_progress'[c[1]], primes', starts),
         workers'[c[1]] = c[2] => r.handler = "serving",
         Linked(c[1]) /\ conn[c].open
         /\ Attach(at[c[1]], conn[c], task[c[1]], in_progress[c[1]], numid[c[1]], primes)
           => /\ r.open /\ r.handler # "none"
              /\ Attach(at[c[1]], r, task[c[1]], in_progress'[c[1]], numid[c[1]], primes')
  PROVE  Links'
<1> DEFINE w == c[1]
<1>1. w \in Worker /\ \A d \in Conn : d[1] = w => d = c  BY OneConnection DEF Conn
<1>2. conn'[c] = r /\ \A d \in Conn : d # c => conn'[d] = conn[d]
  BY DEF Rewired, Wires
<1>3. at' = at /\ slot' = slot /\ task' = task /\ numid' = numid  BY DEF worker
<1>4. ASSUME at[w] \in {"waiting", "working"}
      PROVE  /\ <<w, slot[w]>> = c /\ r.open /\ r.handler # "none"
             /\ Attach(at[w], r, task[w], in_progress'[w], numid[w], primes')
  <2>1. Linked(w) /\ Mine(w) \in Conn /\ Mine(w) = <<w, slot[w]>> /\ Mine(w)[1] = w
    BY <1>1, <1>4 DEF Links, Linked, Mine
  <2>2. Mine(w) = c  BY <1>1, <2>1
  <2>3. /\ conn[c].open
        /\ Attach(at[w], conn[c], task[w], in_progress[w], numid[w], primes)
    BY <1>1, <2>1, <2>2 DEF Links
  <2> QED  BY <2>1, <2>2, <2>3
<1>5. \A d \in Conn : d[1] = w => /\ Queues(conn'[d])
                                  /\ Line(conn'[d], in_progress'[w], primes', starts)
                                  /\ workers'[w] = d[2] => conn'[d].handler = "serving"
  BY <1>1, <1>2
<1>6. \A d \in Conn : d[1] # w => conn'[d] = conn[d]  BY <1>2
<1>7. /\ OnWorkers(at) /\ OnWorkers(slot) /\ OnWorkers(task) /\ OnWorkers(numid)
  BY DEF Links
<1>8. at'[w] \in {"waiting", "working"} =>
        /\ <<w, slot'[w]>> \in Conn
        /\ conn'[<<w, slot'[w]>>].open /\ conn'[<<w, slot'[w]>>].handler # "none"
        /\ Attach(at'[w], conn'[<<w, slot'[w]>>], task'[w], in_progress'[w],
                  numid'[w], primes')
  BY <1>2, <1>3, <1>4
<1>9. phase # "off"  OBVIOUS
<1>10. /\ OnWorkers(at') /\ OnWorkers(slot') /\ OnWorkers(task') /\ OnWorkers(numid')
       /\ OnWorkers(workers')
       /\ \A v \in Worker \ {w} :
           /\ at'[v] = at[v] /\ slot'[v] = slot[v] /\ task'[v] = task[v]
           /\ numid'[v] = numid[v] /\ workers'[v] = workers[v]
           /\ in_progress'[v] = in_progress[v]
  BY <1>3, <1>7 DEF Elsewhere
<1> HIDE DEF w
<1> QED  BY <1>1, <1>5, <1>6, <1>8, <1>9, <1>10, LinksStep

\* The handler of c ends and forgets the worker.
LEMMA EndStep ==
  ASSUME OneSlot, Links, Wires, phase = "up", UNCHANGED <<phase, starts, worker>>,
         primes \subseteq primes', NEW c \in Conn, NEW r, Rewired(c, r), Queues(r),
         r.handler \in {"none", "ended"}, conn[c].open => r.open /\ r.handler = "ended",
         workers' = [workers EXCEPT ![c[1]] = None],
         \A v \in Worker \ {c[1]} : in_progress'[v] = in_progress[v]
  PROVE  Links'
<1>1. c[1] \in Worker /\ c[2] # None  BY BoundsAssumption DEF Conn
<1>2. Elsewhere(workers, workers', c[1]) /\ workers'[c[1]] = None
  BY <1>1, SetOne DEF Links
<1>3. Line(r, in_progress'[c[1]], primes', starts)  BY DEF Line
<1>4. conn[c].open =>
        Attach(at[c[1]], r, task[c[1]], in_progress'[c[1]], numid[c[1]], primes')
  BY DEF Attach
<1>5. Linked(c[1]) /\ conn[c].open
      /\ Attach(at[c[1]], conn[c], task[c[1]], in_progress[c[1]], numid[c[1]], primes)
        => /\ r.open /\ r.handler # "none"
           /\ Attach(at[c[1]], r, task[c[1]], in_progress'[c[1]], numid[c[1]], primes')
  BY <1>4
<1>6. workers'[c[1]] = c[2] => r.handler = "serving"  BY <1>1, <1>2
<1> QED  BY <1>2, <1>3, <1>5, <1>6, HandlerStep

\* The handler of c reads a message and goes on.
LEMMA PopStep ==
  ASSUME OneSlot, Links, Wires, phase = "up", NEW c \in Conn, Served(c),
         UNCHANGED <<phase, starts, worker, workers, in_progress>>, primes \subseteq primes',
         conn[c].up # <<>>,
         Head(conn[c].up).type = "result" => Head(conn[c].up).prime \in primes',
         conn' = [conn EXCEPT ![c] = Popped(c)]
  PROVE  Links'
<1> DEFINE up == conn[c].up
           r == Wire(conn[c].open, conn[c].handler, Tail(up), conn[c].down)
           w == c[1]
<1>1. Wired(conn[c]) /\ IsSeq(up) /\ IsSeq(conn[c].down) /\ w \in Worker
  BY DEF Wires, Links, Queues, Conn
<1>2. Rewired(c, r)
  <2>1. Popped(c) = WithUp(conn[c], Tail(up))  BY DEF Popped, WithUp
  <2>2. Popped(c) = r  BY <1>1, <2>1, WireIs
  <2> QED  BY <2>2 DEF Rewired
<1>3. /\ r.open = conn[c].open /\ r.handler = "serving" /\ r.up = Tail(up)
      /\ r.down = conn[c].down
  BY WireFields DEF Served
<1> HIDE DEF r
<1>4. Queues(r)  BY <1>1, <1>3, SeqTail DEF Queues
<1>5. Flows(up, in_progress[w], primes, starts)  BY DEF Links, Line, Served
<1>6. /\ Flows(Tail(up), in_progress[w], primes', starts)
      /\ Reach(up, primes) \subseteq Reach(Tail(up), primes')
  BY <1>1, <1>5, FlowsTail
<1> HIDE DEF up
<1>7. Line(r, in_progress'[w], primes', starts)  BY <1>3, <1>6 DEF Line
<1>8. Attach(at[w], conn[c], task[w], in_progress[w], numid[w], primes)
        => Attach(at[w], r, task[w], in_progress'[w], numid[w], primes')
  BY <1>3, <1>6 DEF Attach, Served, up
<1>9. Elsewhere(workers, workers', w)  BY DEF Elsewhere, Links
<1>10. workers'[w] = c[2] => r.handler = "serving"  BY <1>3
<1>11. \A v \in Worker \ {w} : in_progress'[v] = in_progress[v]  OBVIOUS
<1>12. Linked(w) /\ conn[c].open
       /\ Attach(at[w], conn[c], task[w], in_progress[w], numid[w], primes)
         => /\ r.open /\ r.handler # "none"
            /\ Attach(at[w], r, task[w], in_progress'[w], numid[w], primes')
  BY <1>3, <1>8
<1>13. UNCHANGED <<phase, starts, worker>>  OBVIOUS
<1> QED
  BY <1>2, <1>4, <1>7, <1>9, <1>10, <1>11, <1>12, <1>13, HandlerStep

\* What a handler leaves of the books
LEMMA BooksStep ==
  ASSUME Books, phase = "up", UNCHANGED <<phase, starts, saved, latest, saving>>,
         primes \subseteq primes', Now' \subseteq Now, Sound(input', Now', primes'),
         Snapped(snap), snap' = snap \/ \E x : snap' = SnapInflight(snap, x)
  PROVE  Books'
<1>1. /\ snap'.active = snap.active /\ snap'.marker_received = snap.marker_received
      /\ snap'.worker_state = snap.worker_state
  BY SnapField
<1>2. Stored' = Stored /\ Published' = Published  BY DEF Stored, Published
<1>3. Past(Now', starts)  BY DEF Books, Past
<1>4. \A s : Backs(s, Now, primes) => Backs(s, Now', primes')  BY DEF Backs
<1>5. snap.active => Recorded'
  <2>1. \A s : Answered(s, primes, starts) => Answered(s, primes', starts)
    BY DEF Answered
  <2> QED  BY <1>1, <2>1 DEF Books, Recorded
<1>6. saving' # None => saving'.data.primes \subseteq primes'  BY DEF Books
<1>7. \A s \in Published' : /\ StateOK(s, starts)
                            /\ Backs(s, Now', primes')
                            /\ \A r \in Stored' : Backs(s, Left(r), r.primes)
  BY <1>2, <1>4 DEF Books
<1>8. DOMAIN snap'.marker_received = DOMAIN snap'.worker_state  BY <1>1 DEF Books
<1>9. OnWorkers(saved') /\ (\A r \in Stored' : Complete(r, starts))
  BY <1>2 DEF Books
<1> QED  BY <1>1, <1>3, <1>5, <1>6, <1>7, <1>8, <1>9 DEF Books

LEMMA SoundMore ==
  ASSUME NEW of, NEW U, NEW P, NEW Q, P \subseteq Q, Sound(of, U, P)
  PROVE  Sound(of, U, Q)
BY DEF Sound

\* Queueing again what the worker has, if anything, changes nothing of it.
LEMMA LeaveNow ==
  ASSUME Accounted, phase = "up", NEW w \in Worker, Leave(w, in_progress)
  PROVE  /\ Now' = Now /\ workers' = [workers EXCEPT ![w] = None]
         /\ \A v \in Worker \ {w} : in_progress'[v] = in_progress[v]
<1>1. PICK g \in Nat : Accounts(tasks, in_progress, g, total)  BY DEF Accounted, Counts
<1>2. in_progress \in [Worker -> Task \cup {None}]  BY <1>1 DEF Accounts
<1>3. in_progress' = [in_progress EXCEPT ![w] = None]  BY DEF Leave
<1>4. CASE in_progress[w] = None
  <2>1. in_progress' = in_progress /\ tasks' = tasks  BY <1>2, <1>3, <1>4 DEF Leave
  <2> QED  BY <2>1 DEF Leave, Now
<1>5. CASE in_progress[w] # None
  <2>1. tasks' = <<in_progress[w]>> \o tasks  BY <1>5 DEF Leave
  <2>2. Unfinished(tasks', in_progress') = Now
    BY <1>1, <1>3, <1>5, <2>1, Requeued DEF Now
  <2> QED  BY <1>2, <1>3, <2>2 DEF Leave, Now
<1> QED  BY <1>4, <1>5

LEMMA ClosedIs ==
  ASSUME NEW c, Wired(conn[c]), Queues(conn[c])
  PROVE  /\ Queues(Closed(c)) /\ Closed(c).handler \in {"none", "ended"}
         /\ conn[c].open => Closed(c).open /\ Closed(c).handler = "ended"
<1>1. CASE conn[c].open
  <2>1. Ended(conn[c]) = [conn[c] EXCEPT !.handler = "ended", !.up = <<>>]
    BY DEF Ended, WithUp, WithHandler
  <2>2. Closed(c) = Ended(conn[c])  BY <1>1, <2>1, Zenon DEF Closed
  <2>3. Ended(conn[c]) = Wire(conn[c].open, "ended", <<>>, conn[c].down)  BY EndedIs
  <2>4. /\ Closed(c).open = conn[c].open /\ Closed(c).handler = "ended"
        /\ Closed(c).up = <<>> /\ Closed(c).down = conn[c].down
    BY <2>2, <2>3, WireFields
  <2> QED  BY <1>1, <2>4, SeqEmpty DEF Queues
<1>2. CASE ~conn[c].open
  <2>1. Closed(c) = Wire(FALSE, "none", <<>>, <<>>)  BY <1>2, UnusedIs DEF Closed
  <2>2. Closed(c).handler = "none" /\ Closed(c).up = <<>> /\ Closed(c).down = <<>>
    BY <2>1 DEF Wire
  <2> QED  BY <1>2, <2>2, SeqEmpty DEF Queues
<1> QED  BY <1>1, <1>2

LEMMA HelloPrimes ==
  ASSUME OneSlot, Accounted, Links, Books, NEW c \in Conn, HandleHello(c)
  PROVE  Links' /\ Books'
<1> DEFINE w == c[1]
           old == conn[c]
           shutdown == [type |-> "shutdown"]
           given == [type |-> "task", task |-> Head(tasks)]
           reply(msg) == [Popped(c) EXCEPT !.handler = "serving", !.down = Append(@, msg)]
           sent(msg) == Wire(old.open, "serving", Tail(old.up), Append(old.down, msg))
<1>1. /\ phase = "up" /\ old.handler = "hello" /\ old.up # <<>>
      /\ UNCHANGED <<phase, starts, primes, finished, total, snap, saving,
                     latest, worker, kills>>
      /\ input' = input
  BY DEF HandleHello, Receives, job
<1>2. /\ Wires /\ w \in Worker /\ Wired(old) /\ Queues(old) /\ Snapped(snap)
      /\ Line(old, in_progress[w], primes, starts) /\ Sound(input, Now, primes)
  BY <1>1 DEF Accounted, Links, Books, Wires, Conn
<1>3. PICK g \in Nat : Accounts(tasks, in_progress, g, total)
  BY <1>1 DEF Accounted, Counts
<1>4. in_progress \in [Worker -> Task \cup {None}] /\ tasks \in Seq(Task)
  BY <1>3 DEF Accounts
<1>5. in_progress[w] = None  BY <1>1 DEF Accounted, Serving, Served
<1>6. ASSUME NEW msg PROVE reply(msg) = sent(msg)
  <2>1. reply(msg) = Replied(old, Append(old.down, msg), Tail(old.up))
    BY DEF Popped, Replied, WithUp, WithHandler, WithDown
  <2>2. Replied(old, Append(old.down, msg), Tail(old.up)) = sent(msg)
    BY <1>2, RepliedIs
  <2> HIDE DEF reply, sent
  <2> QED  BY <2>1, <2>2
<1>7. ASSUME NEW msg
      PROVE  /\ Wired(sent(msg)) /\ sent(msg).open = old.open
             /\ sent(msg).handler = "serving" /\ sent(msg).up = Tail(old.up)
             /\ sent(msg).down = Append(old.down, msg) /\ Queues(sent(msg))
  <2>1. /\ sent(msg).open = old.open
        /\ sent(msg).handler = "serving" /\ sent(msg).up = Tail(old.up)
        /\ sent(msg).down = Append(old.down, msg)
    BY DEF Wire
  <2>2. Wired(sent(msg))  BY WireFields
  <2>3. IsSeq(Tail(old.up)) /\ IsSeq(Append(old.down, msg))
    BY <1>1, <1>2, SeqTail, SeqAppend DEF Queues
  <2> QED  BY <2>1, <2>2, <2>3 DEF Queues
<1> HIDE DEF sent, reply
<1>8. CASE tasks = <<>>
  <2> DEFINE r == IF old.open THEN WithHandler(sent(shutdown), "ended") ELSE Unused
  <2>1. Leave(w, in_progress) /\ Rewired(c, r)
    <3>1. Leave(w, in_progress) /\ conn' = [conn EXCEPT ![c] =
            IF conn[c].open THEN WithHandler(reply(shutdown), "ended") ELSE Unused]
      BY <1>8 DEF HandleHello, WithHandler, reply
    <3>2. reply(shutdown) = sent(shutdown)  BY <1>6
    <3> HIDE DEF shutdown
    <3> QED  BY <3>1, <3>2 DEF Rewired
  <2>2. /\ Queues(r) /\ r.handler \in {"none", "ended"}
        /\ old.open => r.open /\ r.handler = "ended"
    <3>1. CASE old.open
      <4>1. r = Wire(sent(shutdown).open, "ended", sent(shutdown).up, sent(shutdown).down)
        BY <1>7, <3>1, WireIs
      <4>2. /\ r.open = sent(shutdown).open /\ r.handler = "ended"
            /\ r.up = sent(shutdown).up /\ r.down = sent(shutdown).down
        BY <4>1, WireFields
      <4>3. Queues(sent(shutdown)) /\ sent(shutdown).open = old.open  BY <1>7
      <4> HIDE DEF shutdown, r
      <4> QED  BY <3>1, <4>2, <4>3 DEF Queues
    <3>2. CASE ~old.open
      <4>1. r = Wire(FALSE, "none", <<>>, <<>>)  BY <3>2, UnusedIs
      <4>2. r.handler = "none" /\ r.up = <<>> /\ r.down = <<>>  BY <4>1 DEF Wire
      <4> QED  BY <3>2, <4>2, SeqEmpty DEF Queues
    <3> QED  BY <3>1, <3>2
  <2> HIDE DEF r
  <2>3. /\ Now' = Now /\ workers' = [workers EXCEPT ![w] = None]
        /\ \A v \in Worker \ {w} : in_progress'[v] = in_progress[v]
    BY <1>1, <1>2, <2>1, LeaveNow
  <2>4. Links'  BY <1>1, <1>2, <2>1, <2>2, <2>3, EndStep
  <2>5. Books'  BY <1>1, <1>2, <2>3, BooksStep DEF worker
  <2> QED  BY <2>4, <2>5
<1>9. CASE tasks # <<>>
  <2> DEFINE r == sent(given)
  <2>1. /\ workers' = [workers EXCEPT ![w] = c[2]]
        /\ in_progress' = [in_progress EXCEPT ![w] = Head(tasks)]
        /\ tasks' = Tail(tasks)
        /\ conn' = [conn EXCEPT ![c] = reply(given)]
    BY <1>9 DEF HandleHello, reply
  <2>2. Rewired(c, r)
    <3>1. reply(given) = sent(given)  BY <1>6
    <3> HIDE DEF given
    <3> QED  BY <2>1, <3>1 DEF Rewired
  <2>3. /\ r.open = old.open /\ r.handler = "serving" /\ r.up = Tail(old.up)
        /\ r.down = Append(old.down, given) /\ Queues(r)
    BY <1>7
  <2>4. in_progress'[w] = Head(tasks)
        /\ \A v \in Worker \ {w} : in_progress'[v] = in_progress[v]
    BY <1>2, <1>4, <2>1
  <2> HIDE DEF r
  <2>5. Line(r, in_progress'[w], primes', starts)
    <3>1. ASSUME NEW k \in 1..Len(Tail(old.up)) PROVE Tail(old.up)[k].type = "hello"
      <4>1. /\ Len(old.up) \in Nat \ {0} /\ Len(Tail(old.up)) = Len(old.up) - 1
            /\ \A j \in 1..Len(old.up) - 1 : Tail(old.up)[j] = old.up[j + 1]
        BY <1>1, <1>2, SeqTail DEF Queues
      <4>2. k + 1 \in 1..Len(old.up) /\ Tail(old.up)[k] = old.up[k + 1]  BY <4>1
      <4> QED  BY <1>1, <1>2, <4>2 DEF Line
    <3>2. Flows(Tail(old.up), in_progress'[w], primes', starts)
      BY <3>1 DEF Flows, Speaks
    <3> HIDE DEF old
    <3> QED  BY <2>3, <3>2 DEF Line
  <2>6. Elsewhere(workers, workers', w)  BY <1>2, <2>1, SetOne DEF Links
  <2>7. ASSUME Attach(at[w], old, task[w], in_progress[w], numid[w], primes)
        PROVE  Attach(at[w], r, task[w], in_progress'[w], numid[w], primes')
    <3>1. at[w] # "working" /\ (at[w] = "waiting" => old.down = <<>>)
      BY <1>1, <2>7 DEF Attach
    <3>2. Append(old.down, given) # <<>>
          /\ (old.down = <<>> => Head(Append(old.down, given)) = given)
      BY <1>2, SeqAppend DEF Queues
    <3>3. given = [type |-> "task", task |-> in_progress'[w]]  BY <2>4
    <3> HIDE DEF given, old
    <3> QED  BY <2>3, <3>1, <3>2, <3>3 DEF Attach
  <2>8. Linked(w) /\ conn[c].open
        /\ Attach(at[w], conn[c], task[w], in_progress[w], numid[w], primes)
          => /\ r.open /\ r.handler # "none"
             /\ Attach(at[w], r, task[w], in_progress'[w], numid[w], primes')
    BY <2>3, <2>7
  <2>9. workers'[w] = c[2] => r.handler = "serving"  BY <2>3
  <2>10. primes \subseteq primes'  BY <1>1
  <2>11. Links'
    BY <1>1, <1>2, <2>2, <2>3, <2>4, <2>5, <2>6, <2>8, <2>9, <2>10, HandlerStep
  <2>12. Now' = Now
    BY <1>2, <1>3, <1>5, <1>9, <2>1, Assigned DEF Now
  <2>13. Books'  BY <1>1, <1>2, <2>12, BooksStep DEF worker
  <2> QED  BY <2>11, <2>13
<1> QED  BY <1>8, <1>9

LEMMA ResultPrimes ==
  ASSUME OneSlot, Accounted, Links, Books, NEW c \in Conn, HandleResult(c)
  PROVE  Links' /\ Books'
<1> DEFINE w == c[1]
           n == Head(conn[c].up).prime
<1>1. /\ phase = "up" /\ Served(c) /\ conn[c].up # <<>> /\ primes' = primes \cup {n}
      /\ UNCHANGED <<phase, starts, finished, total, saving, latest, worker, kills>>
      /\ input' = input
  BY DEF HandleResult, Receives, Served, job
<1>2. /\ Wires /\ w \in Worker /\ Wired(conn[c]) /\ Queues(conn[c]) /\ Snapped(snap)
      /\ Sound(input, Now, primes) /\ primes \subseteq primes'
  BY <1>1 DEF Accounted, Links, Books, Wires, Conn
<1>3. CASE /\ snap' = save_inflight(w, n)
           /\ conn' = [conn EXCEPT ![c] = Popped(c)]
           /\ UNCHANGED <<tasks, in_progress, workers>>
  <2>1. n \in primes'  BY <1>1
  <2>2. Links'
    <3> HIDE DEF w
    <3> QED  BY <1>1, <1>2, <1>3, <2>1, PopStep
  <2>3. snap' = snap \/ \E x : snap' = SnapInflight(snap, x)
    BY <1>3 DEF save_inflight, SnapInflight
  <2>4. Now' = Now  BY <1>3 DEF Now
  <2>5. Sound(input', Now', primes')  BY <1>1, <1>2, <2>4, SoundMore
  <2> QED  BY <1>1, <1>2, <2>2, <2>3, <2>4, <2>5, BooksStep DEF worker
<1>4. CASE /\ Leave(w, in_progress)
           /\ conn' = [conn EXCEPT ![c] = Closed(c)]
           /\ UNCHANGED snap
  <2>1. /\ Queues(Closed(c)) /\ Closed(c).handler \in {"none", "ended"}
        /\ conn[c].open => Closed(c).open /\ Closed(c).handler = "ended"
    BY <1>2, ClosedIs
  <2>2. /\ Now' = Now /\ workers' = [workers EXCEPT ![w] = None]
        /\ \A v \in Worker \ {w} : in_progress'[v] = in_progress[v]
    BY <1>1, <1>2, <1>4, LeaveNow
  <2>3. Rewired(c, Closed(c))  BY <1>4 DEF Rewired
  <2>4. Links'  BY <1>1, <1>2, <2>1, <2>2, <2>3, EndStep
  <2>5. Sound(input', Now', primes')  BY <1>1, <1>2, <2>2, SoundMore
  <2> QED  BY <1>1, <1>2, <1>4, <2>2, <2>4, <2>5, BooksStep DEF worker
<1> QED  BY <1>3, <1>4 DEF HandleResult

LEMMA FinishPrimes ==
  ASSUME OneSlot, Accounted, Links, Books, NEW c \in Conn, HandleFinish(c)
  PROVE  Links' /\ Books'
<1> DEFINE w == c[1]
           t == in_progress[w]
           progress == [in_progress EXCEPT ![w] = None]
<1>1. /\ phase = "up" /\ Served(c) /\ conn[c].up # <<>>
      /\ Head(conn[c].up).type = "finish"
      /\ Leave(w, progress) /\ Rewired(c, Closed(c))
      /\ UNCHANGED <<phase, starts, primes, total, snap, saving, latest, worker, kills>>
      /\ input' = input
  BY DEF HandleFinish, Receives, Served, Rewired, job
<1>2. /\ Wires /\ w \in Worker /\ Wired(conn[c]) /\ Queues(conn[c]) /\ Snapped(snap)
      /\ Sound(input, Now, primes)
      /\ Flows(conn[c].up, t, primes, starts)
  BY <1>1 DEF Accounted, Links, Books, Wires, Conn, Line, Served
<1>3. PICK g \in Nat : Accounts(tasks, in_progress, g, total)
  BY <1>1 DEF Accounted, Counts
<1>4. /\ in_progress \in [Worker -> Task \cup {None}] /\ t # None
  BY <1>1, <1>3 DEF Accounts, Accounted, Serving
<1>5. /\ progress[w] = None /\ \A v \in Worker \ {w} : progress[v] = in_progress[v]
      /\ progress \in [Worker -> Task \cup {None}]
  BY <1>2, <1>4
<1>6. Unfinished(tasks, progress) = Now \ {t}
  <2>1. Unfinished(tasks, [in_progress EXCEPT ![w] = None])
          = Unfinished(tasks, in_progress) \ {in_progress[w]}
    <3>1. w \in Worker /\ in_progress[w] # None  BY <1>2, <1>4
    <3> HIDE DEF w
    <3> QED  BY <1>3, <3>1, Completed
  <2> QED  BY <2>1 DEF Now
<1> HIDE DEF progress
<1>7. /\ tasks' = tasks /\ in_progress' = progress
      /\ workers' = [workers EXCEPT ![w] = None]
  <2>1. in_progress' = [progress EXCEPT ![w] = None]  BY <1>1 DEF Leave
  <2>2. in_progress' = progress  BY <1>2, <1>5, <2>1
  <2> QED  BY <1>1, <1>5, <2>2 DEF Leave
<1>8. Now' = Now \ {t}  BY <1>6, <1>7 DEF Now
<1>9. Links'
  <2>1. /\ Queues(Closed(c)) /\ Closed(c).handler \in {"none", "ended"}
        /\ conn[c].open => Closed(c).open /\ Closed(c).handler = "ended"
    BY <1>2, ClosedIs
  <2>2. \A v \in Worker \ {w} : in_progress'[v] = in_progress[v]  BY <1>5, <1>7
  <2> QED  BY <1>1, <1>2, <1>7, <2>1, <2>2, EndStep
<1>10. PrimesUpTo(t.of, t.n, Len(Chunk(t.of, t.n))) \subseteq primes
  <2>1. Speaks(Head(conn[c].up), t, primes, starts)
    BY <1>1, <1>2, FlowsHead DEF Queues
  <2> QED  BY <1>1, <2>1 DEF Speaks
<1>11. Sound(input', Now', primes')
  <2> SUFFICES ASSUME NEW n \in 1..NumTasks(input),
                      \A u \in Now \ {t} : ~(u.of = input /\ u.n = n)
               PROVE  PrimesUpTo(input, n, Len(Chunk(input, n))) \subseteq primes
    BY <1>1, <1>8 DEF Sound
  <2>1. CASE t.of = input /\ t.n = n  BY <1>10, <2>1
  <2>2. CASE ~(t.of = input /\ t.n = n)
    <3>1. \A u \in Now : ~(u.of = input /\ u.n = n)  BY <2>2
    <3> QED  BY <1>2, <3>1 DEF Sound
  <2> QED  BY <2>1, <2>2
<1>12. Books'
  BY <1>1, <1>2, <1>8, <1>11, BooksStep DEF worker
<1> QED  BY <1>9, <1>12

LEMMA DisconnectPrimes ==
  ASSUME OneSlot, Accounted, Links, Books, NEW c \in Conn, HandleDisconnect(c)
  PROVE  Links' /\ Books'
<1> DEFINE w == c[1]
<1>1. /\ phase = "up" /\ ~conn[c].open /\ Rewired(c, Unused)
      /\ UNCHANGED <<phase, starts, primes, finished, total, snap, saving, latest,
                     worker, kills>>
      /\ input' = input
  BY DEF HandleDisconnect, Rewired, job
<1>2. /\ Wires /\ w \in Worker /\ Snapped(snap) /\ Sound(input, Now, primes)
  BY <1>1 DEF Accounted, Links, Books, Conn
<1>3. Queues(Unused) /\ Unused.handler = "none"
  BY SeqEmpty DEF Queues, Unused
<1>4. CASE Served(c)
  <2>1. Leave(w, in_progress)  BY <1>4 DEF HandleDisconnect, Served
  <2>2. /\ Now' = Now /\ workers' = [workers EXCEPT ![w] = None]
        /\ \A v \in Worker \ {w} : in_progress'[v] = in_progress[v]
    BY <1>1, <1>2, <2>1, LeaveNow
  <2>3. Links'  BY <1>1, <1>2, <1>3, <2>2, EndStep
  <2> QED  BY <1>1, <1>2, <2>2, <2>3, BooksStep DEF worker
<1>5. CASE ~Served(c)
  <2>1. UNCHANGED <<tasks, in_progress, workers>>
    BY <1>5 DEF HandleDisconnect, Served
  <2>2. Now' = Now  BY <2>1 DEF Now
  <2>3. Line(Unused, in_progress'[w], primes', starts)  BY <1>3 DEF Line
  <2>4. Elsewhere(workers, workers', w)  BY <2>1 DEF Elsewhere, Links
  <2>5. workers'[w] = c[2] => Unused.handler = "serving"
    BY <1>1, <1>5, <2>1 DEF Links
  <2>6. \A v \in Worker \ {w} : in_progress'[v] = in_progress[v]  BY <2>1
  <2>7. Linked(w) /\ conn[c].open
        /\ Attach(at[w], conn[c], task[w], in_progress[w], numid[w], primes)
          => /\ Unused.open /\ Unused.handler # "none"
             /\ Attach(at[w], Unused, task[w], in_progress'[w], numid[w], primes')
    BY <1>1
  <2>8. primes \subseteq primes'  BY <1>1
  <2>9. Links'
    BY <1>1, <1>2, <1>3, <2>3, <2>4, <2>5, <2>6, <2>7, <2>8, HandlerStep
  <2> QED  BY <1>1, <1>2, <2>2, <2>9, BooksStep DEF worker
<1> QED  BY <1>4, <1>5

\* What is known of a state stays so.
LEMMA AnsweredMore ==
  ASSUME NEW s, NEW P, NEW Q, P \subseteq Q, NEW st \in Nat, NEW st2 \in Nat, st <= st2,
         \A u \in Task : u.run \in Nat
  PROVE  /\ StateOK(s, st) => StateOK(s, st2)
         /\ Answered(s, P, st) => Answered(s, Q, st2)
BY DEF StateOK, Answered

LEMMA CompleteMore ==
  ASSUME NEW r, NEW st \in Nat, Complete(r, st), Left(r) \subseteq Task,
         \A u \in Task : u.run \in Nat
  PROVE  Complete(r, st + 1)
<1>1. \A u \in Left(r) : u.run \in Nat /\ u.run <= st  BY DEF Complete, Past
<1>2. Past(Left(r), st + 1)  BY <1>1 DEF Past
<1>3. st + 1 \in Nat /\ st <= st + 1  OBVIOUS
<1>4. \A s : Answered(s, r.primes, st) => Answered(s, r.primes, st + 1)
  BY <1>3, AnsweredMore
<1> QED  BY <1>2, <1>4 DEF Complete

LEMMA RunsAreNumbers == \A u \in Task : u.run \in Nat /\ u.run \in 1..MaxStart
BY BoundsAssumption DEF Task

\* The books are as good at a later start.
LEMMA StartsMore ==
  ASSUME Accounted, Books
  PROVE  /\ \A q \in Stored : Complete(q, starts + 1)
         /\ \A s \in Published : StateOK(s, starts) /\ StateOK(s, starts + 1)
<1>1. starts \in Nat /\ starts + 1 \in Nat /\ starts <= starts + 1  BY DEF Accounted
<1>2. \A u \in Task : u.run \in Nat  BY RunsAreNumbers
<1>3. ASSUME NEW q \in Stored PROVE Complete(q, starts + 1)
  <2>1. Sums(q) /\ Complete(q, starts)  BY DEF Accounted, Books
  <2>2. q.tasks \in Seq(Task) /\ q.in_progress \in [Worker -> Task \cup {None}]
    BY <2>1, CountsType DEF Sums
  <2>3. Left(q) \subseteq Task
    <3> SUFFICES ASSUME NEW u \in Left(q) PROVE u \in Task  OBVIOUS
    <3>1. \/ \E k \in 1..Len(q.tasks) : u = q.tasks[k]
          \/ \E w \in Worker : u = q.in_progress[w] /\ u # None
      BY <2>2, UnfinishedIs DEF Left
    <3> QED  BY <2>2, <3>1, ElementOfSeq
  <2> QED  BY <1>1, <1>2, <2>1, <2>3, CompleteMore
<1>4. \A s \in Published : StateOK(s, starts) /\ StateOK(s, starts + 1)
  <2>1. \A s : StateOK(s, starts) => StateOK(s, starts + 1)
    BY <1>1, <1>2, AnsweredMore
  <2> QED  BY <2>1 DEF Books
<1> QED  BY <1>3, <1>4

\* A marker that is answered and counted
LEMMA MarkerPrimes ==
  ASSUME OneSlot, Accounted, Links, Books, NEW c \in Conn, HandleMarker(c)
  PROVE  Links' /\ Books'
<1> DEFINE w == c[1]
           m == Head(conn[c].up)
           state == [task_id |-> m.task, numid |-> m.numid]
           received == [snap.marker_received EXCEPT ![w] = TRUE]
           states == [snap.worker_state EXCEPT ![w] = state]
           next == SnapState(SnapReceived(snap, received), states)
           counted == /\ snap.active /\ m.sid = snap.id
                      /\ w \in DOMAIN snap.marker_received /\ ~snap.marker_received[w]
           complete == \A v \in DOMAIN snap.marker_received \ {w} :
                         snap.marker_received[v]
<1>1. /\ phase = "up" /\ Served(c) /\ conn[c].up # <<>> /\ m.type = "marker"
      /\ conn' = [conn EXCEPT ![c] = Popped(c)]
      /\ UNCHANGED <<phase, starts, primes, tasks, in_progress, workers,
                     finished, total, latest, worker, kills>>
      /\ input' = input
  BY DEF HandleMarker, Receives, Served, job
<1>2. /\ Wires /\ w \in Worker /\ Wired(conn[c]) /\ Queues(conn[c]) /\ Snapped(snap)
      /\ Sound(input, Now, primes) /\ Past(Now, starts)
      /\ Flows(conn[c].up, in_progress[w], primes, starts)
      /\ DOMAIN snap.marker_received = DOMAIN snap.worker_state
  BY <1>1 DEF Accounted, Links, Books, Wires, Conn, Line, Served
<1>3. Links'
  <2>1. primes \subseteq primes'  BY <1>1
  <2>2. Head(conn[c].up).type # "result"  BY <1>1
  <2> HIDE DEF m
  <2> QED  BY <1>1, <1>2, <2>1, <2>2, PopStep
<1>4. Answered(state, primes, starts)
  <2>1. Speaks(m, in_progress[w], primes, starts)
    BY <1>1, <1>2, FlowsHead DEF Queues
  <2>2. /\ m.task \in Task /\ m.task.run <= starts /\ m.numid \in Nat
        /\ PrimesUpTo(m.task.of, m.task.n, m.numid) \subseteq primes
    BY <1>1, <2>1 DEF Speaks
  <2>3. m.task # None  BY <2>2, TaskAssumption
  <2>4. state.task_id = m.task /\ state.numid = m.numid  OBVIOUS
  <2> HIDE DEF m, state
  <2> QED  BY <2>2, <2>3, <2>4 DEF Answered, StateOK
<1>5. /\ Snapped(next) /\ next.active = snap.active
      /\ next.marker_received = received /\ next.worker_state = states
  <2> DEFINE marked == SnapReceived(snap, received)
  <2>1. /\ Snapped(marked) /\ marked.active = snap.active
        /\ marked.marker_received = received
    BY <1>2, SnapField
  <2> HIDE DEF marked, received, states
  <2>2. /\ Snapped(SnapState(marked, states))
        /\ SnapState(marked, states).active = marked.active
        /\ SnapState(marked, states).marker_received = marked.marker_received
        /\ SnapState(marked, states).worker_state = states
    BY <2>1, SnapField
  <2> QED  BY <2>1, <2>2 DEF marked
<1>6. /\ snap' = IF counted THEN next ELSE snap
      /\ saving' = IF counted /\ complete THEN [conn |-> c, data |-> Contents(next)]
                   ELSE saving
  <2> DEFINE marked == SnapReceived(snap, received)
  <2>1. marked.worker_state = snap.worker_state /\ Snapped(marked)
    BY <1>2, SnapField
  <2>2. next = [snap EXCEPT !.marker_received[w] = TRUE, !.worker_state[w] = state]
    BY <2>1 DEF SnapReceived, SnapState
  <2> HIDE DEF next
  <2> QED  BY <2>2 DEF HandleMarker
<1> HIDE DEF next
<1>7. /\ DOMAIN received = DOMAIN snap.marker_received
      /\ DOMAIN states = DOMAIN snap.worker_state
      /\ \A v \in DOMAIN received : IF v = w THEN received[v] /\ states[v] = state
                                    ELSE /\ received[v] = snap.marker_received[v]
                                         /\ states[v] = snap.worker_state[v]
  BY <1>2
<1> HIDE DEF received, states, state
<1>8. /\ DOMAIN snap'.marker_received = DOMAIN snap'.worker_state
      /\ snap'.active => Recorded'
  <2>1. CASE counted
    <3>1. /\ snap'.marker_received = received /\ snap'.worker_state = states
          /\ snap.active
      BY <1>5, <1>6, <2>1
    <3>2. \A v \in DOMAIN snap.marker_received :
            snap.marker_received[v] => Answered(snap.worker_state[v], primes, starts)
      BY <1>1, <3>1 DEF Books, Recorded
    <3> HIDE DEF counted
    <3>3. \A v \in DOMAIN received : received[v] => Answered(states[v], primes, starts)
      BY <1>4, <1>7, <3>2
    <3> QED  BY <1>1, <1>2, <1>7, <3>1, <3>3 DEF Recorded
  <2>2. CASE ~counted
    <3>1. snap' = snap  BY <1>6, <2>2
    <3> QED  BY <1>1, <1>2, <3>1 DEF Books, Recorded
  <2> QED  BY <2>1, <2>2
<1>9. \/ saving' = saving
      \/ saving' = [conn |-> c, data |-> Contents(next)] /\ snap.active
         /\ \A v \in DOMAIN states : Answered(states[v], primes, starts)
  <2>1. ASSUME counted, complete, NEW v \in DOMAIN states
        PROVE  Answered(states[v], primes, starts)
    <3>1. \A u \in DOMAIN snap.marker_received :
            snap.marker_received[u] => Answered(snap.worker_state[u], primes, starts)
      BY <1>1, <2>1 DEF Books, Recorded
    <3>2. v = w => Answered(states[v], primes, starts)  BY <1>2, <1>4, <1>7
    <3>3. v # w => Answered(states[v], primes, starts)  BY <1>2, <1>7, <2>1, <3>1
    <3> QED  BY <3>2, <3>3
  <2> QED  BY <1>6, <2>1
<1> DEFINE data == Contents(next)
<1>10. /\ data.primes = primes /\ data.worker_state = states /\ Left(data) = Now
       /\ data.input = input
  <2>1. /\ data.primes = primes /\ data.worker_state = next.worker_state
        /\ data.tasks = tasks /\ data.in_progress = in_progress /\ data.input = input
    BY DEF Contents
  <2> HIDE DEF data
  <2> QED  BY <1>5, <2>1 DEF Left, Now
<1> HIDE DEF data
<1>11. /\ \A r \in Stored' : r \in Stored \/ (r = data /\ Complete(data, starts))
       /\ saving' # None => saving'.data.primes \subseteq primes
  <2>1. CASE saving' = saving
    <3>1. Stored' = Stored  BY <1>1, <2>1 DEF Stored
    <3> QED  BY <1>1, <2>1, <3>1 DEF Books
  <2>2. CASE saving' = [conn |-> c, data |-> data]
             /\ \A v \in DOMAIN states : Answered(states[v], primes, starts)
    <3>1. saving'.data = data  BY <2>2
    <3>2. Complete(data, starts)  BY <1>2, <1>10, <2>2 DEF Complete
    <3>3. \A r \in Stored' : r \in Stored \/ r = data  BY <1>1, <3>1 DEF Stored
    <3> QED  BY <1>10, <3>1, <3>2, <3>3
  <2> QED  BY <1>9, <2>1, <2>2 DEF data
<1>12. ASSUME NEW s \in Published'
       PROVE  /\ StateOK(s, starts) /\ Backs(s, Now', primes')
              /\ \A r \in Stored' : Backs(s, Left(r), r.primes)
  <2>1. s \in Published  BY <1>1 DEF Published, worker
  <2>2. /\ StateOK(s, starts) /\ Backs(s, Now, primes)
        /\ \A r \in Stored : Backs(s, Left(r), r.primes)
    BY <1>1, <2>1 DEF Books
  <2>3. Now' = Now  BY <1>1 DEF Now
  <2>4. \A r \in Stored' : Backs(s, Left(r), r.primes)
    BY <1>10, <1>11, <2>2
  <2> QED  BY <1>1, <2>2, <2>3, <2>4
<1>13. OnWorkers(saved')  BY <1>1 DEF Books, worker
<1>14. Sound(input', Now', primes') /\ Past(Now', starts')
  BY <1>1, <1>2 DEF Now
<1>15. \A r \in Stored' : Complete(r, starts)  BY <1>11 DEF Books
<1>16. starts' = starts /\ primes' = primes  BY <1>1
<1>17. Books'  BY <1>8, <1>11, <1>12, <1>13, <1>14, <1>15, <1>16 DEF Books
<1> QED  BY <1>3, <1>17

\* The steps of the coordinator that no connection sees
LEMMA SameLinks ==
  ASSUME Links, UNCHANGED <<starts, primes, in_progress, workers, conn, worker>>,
         phase' = phase \/ phase' = "done"
  PROVE  Links'
<1>1. /\ starts' = starts /\ primes' = primes /\ in_progress' = in_progress
      /\ workers' = workers /\ conn' = conn /\ at' = at /\ slot' = slot
      /\ task' = task /\ numid' = numid
  BY DEF worker
<1>2. /\ (phase = "off")' => phase = "off"
      /\ (phase = "up")' => phase = "up"
  OBVIOUS
<1> HIDE DEF Line, Attach, Queues, Served, OnWorkers
<1>3. /\ OnWorkers(at)' /\ OnWorkers(slot)' /\ OnWorkers(task)' /\ OnWorkers(numid)'
      /\ OnWorkers(workers)'
  BY <1>1 DEF Links, OnWorkers
<1>4. \A c \in Conn : Queues(conn[c])'  BY <1>1 DEF Links, Queues
<1>5. \A w \in Worker : Linked(w)' =>
        (Mine(w) \in Conn /\ conn[Mine(w)].open /\ conn[Mine(w)].handler # "none")'
  BY <1>1 DEF Links, Linked, Mine
<1>6. (phase = "off")' => /\ \A c \in Conn : conn'[c].handler \in {"none", "ended"}
                          /\ \A w \in Worker : workers'[w] = None
  BY <1>1, <1>2 DEF Links
<1>7. (phase = "up")' =>
        \A c \in Conn : /\ Line(conn'[c], in_progress'[c[1]], primes', starts')
                        /\ workers'[c[1]] = c[2] => Served(c)'
  BY <1>1, <1>2 DEF Links, Served
<1>8. (phase = "up")' =>
        \A w \in Worker : Linked(w)' =>
          Attach(at'[w], conn'[Mine(w)'], task'[w], in_progress'[w], numid'[w], primes')
  BY <1>1, <1>2 DEF Links, Linked, Mine
<1> QED  BY <1>3, <1>4, <1>5, <1>6, <1>7, <1>8 DEF Links

\* The files are written, or not.
LEMMA StorePrimes ==
  ASSUME Accounted, Links, Books, Store
  PROVE  Links' /\ Books'
<1>1. /\ saving # None /\ saving' = None /\ latest' \in {latest, saving.data}
      /\ UNCHANGED <<phase, starts, primes, tasks, in_progress, workers, finished,
                     total, conn, worker, kills>>
      /\ snap' = SnapActive(snap, FALSE) /\ input' = input
  BY DEF Store, SnapActive, job
<1>2. Links'  BY <1>1, SameLinks
<1>3. Snapped(snap)  BY DEF Accounted
<1>4. /\ ~snap'.active /\ snap'.marker_received = snap.marker_received
      /\ snap'.worker_state = snap.worker_state
  BY <1>1, <1>3, SnapField
<1>5. /\ \A r \in Stored' : r \in Stored
      /\ saving.data = None \/ saving.data \in Stored
      /\ \A r \in Stored' : saving.data = None \/ latest' = latest \/ r = saving.data
  BY <1>1 DEF Stored
<1>6. \A r \in Stored : Complete(r, starts)  BY DEF Books
<1>7. ASSUME NEW s \in Published'
      PROVE  /\ StateOK(s, starts)
             /\ phase = "up" => Backs(s, Now, primes)
             /\ \A r \in Stored' : Backs(s, Left(r), r.primes)
  <2>1. CASE s \in Published  BY <1>5, <2>1 DEF Books
  <2>2. CASE s \notin Published
    <3>1. saved' = saved  BY <1>1 DEF worker
    <3>2. PICK w \in DOMAIN latest'.worker_state :
            latest' # None /\ s = latest'.worker_state[w]
      BY <2>2, <3>1 DEF Published
    <3>3. latest' = saving.data /\ saving.data # None
      BY <1>1, <2>2, <3>2 DEF Published
    <3>4. Answered(s, saving.data.primes, starts)
      BY <1>5, <1>6, <3>2, <3>3 DEF Complete
    <3>5. \A r \in Stored' : r = saving.data  BY <1>1, <3>3 DEF Stored
    <3>6. phase = "up" => saving.data.primes \subseteq primes  BY <1>1 DEF Books
    <3> QED  BY <3>4, <3>5, <3>6 DEF Answered, Backs
  <2> QED  BY <2>1, <2>2
<1>8. Now' = Now /\ OnWorkers(saved')  BY <1>1 DEF Now, Books, worker
<1>9. \A r \in Stored' : Complete(r, starts)  BY <1>5, <1>6
<1>10. phase' = phase /\ starts' = starts /\ primes' = primes  BY <1>1
<1>11. Books'  BY <1>1, <1>4, <1>7, <1>8, <1>9, <1>10 DEF Books
<1> QED  BY <1>2, <1>11

\* The end of run(): the books stay as they are.
LEMMA EndPrimes ==
  ASSUME Accounted, Links, Books, EndLoop \/ SaveResults \/ Done
  PROVE  Links' /\ Books'
<1>1. /\ phase = "up" /\ phase' \in {"up", "done"}
      /\ latest' \in {None, latest}
      /\ UNCHANGED <<starts, primes, tasks, in_progress, workers, finished, total,
                     snap, saving, conn, worker, kills>>
      /\ input' = input
  BY DEF EndLoop, SaveResults, Done, job
<1>2. Links'  BY <1>1, SameLinks
<1>3. \A r \in Stored' : r \in Stored  BY <1>1 DEF Stored
<1>4. \A s \in Published' : s \in Published
  BY <1>1 DEF Published, worker
<1>5. Now' = Now /\ (Recorded' <=> Recorded)  BY <1>1 DEF Now, Recorded
<1>6. \A s \in Published' : /\ StateOK(s, starts) /\ Backs(s, Now, primes)
                            /\ \A r \in Stored' : Backs(s, Left(r), r.primes)
  BY <1>1, <1>3, <1>4 DEF Books
<1>7. /\ \A r \in Stored' : Complete(r, starts)
      /\ OnWorkers(saved') /\ DOMAIN snap'.marker_received = DOMAIN snap'.worker_state
      /\ Sound(input, Now, primes) /\ Past(Now, starts)
      /\ saving' # None => saving'.data.primes \subseteq primes
      /\ snap'.active => Recorded
  BY <1>1, <1>3 DEF Books, worker
<1>8. starts' = starts /\ primes' = primes  BY <1>1
<1>9. Books'  BY <1>1, <1>5, <1>6, <1>7, <1>8 DEF Books
<1> QED  BY <1>2, <1>9

\* run() without numbers
LEMMA NothingPrimes ==
  ASSUME Accounted, Links, Books, NothingRead
  PROVE  Links' /\ Books'
<1>1. /\ phase = "off" /\ phase' = "off" /\ starts \in Nat /\ starts' = starts + 1
      /\ UNCHANGED <<in_progress, workers, snap, saving, conn, latest, at, slot, task,
                     numid, saved>>
  BY DEF NothingRead, Accounted, worker
<1>2. Links'
  <2>1. \A w \in Worker : Linked(w)' => Linked(w)  BY <1>1 DEF Linked
  <2>2. \A w \in Worker : Mine(w)' = Mine(w)  BY <1>1 DEF Mine
  <2>3. \A w \in Worker : Linked(w)' =>
          Mine(w)' \in Conn /\ conn'[Mine(w)'].open /\ conn'[Mine(w)'].handler # "none"
    BY <1>1, <2>1, <2>2 DEF Links
  <2>4. /\ OnWorkers(at)' /\ OnWorkers(slot)' /\ OnWorkers(task)' /\ OnWorkers(numid)'
        /\ OnWorkers(workers)' /\ \A w \in Worker : workers'[w] = None
    BY <1>1 DEF Links, OnWorkers
  <2>5. \A c \in Conn : Queues(conn[c])' /\ conn'[c].handler \in {"none", "ended"}
    BY <1>1 DEF Links, Queues
  <2> QED  BY <1>1, <2>3, <2>4, <2>5 DEF Links
<1>3. Stored' = Stored /\ Published' = Published
  BY <1>1 DEF Stored, Published
<1>4. /\ \A q \in Stored : Complete(q, starts + 1)
      /\ \A s \in Published : StateOK(s, starts + 1)
  BY <1>1, StartsMore
<1>5. OnWorkers(saved') /\ DOMAIN snap'.marker_received = DOMAIN snap'.worker_state
      /\ \A s \in Published : \A q \in Stored : Backs(s, Left(q), q.primes)
  BY <1>1 DEF Books
<1>6. Books'  BY <1>1, <1>3, <1>4, <1>5 DEF Books
<1> QED  BY <1>2, <1>6

\* The markers go to workers whose handlers serve them.
LEMMA SnapshotPrimes ==
  ASSUME OneSlot, Accounted, Links, Books, StartSnapshot
  PROVE  Links' /\ Books'
<1> DEFINE sends(c) == workers[c[1]] = c[2] /\ conn[c].open
           marker == [type |-> "marker", sid |-> snap.id + 1]
           msgs(c) == Append(conn[c].down, marker)
           r(c) == IF sends(c) THEN WithDown(conn[c], msgs(c)) ELSE conn[c]
<1>1. /\ phase = "up"
      /\ UNCHANGED <<phase, starts, primes, tasks, in_progress, workers,
                     finished, total, saving, latest, worker, kills>>
      /\ conn' = [c \in Conn |-> r(c)]
      /\ input' = input
      /\ \E active : snap' = start(active)
  BY DEF StartSnapshot, WithDown, job
<1>2. ASSUME NEW c \in Conn
      PROVE  /\ conn'[c].open = conn[c].open /\ conn'[c].handler = conn[c].handler
             /\ conn'[c].up = conn[c].up /\ Queues(conn'[c])
             /\ \/ conn'[c].down = conn[c].down
                \/ Served(c) /\ conn'[c].down = Append(conn[c].down, marker)
  <2>1. Wired(conn[c]) /\ Queues(conn[c])  BY DEF Accounted, Wires, Links
  <2>2. conn'[c] = r(c)  BY <1>1
  <2>3. CASE sends(c)
    <3>1. Served(c)  BY <1>1, <2>3 DEF Links
    <3>2. conn'[c] = WithDown(conn[c], msgs(c))  BY <2>2, <2>3
    <3>3. conn'[c] = Wire(conn[c].open, conn[c].handler, conn[c].up, msgs(c))
      BY <2>1, <3>2, WireIs
    <3>4. IsSeq(msgs(c))  BY <2>1, SeqAppend DEF Queues
    <3> HIDE DEF msgs
    <3>5. /\ conn'[c].open = conn[c].open /\ conn'[c].handler = conn[c].handler
          /\ conn'[c].up = conn[c].up /\ conn'[c].down = msgs(c)
      BY <3>3, WireFields
    <3> QED  BY <2>1, <3>1, <3>4, <3>5 DEF Queues, msgs
  <2>4. CASE ~sends(c)  BY <2>1, <2>2, <2>4
  <2> QED  BY <2>3, <2>4
<1>3. /\ starts' = starts /\ primes' = primes /\ in_progress' = in_progress
      /\ workers' = workers /\ phase' = "up" /\ at' = at /\ slot' = slot
      /\ input' = input
      /\ task' = task /\ numid' = numid
  BY <1>1 DEF worker
<1>4. Links'
  <2>1. ASSUME NEW c \in Conn
        PROVE  /\ Queues(conn'[c])
               /\ Line(conn'[c], in_progress[c[1]], primes, starts)
               /\ workers[c[1]] = c[2] => conn'[c].handler = "serving"
    <3>1. /\ Line(conn[c], in_progress[c[1]], primes, starts)
          /\ workers[c[1]] = c[2] => conn[c].handler = "serving"
      BY <1>1 DEF Links, Served
    <3> QED  BY <1>2, <3>1 DEF Line
  <2>2. ASSUME NEW w \in Worker, Linked(w)
        PROVE  /\ Mine(w) \in Conn
               /\ conn'[Mine(w)].open /\ conn'[Mine(w)].handler # "none"
               /\ Attach(at[w], conn'[Mine(w)], task[w], in_progress[w], numid[w], primes)
    <3> DEFINE c == Mine(w)
    <3>1. /\ c \in Conn /\ conn[c].open /\ conn[c].handler # "none"
          /\ Attach(at[w], conn[c], task[w], in_progress[w], numid[w], primes)
      BY <1>1, <2>2 DEF Links
    <3> HIDE DEF c
    <3>2. /\ conn'[c].open = conn[c].open /\ conn'[c].handler = conn[c].handler
          /\ conn'[c].up = conn[c].up /\ Queues(conn[c])
          /\ \/ conn'[c].down = conn[c].down
             \/ Served(c) /\ conn'[c].down = Append(conn[c].down, marker)
      BY <1>2, <3>1 DEF Links
    <3>3. conn'[c].handler = "hello" => conn'[c].down = conn[c].down
      BY <3>2 DEF Served
    <3>4. conn[c].down # <<>> => conn'[c].down # <<>>
                                 /\ Head(conn'[c].down) = Head(conn[c].down)
      <4>1. /\ Append(conn[c].down, marker) # <<>>
            /\ Head(Append(conn[c].down, marker))
                 = IF conn[c].down = <<>> THEN marker ELSE Head(conn[c].down)
        BY <3>2, SeqAppend DEF Queues
      <4> HIDE DEF marker
      <4> QED  BY <3>2, <4>1
    <3>5. Attach(at[w], conn'[c], task[w], in_progress[w], numid[w], primes)
      BY <3>1, <3>2, <3>3, <3>4 DEF Attach
    <3> QED  BY <3>1, <3>2, <3>5 DEF c
  <2>3. /\ OnWorkers(at)' /\ OnWorkers(slot)' /\ OnWorkers(task)' /\ OnWorkers(numid)'
        /\ OnWorkers(workers)'
    BY <1>3 DEF Links, OnWorkers
  <2>4. \A w \in Worker : Linked(w)' <=> Linked(w)  BY <1>3 DEF Linked
  <2>5. \A w \in Worker : Mine(w)' = Mine(w)  BY <1>3 DEF Mine
  <2>6. \A c \in Conn : Queues(conn[c])' /\ (Served(c)' <=> conn'[c].handler = "serving")
    BY <2>1 DEF Queues, Served
  <2>7. \A c \in Conn : Line(conn'[c], in_progress'[c[1]], primes', starts')
    BY <1>3, <2>1
  <2>8. \A w \in Worker : Linked(w)' =>
          /\ Mine(w)' \in Conn /\ conn'[Mine(w)'].open
          /\ conn'[Mine(w)'].handler # "none"
          /\ Attach(at'[w], conn'[Mine(w)'], task'[w], in_progress'[w], numid'[w], primes')
    BY <1>3, <2>2, <2>4, <2>5
  <2>9. \A c \in Conn : workers'[c[1]] = c[2] => Served(c)'
    BY <1>3, <2>1, <2>6
  <2>10. phase' # "off"  BY <1>3
  <2> QED  BY <2>3, <2>6, <2>7, <2>8, <2>9, <2>10 DEF Links
<1>5. Books'
  <2>1. PICK active : snap' = start(active)  BY <1>1
  <2>2. /\ start(active).marker_received = [w \in active |-> FALSE]
        /\ start(active).worker_state = [w \in active |-> None]
    BY DEF start
  <2>3. /\ DOMAIN snap'.marker_received = DOMAIN snap'.worker_state
        /\ \A w \in DOMAIN snap'.marker_received : ~snap'.marker_received[w]
    BY <2>1, <2>2
  <2>4. Recorded'  BY <2>3 DEF Recorded
  <2>5. Stored' = Stored /\ Now' = Now /\ saving' = saving
    BY <1>1 DEF Stored, Now
  <2>6. Published' = Published /\ OnWorkers(saved')
    BY <1>1 DEF Published, worker, Books
  <2>7. \A s \in Published' : /\ StateOK(s, starts) /\ Backs(s, Now, primes)
                              /\ \A q \in Stored' : Backs(s, Left(q), q.primes)
    BY <1>1, <2>5, <2>6 DEF Books
  <2>8. /\ \A q \in Stored' : Complete(q, starts)
        /\ Sound(input, Now, primes) /\ Past(Now, starts)
        /\ saving' # None => saving'.data.primes \subseteq primes
    BY <1>1, <2>5 DEF Books
  <2> QED  BY <1>3, <2>3, <2>4, <2>5, <2>6, <2>7, <2>8 DEF Books
<1> QED  BY <1>4, <1>5

\* The coordinator is killed: what it served is closed.
LEMMA CrashPrimes ==
  ASSUME Accounted, Links, Books, Crash
  PROVE  Links' /\ Books'
<1> DEFINE r(c) == IF conn[c].handler = "none" THEN conn[c] ELSE Closed(c)
<1>1. /\ phase' = "off" /\ starts' = starts
      /\ workers' = [w \in Worker |-> None]
      /\ snap' = NoSnapshot /\ saving' = None
      /\ latest' \in {latest} \cup (IF saving = None THEN {} ELSE {saving.data})
      /\ at' = at /\ slot' = slot /\ task' = task /\ numid' = numid /\ saved' = saved
  BY DEF Crash, worker
<1>2. conn' = [c \in Conn |-> r(c)]  BY DEF Crash
<1>3. ASSUME NEW c \in Conn
      PROVE  /\ Queues(conn'[c]) /\ conn'[c].handler \in {"none", "ended"}
             /\ conn[c].open /\ conn[c].handler # "none" =>
                  conn'[c].open /\ conn'[c].handler # "none"
  <2>1. Wired(conn[c]) /\ Queues(conn[c])  BY DEF Accounted, Wires, Links
  <2>2. conn'[c] = r(c)  BY <1>2
  <2>3. CASE conn[c].handler = "none"  BY <2>1, <2>2, <2>3
  <2>4. CASE conn[c].handler # "none"
    <3>1. conn'[c] = Closed(c)  BY <2>2, <2>4
    <3>2. /\ Queues(Closed(c)) /\ Closed(c).handler \in {"none", "ended"}
          /\ conn[c].open => Closed(c).open /\ Closed(c).handler = "ended"
      BY <2>1, ClosedIs
    <3> QED  BY <3>1, <3>2
  <2> QED  BY <2>3, <2>4
<1>4. Links'
  <2>1. /\ OnWorkers(at)' /\ OnWorkers(slot)' /\ OnWorkers(task)' /\ OnWorkers(numid)'
        /\ OnWorkers(workers)' /\ \A w \in Worker : workers'[w] = None
    BY <1>1 DEF Links, OnWorkers
  <2>2. \A w \in Worker : Linked(w)' => Linked(w)  BY <1>1 DEF Linked
  <2>3. \A w \in Worker : Mine(w)' = Mine(w)  BY <1>1 DEF Mine
  <2>4. \A w \in Worker : Linked(w)' =>
          Mine(w)' \in Conn /\ conn'[Mine(w)'].open /\ conn'[Mine(w)'].handler # "none"
    BY <1>3, <2>2, <2>3 DEF Links
  <2>5. \A c \in Conn : Queues(conn[c])'  BY <1>3 DEF Queues
  <2> QED  BY <1>1, <1>3, <2>1, <2>4, <2>5 DEF Links
<1>5. Books'
  <2>1. /\ \A s \in Stored' : s \in Stored
        /\ latest' = latest \/ saving.data = latest'
        /\ latest' # None => latest' \in Stored
    BY <1>1 DEF Stored
  <2>2. /\ ~snap'.active /\ DOMAIN snap'.marker_received = DOMAIN snap'.worker_state
    BY <1>1 DEF NoSnapshot
  <2>3. ASSUME NEW s \in Published'
        PROVE  StateOK(s, starts) /\ \A q \in Stored' : Backs(s, Left(q), q.primes)
    <3>1. CASE s \in Published  BY <2>1, <3>1 DEF Books
    <3>2. CASE s \notin Published
      <4>1. PICK w \in DOMAIN latest'.worker_state :
              latest' # None /\ latest' # latest /\ s = latest'.worker_state[w]
        BY <1>1, <3>2 DEF Published
      <4>2. Complete(latest', starts)  BY <2>1, <4>1 DEF Books
      <4>3. Answered(s, latest'.primes, starts)  BY <4>1, <4>2 DEF Complete
      <4>4. \A q \in Stored' : q = latest'  BY <1>1 DEF Stored
      <4> QED  BY <4>3, <4>4 DEF Answered, Backs
    <3> QED  BY <3>1, <3>2
  <2>4. \A q \in Stored' : Complete(q, starts)  BY <2>1 DEF Books
  <2>5. OnWorkers(saved')  BY <1>1 DEF Books
  <2> QED  BY <1>1, <2>2, <2>3, <2>4, <2>5 DEF Books
<1> QED  BY <1>4, <1>5

\* The books of a coordinator that starts, with a snapshot or without one
LEMMA StartPrimes ==
  ASSUME Accounted, Links, Books, Start
  PROVE  Links' /\ Books'
<1>1. /\ starts \in Nat /\ starts < MaxStart /\ starts' = starts + 1
      /\ phase = "off" /\ phase' = "up" /\ Idle
      /\ UNCHANGED <<in_progress, workers, snap, saving, conn, latest, worker>>
      /\ Restore \/ StartFresh
  BY DEF Start, Accounted
<1>2. in_progress' = [w \in Worker |-> None] /\ saving' = None /\ ~snap'.active
  BY <1>1 DEF Idle
<1>3. Links'
  <2>1. at' = at /\ slot' = slot /\ task' = task /\ numid' = numid /\ conn' = conn
        /\ workers' = workers
    BY <1>1 DEF worker
  <2>2. \A c \in Conn : conn'[c].handler \in {"none", "ended"}
    BY <1>1, <2>1 DEF Links
  <2>3. \A c \in Conn : Line(conn'[c], in_progress'[c[1]], primes', starts')
    BY <2>2 DEF Line
  <2>4. \A c \in Conn : workers'[c[1]] # c[2]
    BY <1>1, <2>1, BoundsAssumption DEF Links, Conn
  <2>5. \A w \in Worker : Linked(w)' => Linked(w)  BY <2>1 DEF Linked
  <2>6. \A w \in Worker : Mine(w)' = Mine(w)  BY <2>1 DEF Mine
  <2>7. \A w \in Worker : Linked(w)' =>
          Mine(w)' \in Conn /\ conn'[Mine(w)'].open /\ conn'[Mine(w)'].handler # "none"
    BY <2>1, <2>5, <2>6 DEF Links
  <2>8. \A w \in Worker : Linked(w)' =>
          Attach(at'[w], conn'[Mine(w)'], task'[w], in_progress'[w], numid'[w], primes')
    BY <2>2, <2>7 DEF Attach
  <2>9. /\ OnWorkers(at)' /\ OnWorkers(slot)' /\ OnWorkers(task)' /\ OnWorkers(numid)'
        /\ OnWorkers(workers)'
    BY <2>1 DEF Links, OnWorkers
  <2>10. \A c \in Conn : Queues(conn[c])'  BY <2>1 DEF Links, Queues
  <2>11. phase' # "off"  BY <1>1
  <2> QED  BY <2>3, <2>4, <2>7, <2>8, <2>9, <2>10, <2>11 DEF Links
<1>4. Stored' = Stored /\ Published' = Published
  BY <1>1 DEF Stored, Published, worker
<1>5. \A u \in Task : u.run \in Nat  BY RunsAreNumbers
<1>6. \A q \in Stored : Complete(q, starts + 1)  BY StartsMore
<1>7. \A s \in Published : StateOK(s, starts) /\ StateOK(s, starts + 1)
  BY StartsMore
<1>8. /\ Sound(input', Now', primes') /\ Past(Now', starts + 1)
      /\ \A s \in Published : Backs(s, Now', primes')
  <2>1. CASE StartFresh
    <3> PICK of \in Input : tasks' = split_numbers(starts + 1, of) /\ input' = of
      BY <2>1 DEF StartFresh
    <3> DEFINE task_of(n) == [run |-> starts + 1, of |-> of, n |-> n]
    <3>1. Now' = {task_of(n) : n \in 1..NumTasks(of)}
      <4>1. starts + 1 \in 1..MaxStart  BY <1>1, BoundsAssumption
      <4>2. Unfinished(split_numbers(starts + 1, of), [w \in Worker |-> None])
              = {task_of(n) : n \in 1..NumTasks(of)}
        BY <4>1, FreshTasks
      <4> QED  BY <1>2, <4>2 DEF Now
    <3>2. \A u \in Now' : u.run = starts + 1  BY <3>1
    <3>3. Sound(input', Now', primes')
      <4>1. ASSUME NEW n \in 1..NumTasks(of)
            PROVE  \E u \in Now' : u.of = of /\ u.n = n
        <5>1. task_of(n) \in Now'  BY <3>1
        <5>2. task_of(n).of = of /\ task_of(n).n = n  OBVIOUS
        <5> QED  BY <5>1, <5>2
      <4> QED  BY <4>1 DEF Sound
    <3>4. ASSUME NEW s \in Published PROVE Backs(s, Now', primes')
      <4>1. s.task_id # None => s.task_id.run \in Nat /\ s.task_id.run <= starts
        BY <1>5, <1>7 DEF StateOK
      <4>2. s.task_id # None => s.task_id \notin Now'  BY <1>1, <3>2, <4>1
      <4> QED  BY <4>2 DEF Backs
    <3>5. Past(Now', starts + 1)  BY <1>1, <3>2 DEF Past
    <3> QED  BY <3>3, <3>4, <3>5
  <2>2. CASE Restore
    <3>1. PICK again \in Listings(Values(latest.in_progress)) :
            tasks' = again \o latest.tasks
      BY <2>2 DEF Restore
    <3>2. /\ latest # None /\ latest \in Stored /\ latest.primes \subseteq primes'
          /\ input' = latest.input
      BY <2>2 DEF Restore, Recovered, Stored
    <3>3. Sums(latest) /\ Complete(latest, starts + 1)  BY <1>6, <3>2 DEF Accounted
    <3>4. PICK g \in Nat : Accounts(latest.tasks, latest.in_progress, g, latest.total)
      BY <3>3 DEF Sums, Counts
    <3>5. Unfinished(again \o latest.tasks, [w \in Worker |-> None])
            = Unfinished(latest.tasks, latest.in_progress)
      BY <3>4, Requeueing
    <3>6. Now' = Left(latest)  BY <1>2, <3>1, <3>5 DEF Now, Left
    <3>7. \A s \in Published : Backs(s, Left(latest), latest.primes)
      BY <3>2 DEF Books
    <3>8. \A s \in Published : Backs(s, Now', primes')  BY <3>2, <3>6, <3>7 DEF Backs
    <3>9. Sound(latest.input, Left(latest), latest.primes) /\ Past(Left(latest), starts + 1)
      BY <3>3 DEF Complete
    <3> QED  BY <3>2, <3>6, <3>8, <3>9, SoundMore
  <2> QED  BY <1>1, <2>1, <2>2
<1>9. Books'
  <2>1. \A s \in Published : \A q \in Stored : Backs(s, Left(q), q.primes)
    BY DEF Books
  <2>2. OnWorkers(saved') /\ DOMAIN snap'.marker_received = DOMAIN snap'.worker_state
    BY <1>1 DEF Books, worker
  <2> QED  BY <1>1, <1>2, <1>4, <1>6, <1>7, <1>8, <2>1, <2>2 DEF Books
<1> QED  BY <1>3, <1>9

-----------------------------------------------------------------------------
(* All steps, and the theorems.                                            *)

LEMMA InitPrimes == Init => Links /\ Books
<1> SUFFICES ASSUME Init PROVE Links /\ Books  OBVIOUS
<1>1. \A c \in Conn : conn[c] = Unused  BY DEF Init
<1>2. /\ Unused.handler = "none" /\ Unused.up = <<>> /\ Unused.down = <<>>
  BY DEF Unused
<1>3. Links
  <2>1. \A c \in Conn : Queues(conn[c]) /\ conn[c].handler \in {"none", "ended"}
    BY <1>1, <1>2, SeqEmpty DEF Queues
  <2>2. \A w \in Worker : ~Linked(w)  BY DEF Init, Linked
  <2>3. /\ OnWorkers(at) /\ OnWorkers(slot) /\ OnWorkers(task) /\ OnWorkers(numid)
        /\ OnWorkers(workers) /\ phase = "off" /\ \A w \in Worker : workers[w] = None
    BY DEF Init, OnWorkers
  <2> QED  BY <2>1, <2>2, <2>3 DEF Links
<1>4. Books
  <2>1. \A w \in Worker : saved[w] = Fresh  BY DEF Init
  <2>2. Fresh.task_id = None /\ Fresh.numid = 0  BY DEF Fresh
  <2>3. \A s \in Published : s = Fresh  BY <2>1 DEF Init, Published
  <2>4. Stored = {}  BY DEF Init, Stored
  <2>5. OnWorkers(saved)  BY DEF Init, OnWorkers
  <2>6. DOMAIN snap.marker_received = DOMAIN snap.worker_state
    BY DEF Init, NoSnapshot
  <2>7. phase = "off"  BY DEF Init
  <2> QED  BY <2>2, <2>3, <2>4, <2>5, <2>6, <2>7 DEF Books, StateOK
<1> QED  BY <1>3, <1>4

LEMMA NextPrimes ==
  ASSUME OneSlot, Accounted, Links, Books, [Next]_vars
  PROVE  Links' /\ Books'
<1>1. CASE Start  BY <1>1, StartPrimes
<1>2. CASE Store  BY <1>2, StorePrimes
<1>3. CASE StartSnapshot  BY <1>3, SnapshotPrimes
<1>4. CASE EndLoop \/ SaveResults \/ Done  BY <1>4, EndPrimes
<1>5. CASE Crash  BY <1>5, CrashPrimes
<1>6. ASSUME NEW c \in Conn, Handle(c) PROVE Links' /\ Books'
  BY <1>6, HelloPrimes, ResultPrimes, MarkerPrimes, FinishPrimes, DisconnectPrimes
  DEF Handle
<1>7. ASSUME NEW w \in Worker, Work(w) \/ Kill(w) PROVE Links' /\ Books'
  BY <1>7, WorkLinks, WorkBooks
<1>8. CASE UNCHANGED vars
  <2>1. /\ UNCHANGED <<starts, primes, in_progress, workers, conn, worker>>
        /\ phase' = phase
    BY <1>8 DEF vars, coordinator
  <2>2. Links'  BY <2>1, SameLinks
  <2>3. /\ phase' = phase /\ starts' = starts /\ primes' = primes /\ tasks' = tasks
        /\ in_progress' = in_progress /\ snap' = snap /\ saving' = saving
        /\ latest' = latest /\ saved' = saved /\ input' = input
    BY <1>8 DEF vars, coordinator, job, worker
  <2>4. Stored' = Stored /\ Published' = Published /\ Now' = Now /\ OnWorkers(saved)'
    BY <2>3 DEF Stored, Published, Now, Books, OnWorkers
  <2>5. Recorded' <=> Recorded  BY <2>3 DEF Recorded
  <2>6. Books'  BY <2>3, <2>4, <2>5 DEF Books
  <2> QED  BY <2>2, <2>6
<1>9. CASE NothingRead  BY <1>9, NothingPrimes
<1> QED  BY <1>1, <1>2, <1>3, <1>4, <1>5, <1>6, <1>7, <1>8, <1>9 DEF Next

-----------------------------------------------------------------------------
(* The end of the job.                                                     *)

\* The numbers of a job are some that can be read, and once the main loop has
\* ended their primes are known.
Whole ==
  /\ phase # "off" => input \in Input
  /\ \A r \in Stored : r.input \in Input
  /\ stage # "working" => phase # "off" /\ PrimesOf(input) \subseteq primes
  /\ output # None => PrimesOf(output.of) \subseteq output.primes

\* Every task is finished: no chunk is left, and each prime is in a chunk.
LEMMA EndedWhole ==
  ASSUME Accounted, Books, Whole, EndLoop
  PROVE  PrimesOf(input) \subseteq primes
<1>1. phase = "up" /\ finished >= total  BY DEF EndLoop
<1>2. PICK g \in Nat : /\ finished \in Nat /\ finished <= g
                       /\ Accounts(tasks, in_progress, g, total)
  BY <1>1 DEF Accounted, Counts
<1>3. Now = {}
  <2>1. IsFiniteSet(Now) /\ g + Cardinality(Now) = total
    BY <1>2 DEF Accounts, Now
  <2>2. Cardinality(Now) \in Nat  BY <2>1, FS_CardinalityType
  <2>3. Cardinality(Now) = 0  BY <1>1, <1>2, <2>1, <2>2
  <2> QED  BY <2>1, <2>3, FS_EmptySet
<1> SUFFICES ASSUME NEW p \in PrimesOf(input) PROVE p \in primes  OBVIOUS
<1>4. input \in Input  BY <1>1 DEF Whole
<1>5. PICK n \in 1..NumTasks(input) :
        p \in PrimesUpTo(input, n, Len(Chunk(input, n)))
  BY <1>4, EveryPrime
<1>6. Sound(input, Now, primes)  BY <1>1 DEF Books
<1>7. PrimesUpTo(input, n, Len(Chunk(input, n))) \subseteq primes
  BY <1>3, <1>6 DEF Sound
<1> QED  BY <1>5, <1>7

\* A step that does not move run() on
LEMMA WholeStep ==
  ASSUME Whole, UNCHANGED job, phase' = phase \/ (phase = "up" /\ phase' = "done"),
         primes \subseteq primes',
         \A r \in Stored' : r \in Stored \/ (phase = "up" /\ r.input = input)
  PROVE  Whole'
<1>1. stage' = stage /\ input' = input /\ output' = output  BY DEF job
<1>2. \A r \in Stored' : r.input \in Input  BY DEF Whole
<1> QED  BY <1>1, <1>2 DEF Whole

LEMMA HandlersWhole ==
  ASSUME Whole, NEW c \in Conn, Handle(c)
  PROVE  Whole'
<1>1. phase' = phase /\ UNCHANGED job /\ primes \subseteq primes' /\ latest' = latest
  BY DEF Handle, HandleHello, HandleResult, HandleMarker, HandleFinish,
         HandleDisconnect
<1>2. \/ saving' = saving
      \/ phase = "up" /\ \E s : saving' = [conn |-> c, data |-> Contents(s)]
  BY DEF Handle, HandleHello, HandleResult, HandleMarker, HandleFinish,
         HandleDisconnect, Receives
<1>3. \A s : Contents(s).input = input  BY DEF Contents
<1>4. \A r \in Stored' : r \in Stored \/ (phase = "up" /\ r.input = input)
  <2>1. CASE saving' = saving  BY <1>1, <2>1 DEF Stored
  <2>2. CASE phase = "up" /\ \E s : saving' = [conn |-> c, data |-> Contents(s)]
    <3>1. PICK s : saving' = [conn |-> c, data |-> Contents(s)]  BY <2>2
    <3>2. saving'.data = Contents(s)  BY <3>1
    <3>3. \A r \in Stored' : r \in Stored \/ r = Contents(s)
      BY <1>1, <3>2 DEF Stored
    <3> QED  BY <1>3, <2>2, <3>3
  <2> QED  BY <1>2, <2>1, <2>2
<1> QED  BY <1>1, <1>4, WholeStep

LEMMA NextWhole ==
  ASSUME Accounted, Books, Whole, [Next]_vars
  PROVE  Whole'
<1>1. CASE Start
  <2>1. /\ phase = "off" /\ phase' = "up" /\ stage' = stage /\ output' = output
        /\ latest' = latest /\ saving' = saving /\ (Restore \/ StartFresh)
    BY <1>1 DEF Start
  <2>2. Stored' = Stored  BY <2>1 DEF Stored
  <2>3. input' \in Input
    <3>1. CASE StartFresh  BY <3>1 DEF StartFresh
    <3>2. CASE Restore
      <4>1. latest \in Stored /\ input' = latest.input  BY <3>2 DEF Restore, Stored
      <4> QED  BY <4>1 DEF Whole
    <3> QED  BY <2>1, <3>1, <3>2
  <2>4. stage = "working"  BY <2>1 DEF Whole
  <2> QED  BY <2>1, <2>2, <2>3, <2>4 DEF Whole
<1>2. CASE NothingRead \/ Store \/ StartSnapshot \/ Done
  <2>1. /\ UNCHANGED <<job, primes>>
        /\ phase' = phase \/ (phase = "up" /\ phase' = "done")
        /\ \/ latest' \in {latest, None} /\ saving' = saving
           \/ saving # None /\ saving' = None /\ latest' \in {latest, saving.data}
    BY <1>2 DEF NothingRead, Store, StartSnapshot, Done
  <2>2. \A r \in Stored' : r \in Stored  BY <2>1 DEF Stored
  <2> QED  BY <2>1, <2>2, WholeStep
<1>3. CASE EndLoop
  <2>1. PrimesOf(input) \subseteq primes  BY <1>3, EndedWhole
  <2>2. /\ phase = "up" /\ phase' = phase /\ input' = input /\ primes' = primes
        /\ output' = output /\ latest' = latest /\ saving' = saving
    BY <1>3 DEF EndLoop
  <2>3. Stored' = Stored  BY <2>2 DEF Stored
  <2> QED  BY <2>1, <2>2, <2>3 DEF Whole
<1>4. CASE SaveResults
  <2>1. /\ phase = "up" /\ phase' = phase /\ input' = input /\ primes' = primes
        /\ stage = "closed" /\ latest' = latest /\ saving' = saving
        /\ \/ output' = output
           \/ output' = [of |-> input, primes |-> primes]
           \/ output' = Empty
    BY <1>4 DEF SaveResults
  <2>2. PrimesOf(input) \subseteq primes  BY <2>1 DEF Whole
  <2>3. PrimesOf(Empty.of) \subseteq Empty.primes
    <3>1. Empty.of = <<>> /\ Len(<<>>) = 0  BY SeqEmpty DEF Empty
    <3> QED  BY <3>1 DEF PrimesOf
  <2>4. output' # None => PrimesOf(output'.of) \subseteq output'.primes
    BY <2>1, <2>2, <2>3 DEF Whole
  <2>5. Stored' = Stored  BY <2>1 DEF Stored
  <2> QED  BY <2>1, <2>2, <2>4, <2>5 DEF Whole
<1>5. CASE Crash
  <2>1. /\ phase' = "off" /\ stage' = "working" /\ output' = output /\ saving' = None
        /\ latest' \in {latest} \cup (IF saving = None THEN {} ELSE {saving.data})
    BY <1>5 DEF Crash
  <2>2. \A r \in Stored' : r \in Stored  BY <2>1 DEF Stored
  <2> QED  BY <2>1, <2>2 DEF Whole
<1>6. ASSUME NEW c \in Conn, Handle(c) PROVE Whole'  BY <1>6, HandlersWhole
<1>7. CASE (\E w \in Worker : Work(w) \/ Kill(w)) \/ UNCHANGED vars
  <2>1. UNCHANGED <<coordinator, latest>>
    BY <1>7 DEF vars, Work, Kill, LoadSnapshot, Connect, Refused, TakeTask,
                TakeShutdown, ReplyMarker, Process, Finish, LoseCoordinator
  <2>2. UNCHANGED <<phase, job, primes, saving, latest>>  BY <2>1 DEF coordinator
  <2>3. Stored' = Stored  BY <2>2 DEF Stored
  <2> QED  BY <2>2, <2>3, WholeStep
<1> QED  BY <1>1, <1>2, <1>3, <1>4, <1>5, <1>6, <1>7 DEF Next

LEMMA BooksKept ==
  ASSUME OneSlot
  PROVE  Spec => [](Books /\ Whole)
<1> DEFINE Inv == Accounted /\ Links /\ Books /\ Whole
<1>1. Init => Inv
  <2>1. Init => Whole  BY DEF Init, Whole, Stored
  <2> QED  BY <2>1, InitAccounted, InitPrimes
<1>2. Inv /\ [Next]_vars => Inv'
  <2> SUFFICES ASSUME Inv, [Next]_vars PROVE Inv'  OBVIOUS
  <2>1. Accounted'  BY NextKeeps
  <2>2. Links' /\ Books'  BY NextPrimes
  <2>3. Whole'  BY NextWhole
  <2> QED  BY <2>1, <2>2, <2>3
<1>3. Inv => Books /\ Whole  OBVIOUS
<1> HIDE DEF Inv
<1> QED  BY <1>1, <1>2, <1>3, PTL DEF Spec

\* A snapshot that may be restored loses no prime, over any number of crashes,
\* restores and late answers (save_snapshot, run of the coordinator, run of the
\* worker).
THEOREM SnapshotsResumable ==
  ASSUME OneSlot
  PROVE  Spec => []SnapshotResumable
<1>1. Books /\ Whole => SnapshotResumable
  <2> SUFFICES ASSUME Books, latest # None PROVE SnapshotResumable
    BY DEF SnapshotResumable
  <2>1. Complete(latest, starts) /\ latest.primes \subseteq Recovered(latest)
    BY DEF Books, Stored, Recovered
  <2>2. Sound(latest.input, Left(latest), Recovered(latest))  BY <2>1, SoundMore DEF Complete
  <2>3. ASSUME NEW w \in DOMAIN latest.worker_state
        PROVE  PrimesUpTo(latest.worker_state[w].task_id.of, latest.worker_state[w].task_id.n, latest.worker_state[w].numid)
                 \subseteq Recovered(latest)
    BY <2>1 DEF Complete, Answered
  <2> QED  BY <2>2, <2>3 DEF SnapshotResumable, Sound, Left
<1> QED  BY <1>1, BooksKept, PTL

\* When the main loop ends every prime of the numbers read is known, whatever
\* was killed, restored or done twice, and a file of results has all of them or
\* is empty (run, save_results_to_afs).  Of the files left out, and of a save
\* that fails, it says nothing: the job is done all the same.
THEOREM ResultKept ==
  ASSUME OneSlot
  PROVE  Spec => []ResultComplete
<1>1. Books /\ Whole => ResultComplete  BY DEF Whole, ResultComplete
<1> QED  BY <1>1, BooksKept, PTL
=============================================================================

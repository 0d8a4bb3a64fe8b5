---------------------------- MODULE ReplicaProofs ---------------------------
(***************************************************************************)
(* Theorems about a Replica that does not lead, for a log of any length and*)
(* any number of crashes: what it holds of a file that exists is what the  *)
(* log alone determines.                                                   *)
(***************************************************************************)
EXTENDS Replica, FileServerProofs, SequenceTheorems, WellFoundedInduction

-----------------------------------------------------------------------------
(* What the log determines.                                                *)

\* A non-empty set of naturals has a least element.
LEMMA Least ==
  ASSUME NEW S \in SUBSET Nat, S # {}
  PROVE  \E x \in S : \A y \in S : x <= y
<1>1. PICK x \in S : \A y \in S : <<y, x>> \notin OpToRel(<, Nat)
  BY NatLessThanWellFounded, WFMin
<1>2. \A y \in S : ~(y < x)  BY <1>1, Zenon DEF OpToRel
<1>3. \A y \in S : x <= y  BY <1>2
<1> QED  BY <1>3

\* Induction on the entries, with the set of those for which a fact is known.
LEMMA UpTo ==
  ASSUME NEW L \in Nat, NEW S, 0 \in S, \A n \in 0..L : n < L /\ n \in S => n + 1 \in S
  PROVE  \A n \in 0..L : n \in S
<1> DEFINE T == {n \in 0..L : n \notin S}
<1> SUFFICES ASSUME T # {} PROVE FALSE  OBVIOUS
<1>1. PICK x \in T : \A y \in T : x <= y
  <2>1. T \in SUBSET Nat  OBVIOUS
  <2> HIDE DEF T
  <2> QED  BY <2>1, Least
<1>2. x # 0 /\ x \in 0..L /\ x \notin S  OBVIOUS
<1>3. x - 1 \in 0..L /\ x - 1 < x /\ x - 1 < L  BY <1>2
<1>4. x - 1 \in S  BY <1>1, <1>3
<1>5. (x - 1) + 1 = x  BY <1>2
<1> QED  BY <1>2, <1>3, <1>4, <1>5

\* One more entry takes the file from what it was to what it is.
Next1(f, p, entries, n) ==
  IF n = 0 THEN Initially(p)
  ELSE IF entries[n].path = p THEN Effect(f[n - 1], entries[n])
  ELSE f[n - 1]

\* The function that the definition of FileHistory chooses is there.
LEMMA HistoryIs ==
  ASSUME NEW p, NEW entries, Len(entries) \in Nat
  PROVE  LET f == FileHistory(p, entries)
         IN  f = [n \in 0..Len(entries) |-> Next1(f, p, entries, n)]
<1> DEFINE L == Len(entries)
           IsOne(f, k) == f = [n \in 0..k |-> Next1(f, p, entries, n)]
           S == {k \in 0..L : \E f : IsOne(f, k)}
<1>1. 0 \in S
  <2>1. IsOne([n \in 0..0 |-> Initially(p)], 0)  BY DEF Next1
  <2>2. 0 \in 0..L  OBVIOUS
  <2> QED  BY <2>1, <2>2
<1>2. ASSUME NEW k \in 0..L, k < L, k \in S PROVE k + 1 \in S
  <2>1. PICK f : IsOne(f, k)  BY <1>2
  <2> DEFINE g == [n \in 0..k + 1 |-> IF n = k + 1 THEN Next1(f, p, entries, n) ELSE f[n]]
  <2>2. ASSUME NEW n \in 0..k + 1 PROVE g[n] = Next1(g, p, entries, n)
    <3>1. CASE n = k + 1
      <4>1. g[n] = Next1(f, p, entries, n) /\ n # 0 /\ n - 1 = k  BY <3>1
      <4>2. g[k] = f[k]  OBVIOUS
      <4> QED  BY <4>1, <4>2 DEF Next1
    <3>2. CASE n # k + 1
      <4>1. n \in 0..k /\ g[n] = f[n]  BY <3>2
      <4>2. f[n] = Next1(f, p, entries, n)  BY <2>1, <4>1
      <4>3. n # 0 => g[n - 1] = f[n - 1]  BY <4>1
      <4> QED  BY <4>1, <4>2, <4>3 DEF Next1
    <3> QED  BY <3>1, <3>2
  <2>3. IsOne(g, k + 1)
    <3>1. g = [n \in 0..k + 1 |-> g[n]]  OBVIOUS
    <3> HIDE DEF g
    <3> QED  BY <2>2, <3>1
  <2>4. k + 1 \in 0..L  BY <1>2
  <2> QED  BY <2>3, <2>4
<1>3. L \in S
  <2> HIDE DEF S
  <2>1. L \in 0..L  OBVIOUS
  <2> QED  BY <1>1, <1>2, <2>1, UpTo
<1>4. \E f : IsOne(f, L)  BY <1>3
<1>5. FileHistory(p, entries) = CHOOSE f : IsOne(f, L)  BY DEF FileHistory, Next1
<1> QED  BY <1>4, <1>5

\* Entry n is a PutFile for p.
IsPut(n, p) == log[n].op = "PutFile" /\ log[n].path = p

LogOK == log \in [1..MaxLog -> Command] /\ Plausible(log)

LEMMA LogLength ==
  ASSUME LogOK
  PROVE  Len(log) = MaxLog /\ DOMAIN log = 1..MaxLog /\ MaxLog \in Nat
<1>1. MaxLog \in Nat  BY ReplicaAssumption
<1>2. log \in Seq(Command)  BY <1>1, SeqDef DEF LogOK
<1>3. Len(log) \in Nat /\ DOMAIN log = 1..Len(log)  BY <1>2, LenProperties
<1>4. DOMAIN log = 1..MaxLog  BY DEF LogOK
<1>5. Len(log) <= MaxLog
  <2>1. Len(log) > 0 => Len(log) \in 1..Len(log)  BY <1>3
  <2> QED  BY <1>1, <1>3, <1>4, <2>1
<1>6. MaxLog <= Len(log)
  <2>1. MaxLog > 0 => MaxLog \in 1..MaxLog  BY <1>1
  <2> QED  BY <1>1, <1>3, <1>4, <2>1
<1>7. Len(log) = MaxLog
  <2>1. Len(log) \in Nat  BY <1>3
  <2> QED  BY <1>1, <1>5, <1>6, <2>1
<1> QED  BY <1>1, <1>4, <1>7

LEMMA EntryType ==
  ASSUME LogOK, NEW n \in 1..MaxLog
  PROVE  /\ log[n] \in Request /\ log[n].op \in {"Create", "PutFile"} /\ log[n].op_id = None
         /\ log[n].path \in Path /\ log[n].data \in Content /\ log[n].version \in Nat
<1>1. log[n] \in Command  BY DEF LogOK
<1> QED  BY <1>1, RequestType DEF Command

\* The equations of FileAfter
LEMMA AfterIs ==
  ASSUME LogOK, NEW p
  PROVE  /\ FileAfter(p, 0) = Initially(p)
         /\ \A n \in 1..MaxLog :
              FileAfter(p, n) = IF log[n].path = p THEN Effect(FileAfter(p, n - 1), log[n])
                                ELSE FileAfter(p, n - 1)
<1> DEFINE f == FileHistory(p, log)
<1>1. Len(log) = MaxLog /\ MaxLog \in Nat  BY LogLength
<1>2. f = [n \in 0..MaxLog |-> Next1(f, p, log, n)]  BY <1>1, HistoryIs
<1>3. \A n : FileAfter(p, n) = f[n]  BY DEF FileAfter
<1> HIDE DEF f
<1>4. f[0] = Initially(p)  BY <1>1, <1>2 DEF Next1
<1>5. ASSUME NEW n \in 1..MaxLog
      PROVE  f[n] = IF log[n].path = p THEN Effect(f[n - 1], log[n]) ELSE f[n - 1]
  <2>1. n \in 0..MaxLog /\ n # 0  BY <1>1
  <2>2. f[n] = Next1(f, p, log, n)  BY <1>2, <2>1
  <2> QED  BY <2>1, <2>2 DEF Next1
<1> QED  BY <1>3, <1>4, <1>5

\* What an entry makes of a file that is there
LEMMA EffectIs ==
  ASSUME NEW e \in Version, NEW r \in Command
  PROVE  /\ Effect(e, r) \in Version
         /\ VersionIn(e) = e.version /\ e.version \in Nat
         /\ r.op = "PutFile" /\ r.version = e.version
              => Effect(e, r) = [version |-> e.version + 1, data |-> r.data]
         /\ ~(r.op = "PutFile" /\ r.version = e.version) => Effect(e, r) = e
<1>1. e # None /\ e.version \in Nat  BY NoneAssumption DEF Version
<1>2. VersionIn(e) = e.version  BY <1>1 DEF VersionIn
<1>3. r.data \in Content /\ r.op \in {"Create", "PutFile"}  BY RequestType DEF Command
<1>4. CASE r.op = "PutFile" /\ r.version = e.version
  <2>1. Effect(e, r) = [version |-> e.version + 1, data |-> r.data]
    BY <1>1, <1>2, <1>4 DEF Effect
  <2> QED  BY <1>1, <1>2, <1>3, <1>4, <2>1 DEF Version
<1>5. CASE ~(r.op = "PutFile" /\ r.version = e.version)
  <2>1. Effect(e, r) = e  BY <1>1, <1>2, <1>5 DEF Effect
  <2> QED  BY <1>1, <1>2, <1>5, <2>1
<1> QED  BY <1>4, <1>5

LEMMA AfterType ==
  ASSUME LogOK, NEW p \in Existing
  PROVE  \A n \in 0..MaxLog : FileAfter(p, n) \in Version /\ FileAfter(p, n).version \in Nat
<1> DEFINE S == {n \in 0..MaxLog : FileAfter(p, n) \in Version}
<1>1. MaxLog \in Nat  BY LogLength
<1>2. 0 \in S
  <2>1. Initially(p) \in Version  BY DEF Initially, Version, Content
  <2> QED  BY <1>1, <2>1, AfterIs
<1>3. ASSUME NEW n \in 0..MaxLog, n < MaxLog, n \in S PROVE n + 1 \in S
  <2>1. n + 1 \in 1..MaxLog /\ n + 1 - 1 = n /\ n + 1 \in 0..MaxLog  BY <1>1, <1>3
  <2>2. FileAfter(p, n) \in Version  BY <1>3
  <2>3. log[n + 1] \in Command  BY <2>1 DEF LogOK
  <2>4. Effect(FileAfter(p, n), log[n + 1]) \in Version  BY <2>2, <2>3, EffectIs
  <2>5. FileAfter(p, n + 1) = IF log[n + 1].path = p THEN Effect(FileAfter(p, n), log[n + 1])
                              ELSE FileAfter(p, n)
    BY <2>1, AfterIs
  <2>6. FileAfter(p, n + 1) \in Version  BY <2>2, <2>4, <2>5
  <2> QED  BY <2>1, <2>6
<1>4. \A n \in 0..MaxLog : n \in S
  <2> HIDE DEF S
  <2> QED  BY <1>1, <1>2, <1>3, UpTo
<1>5. \A e \in Version : e.version \in Nat  BY DEF Version
<1> QED  BY <1>4, <1>5

\* An entry makes a new version if it is a write based on the last one, and
\* otherwise leaves the file alone; no write is based on a later version.
LEMMA AfterNext ==
  ASSUME LogOK, NEW p \in Existing, NEW n \in 1..MaxLog
  PROVE  /\ n \in 0..MaxLog /\ n - 1 \in 0..MaxLog
         /\ FileAfter(p, n) \in Version /\ FileAfter(p, n - 1) \in Version
         /\ FileAfter(p, n).version \in Nat /\ FileAfter(p, n - 1).version \in Nat
         /\ ~IsPut(n, p) => FileAfter(p, n) = FileAfter(p, n - 1)
         /\ IsPut(n, p) => /\ log[n].version <= FileAfter(p, n - 1).version
                           /\ log[n].version < FileAfter(p, n).version
         /\ IsPut(n, p) /\ log[n].version = FileAfter(p, n - 1).version =>
              /\ FileAfter(p, n) = [version |-> log[n].version + 1, data |-> log[n].data]
              /\ FileAfter(p, n).version = FileAfter(p, n - 1).version + 1
         /\ IsPut(n, p) /\ log[n].version # FileAfter(p, n - 1).version =>
              FileAfter(p, n) = FileAfter(p, n - 1)
<1>1. n \in 0..MaxLog /\ n - 1 \in 0..MaxLog  BY LogLength
<1> DEFINE e == FileAfter(p, n - 1)
<1>2. e \in Version /\ FileAfter(p, n) \in Version /\ e.version \in Nat
      /\ FileAfter(p, n).version \in Nat
  BY <1>1, AfterType
<1>3. log[n] \in Command /\ log[n].version \in Nat  BY EntryType DEF LogOK
<1>4. FileAfter(p, n) = IF log[n].path = p THEN Effect(e, log[n]) ELSE e  BY AfterIs
<1>5. IsPut(n, p) => log[n].version <= e.version
  <2>1. VersionIn(e) = e.version  BY <1>2, <1>3, EffectIs
  <2> SUFFICES ASSUME IsPut(n, p) PROVE log[n].version <= VersionIn(e)  BY <2>1
  <2>2. log[n].version <= VersionIn(FileHistory(log[n].path, log)[n - 1])
    BY LogLength DEF LogOK, Plausible, IsPut
  <2> QED  BY <2>2 DEF IsPut, FileAfter
<1> HIDE DEF e
<1>6. /\ log[n].op = "PutFile" /\ log[n].version = e.version
           => Effect(e, log[n]) = [version |-> e.version + 1, data |-> log[n].data]
      /\ ~(log[n].op = "PutFile" /\ log[n].version = e.version) => Effect(e, log[n]) = e
  BY <1>2, <1>3, EffectIs
<1>7. ~IsPut(n, p) => FileAfter(p, n) = e  BY <1>4, <1>6 DEF IsPut
<1>8. IsPut(n, p) /\ log[n].version = e.version =>
        /\ FileAfter(p, n) = [version |-> log[n].version + 1, data |-> log[n].data]
        /\ FileAfter(p, n).version = e.version + 1
  BY <1>4, <1>6 DEF IsPut
<1>9. IsPut(n, p) /\ log[n].version # e.version => FileAfter(p, n) = e
  BY <1>4, <1>6 DEF IsPut
<1>10. IsPut(n, p) => log[n].version < FileAfter(p, n).version
  BY <1>2, <1>3, <1>5, <1>8, <1>9
<1> QED  BY <1>1, <1>2, <1>5, <1>7, <1>8, <1>9, <1>10 DEF e

\* Versions never go back, and a version has one content.
LEMMA AfterGrows ==
  ASSUME LogOK, NEW p \in Existing, NEW a \in 0..MaxLog, NEW b \in 0..MaxLog, a <= b
  PROVE  /\ FileAfter(p, a).version <= FileAfter(p, b).version
         /\ FileAfter(p, a).version = FileAfter(p, b).version => FileAfter(p, a) = FileAfter(p, b)
         /\ (\A k \in a + 1..b : ~IsPut(k, p)) => FileAfter(p, a) = FileAfter(p, b)
<1> DEFINE F(n) == FileAfter(p, n)
           Good(n) == /\ F(a).version <= F(n).version
                      /\ F(a).version = F(n).version => F(a) = F(n)
                      /\ (\A k \in a + 1..n : ~IsPut(k, p)) => F(a) = F(n)
           S == {n \in 0..MaxLog : n < a \/ Good(n)}
<1>1. MaxLog \in Nat  BY LogLength
<1>2. \A n \in 0..MaxLog : F(n).version \in Nat  BY AfterType
<1>3. 0 \in S
  <2>1. a = 0 => Good(0)  BY <1>2
  <2> QED  BY <1>1, <2>1
<1>4. ASSUME NEW n \in 0..MaxLog, n < MaxLog, n \in S PROVE n + 1 \in S
  <2>1. n + 1 \in 1..MaxLog /\ n + 1 - 1 = n /\ n + 1 \in 0..MaxLog  BY <1>1, <1>4
  <2>2. CASE n + 1 <= a
    <3>1. n + 1 = a => Good(n + 1)  BY <1>2
    <3> HIDE DEF Good
    <3> QED  BY <2>1, <2>2, <3>1
  <2>3. CASE n + 1 > a
    <3>1. Good(n)  BY <1>4, <2>3
    <3>2. /\ ~IsPut(n + 1, p) => F(n + 1) = F(n)
          /\ F(n + 1) = F(n) \/ F(n + 1).version = F(n).version + 1
      BY <2>1, AfterNext
    <3>3. (\A k \in a + 1..n + 1 : ~IsPut(k, p)) => ~IsPut(n + 1, p) /\ \A k \in a + 1..n : ~IsPut(k, p)
      BY <2>3
    <3>4. F(n).version \in Nat /\ F(n + 1).version \in Nat /\ F(a).version \in Nat
      BY <1>2, <2>1
    <3> HIDE DEF F
    <3>5. Good(n + 1)  BY <3>1, <3>2, <3>3, <3>4
    <3> HIDE DEF Good
    <3> QED  BY <2>1, <3>5
  <2> QED  BY <2>2, <2>3
<1>5. b \in S
  <2> HIDE DEF S
  <2> QED  BY <1>1, <1>3, <1>4, UpTo
<1> QED  BY <1>5

LEMMA AfterSame ==
  ASSUME LogOK, NEW p \in Existing, NEW a \in 0..MaxLog, NEW b \in 0..MaxLog,
         FileAfter(p, a).version = FileAfter(p, b).version
  PROVE  FileAfter(p, a) = FileAfter(p, b)
BY AfterGrows, LogLength

-----------------------------------------------------------------------------
(* The inductive invariant.                                                *)

Place(n) == call[task(n)].pc
Begun(n) == Place(n) \notin {"none", "start"}

\* What was handed over, and that this is what is executed
Handed ==
  /\ LogOK /\ handed \in 0..MaxLog /\ replay \in 0..MaxLog
  /\ \A n \in 1..MaxLog : Place(n) # "none" <=> n <= handed
  /\ \A h \in Call : call[h].pc # "none" => h[2] <= handed /\ call[h].req = log[h[2]]

\* Nobody has a deadline, and a file that exists is changed by PutFile only.
Placed(h) ==
  /\ h[1] = "handler" => call[h].pc = "none"
  /\ call[h].pc \in {"none", "start", "look", "done"} \cup Holding
  /\ call[h].pc = "look" => call[h].req.op = "Create"
  /\ ~Cancelled(h)
  /\ LET p == call[h].req.path
     IN  call[h].pc \in Holding /\ p \in Existing /\ Kept(p) => call[h].req.op = "PutFile"

\* Writes to a file begin in the order of the log.
Ordered(p) ==
  \A j, k \in 1..MaxLog : j < k /\ IsPut(j, p) /\ IsPut(k, p) /\ Begun(k) => Begun(j)

\* Where a handler is when its entry is in memory
OnSave == {"save", "fill", "replace"}
Past(n) == Place(n) \in OnSave \cup {"done"}

Top == IF handed > replay THEN handed ELSE replay

\* The metadata are what one of the entries has left, and of those that are
\* through none is missing.
MetaIs(p) == \E n \in 0..Top : meta[p] = FileAfter(p, n)
Applied(p) ==
  \A n \in 0..handed :
    (\A k \in 1..n : IsPut(k, p) => Past(k)) => FileAfter(p, n).version <= meta[p].version

\* The task that has got past the version check makes of the file what its
\* entry makes of it; until it has done so the later writes wait.
Writing(n, p) ==
  /\ lock[p] = task(n)
  /\ FileAfter(p, n) = [version |-> call[task(n)].version, data |-> call[task(n)].data]
  /\ FileAfter(p, n).version = FileAfter(p, n - 1).version + 1
  /\ Place(n) \in {"truncate", "write", "written"} =>
       /\ meta[p] = FileAfter(p, n - 1)
       /\ \A k \in n + 1..MaxLog : IsPut(k, p) => ~Begun(k)
  /\ Place(n) \in OnSave => meta[p] = FileAfter(p, n)
  /\ Place(n) = "written" => disk[p] = call[task(n)].data

\* The file is what its metadata say, except while it is written and, after a
\* crash, as long as the replay has not come to where it was.
Matching(p) ==
  /\ disk[p] \in Content
  /\ \/ \E n \in 1..MaxLog : IsPut(n, p) /\ Place(n) \in {"write", "written"}
     \/ disk[p] = meta[p].data
     \/ meta[p].version < FileAfter(p, replay).version

\* If all entries are for p, its metadata are saved or on their way, and nobody
\* writes in .meta.json itself.
OnItsWay(p) ==
  /\ meta_file \in Meta /\ tmp.moved = {}
  /\ (\A n \in 1..MaxLog : Place(n) # "fill") => tmp.open = {}
  /\ \A n \in 1..MaxLog :
       /\ Place(n) \in {"save", "fill"} => call[task(n)].text[p] = meta[p]
       /\ Place(n) = "fill" => tmp.text = Empty /\ tmp.open = {task(n)}
       /\ Place(n) = "replace" => tmp.text \in Meta /\ tmp.text[p] = meta[p]
       /\ Place(n) \in OnSave => meta_file[p] = FileAfter(p, n - 1)
  /\ (\A n \in 1..MaxLog : Place(n) \notin OnSave) => meta_file[p] = meta[p]

FileInv(p) ==
  /\ MetaIs(p) /\ Ordered(p) /\ Applied(p) /\ Matching(p)
  /\ \A n \in 1..MaxLog : IsPut(n, p) /\ Place(n) \in Holding => Writing(n, p)
  /\ OnlyFor(p) => OnItsWay(p)

ReplicaInv ==
  /\ Typing /\ Handed
  /\ \A h \in Call : Placed(h)
  /\ \A p \in Existing : Kept(p) => FileInv(p)

-----------------------------------------------------------------------------
(* Facts that the steps share                                              *)

LEMMA Tasks ==
  ASSUME NEW n \in 1..MaxLog
  PROVE  /\ task(n) \in Call /\ task(n)[1] = "task" /\ task(n)[2] = n
         /\ \A k : task(k) = task(n) => k = n
BY ReplicaAssumption DEF task, Executions

LEMMA CallIs ==
  ASSUME NEW h \in Call
  PROVE  /\ h[2] \in 1..MaxLog
         /\ h[1] = "handler" \/ (h = task(h[2]) /\ h[1] = "task")
BY ReplicaAssumption DEF task, Executions

\* The log stays, and so does all that it determines.
LEMMA LogStays ==
  ASSUME log' = log
  PROVE  /\ \A p, n : FileAfter(p, n)' = FileAfter(p, n)
         /\ \A p, n : IsPut(n, p)' <=> IsPut(n, p)
         /\ \A p : OnlyFor(p)' <=> OnlyFor(p)
         /\ LogOK' <=> LogOK
BY DEF FileAfter, IsPut, LogOK, OnlyFor

LEMMA KeptStays ==
  ASSUME UNCHANGED <<log, restarts>>
  PROVE  \A p : Kept(p)' <=> Kept(p)
BY DEF Kept, OnlyFor

LEMMA TopIs ==
  ASSUME Handed
  PROVE  Top \in 0..MaxLog /\ Top \in Nat /\ handed <= Top /\ replay <= Top
BY LogLength DEF Handed, Top

\* Metadata in memory have versions, those of the entries so far.
LEMMA MemoryIs ==
  ASSUME ReplicaInv, NEW p \in Existing, Kept(p)
  PROVE  /\ p \in Path /\ meta[p] \in Version /\ meta[p].version \in Nat /\ meta[p] # None
         /\ \E m \in 0..Top : m \in 0..MaxLog /\ meta[p] = FileAfter(p, m)
         /\ meta[p].version <= FileAfter(p, Top).version
         /\ Top \in 0..MaxLog /\ FileAfter(p, Top).version \in Nat
<1>1. LogOK /\ Top \in 0..MaxLog /\ Top \in Nat  BY TopIs DEF ReplicaInv, Handed
<1>2. PICK m \in 0..Top : meta[p] = FileAfter(p, m)  BY DEF ReplicaInv, FileInv, MetaIs
<1>3. m \in 0..MaxLog /\ m <= Top  BY <1>1, <1>2, LogLength
<1>4. meta[p] \in Version /\ meta[p].version \in Nat /\ FileAfter(p, Top).version \in Nat
  BY <1>1, <1>2, <1>3, AfterType
<1>5. meta[p] # None  BY <1>4, NoneAssumption
<1>6. meta[p].version <= FileAfter(p, Top).version  BY <1>1, <1>2, <1>3, AfterGrows
<1>7. p \in Path  BY FileAssumption
<1> QED  BY <1>1, <1>2, <1>3, <1>4, <1>5, <1>6, <1>7

\* h goes on in a way that concerns no file.
Idle(h) ==
  /\ call[h].pc \notin Holding /\ call'[h].pc \notin Holding
  /\ h[1] = "task" /\ log[h[2]].op = "PutFile" => call[h].pc = "none" /\ call'[h].pc = "start"

\* At most one call moves, idly, and perhaps it is handed over in this step.
IdleStep ==
  /\ UNCHANGED <<meta, disk, meta_file, tmp, lock, log, replay, restarts>>
  /\ \A h \in Call : call'[h] = call[h] \/ Idle(h)
  /\ \/ handed' = handed
     \/ /\ handed' = handed + 1 /\ handed < MaxLog
        /\ call'[task(handed + 1)].pc = "start"

LEMMA IdleKeeps ==
  ASSUME ReplicaInv, IdleStep, NEW p \in Existing, Kept(p)
  PROVE  FileInv(p)'
<1>1. /\ UNCHANGED <<meta, disk, meta_file, tmp, lock, log, replay>>
      /\ \A h \in Call : call'[h] = call[h] \/ Idle(h)
      /\ \/ handed' = handed
         \/ /\ handed' = handed + 1 /\ handed + 1 \in 1..MaxLog
            /\ call'[task(handed + 1)].pc = "start"
      /\ handed \in 0..MaxLog /\ replay \in 0..MaxLog /\ LogOK /\ MaxLog \in Nat
      /\ \A n \in 1..MaxLog : Place(n) # "none" <=> n <= handed
      /\ FileInv(p)
  BY ReplicaAssumption DEF IdleStep, ReplicaInv, Handed
<1>2. /\ \A q, n : FileAfter(q, n)' = FileAfter(q, n)
      /\ \A q, n : IsPut(n, q)' <=> IsPut(n, q)
      /\ OnlyFor(p)' <=> OnlyFor(p)
  BY <1>1, LogStays
<1>3. ASSUME NEW n \in 1..MaxLog
      PROVE  /\ Place(n) \in Holding \/ Place(n)' \in Holding => call'[task(n)] = call[task(n)]
             /\ IsPut(n, p) => \/ call'[task(n)] = call[task(n)]
                               \/ Place(n) = "none" /\ Place(n)' = "start"
  BY <1>1, Tasks DEF Idle, Place, IsPut
<1>4. ASSUME NEW n \in 1..MaxLog, IsPut(n, p)
      PROVE  (Begun(n)' <=> Begun(n)) /\ (Past(n)' <=> Past(n))
  BY <1>3, <1>4 DEF Begun, Past, Place, OnSave
<1>5. Ordered(p)'
  BY <1>1, <1>2, <1>4 DEF Ordered, FileInv
<1>6. MetaIs(p)'
  <2>1. \A n \in 0..Top : n \in 0..Top'  BY <1>1 DEF Top
  <2> QED  BY <1>1, <1>2, <2>1 DEF FileInv, MetaIs
<1>7. Applied(p)'
  <2> SUFFICES ASSUME NEW n \in 0..handed', \A k \in 1..n : IsPut(k, p) => Past(k)'
               PROVE  FileAfter(p, n).version <= meta[p].version
    BY <1>1, <1>2 DEF Applied
  <2>1. \A k \in 1..n : k \in 1..MaxLog  BY <1>1
  <2>2. CASE n <= handed
    <3>1. n \in 0..handed /\ \A k \in 1..n : IsPut(k, p) => Past(k)  BY <1>1, <1>4, <2>1, <2>2
    <3> QED  BY <1>1, <3>1 DEF Applied, FileInv
  <2>3. CASE n > handed
    <3>1. n = handed + 1 /\ n \in 1..MaxLog /\ Place(n)' = "start"
      BY <1>1, <2>3 DEF Place
    <3>2. ~IsPut(n, p)  BY <3>1 DEF Past, OnSave
    <3>3. FileAfter(p, n) = FileAfter(p, n - 1) /\ n - 1 = handed  BY <1>1, <3>1, <3>2, AfterNext
    <3>4. handed \in 0..handed /\ \A k \in 1..handed : IsPut(k, p) => Past(k)
      BY <1>1, <1>4, <2>1, <3>1
    <3> QED  BY <1>1, <3>3, <3>4 DEF Applied, FileInv
  <2> QED  BY <1>1, <2>2, <2>3
<1>8. Matching(p)'
  <2>1. \A n \in 1..MaxLog : Place(n) \in {"write", "written"} => Place(n)' = Place(n)
    BY <1>3 DEF Place, Holding
  <2> QED  BY <1>1, <1>2, <2>1 DEF FileInv, Matching
<1>9. ASSUME NEW n \in 1..MaxLog, IsPut(n, p)', Place(n)' \in Holding PROVE Writing(n, p)'
  <2>1. call'[task(n)] = call[task(n)] /\ Place(n) \in Holding /\ IsPut(n, p)
    BY <1>2, <1>3, <1>9 DEF Place
  <2>2. Writing(n, p)  BY <1>1, <2>1 DEF FileInv
  <2>3. \A k \in n + 1..MaxLog : IsPut(k, p) => (Begun(k)' <=> Begun(k))
    BY <1>1, <1>4
  <2> QED  BY <1>1, <1>2, <2>1, <2>2, <2>3 DEF Writing, Place
<1>10. OnlyFor(p)' => OnItsWay(p)'
  <2> SUFFICES ASSUME OnlyFor(p) PROVE OnItsWay(p)'  BY <1>2
  <2>1. OnItsWay(p)  BY <1>1 DEF FileInv
  <2>2. ASSUME NEW n \in 1..MaxLog
        PROVE  /\ Place(n)' \in OnSave <=> Place(n) \in OnSave
               /\ Place(n) \in OnSave => call'[task(n)] = call[task(n)] /\ Place(n)' = Place(n)
    BY <1>3 DEF Holding, OnSave, Place
  <2>3. \A n \in 1..MaxLog : Place(n)' = "fill" <=> Place(n) = "fill"
    BY <2>2 DEF OnSave
  <2>4. \A n \in 1..MaxLog : Place(n)' \in {"save", "fill", "replace"} => Place(n) = Place(n)'
    BY <2>2 DEF OnSave
  <2> QED  BY <1>1, <1>2, <2>1, <2>2, <2>3, <2>4 DEF OnItsWay, OnSave
<1> QED  BY <1>5, <1>6, <1>7, <1>8, <1>9, <1>10 DEF FileInv

\* What is known of an execution that has begun to move
LEMMA CallFacts ==
  ASSUME ReplicaInv, NEW h \in Call, call[h].pc # "none"
  PROVE  /\ h[2] \in 1..MaxLog /\ h[2] <= handed /\ h = task(h[2]) /\ h[1] = "task"
         /\ call[h].req = log[h[2]] /\ call[h].req \in Request /\ call[h].req.path \in Path
         /\ call[h].req.op \in {"Create", "PutFile"} /\ call[h].req.op_id = None
         /\ Fits(call[h], disk) /\ Placed(h) /\ ~Cancelled(h)
<1>1. Placed(h) /\ h[1] # "handler"  BY DEF ReplicaInv, Placed
<1> QED  BY <1>1, CallIs, EntryType DEF ReplicaInv, Handed, Typing, Placed

\* While nobody has the lock of p, its writes that have begun are through.
LEMMA LockFreeDone ==
  ASSUME ReplicaInv, NEW p \in Existing, Kept(p), lock[p] = None,
         NEW k \in 1..MaxLog, IsPut(k, p), Begun(k)
  PROVE  Place(k) = "done" /\ Past(k)
<1>1. task(k) \in Call /\ task(k)[2] = k  BY Tasks
<1>2. Place(k) \notin {"none", "start"}  BY DEF Begun, Place
<1>3. call[task(k)].req = log[k] /\ Placed(task(k))
  BY <1>1, <1>2 DEF ReplicaInv, Handed, Place
<1>4. Place(k) \in Holding => lock[p] = task(k)  BY DEF ReplicaInv, FileInv, Writing
<1>5. task(k) # None  BY <1>1, FileAssumption
<1>6. Place(k) = "done"  BY <1>2, <1>3, <1>4, <1>5 DEF Placed, Place, IsPut
<1> QED  BY <1>6 DEF Past

-----------------------------------------------------------------------------
(* Handing over an entry                                                   *)

LEMMA StartedIs ==
  ASSUME NEW r \in Request
  PROVE  Is(Started(r), "start", r, 0, Empty, None, "none")
<1>1. Is(NotReceived, "none", None, 0, Empty, None, "none")
  BY DEF Is, CallState, NotReceived, Content
<1> QED  BY <1>1 DEF Is, Started, CallState

LEMMA StartedTyped ==
  ASSUME Typing, NEW h \in Call, NEW r \in Request, Moves(h, Started(r)),
         UNCHANGED <<meta, disk, meta_file, tmp, lock, op_log, restarts>>
  PROVE  Typing' /\ call'[h].pc = "start" /\ call'[h].req = r /\ call'[h].code = "none"
<1>1. Is(Started(r), "start", r, 0, Empty, None, "none")  BY StartedIs
<1>2. Started(r) \in CallState  BY <1>1 DEF Is
<1>3. Fits(Started(r), disk)  BY <1>1 DEF Is, Fits, Threads, Content
<1>4. Typing'  BY <1>2, <1>3, TypingCall DEF Typing, TypeOK
<1>5. call'[h] = Started(r)  BY Moved
<1> QED  BY <1>1, <1>4, <1>5 DEF Is

\* The invariant after a step that concerns no file
LEMMA IdleInv ==
  ASSUME ReplicaInv, IdleStep, Typing', Handed', \A h \in Call : Placed(h)'
  PROVE  ReplicaInv'
<1>1. \A p : Kept(p)' <=> Kept(p)  BY KeptStays DEF IdleStep
<1> QED  BY <1>1, IdleKeeps DEF ReplicaInv

LEMMA HandOverKeeps ==
  ASSUME ReplicaInv, HandOver
  PROVE  ReplicaInv'
<1> DEFINE n == handed + 1
<1>1. /\ LogOK /\ handed \in 0..MaxLog /\ replay \in 0..MaxLog /\ MaxLog \in Nat
      /\ Len(log) = MaxLog
      /\ \A k \in 1..MaxLog : Place(k) # "none" <=> k <= handed
      /\ \A h \in Call : call[h].pc # "none" => h[2] <= handed /\ call[h].req = log[h[2]]
      /\ \A h \in Call : Placed(h)
  BY LogLength DEF ReplicaInv, Handed
<1>2. /\ n \in 1..MaxLog /\ handed' = n /\ Moves(task(n), Started(log[n]))
      /\ UNCHANGED <<meta, disk, meta_file, tmp, lock, op_log, restarts, log, replay>>
  BY <1>1 DEF HandOver, Moves
<1> HIDE DEF n
<1>3. task(n) \in Call /\ task(n)[2] = n /\ task(n)[1] = "task" /\ log[n] \in Request
  BY <1>1, <1>2, Tasks, EntryType
<1>4. /\ Typing' /\ call'[task(n)].pc = "start" /\ call'[task(n)].req = log[n]
      /\ call'[task(n)].code = "none"
      /\ \A g \in Call \ {task(n)} : call'[g] = call[g]
  BY <1>2, <1>3, StartedTyped, Moved DEF ReplicaInv
<1>5. call[task(n)].pc = "none"  BY <1>1, <1>2 DEF Place, n
<1>6. IdleStep
  <2>1. Idle(task(n))  BY <1>4, <1>5 DEF Idle, Holding
  <2>2. handed' = handed + 1 /\ handed < MaxLog /\ call'[task(handed + 1)].pc = "start"
    BY <1>1, <1>2, <1>4 DEF n
  <2> QED  BY <1>2, <1>4, <2>1, <2>2 DEF IdleStep
<1>7. Handed'
  <2>1. LogOK'  BY <1>1, <1>2, LogStays
  <2>2. handed' \in 0..MaxLog /\ handed <= n  BY <1>1, <1>2 DEF n
  <2>3. ASSUME NEW k \in 1..MaxLog PROVE Place(k)' # "none" <=> k <= n
    <3>1. CASE k = n  BY <1>2, <1>4, <3>1 DEF Place
    <3>2. CASE k # n
      <4>1. Place(k)' = Place(k)  BY <1>4, <3>2, Tasks DEF Place
      <4> QED  BY <1>1, <3>2, <4>1 DEF n
    <3> QED  BY <3>1, <3>2
  <2>4. ASSUME NEW h \in Call, call'[h].pc # "none"
        PROVE  h[2] <= n /\ call'[h].req = log[h[2]]
    <3>1. CASE h = task(n)  BY <1>2, <1>3, <1>4, <3>1
    <3>2. CASE h # task(n)
      <4>1. call'[h] = call[h] /\ h[2] \in 1..MaxLog  BY <1>4, <3>2, CallIs
      <4> QED  BY <1>1, <1>2, <2>2, <2>4, <4>1
    <3> QED  BY <3>1, <3>2
  <2> QED  BY <1>1, <1>2, <2>1, <2>2, <2>3, <2>4 DEF Handed
<1>8. ASSUME NEW h \in Call PROVE Placed(h)'
  <2>1. \A p : Kept(p)' <=> Kept(p)  BY <1>2, KeptStays
  <2>2. CASE h = task(n)  BY <1>3, <1>4, <2>2 DEF Placed, Holding, Cancelled
  <2>3. CASE h # task(n)
    <3>1. call'[h] = call[h] /\ Placed(h)  BY <1>1, <1>4, <2>3
    <3> QED  BY <2>1, <3>1 DEF Placed, Cancelled
  <2> QED  BY <2>2, <2>3
<1> QED  BY <1>4, <1>6, <1>7, <1>8, IdleInv

-----------------------------------------------------------------------------
(* The steps of a task                                                     *)

\* h goes on where it may.
GoesOn(h) ==
  /\ UNCHANGED <<log, handed, replay, restarts>>
  /\ \A g \in Call \ {h} : call'[g] = call[g]
  /\ call[h].pc \notin {"none", "done"}
  /\ call'[h].req = call[h].req /\ call'[h].pc \in {"look", "done"} \cup Holding
  /\ call'[h].pc = "look" => call[h].req.op = "Create"
  /\ call'[h].code # "timeout"

\* The task n goes on, and changes nothing of other files.
TaskStep(n) ==
  /\ GoesOn(task(n)) /\ n <= handed
  /\ \A q \in Path \ {log[n].path} :
       /\ meta'[q] = meta[q] /\ disk'[q] = disk[q]
       /\ \A k \in (1..MaxLog) \ {n} : lock[q] = task(k) => lock'[q] = task(k)

\* A task that begins to write while it has not yet done so
Enters(h) ==
  /\ call[h].pc \notin Holding /\ call'[h].pc \in Holding /\ call[h].req.op = "Create"
  => MetaOf(h) = None \/ disk[call[h].req.path] = None

\* What the steps up to the first change of a file do
LEMMA BeginIs ==
  ASSUME ReplicaInv, NEW h \in Call, StartCreate(h) \/ StartPutFile(h) \/ Look(h)
  PROVE  /\ Typing' /\ call[h].pc \in {"start", "look"} /\ call'[h].req = call[h].req
         /\ call'[h].pc \in {"look", "done"} \cup Holding
         /\ call'[h].pc = "look" => call[h].req.op = "Create"
         /\ call'[h].code # "timeout" /\ Enters(h) /\ restarts' = restarts
<1>1. Typing /\ ~Cancelled(h)  BY DEF ReplicaInv, Placed
<1>2. CASE StartCreate(h)
  <2>1. /\ Typing' /\ GoesTo(h, {"look", "write"}) /\ call[h].req.op = "Create"
        /\ call'[h].pc = "write" => MetaOf(h) = None
    BY <1>1, <1>2, StartCreateTyped
  <2>2. PICK pc \in {"look", "write"} :
          Moves(h, [Goes(h, pc) EXCEPT !.version = 1, !.data = Empty])
    BY <1>2 DEF StartCreate
  <2>3. call'[h] = [Goes(h, pc) EXCEPT !.version = 1, !.data = Empty]  BY <1>1, <2>2, Moved
  <2>4. Goes(h, pc) \in CallState /\ Goes(h, pc).code = call[h].code
    BY <1>1, GoesIs DEF Is, Pc
  <2>5. call'[h].code = call[h].code  BY <2>3, <2>4 DEF CallState
  <2>6. call[h].pc = "start" /\ restarts' = restarts  BY <1>2 DEF StartCreate, Begins
  <2> QED  BY <1>1, <2>1, <2>5, <2>6 DEF GoesTo, Holding, Cancelled, Enters
<1>3. CASE StartPutFile(h)
  <2>1. restarts' = restarts  BY <1>3 DEF StartPutFile
  <2> QED  BY <1>1, <1>3, <2>1, StartPutFileTyped DEF Is, Holding, Enters
<1>4. CASE Look(h)
  <2>1. /\ Typing' /\ restarts' = restarts /\ call[h].pc = "look"
    BY <1>1, <1>4, LookTyped DEF Look
  <2>2. call[h].req.op = "Create"  BY <2>1 DEF ReplicaInv, Placed
  <2>3. PICK r : /\ Moves(h, r)
                 /\ \/ r.pc = "done" /\ r.req = call[h].req /\ r.code = "error"
                    \/ /\ r.pc = "write" /\ r.req = call[h].req /\ r.code = "none"
                       /\ disk[call[h].req.path] = None
    BY <1>1, <1>4, <2>2, LookIs DEF Is
  <2>4. call'[h] = r  BY <1>1, <2>3, Moved
  <2> QED  BY <2>1, <2>2, <2>3, <2>4 DEF Holding, Enters
<1> QED  BY <1>2, <1>3, <1>4

\* What the steps after it do
LEMMA GoIs ==
  ASSUME ReplicaInv, NEW h \in Call,
         Truncate(h) \/ Write(h) \/ Written(h) \/ Save(h) \/ Fill(h) \/ Replace(h)
  PROVE  /\ Typing' /\ call[h].pc \in Holding /\ call'[h].req = call[h].req
         /\ call'[h].pc \in {"done"} \cup Holding
         /\ call'[h].code # "timeout" /\ restarts' = restarts
<1>1. Typing /\ ~Cancelled(h)  BY DEF ReplicaInv, Placed
<1>2. CASE Truncate(h)
  BY <1>1, <1>2, TruncateTyped DEF Truncate, Is, Holding, Cancelled
<1>3. CASE Write(h)  BY <1>1, <1>3, WriteTyped DEF Write, Is, Holding, Cancelled
<1>4. CASE Written(h)  BY <1>1, <1>4, WrittenTyped DEF Written, Is, Holding, Cancelled
<1>5. CASE Save(h)  BY <1>1, <1>5, SaveTyped DEF Save, Is, Holding, Cancelled
<1>6. CASE Fill(h)  BY <1>1, <1>6, FillTyped DEF Fill, Is, Holding, Cancelled
<1>7. CASE Replace(h)
  <2>1. /\ Typing' /\ call[h].pc = "replace" /\ call'[h].req = call[h].req
        /\ call'[h].pc \in {"record", "done"} /\ restarts' = restarts
    BY <1>1, <1>7, ReplaceTyped DEF Replace
  <2>2. call[h].req.op_id = None  BY <2>1, CallFacts
  <2>3. Fits(call'[h], disk')  BY <2>1 DEF Typing
  <2>4. call'[h].pc = "done"  BY <2>1, <2>2, <2>3 DEF Fits
  <2>5. Moves(h, Fails(h)) \/ Moves(h, Saved(h))  BY <1>1, <1>7 DEF Replace
  <2>6. call'[h] = Fails(h) \/ call'[h] = Saved(h)  BY <1>1, <2>5, Moved
  <2>7. Fails(h).code = "error"  BY <1>1, FailsIs DEF Is
  <2>8. Saved(h).code = "ok"  BY <1>1, <2>1, SavedIs DEF Is
  <2> QED  BY <2>1, <2>4, <2>6, <2>7, <2>8 DEF Holding
<1> QED  BY <1>2, <1>3, <1>4, <1>5, <1>6, <1>7

LEMMA StepIs ==
  ASSUME ReplicaInv, NEW h \in Call, Step(h)
  PROVE  /\ h[2] \in 1..MaxLog /\ h = task(h[2]) /\ Typing' /\ GoesOn(h) /\ TaskStep(h[2])
         /\ Enters(h)
<1> DEFINE n == h[2]
<1>1. Typing /\ ~Cancelled(h)  BY DEF ReplicaInv, Placed
<1>2. call[h].pc # "none"
  BY DEF Step, StartCreate, StartPutFile, Begins, Look, Truncate, Write, Written, Save,
         Fill, Replace, Deadline, Threads
<1>3. /\ n \in 1..MaxLog /\ n <= handed /\ h = task(n) /\ h[1] = "task"
      /\ call[h].req = log[n] /\ log[n].path \in Path
  BY <1>2, CallFacts
<1>4. /\ UNCHANGED <<log, handed, replay>>
      /\ \/ StartCreate(h) \/ StartPutFile(h) \/ Look(h)
         \/ Truncate(h) \/ Write(h) \/ Written(h) \/ Save(h) \/ Fill(h) \/ Replace(h)
  BY <1>3 DEF Step
<1> HIDE DEF n
<1>5. /\ Typing' /\ call[h].pc \in {"start", "look"} \cup Holding /\ call'[h].req = call[h].req
      /\ call'[h].pc \in {"look", "done"} \cup Holding
      /\ call'[h].pc = "look" => call[h].req.op = "Create"
      /\ call'[h].code # "timeout" /\ Enters(h) /\ restarts' = restarts
  <2>1. CASE StartCreate(h) \/ StartPutFile(h) \/ Look(h)  BY <2>1, BeginIs
  <2>2. CASE Truncate(h) \/ Write(h) \/ Written(h) \/ Save(h) \/ Fill(h) \/ Replace(h)
    BY <2>2, GoIs DEF Enters, Holding
  <2> QED  BY <1>4, <2>1, <2>2
<1>6. \E r : Moves(h, r)
  BY <1>4 DEF StartCreate, StartPutFile, Look, Truncate, Write, Written, Save, Fill, Replace
<1>7. \A g \in Call \ {h} : call'[g] = call[g]  BY <1>1, <1>6, Moved
<1>8. GoesOn(h)  BY <1>4, <1>5, <1>7 DEF GoesOn, Holding
<1>9. DOMAIN meta = Path /\ DOMAIN disk = Path /\ DOMAIN lock = Path
  BY <1>1 DEF Typing, TypeOK, Meta
<1>10. ASSUME NEW q \in Path \ {log[n].path}
       PROVE  /\ meta'[q] = meta[q] /\ disk'[q] = disk[q]
              /\ \A k \in (1..MaxLog) \ {n} : lock[q] = task(k) => lock'[q] = task(k)
  <2>1. q \in Path /\ q # call[h].req.path  BY <1>3
  <2>2. meta'[q] = meta[q]
    BY <1>4, <1>9, <2>1 DEF StartCreate, StartPutFile, Look, Truncate, Write, Written, Save,
                            Fill, Replace
  <2>3. disk'[q] = disk[q]
    BY <1>4, <1>9, <2>1 DEF StartCreate, StartPutFile, Look, Truncate, Write, Written, Save,
                            Fill, Replace
  <2>4. \/ lock' = lock \/ lock' = Unlocked(h)
        \/ lock' = [lock EXCEPT ![call[h].req.path] = h]
    BY <1>4 DEF StartCreate, StartPutFile, Look, Truncate, Write, Written, Save, Fill, Replace
  <2>5. \A k \in (1..MaxLog) \ {n} : task(k) # h  BY <1>3, Tasks
  <2>6. \A k \in (1..MaxLog) \ {n} : lock[q] = task(k) => lock'[q] = task(k)
    <3>1. CASE lock' = Unlocked(h)  BY <1>9, <2>1, <2>5, <3>1 DEF Unlocked
    <3>2. CASE lock' # Unlocked(h)  BY <1>9, <2>1, <2>4, <3>2
    <3> QED  BY <3>1, <3>2
  <2> QED  BY <2>2, <2>3, <2>6
<1>11. TaskStep(n)  BY <1>3, <1>8, <1>10 DEF TaskStep
<1> QED  BY <1>3, <1>5, <1>8, <1>11 DEF n

\* Only PutFile changes a file that exists.
LEMMA KeptNotCreated ==
  ASSUME ReplicaInv, NEW h \in Call, call[h].pc # "none", Enters(h),
         call[h].req.path \in Existing, Kept(call[h].req.path)
  PROVE  call'[h].pc \in Holding => call[h].req.op = "PutFile"
<1> DEFINE p == call[h].req.path
<1>1. meta[p] # None  BY MemoryIs
<1>2. disk[p] # None
  <2>1. disk[p] \in Content  BY DEF ReplicaInv, FileInv, Matching
  <2> QED  BY <2>1, NoneAssumption
<1>3. Placed(h) /\ call[h].req.op \in {"Create", "PutFile"}  BY CallFacts
<1> QED  BY <1>1, <1>2, <1>3 DEF Enters, MetaOf, Placed

LEMMA GoesOnKeeps ==
  ASSUME ReplicaInv, NEW h \in Call, GoesOn(h), Enters(h)
  PROVE  Handed' /\ \A g \in Call : Placed(g)'
<1>1. /\ UNCHANGED <<log, handed, replay, restarts>> /\ Handed
      /\ \A g \in Call : Placed(g)
      /\ \A g \in Call \ {h} : call'[g] = call[g]
      /\ call[h].pc # "none" /\ call'[h].pc \notin {"none", "start"}
      /\ call'[h].req = call[h].req
  BY DEF ReplicaInv, GoesOn, Holding
<1>2. \A g \in Call : (call'[g].pc = "none" <=> call[g].pc = "none") /\ call'[g].req = call[g].req
  BY <1>1
<1>3. Handed'
  <2>1. LogOK'  BY <1>1, LogStays DEF Handed
  <2> QED  BY <1>1, <1>2, <2>1, Tasks DEF Handed, Place
<1>4. \A p : Kept(p)' <=> Kept(p)  BY <1>1, KeptStays
<1>5. ASSUME NEW g \in Call PROVE Placed(g)'
  <2>1. CASE g = h
    <3>1. h[1] # "handler"  BY <1>1 DEF Placed
    <3>2. /\ call'[h].pc \in {"look", "done"} \cup Holding /\ call'[h].code # "timeout"
          /\ call'[h].pc = "look" => call[h].req.op = "Create"
      BY DEF GoesOn
    <3>3. LET p == call[h].req.path
          IN  call'[h].pc \in Holding /\ p \in Existing /\ Kept(p) => call[h].req.op = "PutFile"
      BY <1>1, KeptNotCreated
    <3> QED  BY <1>1, <1>4, <2>1, <3>1, <3>2, <3>3 DEF Placed, Cancelled
  <2>2. CASE g # h
    <3>1. call'[g] = call[g] /\ Placed(g)  BY <1>1, <2>2
    <3> QED  BY <1>4, <3>1 DEF Placed, Cancelled
  <2> QED  BY <2>1, <2>2
<1> QED  BY <1>3, <1>5

LEMMA OtherTasks ==
  ASSUME NEW n \in 1..MaxLog, GoesOn(task(n))
  PROVE  \A k \in 1..MaxLog : k # n => call'[task(k)] = call[task(k)] /\ Place(k)' = Place(k)
<1>1. ASSUME NEW k \in 1..MaxLog, k # n PROVE task(k) \in Call \ {task(n)}
  BY <1>1, Tasks
<1> QED  BY <1>1 DEF GoesOn, Place

LEMMA OtherPath ==
  ASSUME ReplicaInv, NEW n \in 1..MaxLog, TaskStep(n), NEW q \in Existing, Kept(q),
         q # log[n].path
  PROVE  FileInv(q)'
<1>1. /\ UNCHANGED <<log, handed, replay>> /\ n <= handed /\ handed \in 0..MaxLog
      /\ meta'[q] = meta[q] /\ disk'[q] = disk[q] /\ MaxLog \in Nat /\ FileInv(q) /\ LogOK
      /\ \A k \in (1..MaxLog) \ {n} : lock[q] = task(k) => lock'[q] = task(k)
  BY ReplicaAssumption, FileAssumption DEF TaskStep, GoesOn, ReplicaInv, Handed
<1>2. /\ \A p, k : FileAfter(p, k)' = FileAfter(p, k)
      /\ \A p, k : IsPut(k, p)' <=> IsPut(k, p)
      /\ \A p : OnlyFor(p)' <=> OnlyFor(p)
  BY <1>1, LogStays
<1>3. ASSUME NEW k \in 1..MaxLog, IsPut(k, q)
      PROVE  /\ call'[task(k)] = call[task(k)] /\ Place(k)' = Place(k)
             /\ Begun(k)' <=> Begun(k)
             /\ Past(k)' <=> Past(k)
  <2>1. k # n  BY <1>3 DEF IsPut
  <2> QED  BY <2>1, OtherTasks DEF TaskStep, Begun, Past
<1>4. Ordered(q)'  BY <1>1, <1>2, <1>3 DEF FileInv, Ordered
<1>5. MetaIs(q)'  BY <1>1, <1>2 DEF FileInv, MetaIs, Top
<1>6. Applied(q)'
  <2> SUFFICES ASSUME NEW m \in 0..handed, \A k \in 1..m : IsPut(k, q) => Past(k)'
               PROVE  FileAfter(q, m).version <= meta[q].version
    BY <1>1, <1>2 DEF Applied
  <2>1. \A k \in 1..m : k \in 1..MaxLog  BY <1>1
  <2>2. \A k \in 1..m : IsPut(k, q) => Past(k)  BY <1>3, <2>1
  <2> QED  BY <1>1, <2>2 DEF FileInv, Applied
<1>7. Matching(q)'  BY <1>1, <1>2, <1>3 DEF FileInv, Matching
<1>8. ASSUME NEW k \in 1..MaxLog, IsPut(k, q)', Place(k)' \in Holding PROVE Writing(k, q)'
  <2>1. /\ IsPut(k, q) /\ Writing(k, q) /\ k # n
        /\ call'[task(k)] = call[task(k)] /\ Place(k)' = Place(k)
    BY <1>1, <1>2, <1>3, <1>8 DEF FileInv, IsPut
  <2>2. \A j \in k + 1..MaxLog : j \in 1..MaxLog  BY <1>1
  <2> QED  BY <1>1, <1>2, <1>3, <2>1, <2>2 DEF Writing
<1>9. ~OnlyFor(q)'
  <2>1. n \in DOMAIN log  BY <1>1, LogLength
  <2> QED  BY <1>2, <2>1 DEF OnlyFor
<1> QED  BY <1>4, <1>5, <1>6, <1>7, <1>8, <1>9 DEF FileInv

\* What has to be shown of the file that the task n is about
LEMMA OwnPath ==
  ASSUME ReplicaInv, NEW n \in 1..MaxLog, NEW p \in Existing, Kept(p), IsPut(n, p), TaskStep(n),
         lock[p] \in {None, task(n)},
         \A j \in 1..MaxLog : j < n /\ IsPut(j, p) => Begun(j),
         MetaIs(p)', Applied(p)', Matching(p)', Place(n)' \in Holding => Writing(n, p)',
         OnlyFor(p) => OnItsWay(p)'
  PROVE  FileInv(p)'
<1>1. /\ UNCHANGED <<log, handed, replay>> /\ FileInv(p)
      /\ call'[task(n)].pc \notin {"none", "start"}
  BY DEF TaskStep, GoesOn, ReplicaInv, Holding
<1>2. /\ \A q, k : IsPut(k, q)' <=> IsPut(k, q)
      /\ OnlyFor(p)' <=> OnlyFor(p)
  BY <1>1, LogStays
<1>3. \A k \in 1..MaxLog : k # n => call'[task(k)] = call[task(k)] /\ Place(k)' = Place(k)
  BY OtherTasks DEF TaskStep
<1>4. Ordered(p)'
  <2> SUFFICES ASSUME NEW j \in 1..MaxLog, NEW k \in 1..MaxLog, j < k,
                      IsPut(j, p), IsPut(k, p), Begun(k)'
               PROVE  Begun(j)'
    BY <1>2 DEF Ordered
  <2>1. Begun(n)'  BY <1>1 DEF Begun, Place
  <2>2. k # n => (Begun(k) <=> Begun(k)')  BY <1>3 DEF Begun
  <2>3. Begun(j)  BY <1>1, <2>2 DEF FileInv, Ordered
  <2>4. j # n => (Begun(j) <=> Begun(j)')  BY <1>3 DEF Begun
  <2> QED  BY <2>1, <2>3, <2>4
<1>5. ASSUME NEW k \in 1..MaxLog, IsPut(k, p)', Place(k)' \in Holding PROVE Writing(k, p)'
  <2>1. CASE k = n  BY <1>5, <2>1
  <2>2. CASE k # n
    <3>1. IsPut(k, p) /\ Place(k) \in Holding  BY <1>2, <1>3, <1>5, <2>2
    <3>2. lock[p] = task(k)  BY <1>1, <3>1 DEF FileInv, Writing
    <3>3. task(k) # task(n) /\ task(k) # None  BY <2>2, Tasks, FileAssumption
    <3> QED  BY <3>2, <3>3
  <2> QED  BY <2>1, <2>2
<1> QED  BY <1>2, <1>4, <1>5 DEF FileInv

\* The parts of it that most steps do not touch
LEMMA MetaStays ==
  ASSUME ReplicaInv, NEW n \in 1..MaxLog, NEW p \in Existing, Kept(p), GoesOn(task(n)),
         meta'[p] = meta[p]
  PROVE  MetaIs(p)'
<1>1. UNCHANGED <<log, handed, replay>> /\ MetaIs(p)  BY DEF GoesOn, ReplicaInv, FileInv
<1> QED  BY <1>1, LogStays DEF MetaIs, Top

LEMMA AppliedStays ==
  ASSUME ReplicaInv, NEW n \in 1..MaxLog, NEW p \in Existing, Kept(p), GoesOn(task(n)),
         meta'[p] = meta[p], Past(n)' => Past(n)
  PROVE  Applied(p)'
<1>1. /\ UNCHANGED <<log, handed>> /\ handed \in 0..MaxLog /\ MaxLog \in Nat /\ Applied(p)
  BY ReplicaAssumption DEF GoesOn, ReplicaInv, FileInv, Handed
<1>2. /\ \A q, k : FileAfter(q, k)' = FileAfter(q, k)
      /\ \A q, k : IsPut(k, q)' <=> IsPut(k, q)
  BY <1>1, LogStays
<1>3. \A k \in 1..MaxLog : Past(k)' => Past(k)
  BY OtherTasks DEF Past
<1> SUFFICES ASSUME NEW m \in 0..handed, \A k \in 1..m : IsPut(k, p) => Past(k)'
             PROVE  FileAfter(p, m).version <= meta[p].version
  BY <1>1, <1>2 DEF Applied
<1>4. \A k \in 1..m : k \in 1..MaxLog  BY <1>1
<1>5. \A k \in 1..m : IsPut(k, p) => Past(k)  BY <1>3, <1>4
<1> QED  BY <1>1, <1>5 DEF Applied

LEMMA MatchingStays ==
  ASSUME ReplicaInv, NEW n \in 1..MaxLog, NEW p \in Existing, Kept(p), GoesOn(task(n)),
         meta'[p] = meta[p], disk'[p] = disk[p], Place(n) \notin {"write", "written"}
  PROVE  Matching(p)'
<1>1. /\ UNCHANGED <<log, handed, replay>> /\ Matching(p)
  BY DEF GoesOn, ReplicaInv, FileInv
<1>2. /\ \A q, k : FileAfter(q, k)' = FileAfter(q, k)
      /\ \A q, k : IsPut(k, q)' <=> IsPut(k, q)
  BY <1>1, LogStays
<1>3. \A k \in 1..MaxLog : Place(k) \in {"write", "written"} => Place(k)' = Place(k)
  BY OtherTasks
<1> QED  BY <1>1, <1>2, <1>3 DEF Matching

LEMMA OnItsWayStays ==
  ASSUME ReplicaInv, NEW n \in 1..MaxLog, NEW p \in Existing, Kept(p), GoesOn(task(n)),
         UNCHANGED <<meta, meta_file, tmp>>, Place(n) \notin OnSave, Place(n)' \notin OnSave
  PROVE  OnlyFor(p) => OnItsWay(p)'
<1> SUFFICES ASSUME OnlyFor(p) PROVE OnItsWay(p)'  OBVIOUS
<1>1. UNCHANGED <<log, handed>> /\ OnItsWay(p)  BY DEF GoesOn, ReplicaInv, FileInv
<1>2. \A q, k : FileAfter(q, k)' = FileAfter(q, k)  BY <1>1, LogStays
<1>3. \A k \in 1..MaxLog : k # n => call'[task(k)] = call[task(k)] /\ Place(k)' = Place(k)
  BY OtherTasks
<1>4. \A k \in 1..MaxLog : (Place(k)' \in OnSave \/ Place(k) \in OnSave) => k # n  OBVIOUS
<1> QED  BY <1>1, <1>2, <1>3, <1>4 DEF OnItsWay, OnSave

-----------------------------------------------------------------------------
(* The steps of a task with its own file, one that exists                  *)

\* Create finds it there.
LEMMA CreateKeeps ==
  ASSUME ReplicaInv, NEW h \in Call, NEW p \in Existing, Kept(p), p = call[h].req.path,
         Step(h), call[h].req.op = "Create"
  PROVE  FileInv(p)'
<1>1. /\ h = task(h[2]) /\ Typing' /\ GoesOn(h) /\ Enters(h)
  BY StepIs
<1>2. call[h].pc # "none" /\ UNCHANGED <<log, handed, replay, restarts>>
      /\ \A g \in Call \ {h} : call'[g] = call[g]
  BY <1>1 DEF GoesOn
<1>3. call'[h].pc \notin Holding  BY <1>1, <1>2, KeptNotCreated
<1>4. Placed(h) /\ call[h].req = log[h[2]] /\ h[1] # "handler"
  BY <1>2, CallFacts DEF Placed
<1>5. call[h].pc \notin Holding  BY <1>4 DEF Placed
<1>6. StartCreate(h) \/ Look(h)
  BY <1>4, <1>5 DEF Step, StartPutFile, Begins, Truncate, Write, Written, Save, Fill, Replace,
                    Holding
<1>7. UNCHANGED <<meta, disk, meta_file, tmp, lock>>  BY <1>6 DEF StartCreate, Look
<1>8. Idle(h)  BY <1>3, <1>4, <1>5 DEF Idle
<1>9. IdleStep  BY <1>2, <1>7, <1>8 DEF IdleStep
<1> QED  BY <1>9, IdleKeeps

\* The version check of PutFile: what follows is decided by Current.
LEMMA StartPutFileIs ==
  ASSUME ReplicaInv, NEW h \in Call, StartPutFile(h)
  PROVE  /\ call[h].pc = "start" /\ call[h].req.op = "PutFile"
         /\ lock[call[h].req.path] = None
         /\ UNCHANGED <<meta, disk, meta_file, tmp>>
         /\ Current(h) => /\ lock' = [lock EXCEPT ![call[h].req.path] = h]
                          /\ Is(call'[h], "truncate", call[h].req, VersionOf(h) + 1,
                                call[h].req.data, call[h].text, "none")
         /\ ~Current(h) => lock' = lock /\ call'[h].pc = "done"
<1>1. /\ call[h].pc = "start" /\ call[h].req.op = "PutFile"
      /\ lock[call[h].req.path] = None
      /\ \/ /\ lock' = [lock EXCEPT ![call[h].req.path] = h]
            /\ Is(call'[h], "truncate", call[h].req, VersionOf(h) + 1,
                  call[h].req.data, call[h].text, "none")
         \/ /\ lock' = lock
            /\ call'[h].req = call[h].req /\ call'[h].pc = "done"
  BY StartPutFileTyped DEF ReplicaInv
<1>2. UNCHANGED <<meta, disk, meta_file, tmp>>  BY DEF StartPutFile
<1>3. [lock EXCEPT ![call[h].req.path] = h] # lock
  <2>1. call[h].req.path \in Path  BY <1>1, CallFacts
  <2>2. DOMAIN lock = Path /\ h # None  BY FileAssumption DEF ReplicaInv, Typing, TypeOK
  <2> QED  BY <1>1, <2>1, <2>2
<1>4. /\ Current(h) => lock' = [lock EXCEPT ![call[h].req.path] = h]
      /\ ~Current(h) => lock' = lock
  BY DEF StartPutFile
<1> QED  BY <1>1, <1>2, <1>3, <1>4

\* A task looks at the version once the writes before it are through.
LEMMA StartFacts ==
  ASSUME ReplicaInv, NEW n \in 1..MaxLog, NEW p \in Existing, Kept(p), p = log[n].path,
         StartPutFile(task(n)), InOrder(task(n))
  PROVE  /\ IsPut(n, p) /\ n <= handed /\ call[task(n)].req = log[n]
         /\ lock[p] = None /\ Place(n) = "start"
         /\ \A j \in 1..MaxLog : j < n /\ IsPut(j, p) => Begun(j) /\ Past(j)
         /\ \A k \in n..MaxLog : IsPut(k, p) => ~Begun(k)
         /\ FileAfter(p, n - 1).version <= meta[p].version
         /\ Current(task(n)) <=> log[n].version = meta[p].version
         /\ VersionOf(task(n)) = meta[p].version
<1>1. task(n) \in Call /\ task(n)[2] = n /\ task(n)[1] = "task"  BY Tasks
<1>2. Place(n) = "start" /\ call[task(n)].req.op = "PutFile" /\ LockFree(call[task(n)].req.path)
  BY DEF StartPutFile, Begins, Place
<1>3. call[task(n)].req = log[n] /\ n <= handed
  BY <1>1, <1>2, CallFacts DEF Place
<1>4. IsPut(n, p) /\ lock[p] = None  BY <1>2, <1>3 DEF IsPut, LockFree
<1>5. /\ handed \in 0..MaxLog /\ MaxLog \in Nat /\ FileInv(p)
      /\ \A k \in 1..MaxLog : Place(k) # "none" <=> k <= handed
  BY ReplicaAssumption DEF ReplicaInv, Handed
<1>6. ASSUME NEW j \in 1..MaxLog, j < n, IsPut(j, p) PROVE Begun(j) /\ Past(j)
  <2>1. j \in 1..n - 1  BY <1>6
  <2>2. Place(j) # "start"  BY <1>1, <1>2, <2>1 DEF InOrder, Place
  <2>3. Place(j) # "none"  BY <1>3, <1>5, <1>6
  <2>4. Begun(j)  BY <2>2, <2>3 DEF Begun, Place
  <2> QED  BY <1>4, <1>6, <2>4, LockFreeDone
<1>7. \A k \in n..MaxLog : IsPut(k, p) => ~Begun(k)
  <2>1. ~Begun(n)  BY <1>2 DEF Begun, Place
  <2> QED  BY <1>4, <1>5, <2>1 DEF FileInv, Ordered
<1>8. FileAfter(p, n - 1).version <= meta[p].version
  <2>1. n - 1 \in 0..handed  BY <1>3, <1>5
  <2>2. \A k \in 1..n - 1 : k \in 1..MaxLog /\ k < n  BY <1>5
  <2> QED  BY <1>5, <1>6, <2>1, <2>2 DEF FileInv, Applied
<1>9. VersionOf(task(n)) = meta[p].version
  BY <1>3, MemoryIs DEF VersionOf, MetaOf
<1>10. Current(task(n)) <=> log[n].version = meta[p].version
  BY <1>3, <1>9 DEF Current
<1> QED  BY <1>2, <1>3, <1>4, <1>6, <1>7, <1>8, <1>9, <1>10

\* The version is not the current one: the entry has no effect.
LEMMA TaskFailsKeeps ==
  ASSUME ReplicaInv, NEW n \in 1..MaxLog, NEW p \in Existing, Kept(p), p = log[n].path,
         StartPutFile(task(n)), InOrder(task(n)), ~Current(task(n)),
         GoesOn(task(n)), TaskStep(n)
  PROVE  FileInv(p)'
<1> DEFINE h == task(n)
<1>1. h \in Call  BY Tasks
<1>2. /\ UNCHANGED <<meta, disk, meta_file, tmp, lock>>
      /\ call[h].pc = "start" /\ call'[h].pc = "done"
  BY <1>1, StartPutFileIs
<1>3. /\ IsPut(n, p) /\ n <= handed
      /\ lock[p] = None
      /\ \A j \in 1..MaxLog : j < n /\ IsPut(j, p) => Begun(j) /\ Past(j)
      /\ \A k \in n..MaxLog : IsPut(k, p) => ~Begun(k)
      /\ FileAfter(p, n - 1).version <= meta[p].version
      /\ log[n].version # meta[p].version
  BY StartFacts
<1>4. Place(n) = "start" /\ Place(n)' = "done"  BY <1>2 DEF Place
<1> HIDE DEF h
<1>5. LogOK /\ handed \in 0..MaxLog /\ MaxLog \in Nat /\ UNCHANGED <<log, handed>>
  BY ReplicaAssumption DEF ReplicaInv, Handed, GoesOn
<1>6. FileAfter(p, n).version <= meta[p].version
  <2>1. log[n].version \in Nat /\ meta[p].version \in Nat  BY <1>5, EntryType, MemoryIs
  <2>2. /\ FileAfter(p, n - 1).version \in Nat
        /\ log[n].version = FileAfter(p, n - 1).version =>
             FileAfter(p, n).version = FileAfter(p, n - 1).version + 1
        /\ log[n].version # FileAfter(p, n - 1).version => FileAfter(p, n) = FileAfter(p, n - 1)
    BY <1>3, <1>5, AfterNext
  <2> QED  BY <1>3, <2>1, <2>2
<1>7. Applied(p)'
  <2>1. /\ \A q, k : FileAfter(q, k)' = FileAfter(q, k)
        /\ \A q, k : IsPut(k, q)' <=> IsPut(k, q)
    BY <1>5, LogStays
  <2> SUFFICES ASSUME NEW m \in 0..handed, \A k \in 1..m : IsPut(k, p) => Past(k)'
               PROVE  FileAfter(p, m).version <= meta[p].version
    BY <1>2, <1>5, <2>1 DEF Applied
  <2>2. \A k \in 1..MaxLog : k # n => (Past(k)' <=> Past(k))
    BY OtherTasks DEF Past
  <2>3. CASE m < n
    <3>1. \A k \in 1..m : k \in 1..MaxLog /\ k # n  BY <1>5, <2>3
    <3>2. \A k \in 1..m : IsPut(k, p) => Past(k)  BY <2>2, <3>1
    <3> QED  BY <3>2 DEF ReplicaInv, FileInv, Applied
  <2>4. CASE m >= n
    <3>1. \A k \in n + 1..m : k \in 1..m /\ k \in n..MaxLog /\ k # n /\ k \in 1..MaxLog
      BY <1>5
    <3>2. \A k \in n + 1..m : ~IsPut(k, p)
      <4> SUFFICES ASSUME NEW k \in n + 1..m, IsPut(k, p) PROVE FALSE  OBVIOUS
      <4>1. Past(k)  BY <2>2, <3>1
      <4>2. Begun(k)  BY <4>1 DEF Past, Begun, OnSave
      <4> QED  BY <1>3, <3>1, <4>2
    <3>3. FileAfter(p, n) = FileAfter(p, m)
      <4>1. n \in 0..MaxLog /\ m \in 0..MaxLog /\ n <= m  BY <1>5, <2>4
      <4> QED  BY <1>5, <3>2, <4>1, AfterGrows
    <3> QED  BY <1>6, <3>3
  <2> QED  BY <1>5, <2>3, <2>4
<1>8. MetaIs(p)'  BY <1>2, MetaStays
<1>9. Matching(p)'  BY <1>2, <1>4, MatchingStays
<1>10. OnlyFor(p) => OnItsWay(p)'  BY <1>2, <1>4, OnItsWayStays DEF OnSave
<1>11. Place(n)' \notin Holding  BY <1>4 DEF Holding
<1> QED  BY <1>3, <1>7, <1>8, <1>9, <1>10, <1>11, OwnPath

\* The version is the current one: the task takes the lock.
LEMMA TaskStartsKeeps ==
  ASSUME ReplicaInv, NEW n \in 1..MaxLog, NEW p \in Existing, Kept(p), p = log[n].path,
         StartPutFile(task(n)), InOrder(task(n)), Current(task(n)),
         GoesOn(task(n)), TaskStep(n)
  PROVE  FileInv(p)'
<1> DEFINE h == task(n)
<1>1. h \in Call /\ p \in Path  BY Tasks, FileAssumption
<1>2. /\ UNCHANGED <<meta, disk, meta_file, tmp>>
      /\ call[h].pc = "start" /\ lock' = [lock EXCEPT ![call[h].req.path] = h]
      /\ Is(call'[h], "truncate", call[h].req, VersionOf(h) + 1,
            call[h].req.data, call[h].text, "none")
  BY <1>1, StartPutFileIs
<1>3. /\ IsPut(n, p) /\ n <= handed /\ call[h].req = log[n]
      /\ lock[p] = None
      /\ \A j \in 1..MaxLog : j < n /\ IsPut(j, p) => Begun(j) /\ Past(j)
      /\ \A k \in n..MaxLog : IsPut(k, p) => ~Begun(k)
      /\ FileAfter(p, n - 1).version <= meta[p].version
      /\ log[n].version = meta[p].version /\ VersionOf(h) = meta[p].version
  BY StartFacts
<1>4. /\ call'[h].pc = "truncate"
      /\ call'[h].version = VersionOf(h) + 1 /\ call'[h].data = log[n].data
  BY <1>2, <1>3 DEF Is
<1>5. lock'[p] = h
  <2>1. DOMAIN lock = Path  BY DEF ReplicaInv, Typing, TypeOK
  <2> QED  BY <1>1, <1>2, <1>3, <2>1
<1>6. Place(n) = "start" /\ Place(n)' = "truncate"  BY <1>2, <1>4 DEF Place
<1> HIDE DEF h
<1>7. LogOK /\ handed \in 0..MaxLog /\ MaxLog \in Nat /\ log' = log
  BY ReplicaAssumption DEF ReplicaInv, Handed, GoesOn
<1>8. /\ meta[p] = FileAfter(p, n - 1)
      /\ FileAfter(p, n) = [version |-> log[n].version + 1, data |-> log[n].data]
      /\ FileAfter(p, n).version = FileAfter(p, n - 1).version + 1
  <2>1. /\ log[n].version <= FileAfter(p, n - 1).version
        /\ n - 1 \in 0..MaxLog /\ FileAfter(p, n - 1).version \in Nat
    BY <1>3, <1>7, AfterNext
  <2>2. log[n].version \in Nat /\ meta[p].version \in Nat  BY <1>7, EntryType, MemoryIs
  <2>3. log[n].version = FileAfter(p, n - 1).version  BY <1>3, <2>1, <2>2
  <2>4. PICK m \in 0..MaxLog : meta[p] = FileAfter(p, m)  BY MemoryIs
  <2>5. meta[p] = FileAfter(p, n - 1)  BY <1>3, <1>7, <2>1, <2>3, <2>4, AfterSame
  <2> QED  BY <1>3, <1>7, <2>3, <2>5, AfterNext
<1>9. Writing(n, p)'
  <2>1. /\ \A q, k : FileAfter(q, k)' = FileAfter(q, k)
        /\ \A q, k : IsPut(k, q)' <=> IsPut(k, q)
    BY <1>7, LogStays
  <2>2. FileAfter(p, n) = [version |-> call'[task(n)].version, data |-> call'[task(n)].data]
    BY <1>3, <1>4, <1>8 DEF h
  <2>3. \A k \in n + 1..MaxLog : k \in 1..MaxLog /\ k \in n..MaxLog /\ k # n  BY <1>7
  <2>4. \A k \in n + 1..MaxLog : IsPut(k, p) => ~Begun(k)'
    BY <1>3, <2>3, OtherTasks DEF Begun
  <2> QED  BY <1>2, <1>5, <1>6, <1>8, <2>1, <2>2, <2>4 DEF Writing, OnSave, h
<1>10. Applied(p)'
  <2>1. ~Past(n)'  BY <1>6 DEF Past, OnSave
  <2> QED  BY <1>2, <2>1, AppliedStays
<1>11. MetaIs(p)'  BY <1>2, MetaStays
<1>12. Matching(p)'  BY <1>2, <1>6, MatchingStays
<1>13. OnlyFor(p) => OnItsWay(p)'  BY <1>2, <1>6, OnItsWayStays DEF OnSave
<1> QED  BY <1>3, <1>9, <1>10, <1>11, <1>12, <1>13, OwnPath

\* The task that is writing p is alone in it.
LEMMA WritingFacts ==
  ASSUME ReplicaInv, NEW n \in 1..MaxLog, NEW p \in Existing, Kept(p), p = log[n].path,
         Place(n) \in Holding
  PROVE  /\ IsPut(n, p) /\ p \in Path /\ n <= handed /\ call[task(n)].req = log[n]
         /\ call[task(n)].pc = Place(n) /\ ~Cancelled(task(n)) /\ task(n) \in Call
         /\ Writing(n, p) /\ lock[p] = task(n)
         /\ \A j \in 1..MaxLog : j < n /\ IsPut(j, p) => Begun(j)
         /\ OnlyFor(p) => \A k \in 1..MaxLog : k # n => Place(k) \notin Holding
<1>1. task(n) \in Call /\ task(n)[2] = n  BY Tasks
<1>2. Place(n) # "none" /\ Place(n) # "done" /\ Begun(n)  BY DEF Holding, Begun, Place
<1>3. /\ call[task(n)].req = log[n] /\ n <= handed /\ p \in Path /\ Placed(task(n))
      /\ ~Cancelled(task(n))
  BY <1>1, <1>2, CallFacts DEF Place
<1>4. IsPut(n, p)  BY <1>2, <1>3 DEF IsPut, Placed, Place
<1>5. FileInv(p)  BY DEF ReplicaInv
<1>6. Writing(n, p)  BY <1>4, <1>5 DEF FileInv
<1>7. lock[p] = task(n)  BY <1>6 DEF Writing
<1>8. \A j \in 1..MaxLog : j < n /\ IsPut(j, p) => Begun(j)
  BY <1>2, <1>4, <1>5 DEF FileInv, Ordered
<1>9. ASSUME OnlyFor(p), NEW k \in 1..MaxLog, k # n, Place(k) \in Holding PROVE FALSE
  <2>1. task(k) \in Call /\ task(k)[2] = k /\ task(k) # task(n)  BY <1>9, Tasks
  <2>2. call[task(k)].pc # "none" /\ call[task(k)].pc \in Holding
    BY <1>9 DEF Place, Holding
  <2>3. call[task(k)].req = log[k] /\ Placed(task(k))  BY <2>1, <2>2, CallFacts
  <2>4. log[k].path = p
    <3>1. LogOK  BY DEF ReplicaInv, Handed
    <3> QED  BY <1>9, <3>1, LogLength DEF OnlyFor
  <2>5. IsPut(k, p)  BY <2>2, <2>3, <2>4 DEF Placed, IsPut
  <2> QED  BY <1>5, <1>7, <1>9, <2>1, <2>5 DEF FileInv, Writing
<1> QED  BY <1>1, <1>3, <1>4, <1>6, <1>7, <1>8, <1>9 DEF Place

\* What is left to show of a step of the writing task
LEMMA WritingStep ==
  ASSUME ReplicaInv, NEW n \in 1..MaxLog, NEW p \in Existing, Kept(p), p = log[n].path,
         Place(n) \in Holding, TaskStep(n), MetaIs(p)', Applied(p)', Matching(p)',
         Place(n)' \in Holding => Writing(n, p)', OnlyFor(p) => OnItsWay(p)'
  PROVE  FileInv(p)'
<1>1. /\ IsPut(n, p) /\ lock[p] = task(n)
      /\ \A j \in 1..MaxLog : j < n /\ IsPut(j, p) => Begun(j)
  BY WritingFacts
<1> QED  BY <1>1, OwnPath

LEMMA TruncateWorks ==
  ASSUME ReplicaInv, NEW n \in 1..MaxLog, NEW p \in Existing, Kept(p), p = log[n].path,
         Truncate(task(n)), GoesOn(task(n)), TaskStep(n)
  PROVE  FileInv(p)'
<1> DEFINE h == task(n)
<1>1. h \in Call  BY Tasks
<1>2. /\ call[h].pc = "truncate"
      /\ Is(call'[h], "write", call[h].req, call[h].version, call[h].data,
            call[h].text, call[h].code)
  BY <1>1, TruncateTyped DEF ReplicaInv
<1>3. /\ disk' = [disk EXCEPT ![call[h].req.path] = Empty]
      /\ UNCHANGED <<meta, meta_file, tmp, lock>>
  BY DEF Truncate
<1>4. Place(n) = "truncate" /\ Place(n) \in Holding  BY <1>2 DEF Place, Holding
<1>5. /\ IsPut(n, p) /\ p \in Path /\ call[h].req = log[n] /\ Writing(n, p)
  BY <1>4, WritingFacts
<1>6. disk'[p] = Empty
  <2>1. DOMAIN disk = Path  BY DEF ReplicaInv, Typing, TypeOK
  <2> QED  BY <1>3, <1>5, <2>1
<1>7. Place(n)' = "write" /\ call'[h].version = call[h].version /\ call'[h].data = call[h].data
  BY <1>2 DEF Is, Place
<1> HIDE DEF h
<1>8. /\ \A q, k : FileAfter(q, k)' = FileAfter(q, k)
      /\ \A q, k : IsPut(k, q)' <=> IsPut(k, q)
  BY LogStays DEF GoesOn
<1>9. Writing(n, p)'
  <2>1. \A k \in n + 1..MaxLog : k \in 1..MaxLog /\ k # n  BY ReplicaAssumption
  <2>2. \A k \in n + 1..MaxLog : IsPut(k, p) => ~Begun(k)'
    BY <1>4, <1>5, <2>1, OtherTasks DEF Writing, Begun
  <2> QED  BY <1>3, <1>4, <1>5, <1>7, <1>8, <2>2 DEF Writing, OnSave, h
<1>10. Applied(p)'
  <2>1. ~Past(n)'  BY <1>7 DEF Past, OnSave
  <2> QED  BY <1>3, <2>1, AppliedStays
<1>11. MetaIs(p)'  BY <1>3, MetaStays
<1>12. Matching(p)'
  BY <1>5, <1>6, <1>7, <1>8 DEF Matching, Content
<1>13. OnlyFor(p) => OnItsWay(p)'  BY <1>3, <1>4, <1>7, OnItsWayStays DEF OnSave
<1> QED  BY <1>4, <1>9, <1>10, <1>11, <1>12, <1>13, WritingStep

LEMMA WriteWorks ==
  ASSUME ReplicaInv, NEW n \in 1..MaxLog, NEW p \in Existing, Kept(p), p = log[n].path,
         Write(task(n)), GoesOn(task(n)), TaskStep(n)
  PROVE  FileInv(p)'
<1> DEFINE h == task(n)
<1>1. h \in Call  BY Tasks
<1>2. /\ call[h].pc = "write" /\ call[h].data \in Content
      /\ Is(call'[h], IF Cancelled(h) THEN "done" ELSE "written", call[h].req,
            call[h].version, call[h].data, call[h].text, call[h].code)
  BY <1>1, WriteTyped DEF ReplicaInv
<1>3. /\ disk' = [disk EXCEPT ![call[h].req.path] = call[h].data]
      /\ UNCHANGED <<meta, meta_file, tmp, lock>>
  BY DEF Write
<1>4. Place(n) = "write" /\ Place(n) \in Holding  BY <1>2 DEF Place, Holding
<1>5. /\ IsPut(n, p) /\ p \in Path /\ call[h].req = log[n] /\ Writing(n, p) /\ ~Cancelled(h)
  BY <1>4, WritingFacts
<1>6. disk'[p] = call[h].data
  <2>1. DOMAIN disk = Path  BY DEF ReplicaInv, Typing, TypeOK
  <2> QED  BY <1>3, <1>5, <2>1
<1>7. Place(n)' = "written" /\ call'[h].version = call[h].version /\ call'[h].data = call[h].data
  BY <1>2, <1>5 DEF Is, Place
<1> HIDE DEF h
<1>8. /\ \A q, k : FileAfter(q, k)' = FileAfter(q, k)
      /\ \A q, k : IsPut(k, q)' <=> IsPut(k, q)
  BY LogStays DEF GoesOn
<1>9. Writing(n, p)'
  <2>1. \A k \in n + 1..MaxLog : k \in 1..MaxLog /\ k # n  BY ReplicaAssumption
  <2>2. \A k \in n + 1..MaxLog : IsPut(k, p) => ~Begun(k)'
    BY <1>4, <1>5, <2>1, OtherTasks DEF Writing, Begun
  <2> QED  BY <1>3, <1>4, <1>5, <1>6, <1>7, <1>8, <2>2 DEF Writing, OnSave, h
<1>10. Applied(p)'
  <2>1. ~Past(n)'  BY <1>7 DEF Past, OnSave
  <2> QED  BY <1>3, <2>1, AppliedStays
<1>11. MetaIs(p)'  BY <1>3, MetaStays
<1>12. Matching(p)'
  BY <1>2, <1>5, <1>6, <1>7, <1>8 DEF Matching
<1>13. OnlyFor(p) => OnItsWay(p)'  BY <1>3, <1>4, <1>7, OnItsWayStays DEF OnSave
<1> QED  BY <1>4, <1>9, <1>10, <1>11, <1>12, <1>13, WritingStep

\* The new version is in memory, and on its way to .meta.json.
LEMMA WrittenIs ==
  ASSUME ReplicaInv, NEW n \in 1..MaxLog, NEW p \in Existing, Kept(p), p = log[n].path,
         Written(task(n))
  PROVE  /\ Place(n) = "written" /\ Place(n)' = "save"
         /\ call'[task(n)].text = meta'
         /\ call'[task(n)].version = call[task(n)].version
         /\ call'[task(n)].data = call[task(n)].data
         /\ UNCHANGED <<disk, meta_file, tmp, lock>>
         /\ meta[p] = FileAfter(p, n - 1) /\ meta'[p] = FileAfter(p, n)
<1> DEFINE h == task(n)
           new == [version |-> call[h].version, data |-> call[h].data]
<1>1. h \in Call  BY Tasks
<1>2. /\ call[h].pc = "written"
      /\ Is(call'[h], "save", call[h].req, call[h].version, call[h].data, meta', "none")
  BY <1>1, WrittenTyped DEF ReplicaInv
<1>3. /\ meta' = [meta EXCEPT ![call[h].req.path] = new]
      /\ UNCHANGED <<disk, meta_file, tmp, lock>>
  BY DEF Written
<1>4. Place(n) = "written" /\ Place(n) \in Holding  BY <1>2 DEF Place, Holding
<1>5. /\ p \in Path /\ call[h].req = log[n] /\ Writing(n, p)
  BY <1>4, WritingFacts
<1>6. DOMAIN meta = Path  BY DEF ReplicaInv, Typing, TypeOK, Meta
<1>7. /\ FileAfter(p, n) = new /\ meta[p] = FileAfter(p, n - 1)
  BY <1>4, <1>5 DEF Writing
<1>8. meta'[p] = FileAfter(p, n)
  <2> HIDE DEF new
  <2> QED  BY <1>3, <1>5, <1>6, <1>7
<1>9. /\ Place(n)' = "save" /\ call'[h].text = meta'
      /\ call'[h].version = call[h].version /\ call'[h].data = call[h].data
  BY <1>2 DEF Is, Place
<1> QED  BY <1>3, <1>4, <1>7, <1>8, <1>9

LEMMA WrittenWorks ==
  ASSUME ReplicaInv, NEW n \in 1..MaxLog, NEW p \in Existing, Kept(p), p = log[n].path,
         Written(task(n)), GoesOn(task(n)), TaskStep(n)
  PROVE  FileInv(p)'
<1> DEFINE h == task(n)
<1>1. /\ Place(n) = "written" /\ Place(n)' = "save"
      /\ call'[h].text = meta'
      /\ call'[h].version = call[h].version /\ call'[h].data = call[h].data
      /\ UNCHANGED <<disk, meta_file, tmp, lock>>
      /\ meta[p] = FileAfter(p, n - 1) /\ meta'[p] = FileAfter(p, n)
  BY WrittenIs
<1>2. Place(n) \in Holding  BY <1>1 DEF Holding
<1>3. /\ IsPut(n, p) /\ Writing(n, p) /\ n <= handed
      /\ OnlyFor(p) => \A k \in 1..MaxLog : k # n => Place(k) \notin Holding
  BY <1>2, WritingFacts
<1>4. \A k \in 1..MaxLog : k # n => call'[task(k)] = call[task(k)] /\ Place(k)' = Place(k)
  BY OtherTasks
<1> HIDE DEF h
<1>5. /\ \A q, k : FileAfter(q, k)' = FileAfter(q, k)
      /\ \A q, k : IsPut(k, q)' <=> IsPut(k, q)
      /\ UNCHANGED <<log, handed, replay>>
  BY LogStays DEF GoesOn
<1>6. /\ LogOK /\ handed \in 0..MaxLog /\ MaxLog \in Nat /\ FileInv(p)
      /\ Top \in 0..MaxLog /\ Top \in Nat /\ handed <= Top
  BY TopIs, ReplicaAssumption DEF ReplicaInv, Handed
<1>7. /\ n \in 0..MaxLog /\ n - 1 \in 0..MaxLog /\ n \in 0..Top
      /\ FileAfter(p, n).version \in Nat /\ FileAfter(p, n - 1).version \in Nat
      /\ FileAfter(p, n).version = FileAfter(p, n - 1).version + 1
  BY <1>3, <1>6, AfterType DEF Writing
<1>8. Writing(n, p)'  BY <1>1, <1>3, <1>5 DEF Writing, OnSave, h
<1>9. MetaIs(p)'
  <2>1. Top' = Top  BY <1>5 DEF Top
  <2> QED  BY <1>1, <1>5, <1>7, <2>1 DEF MetaIs
<1>10. Applied(p)'
  <2> SUFFICES ASSUME NEW m \in 0..handed, \A k \in 1..m : IsPut(k, p) => Past(k)'
               PROVE  FileAfter(p, m).version <= FileAfter(p, n).version
    BY <1>1, <1>5 DEF Applied
  <2>1. m \in 0..MaxLog  BY <1>6
  <2>2. CASE m <= n  BY <1>6, <1>7, <2>1, <2>2, AfterGrows
  <2>3. CASE m > n
    <3>1. \A k \in n + 1..m : k \in 1..m /\ k \in n + 1..MaxLog /\ k # n /\ k \in 1..MaxLog
      BY <1>6
    <3>2. \A k \in n + 1..m : ~IsPut(k, p)
      <4> SUFFICES ASSUME NEW k \in n + 1..m, IsPut(k, p) PROVE FALSE  OBVIOUS
      <4>1. Past(k)  BY <1>4, <3>1 DEF Past
      <4>2. Begun(k)  BY <4>1 DEF Past, Begun, OnSave
      <4> QED  BY <1>1, <1>3, <3>1, <4>2 DEF Writing
    <3>3. FileAfter(p, n) = FileAfter(p, m)
      BY <1>6, <1>7, <2>1, <2>3, <3>2, AfterGrows
    <3>4. FileAfter(p, n).version <= FileAfter(p, n).version  BY <1>7
    <3> QED  BY <3>3, <3>4
  <2> QED  BY <1>6, <2>2, <2>3
<1>11. Matching(p)'
  <2>1. disk[p] = call[h].data  BY <1>1, <1>3 DEF Writing, h
  <2>2. meta'[p].data = call[h].data  BY <1>1, <1>3 DEF Writing, h
  <2> QED  BY <1>1, <1>6, <2>1, <2>2 DEF FileInv, Matching
<1>12. OnlyFor(p) => OnItsWay(p)'
  <2> SUFFICES ASSUME OnlyFor(p) PROVE OnItsWay(p)'  OBVIOUS
  <2>1. \A k \in 1..MaxLog : k # n => Place(k)' \notin OnSave /\ Place(k) \notin OnSave
    BY <1>3, <1>4 DEF Holding, OnSave
  <2>2. Place(n) \notin OnSave  BY <1>1 DEF OnSave
  <2>3. OnItsWay(p)  BY <1>6 DEF FileInv
  <2>4. /\ meta_file[p] = FileAfter(p, n - 1) /\ meta_file \in Meta
        /\ tmp.moved = {} /\ tmp.open = {}
    BY <1>1, <2>1, <2>2, <2>3 DEF OnItsWay, OnSave
  <2>5. \A k \in 1..MaxLog : Place(k)' # "fill" /\ Place(k)' # "replace"
                             /\ (Place(k)' \in OnSave => k = n)
    BY <1>1, <2>1 DEF OnSave
  <2> QED  BY <1>1, <1>5, <2>4, <2>5 DEF OnItsWay, OnSave, h
<1> QED  BY <1>2, <1>8, <1>9, <1>10, <1>11, <1>12, WritingStep

\* .meta.json.tmp is emptied and filled, and becomes .meta.json; if all entries are
\* for p nobody else is about it.
LEMMA SavingKeeps ==
  ASSUME ReplicaInv, NEW n \in 1..MaxLog, NEW p \in Existing, Kept(p), p = log[n].path,
         Place(n) \in OnSave, Place(n)' \in OnSave \cup {"done"},
         GoesOn(task(n)), TaskStep(n), UNCHANGED <<meta, disk>>,
         Place(n)' \in OnSave =>
           /\ lock' = lock /\ call'[task(n)].version = call[task(n)].version
           /\ call'[task(n)].data = call[task(n)].data,
         OnlyFor(p) => OnItsWay(p)'
  PROVE  FileInv(p)'
<1>1. Place(n) \in Holding /\ Past(n)  BY DEF Holding, OnSave, Past
<1>2. Writing(n, p) /\ meta[p] = FileAfter(p, n)  BY <1>1, WritingFacts DEF Writing
<1>3. \A q, k : FileAfter(q, k)' = FileAfter(q, k)  BY LogStays DEF GoesOn
<1>4. Place(n)' \notin {"truncate", "write", "written"}  BY DEF OnSave
<1>5. Place(n)' \in Holding => Writing(n, p)'
  <2> SUFFICES ASSUME Place(n)' \in Holding PROVE Writing(n, p)'  OBVIOUS
  <2>1. Place(n)' \in OnSave  BY DEF Holding
  <2> QED  BY <1>2, <1>3, <1>4, <2>1 DEF Writing
<1>6. MetaIs(p)' /\ Applied(p)'  BY <1>1, MetaStays, AppliedStays
<1>7. Matching(p)'
  <2>1. Place(n) \notin {"write", "written"}  BY DEF OnSave
  <2> QED  BY <2>1, MatchingStays
<1> QED  BY <1>1, <1>5, <1>6, <1>7, WritingStep

\* If all entries are for p, the others are not about .meta.json.
LEMMA SavesAlone ==
  ASSUME ReplicaInv, NEW n \in 1..MaxLog, NEW p \in Existing, Kept(p), p = log[n].path,
         Place(n) \in OnSave, GoesOn(task(n)), OnlyFor(p)
  PROVE  /\ OnItsWay(p) /\ Writing(n, p)
         /\ \A k \in 1..MaxLog : k # n => Place(k) \notin OnSave /\ Place(k)' \notin OnSave
         /\ \A q, k : FileAfter(q, k)' = FileAfter(q, k)
<1>1. Place(n) \in Holding  BY DEF Holding, OnSave
<1>2. Writing(n, p) /\ \A k \in 1..MaxLog : k # n => Place(k) \notin Holding
  BY <1>1, WritingFacts
<1>3. \A k \in 1..MaxLog : k # n => Place(k) \notin OnSave  BY <1>2 DEF Holding, OnSave
<1>4. \A k \in 1..MaxLog : k # n => Place(k)' \notin OnSave  BY <1>3, OtherTasks
<1>5. OnItsWay(p)  BY DEF ReplicaInv, FileInv
<1>6. \A q, k : FileAfter(q, k)' = FileAfter(q, k)  BY LogStays DEF GoesOn
<1> QED  BY <1>2, <1>3, <1>4, <1>5, <1>6

LEMMA SaveWorks ==
  ASSUME ReplicaInv, NEW n \in 1..MaxLog, NEW p \in Existing, Kept(p), p = log[n].path,
         Save(task(n)), GoesOn(task(n)), TaskStep(n)
  PROVE  FileInv(p)'
<1> DEFINE h == task(n)
<1>1. h \in Call  BY Tasks
<1>2. /\ call[h].pc = "save"
      /\ Is(call'[h], "fill", call[h].req, call[h].version, call[h].data,
            call[h].text, call[h].code)
  BY <1>1, SaveTyped DEF ReplicaInv
<1>3. /\ tmp' = [tmp EXCEPT !.text = Empty, !.open = @ \cup {h}]
      /\ UNCHANGED <<meta, disk, meta_file, lock>>
  BY DEF Save
<1>4. Place(n) = "save" /\ Place(n)' = "fill"  BY <1>2 DEF Is, Place
<1>5. /\ call'[h].version = call[h].version /\ call'[h].data = call[h].data
      /\ call'[h].text = call[h].text
  BY <1>2 DEF Is
<1>6. tmp'.text = Empty /\ tmp'.open = tmp.open \cup {h} /\ tmp'.moved = tmp.moved
  BY <1>3 DEF ReplicaInv, Typing, TypeOK, Temporary
<1> HIDE DEF h
<1>7. OnlyFor(p) => OnItsWay(p)'
  <2> SUFFICES ASSUME OnlyFor(p) PROVE OnItsWay(p)'  OBVIOUS
  <2>1. /\ OnItsWay(p) /\ Writing(n, p)
        /\ \A k \in 1..MaxLog : k # n => Place(k) \notin OnSave /\ Place(k)' \notin OnSave
        /\ \A q, k : FileAfter(q, k)' = FileAfter(q, k)
    BY <1>4, SavesAlone DEF OnSave
  <2>2. /\ meta_file \in Meta /\ tmp.moved = {} /\ call[h].text[p] = meta[p]
        /\ meta_file[p] = FileAfter(p, n - 1)
    BY <1>4, <2>1 DEF OnItsWay, OnSave, h
  <2>3. tmp.open = {}
    <3>1. \A k \in 1..MaxLog : Place(k) # "fill"  BY <1>4, <2>1 DEF OnSave
    <3> QED  BY <2>1, <3>1 DEF OnItsWay
  <2>4. \A k \in 1..MaxLog : Place(k)' \in OnSave => k = n  BY <2>1
  <2>5. \A k \in 1..MaxLog : Place(k)' \in {"save", "fill", "replace"} => k = n
    BY <2>4 DEF OnSave
  <2>6. tmp'.open = {h} /\ tmp'.text = Empty  BY <1>6, <2>3
  <2>7. Place(n)' \in OnSave  BY <1>4 DEF OnSave
  <2>8. call'[h].text[p] = meta'[p]  BY <1>3, <1>5, <2>2
  <2>9. meta_file' \in Meta /\ tmp'.moved = {} /\ meta_file'[p] = FileAfter(p, n - 1)
    BY <1>3, <1>6, <2>2
  <2> QED  BY <1>4, <2>1, <2>4, <2>5, <2>6, <2>7, <2>8, <2>9 DEF OnItsWay, h
<1>8. Place(n) \in OnSave /\ Place(n)' \in OnSave  BY <1>4 DEF OnSave
<1> QED  BY <1>3, <1>5, <1>7, <1>8, SavingKeeps DEF h

LEMMA FillWorks ==
  ASSUME ReplicaInv, NEW n \in 1..MaxLog, NEW p \in Existing, Kept(p), p = log[n].path,
         Fill(task(n)), GoesOn(task(n)), TaskStep(n)
  PROVE  FileInv(p)'
<1> DEFINE h == task(n)
<1>1. h \in Call  BY Tasks
<1>2. /\ call[h].pc = "fill" /\ call[h].text \in Meta
      /\ Is(call'[h], IF Cancelled(h) THEN "done" ELSE "replace", call[h].req,
            call[h].version, call[h].data, call[h].text, call[h].code)
  BY <1>1, FillTyped DEF ReplicaInv
<1>3. UNCHANGED <<meta, disk, lock>>  BY DEF Fill
<1>4. Place(n) = "fill" /\ Place(n) \in Holding  BY <1>2 DEF Place, Holding
<1>5. ~Cancelled(h)  BY <1>4, WritingFacts
<1>6. Place(n)' = "replace"  BY <1>2, <1>5 DEF Is, Place
<1>7. call'[h].version = call[h].version /\ call'[h].data = call[h].data
  BY <1>2 DEF Is
<1> HIDE DEF h
<1>8. OnlyFor(p) => OnItsWay(p)'
  <2> SUFFICES ASSUME OnlyFor(p) PROVE OnItsWay(p)'  OBVIOUS
  <2>1. /\ OnItsWay(p) /\ Writing(n, p)
        /\ \A k \in 1..MaxLog : k # n => Place(k) \notin OnSave /\ Place(k)' \notin OnSave
        /\ \A q, k : FileAfter(q, k)' = FileAfter(q, k)
    BY <1>4, SavesAlone DEF OnSave
  <2>2. /\ meta_file \in Meta /\ tmp.moved = {} /\ call[h].text[p] = meta[p]
        /\ meta_file[p] = FileAfter(p, n - 1)
        /\ tmp.text = Empty /\ tmp.open = {h}
    BY <1>4, <2>1 DEF OnItsWay, OnSave, h
  <2>3. Over(tmp.text, tmp.open, h) = {call[h].text}  BY <2>2 DEF Over
  <2>4. PICK text \in Over(tmp.text, tmp.open, h) :
          tmp' = [tmp EXCEPT !.text = IF h \in tmp.open THEN text ELSE @,
                             !.open = @ \ {h}, !.moved = @ \ {h}]
    BY DEF Fill, h
  <2>5. text = call[h].text /\ h \in tmp.open  BY <2>2, <2>3, <2>4
  <2>6. tmp'.text = call[h].text /\ tmp'.open = {} /\ tmp'.moved = {}
    BY <2>2, <2>4, <2>5 DEF ReplicaInv, Typing, TypeOK, Temporary
  <2>7. meta_file' = meta_file  BY <2>2 DEF Fill, h
  <2>8. \A k \in 1..MaxLog : Place(k)' \in OnSave => k = n  BY <2>1
  <2>9. \A k \in 1..MaxLog : Place(k)' \in {"save", "fill", "replace"} => k = n
    BY <2>8 DEF OnSave
  <2>10. Place(n)' \in OnSave /\ Place(n)' \notin {"save", "fill"}  BY <1>6 DEF OnSave
  <2>11. tmp'.text \in Meta /\ tmp'.text[p] = meta'[p]  BY <1>2, <1>3, <2>2, <2>6
  <2>12. meta_file' \in Meta /\ meta_file'[p] = FileAfter(p, n - 1)  BY <2>2, <2>7
  <2> QED  BY <2>1, <2>6, <2>8, <2>9, <2>10, <2>11, <2>12 DEF OnItsWay
<1>9. Place(n) \in OnSave /\ Place(n)' \in OnSave  BY <1>4, <1>6 DEF OnSave
<1> QED  BY <1>3, <1>7, <1>8, <1>9, SavingKeeps DEF h

LEMMA ReplaceWorks ==
  ASSUME ReplicaInv, NEW n \in 1..MaxLog, NEW p \in Existing, Kept(p), p = log[n].path,
         Replace(task(n)), GoesOn(task(n)), TaskStep(n)
  PROVE  FileInv(p)'
<1> DEFINE h == task(n)
<1>1. h \in Call  BY Tasks
<1>2. call[h].pc = "replace" /\ call'[h].pc \in {"record", "done"}
  BY <1>1, ReplaceTyped DEF ReplicaInv
<1>3. UNCHANGED <<meta, disk>>  BY DEF Replace
<1>4. Place(n) = "replace" /\ Place(n) \in OnSave  BY <1>2 DEF Place, OnSave
<1>5. Place(n)' = "done"  BY <1>2 DEF GoesOn, Holding, Place
<1> HIDE DEF h
<1>6. OnlyFor(p) => OnItsWay(p)'
  <2> SUFFICES ASSUME OnlyFor(p) PROVE OnItsWay(p)'  OBVIOUS
  <2>1. /\ OnItsWay(p)
        /\ \A k \in 1..MaxLog : k # n => Place(k) \notin OnSave /\ Place(k)' \notin OnSave
    BY <1>4, SavesAlone
  <2>2. tmp.text \in Meta /\ tmp.text[p] = meta[p]  BY <1>4, <2>1 DEF OnItsWay
  <2>3. tmp.open = {}
    <3>1. \A k \in 1..MaxLog : Place(k) # "fill"  BY <1>4, <2>1 DEF OnSave
    <3> QED  BY <2>1, <3>1 DEF OnItsWay
  <2>4. tmp.text # None  BY <2>2, NoneAssumption
  <2>5. meta_file' = tmp.text /\ tmp' = [text |-> None, open |-> {}, moved |-> tmp.open]
    BY <2>4 DEF Replace
  <2>6. tmp'.open = {} /\ tmp'.moved = {}  BY <2>3, <2>5
  <2>7. \A k \in 1..MaxLog : Place(k)' \notin OnSave  BY <1>5, <2>1 DEF OnSave
  <2>8. \A k \in 1..MaxLog : Place(k)' \notin {"save", "fill", "replace"}
    BY <2>7 DEF OnSave
  <2>9. meta_file' \in Meta /\ meta_file'[p] = meta'[p]  BY <1>3, <2>2, <2>5
  <2> QED  BY <2>6, <2>7, <2>8, <2>9 DEF OnItsWay
<1>7. Place(n)' \notin OnSave  BY <1>5 DEF OnSave
<1> QED  BY <1>3, <1>4, <1>5, <1>6, <1>7, SavingKeeps

-----------------------------------------------------------------------------
(* The start, a crash, and every step.                                     *)

\* No execution is under way.
Rests ==
  /\ Typing /\ LogOK /\ handed = 0 /\ replay \in 0..MaxLog
  /\ call = [h \in Call |-> NotReceived]

\* What is left of p then, if there are no torn metadata
Rests1(p) ==
  /\ Rests /\ MetaIs(p) /\ disk[p] \in Content
  /\ disk[p] = meta[p].data \/ meta[p].version < FileAfter(p, replay).version
  /\ OnlyFor(p) => /\ meta_file \in Meta /\ meta_file[p] = meta[p]
                   /\ tmp.open = {} /\ tmp.moved = {}

LEMMA RestsPlaces ==
  ASSUME Rests
  PROVE  /\ \A h \in Call : call[h].pc = "none" /\ call[h].code = "none"
         /\ \A n \in 1..MaxLog : Place(n) = "none" /\ ~Begun(n)
         /\ Handed /\ \A h \in Call : Placed(h)
<1>1. MaxLog \in Nat  BY ReplicaAssumption
<1>2. \A h \in Call : call[h].pc = "none" /\ call[h].code = "none"
  BY DEF Rests, NotReceived
<1>3. \A n \in 1..MaxLog : Place(n) = "none" /\ ~Begun(n)
  BY <1>2, Tasks DEF Place, Begun
<1>4. Handed  BY <1>1, <1>2, <1>3 DEF Handed, Rests
<1>5. \A h \in Call : Placed(h)  BY <1>2 DEF Placed, Holding, Cancelled
<1> QED  BY <1>2, <1>3, <1>4, <1>5

LEMMA RestsFile == \A p \in Existing : Rests1(p) => FileInv(p)
<1> SUFFICES ASSUME NEW p \in Existing, Rests1(p) PROVE FileInv(p)  OBVIOUS
<1>1. /\ Rests /\ MaxLog \in Nat /\ LogOK /\ handed = 0 /\ MetaIs(p)
      /\ disk[p] \in Content
      /\ disk[p] = meta[p].data \/ meta[p].version < FileAfter(p, replay).version
  BY ReplicaAssumption DEF Rests1, Rests
<1>2. \A n \in 1..MaxLog : Place(n) = "none" /\ ~Begun(n)  BY <1>1, RestsPlaces
<1>3. Ordered(p)  BY <1>2 DEF Ordered
<1>4. Applied(p)
  <2>1. PICK k \in 0..Top : meta[p] = FileAfter(p, k)  BY <1>1 DEF MetaIs
  <2>2. Handed  BY <1>1, RestsPlaces
  <2>3. k \in 0..MaxLog /\ 0 \in 0..MaxLog /\ 0 <= k  BY <1>1, <2>1, <2>2, TopIs
  <2>4. FileAfter(p, 0).version <= meta[p].version  BY <1>1, <2>1, <2>3, AfterGrows
  <2>5. \A n \in 0..handed : n = 0  BY <1>1
  <2> QED  BY <2>4, <2>5 DEF Applied
<1>5. Matching(p)  BY <1>1 DEF Matching
<1>6. \A n \in 1..MaxLog : Place(n) \notin Holding /\ Place(n) \notin OnSave
  BY <1>2 DEF Holding, OnSave
<1>7. OnlyFor(p) => OnItsWay(p)
  <2>1. \A n \in 1..MaxLog : Place(n) \notin {"save", "fill", "replace"}  BY <1>2
  <2> QED  BY <1>6, <2>1 DEF OnItsWay, Rests1
<1> QED  BY <1>1, <1>3, <1>4, <1>5, <1>6, <1>7 DEF FileInv

LEMMA RestsInv == Rests /\ (\A p \in Existing : Kept(p) => Rests1(p)) => ReplicaInv
<1> SUFFICES ASSUME Rests, \A p \in Existing : Kept(p) => Rests1(p) PROVE ReplicaInv
  OBVIOUS
<1>1. Typing  BY DEF Rests
<1> QED  BY <1>1, RestsPlaces, RestsFile DEF ReplicaInv

\* The start
LEMMA InitInv == ReplicaInit => ReplicaInv
<1> SUFFICES ASSUME ReplicaInit PROVE ReplicaInv  OBVIOUS
<1>1. Init /\ handed = 0 /\ replay = 0 /\ LogOK  BY DEF ReplicaInit, LogOK
<1>2. Typing /\ meta \in Meta  BY <1>1, InitTyping DEF Typing, TypeOK
<1>3. /\ \A p \in Existing : p \in Path /\ meta[p] = [version |-> 1, data |-> Empty]
      /\ \A p \in Existing : disk[p] = Empty
      /\ meta_file = meta /\ call = [h \in Call |-> NotReceived]
      /\ tmp.open = {} /\ tmp.moved = {}
  BY <1>1, FileAssumption DEF Init
<1>4. MaxLog \in Nat /\ Top = 0  BY <1>1, ReplicaAssumption DEF Top
<1>5. Rests  BY <1>1, <1>2, <1>3, <1>4 DEF Rests
<1>6. ASSUME NEW p \in Existing PROVE Rests1(p)
  <2>1. FileAfter(p, 0) = [version |-> 1, data |-> Empty]
    BY <1>1, AfterIs DEF Initially
  <2>2. MetaIs(p)  BY <1>3, <1>4, <2>1 DEF MetaIs
  <2>3. disk[p] \in Content /\ disk[p] = meta[p].data  BY <1>3 DEF Content
  <2> QED  BY <1>2, <1>3, <1>5, <2>2, <2>3 DEF Rests1
<1> QED  BY <1>5, <1>6, RestsInv

\* What is saved of p, if all entries are for it: what one of them has left
LEMMA SavedIsOf ==
  ASSUME ReplicaInv, NEW p \in Existing, OnlyFor(p)
  PROVE  /\ meta_file \in Meta
         /\ \E k \in 0..Top : meta_file[p] = FileAfter(p, k)
         /\ meta_file[p] \in Version /\ meta_file[p].version \in Nat
         /\ meta_file[p].version <= meta[p].version
<1>1. /\ Kept(p) /\ OnItsWay(p) /\ MetaIs(p) /\ LogOK
      /\ handed \in 0..MaxLog /\ MaxLog \in Nat
      /\ \A n \in 1..MaxLog : Place(n) # "none" <=> n <= handed
      /\ Top \in 0..MaxLog /\ Top \in Nat /\ handed <= Top
  BY ReplicaAssumption, TopIs DEF ReplicaInv, Kept, FileInv, Handed
<1>2. meta[p].version \in Nat  BY <1>1, MemoryIs
<1>3. CASE \A n \in 1..MaxLog : Place(n) \notin OnSave
  <2>1. meta_file[p] = meta[p] /\ meta_file \in Meta  BY <1>1, <1>3 DEF OnItsWay
  <2> QED  BY <1>1, <1>2, <2>1, MemoryIs DEF MetaIs
<1>4. ASSUME NEW n \in 1..MaxLog, Place(n) \in OnSave
      PROVE  /\ meta_file \in Meta
             /\ \E k \in 0..Top : meta_file[p] = FileAfter(p, k)
             /\ meta_file[p] \in Version /\ meta_file[p].version \in Nat
             /\ meta_file[p].version <= meta[p].version
  <2>1. meta_file[p] = FileAfter(p, n - 1) /\ meta_file \in Meta
    BY <1>1, <1>4 DEF OnItsWay
  <2>2. Place(n) \in Holding  BY <1>4 DEF OnSave, Holding
  <2>3. p = log[n].path  BY <1>1, LogLength DEF OnlyFor
  <2>4. Writing(n, p) /\ n <= handed  BY <1>1, <2>2, <2>3, WritingFacts
  <2>5. meta[p] = FileAfter(p, n) /\ FileAfter(p, n).version = FileAfter(p, n - 1).version + 1
    BY <1>4, <2>4 DEF Writing
  <2>6. n - 1 \in 0..Top /\ n - 1 \in 0..MaxLog  BY <1>1, <2>4
  <2>7. FileAfter(p, n - 1) \in Version /\ FileAfter(p, n - 1).version \in Nat
    BY <1>1, <2>6, AfterType
  <2>8. FileAfter(p, n - 1).version <= FileAfter(p, n - 1).version + 1  BY <2>7
  <2> QED  BY <2>1, <2>5, <2>6, <2>7, <2>8
<1> QED  BY <1>3, <1>4

\* While it restarts, a replica loses what is in memory and not saved; what is
\* in a file and not in the metadata that were saved, the replay makes again.
LEMMA MatchingAgain ==
  ASSUME ReplicaInv, NEW p \in Existing, OnlyFor(p)
  PROVE  /\ disk[p] \in Content
         /\ \/ disk[p] = meta_file[p].data
            \/ meta_file[p].version < FileAfter(p, Top).version
<1>1. /\ LogOK /\ Top \in 0..MaxLog /\ replay \in 0..MaxLog /\ handed <= Top /\ replay <= Top
      /\ Top \in Nat /\ handed \in 0..MaxLog /\ MaxLog \in Nat /\ Kept(p)
      /\ Matching(p)
      /\ \A n \in 1..MaxLog : Place(n) # "none" => n <= handed
  BY TopIs, ReplicaAssumption DEF ReplicaInv, Handed, FileInv, Kept
<1>2. PICK k \in 0..Top : meta_file[p] = FileAfter(p, k)  BY SavedIsOf
<1>3. PICK m \in 0..MaxLog : meta[p] = FileAfter(p, m)  BY <1>1, MemoryIs
<1>4. k \in 0..MaxLog /\ k <= Top  BY <1>1, <1>2
<1>5. /\ meta[p].version \in Nat /\ meta_file[p].version \in Nat
      /\ FileAfter(p, Top).version \in Nat /\ FileAfter(p, replay).version \in Nat
  BY <1>1, <1>2, <1>3, <1>4, AfterType
<1>6. meta_file[p].version <= meta[p].version  BY SavedIsOf
<1>7. meta[p].version <= FileAfter(p, Top).version  BY <1>1, MemoryIs
<1>8. FileAfter(p, replay).version <= FileAfter(p, Top).version  BY <1>1, AfterGrows
<1>9. CASE meta_file[p].version < meta[p].version
  <2>1. meta_file[p].version < FileAfter(p, Top).version  BY <1>5, <1>7, <1>9
  <2> QED  BY <1>1, <2>1 DEF Matching
<1>10. CASE meta_file[p].version = meta[p].version
  <2>1. meta_file[p] = meta[p]  BY <1>1, <1>2, <1>3, <1>4, <1>10, AfterSame
  <2>2. CASE meta[p].version < FileAfter(p, replay).version
    <3>1. meta_file[p].version < FileAfter(p, Top).version  BY <1>5, <1>8, <1>10, <2>2
    <3> QED  BY <1>1, <3>1 DEF Matching
  <2>3. ASSUME NEW n \in 1..MaxLog, IsPut(n, p), Place(n) \in {"write", "written"}
        PROVE  meta_file[p].version < FileAfter(p, Top).version
    <3>1. Place(n) \in Holding /\ Place(n) # "none"  BY <2>3 DEF Holding
    <3>2. Writing(n, p)  BY <1>1, <2>3, <3>1 DEF ReplicaInv, FileInv
    <3>3. /\ meta[p] = FileAfter(p, n - 1)
          /\ FileAfter(p, n).version = FileAfter(p, n - 1).version + 1
      BY <2>3, <3>2 DEF Writing
    <3>4. n \in 0..MaxLog /\ n <= Top  BY <1>1, <3>1
    <3>5. FileAfter(p, n).version \in Nat  BY <1>1, <3>4, AfterType
    <3>6. FileAfter(p, n).version <= FileAfter(p, Top).version  BY <1>1, <3>4, AfterGrows
    <3>7. FileAfter(p, n).version = meta[p].version + 1  BY <3>3
    <3> QED  BY <1>5, <1>10, <3>5, <3>6, <3>7
  <2> QED  BY <1>1, <2>1, <2>2, <2>3 DEF Matching
<1> QED  BY <1>5, <1>6, <1>9, <1>10

LEMMA RestartKeeps ==
  ASSUME ReplicaInv, RestartReplica
  PROVE  ReplicaInv'
<1>1. /\ restarts' = restarts + 1 /\ meta' = Loaded /\ lock' = [p \in Path |-> None]
      /\ call' = [h \in Call |-> NotReceived] /\ handed' = 0 /\ tmp' = Closed
      /\ replay' = Top /\ UNCHANGED <<disk, meta_file, op_log, log>>
  BY DEF RestartReplica, Top
<1>2. LogOK /\ Typing /\ Top \in 0..MaxLog /\ Top \in Nat  BY TopIs DEF ReplicaInv, Handed
<1>3. Typing'
  <2>1. NotReceived \in CallState /\ NotReceived.pc = "none" /\ NotReceived.code = "none"
        /\ NotReceived.data \in Content
    BY DEF NotReceived, CallState, Content
  <2>2. meta' \in Meta  BY <1>1, <1>2 DEF Loaded, Meta
  <2>3. tmp' \in Temporary  BY <1>1, <1>2 DEF Closed, Typing, TypeOK, Temporary
  <2>4. TypeOK'  BY <1>1, <1>2, <2>1, <2>2, <2>3 DEF Typing, TypeOK
  <2>5. \A h \in Call : Fits(call[h], disk)'  BY <1>1, <2>1 DEF Fits, Threads
  <2> QED  BY <2>4, <2>5 DEF Typing
<1>4. /\ LogOK' /\ \A p, n : FileAfter(p, n)' = FileAfter(p, n)
      /\ \A p : OnlyFor(p)' <=> OnlyFor(p)
  BY <1>1, <1>2, LogStays
<1>5. Top' = Top
  <2>1. Top' = IF 0 > Top THEN 0 ELSE Top  BY <1>1 DEF Top
  <2> QED  BY <1>2, <2>1
<1>6. Rests'  BY <1>1, <1>2, <1>3, <1>4 DEF Rests
<1>7. tmp'.open = {} /\ tmp'.moved = {}
  BY <1>1, <1>2 DEF Closed, Typing, TypeOK, Temporary
<1>8. ASSUME NEW p \in Existing, Kept(p)' PROVE Rests1(p)'
  <2>1. restarts' # 0  BY <1>1, <1>2 DEF Typing, TypeOK
  <2>2. OnlyFor(p)  BY <1>4, <1>8, <2>1 DEF Kept
  <2>3. meta_file \in Meta /\ \E k \in 0..Top : meta_file[p] = FileAfter(p, k)
    BY <2>2, SavedIsOf
  <2>4. meta' = meta_file  BY <1>1, <2>3 DEF Loaded
  <2>5. MetaIs(p)'  BY <1>4, <1>5, <2>3, <2>4 DEF MetaIs
  <2>6. /\ disk'[p] \in Content
        /\ \/ disk'[p] = meta'[p].data
           \/ meta'[p].version < FileAfter(p, Top).version
    BY <1>1, <2>2, <2>4, MatchingAgain
  <2>7. FileAfter(p, replay)' = FileAfter(p, Top)  BY <1>1 DEF FileAfter
  <2>8. meta_file' = meta_file /\ meta_file'[p] = meta'[p]  BY <1>1, <2>4
  <2> QED  BY <1>6, <1>7, <2>3, <2>5, <2>6, <2>7, <2>8 DEF Rests1
<1>9. (Rests /\ \A p \in Existing : Kept(p) => Rests1(p))'  BY <1>6, <1>8
<1> QED  BY <1>9, RestsInv, PTL

\* A step of a task
LEMMA StepKeeps ==
  ASSUME ReplicaInv, NEW h \in Call, Step(h)
  PROVE  ReplicaInv'
<1>1. /\ h[2] \in 1..MaxLog /\ h = task(h[2]) /\ Typing' /\ GoesOn(h) /\ TaskStep(h[2])
      /\ Enters(h)
  BY StepIs
<1>2. PICK n \in 1..MaxLog : n = h[2] /\ h = task(n)  BY <1>1
<1>3. Handed' /\ \A g \in Call : Placed(g)'  BY <1>1, GoesOnKeeps
<1>4. \A p : Kept(p)' <=> Kept(p)  BY <1>1, KeptStays DEF GoesOn
<1>5. call[h].pc # "none"  BY <1>1 DEF GoesOn
<1>6. call[h].req = log[n] /\ call[h].req.op \in {"Create", "PutFile"} /\ ~Cancelled(h)
      /\ h[1] = "task" /\ Placed(h)
  BY <1>2, <1>5, CallFacts
<1>7. GoesOn(task(n)) /\ TaskStep(n)  BY <1>1, <1>2
<1>8. ASSUME NEW p \in Existing, Kept(p), p = log[n].path PROVE FileInv(p)'
  <2>1. CASE call[h].req.op = "Create"  BY <1>6, <1>8, <2>1, CreateKeeps
  <2>2. CASE call[h].req.op = "PutFile"
    <3>1. \/ StartPutFile(h) /\ InOrder(h)
          \/ Truncate(h) \/ Write(h) \/ Written(h) \/ Save(h) \/ Fill(h) \/ Replace(h)
      BY <1>6, <2>2 DEF Step, StartCreate, Begins, Look, Placed
    <3>2. CASE StartPutFile(task(n)) /\ InOrder(task(n))
      <4>1. CASE Current(task(n))  BY <1>7, <1>8, <3>2, <4>1, TaskStartsKeeps
      <4>2. CASE ~Current(task(n))  BY <1>7, <1>8, <3>2, <4>2, TaskFailsKeeps
      <4> QED  BY <4>1, <4>2
    <3>3. CASE \/ Truncate(task(n)) \/ Write(task(n)) \/ Written(task(n))
               \/ Save(task(n)) \/ Fill(task(n)) \/ Replace(task(n))
      BY <1>7, <1>8, <3>3, TruncateWorks, WriteWorks, WrittenWorks, SaveWorks, FillWorks,
         ReplaceWorks
    <3> QED  BY <1>2, <3>1, <3>2, <3>3
  <2> QED  BY <1>6, <2>1, <2>2
<1>9. ASSUME NEW p \in Existing, Kept(p), p # log[n].path PROVE FileInv(p)'
  BY <1>7, <1>9, OtherPath
<1> QED  BY <1>1, <1>3, <1>4, <1>8, <1>9 DEF ReplicaInv

\* Nothing changes.
LEMMA StutterKeeps ==
  ASSUME ReplicaInv, UNCHANGED replicaVars
  PROVE  ReplicaInv'
<1>1. UNCHANGED <<meta, disk, meta_file, tmp, lock, op_log, call, restarts, log, handed, replay>>
  BY DEF replicaVars, vars
<1>2. Typing'  BY <1>1 DEF ReplicaInv, Typing, TypeOK
<1>3. LogOK'  BY <1>1, LogStays DEF ReplicaInv, Handed
<1>4. Handed'  BY <1>1, <1>3 DEF ReplicaInv, Handed, Place
<1>5. \A p : Kept(p)' <=> Kept(p)  BY <1>1, KeptStays
<1>6. \A h \in Call : Placed(h)'  BY <1>1, <1>5 DEF ReplicaInv, Placed, Cancelled
<1>7. IdleStep  BY <1>1 DEF IdleStep
<1> QED  BY <1>2, <1>4, <1>6, <1>7, IdleInv

LEMMA LedStays ==
  [ReplicaNext]_replicaVars /\ ~led' => ~led /\ \A n \in 1..MaxLog : ~Execute(n)
BY DEF ReplicaNext, replicaVars, Execute, HandOver, RestartReplica, Step

\* As long as the replica has only followed
Following == ~led => ReplicaInv

LEMMA FollowingNext == Following /\ [ReplicaNext]_replicaVars => Following'
<1> SUFFICES ASSUME ~led', ReplicaInv, [ReplicaNext]_replicaVars PROVE ReplicaInv'
  BY LedStays DEF Following
<1>1. \A n \in 1..MaxLog : ~Execute(n)  BY LedStays
<1> QED  BY <1>1, HandOverKeeps, RestartKeeps, StepKeeps, StutterKeeps DEF ReplicaNext

LEMMA FollowingHolds == ReplicaSpec => []Following
<1>1. ReplicaInit => Following  BY InitInv DEF Following
<1> QED  BY <1>1, FollowingNext, PTL DEF ReplicaSpec

-----------------------------------------------------------------------------
(* The theorems.                                                           *)

\* Once the tasks of all entries handed over have come to an end, a replica that
\* follows holds of a file that exists exactly what the entries determine
\* (apply_to_state_machine, apply_put_idem), whatever the order in which the
\* tasks took their steps, tasks that create files among them; if all entries
\* are for that file, after any number of crashes and replays as well.
THEOREM ReplicaHoldsLog == ReplicaSpec => []AppliedInOrder
<1>1. Following => AppliedInOrder
  <2> SUFFICES ASSUME ReplicaInv, Resting, handed >= replay, NEW p \in Existing, Kept(p)
               PROVE  Holds(p)
    BY DEF AppliedInOrder, CaughtUp, Following
  <2>1. /\ LogOK /\ handed \in 0..MaxLog /\ replay \in 0..MaxLog /\ MaxLog \in Nat
        /\ \A n \in 1..MaxLog : Place(n) # "none" <=> n <= handed
        /\ Applied(p) /\ Matching(p)
    BY ReplicaAssumption DEF ReplicaInv, Handed, FileInv
  <2>2. ASSUME NEW n \in 1..MaxLog PROVE Place(n) \in {"none", "done"}
    BY Tasks DEF Resting, Place
  <2>3. \A n \in 1..handed : Past(n)  BY <2>1, <2>2 DEF Past
  <2>4. FileAfter(p, handed).version <= meta[p].version  BY <2>1, <2>3 DEF Applied
  <2>5. Top = handed  BY <2>1 DEF Top
  <2>6. PICK m \in 0..MaxLog : meta[p] = FileAfter(p, m)  BY MemoryIs
  <2>7. /\ meta[p].version <= FileAfter(p, handed).version /\ meta[p].version \in Nat
        /\ FileAfter(p, handed).version \in Nat
    BY <2>5, MemoryIs
  <2>8. meta[p] = FileAfter(p, handed)
    <3>1. FileAfter(p, m).version = FileAfter(p, handed).version  BY <2>4, <2>6, <2>7
    <3> QED  BY <2>1, <2>6, <3>1, AfterSame
  <2>9. meta[p] # None  BY MemoryIs
  <2>10. disk[p] = meta[p].data
    <3>1. FileAfter(p, replay).version <= meta[p].version
      BY <2>1, <2>8, AfterGrows
    <3>2. FileAfter(p, replay).version \in Nat  BY <2>1, AfterType
    <3>3. ~(meta[p].version < FileAfter(p, replay).version)  BY <2>7, <3>1, <3>2
    <3>4. \A n \in 1..MaxLog : Place(n) \notin {"write", "written"}  BY <2>2
    <3> QED  BY <2>1, <3>3, <3>4 DEF Matching
  <2> QED  BY <2>8, <2>9, <2>10 DEF Holds
<1> QED  BY <1>1, FollowingHolds, PTL

\* What the tasks that are done have applied is saved (_save_meta), so that a
\* crash never takes a replica that follows behind them, if all entries are for
\* one file.
THEOREM ReplicaSaves == ReplicaSpec => []AppliedIsSaved
<1>1. Following => AppliedIsSaved
  <2> SUFFICES ASSUME ReplicaInv, NEW n \in 1..handed, NEW p \in Existing,
                      \A k \in 1..n : call[task(k)].pc = "done", OnlyFor(p)
               PROVE  VersionIn(Loaded[p]) >= VersionIn(FileAfter(p, n))
    BY DEF AppliedIsSaved, Following
  <2>1. /\ LogOK /\ handed \in 0..MaxLog /\ MaxLog \in Nat /\ OnItsWay(p) /\ Applied(p)
    BY ReplicaAssumption DEF ReplicaInv, Handed, FileInv, Kept
  <2>2. n \in 1..MaxLog /\ n \in 0..MaxLog /\ n \in 0..handed  BY <2>1
  <2>3. FileAfter(p, n) \in Version /\ FileAfter(p, n).version \in Nat
    BY <2>1, <2>2, AfterType
  <2>4. meta_file[p] \in Version /\ meta_file[p].version \in Nat /\ meta_file \in Meta
    BY SavedIsOf
  <2>5. meta_file[p].version >= FileAfter(p, n).version
    <3>1. CASE \A k \in 1..MaxLog : Place(k) \notin OnSave
      <4>1. meta_file[p] = meta[p]  BY <2>1, <3>1 DEF OnItsWay
      <4>2. \A k \in 1..n : Past(k)  BY DEF Past, Place
      <4>3. FileAfter(p, n).version <= meta[p].version  BY <2>1, <2>2, <4>2 DEF Applied
      <4> QED  BY <2>3, <2>4, <4>1, <4>3
    <3>2. ASSUME NEW k \in 1..MaxLog, Place(k) \in OnSave
          PROVE  meta_file[p].version >= FileAfter(p, n).version
      <4>1. k \notin 1..n  BY <3>2 DEF Place, OnSave
      <4>2. k - 1 \in 0..MaxLog /\ n <= k - 1  BY <2>1, <2>2, <4>1
      <4>3. meta_file[p] = FileAfter(p, k - 1)  BY <2>1, <3>2 DEF OnItsWay
      <4>4. FileAfter(p, n).version <= FileAfter(p, k - 1).version
        BY <2>1, <2>2, <4>2, AfterGrows
      <4> QED  BY <2>3, <2>4, <4>3, <4>4
    <3> QED  BY <3>1, <3>2
  <2>6. Loaded[p] = meta_file[p]  BY <2>4 DEF Loaded
  <2> QED  BY <2>3, <2>4, <2>5, <2>6, NoneAssumption DEF VersionIn
<1> QED  BY <1>1, FollowingHolds, PTL

\* On a replica that follows, each change of the metadata of a file that exists
\* is the effect of one entry on what the entries before it have left: no entry
\* takes effect twice or is skipped.
THEOREM ReplicaMovesAlongLog == ReplicaSpec => MovesAlongLog
<1> DEFINE Along == \A p \in Existing :
                      ~led' /\ Kept(p) /\ meta'[p] # meta[p] /\ restarts' = restarts =>
                        \E n \in 1..handed : /\ meta[p] = FileAfter(p, n - 1)
                                             /\ meta'[p] = FileAfter(p, n)
<1>1. Following /\ [ReplicaNext]_replicaVars => [Along]_replicaVars
  <2> SUFFICES ASSUME ReplicaInv, ReplicaNext, ~led' PROVE Along
    BY LedStays DEF Following
  <2>1. CASE HandOver  BY <2>1 DEF HandOver
  <2>2. CASE RestartReplica
    <3>1. restarts \in Nat /\ restarts' = restarts + 1
      BY <2>2 DEF RestartReplica, ReplicaInv, Typing, TypeOK
    <3> QED  BY <3>1
  <2>3. ASSUME NEW h \in Call, Step(h), NEW p \in Existing, Kept(p), meta'[p] # meta[p]
        PROVE  \E n \in 1..handed : /\ meta[p] = FileAfter(p, n - 1)
                                    /\ meta'[p] = FileAfter(p, n)
    <3>1. PICK n \in 1..MaxLog : h = task(n) /\ n = h[2] /\ TaskStep(n)
      BY <2>3, StepIs
    <3>2. p = log[n].path /\ n <= handed  BY <2>3, <3>1, FileAssumption DEF TaskStep
    <3>3. Written(h)
      BY <2>3 DEF Step, StartCreate, StartPutFile, Look, Truncate, Write, Save, Fill,
                  Replace, Deadline
    <3>4. meta[p] = FileAfter(p, n - 1) /\ meta'[p] = FileAfter(p, n)
      BY <2>3, <3>1, <3>2, <3>3, WrittenIs
    <3>5. n \in 1..handed  BY <3>2, ReplicaAssumption DEF ReplicaInv, Handed
    <3> QED  BY <3>4, <3>5
  <2> QED  BY <2>1, <2>2, <2>3, LedStays DEF ReplicaNext
<1> QED  BY <1>1, FollowingHolds, PTL DEF ReplicaSpec, MovesAlongLog
=============================================================================

--------------------------- MODULE AFSClientProofs --------------------------
(***************************************************************************)
(* Theorems about AFSClient, for any clients and bounds, as long as        *)
(* followers keep step: a cached copy with the current label is the file,  *)
(* an open shows what had been closed, and no update is lost, though       *)
(* GetFile reads files that are half written, except where open_sync_read  *)
(* has mixed two versions in a copy.                                       *)
(***************************************************************************)
EXTENDS AFSClient, TLAPS

-----------------------------------------------------------------------------
(* The inductive invariant speaks of one client at a time: of the versions *)
(* h, whether a write is under way (b), its copy k and its operation o.    *)

\* data is one of the versions from v on.
Served(h, data, v) == \E n \in 1..Len(h) : n >= v /\ h[n].data = data

\* v is current and will not be replaced by a write that is under way: only
\* then TestAuth and PutFile take it, now or later.
Counts(h, b, v) == v = Len(h) /\ v > 0 /\ ~b

\* What the copy k is worth if it is labelled v.
Worth(h, b, k, v) ==
  Counts(h, b, v) =>
    /\ ~k.dirty /\ ~k.cut => h[Len(h)].data = k.data
    /\ k.cut \/ h[Len(h)].data \subseteq k.data

\* The label, and all an operation remembers, are versions of the file.
Bounded(h, k, o) ==
  /\ k.label <= Len(h) /\ o.ver <= Len(h)
  /\ o.base <= Len(h) /\ o.since <= Len(h)

Opening == Modes \cup {"create"}

\* The bytes under way in an operation, and the label they will get
Fetched(h, b, k, o) ==
  /\ o.pc \in {"stamp", "store"} /\ ~o.met => Served(h, o.got, o.since)
  /\ o.pc = "stamp" /\ o.ver = Len(h) => b \/ (Len(h) > 0 /\ h[Len(h)].data = o.got)
  /\ o.pc = "store" =>
       \A v \in {k.label, o.ver} : Counts(h, b, v) => o.mixed \/ h[Len(h)].data = o.got
  /\ o.pc = "label" /\ k.exists => Worth(h, b, k, o.ver)
  /\ o.pc = "label" /\ o.mode \in Opening
       => k.exists /\ ~k.dirty /\ (~o.met => Served(h, k.data, o.since))

\* A file that is open or on its way to the servers
Opened(h, k, o) ==
  /\ o.pc = "test" /\ o.mode # "sync" => k.exists /\ k.label > 0
  /\ o.pc \in {"have", "open", "flush"} => k.exists
  /\ o.pc \in {"have", "open"} /\ ~k.dirty /\ ~k.cut /\ ~o.met => Served(h, k.data, o.since)
  /\ o.pc \in {"open", "flush"} => o.base = k.label

\* A Create meets a file that this client has never had.
Creating(h, k, o) ==
  /\ o.pc \notin {"stamp", "store"} => o.got = {}
  /\ o.pc = "create" => o.since = 0
  /\ o.made => /\ o.pc = "create" /\ k.label = 0
               /\ Len(h) > 0 /\ h[1].data = {}

Good(h, b, k, o) ==
  /\ k \in Copy /\ o \in Operation
  /\ Bounded(h, k, o)
  /\ k.exists => Worth(h, b, k, k.label)
  /\ Fetched(h, b, k, o) /\ Opened(h, k, o) /\ Creating(h, k, o)

\* What is sent builds on the last version.
Builds(h, r) == r.cut \/ h = <<>> \/ h[Len(h)].data \subseteq r.data

\* A write that comes late
Follows(h, r) == Builds(h, r) /\ (r.creator # None => h = <<>> /\ r.data = {})

\* The client c waits for the write p, with the file it has sent.
Sender(p, c, k, o) ==
  p # None /\ p.by = c => o.pc = "flush" /\ k.data = p.data /\ k.cut = p.cut

\* The write under way: others are not late, but will be refused.
Leads(h, p, l) ==
  /\ p \in Put \cup {None} /\ l \subseteq Late /\ \A r \in l : Follows(h, r)
  /\ p # None => Builds(h, p) /\ l = {}

Busy == put # None

Inv ==
  /\ hist \in Seq(Version) /\ edits \in Nat
  /\ Leads(hist, put, late)
  /\ cache = [c \in Client |-> cache[c]] /\ op = [c \in Client |-> op[c]]
  /\ \A c \in Client : Good(hist, Busy, cache[c], op[c])
  /\ \A c \in Client : Sender(put, c, cache[c], op[c])
  /\ NoLostUpdate

-----------------------------------------------------------------------------
(* Versions are only added.                                                *)

Extends(h, g) == Len(h) <= Len(g) /\ \A n \in 1..Len(h) : g[n] = h[n]

LEMMA ServedOn ==
  ASSUME NEW h \in Seq(Version), NEW g \in Seq(Version), Extends(h, g),
         NEW d, NEW v, Served(h, d, v)
  PROVE  Served(g, d, v)
<1>1. PICK n \in 1..Len(h) : n >= v /\ h[n].data = d  BY DEF Served
<1>2. n \in 1..Len(g) /\ g[n] = h[n]  BY <1>1 DEF Extends
<1> QED  BY <1>1, <1>2 DEF Served

\* What was good for a client stays so when others add a version.
LEMMA Grows ==
  ASSUME NEW h \in Seq(Version), NEW g \in Seq(Version), Extends(h, g),
         Len(h) < Len(g), NEW b, NEW bb, NEW k, NEW o,
         Good(h, b, k, o)
  PROVE  Good(g, bb, k, o)
<1>1. Len(h) \in Nat /\ Len(g) \in Nat /\ Len(h) < Len(g)  OBVIOUS
<1>2. /\ k.label \in Nat /\ o.ver \in Nat /\ o.base \in Nat /\ o.since \in Nat
      /\ k.label <= Len(h) /\ o.ver <= Len(h)
  BY DEF Good, Bounded, Copy, Operation
<1>3. Bounded(g, k, o)  BY <1>1, <1>2 DEF Good, Bounded
<1>4. ~Counts(g, bb, k.label) /\ ~Counts(g, bb, o.ver)  BY <1>1, <1>2 DEF Counts
<1>5. Worth(g, bb, k, k.label) /\ Worth(g, bb, k, o.ver)  BY <1>4 DEF Worth
<1>6. Fetched(g, bb, k, o)  BY <1>1, <1>2, <1>4, <1>5, ServedOn DEF Good, Fetched
<1>7. Opened(g, k, o)  BY ServedOn DEF Good, Opened
<1>8. Creating(g, k, o)
  <2>1. Len(h) > 0 => g[1] = h[1] /\ Len(g) > 0  BY <1>1 DEF Extends
  <2> QED  BY <2>1 DEF Good, Creating
<1> QED  BY <1>3, <1>5, <1>6, <1>7, <1>8 DEF Good

\* So it does when a write begins.
LEMMA Begins ==
  ASSUME NEW h, NEW b, NEW k, NEW o, Good(h, b, k, o)
  PROVE  Good(h, TRUE, k, o)
BY DEF Good, Fetched, Worth, Counts

LEMMA Appended ==
  ASSUME NEW h \in Seq(Version), NEW e \in Version
  PROVE  /\ Append(h, e) \in Seq(Version)
         /\ Len(Append(h, e)) = Len(h) + 1
         /\ Append(h, e)[Len(h) + 1] = e
         /\ Extends(h, Append(h, e))
BY DEF Extends

\* A step of one client, which the others need not know of.
LEMMA Quiet ==
  ASSUME Inv, NEW c \in Client, hist' = hist, edits' \in Nat,
         Leads(hist, put', late'), put = None \/ put' # None,
         put' \in {put, PutWithout(c)} \/ (put = None /\ put'.by = c),
         cache' = [cache EXCEPT ![c] = cache'[c]], op' = [op EXCEPT ![c] = op'[c]],
         Good(hist, Busy', cache'[c], op'[c]), Sender(put', c, cache'[c], op'[c])
  PROVE  Inv'
<1>1. /\ cache' = [d \in Client |-> cache'[d]] /\ op' = [d \in Client |-> op'[d]]
      /\ \A d \in Client \ {c} : cache'[d] = cache[d] /\ op'[d] = op[d]
  BY DEF Inv
<1>2. NoLostUpdate' /\ hist' \in Seq(Version)  BY DEF Inv, NoLostUpdate
<1>3. ASSUME NEW d \in Client
      PROVE  Good(hist', Busy', cache'[d], op'[d]) /\ Sender(put', d, cache'[d], op'[d])
  <2>1. CASE d = c  BY <2>1
  <2>2. CASE d # c
    <3>1. Good(hist, Busy, cache[d], op[d]) /\ Sender(put, d, cache[d], op[d])
      BY DEF Inv
    <3>2. Good(hist, Busy', cache[d], op[d])
      <4>1. CASE Busy' = Busy  BY <3>1, <4>1
      <4>2. CASE Busy' # Busy
        <5>1. Busy' = TRUE  BY <4>2 DEF Busy
        <5> QED  BY <3>1, <5>1, Begins
      <4> QED  BY <4>1, <4>2
    <3>3. Sender(put', d, cache[d], op[d])
      <4>1. CASE put' = put  BY <3>1, <4>1
      <4>2. CASE put' # put /\ put' = PutWithout(c)
        <5>1. put \in Put /\ put' = [put EXCEPT !.by = None]
          BY <4>2 DEF PutWithout, Awaits, Inv, Leads
        <5>2. put'.by = None  BY <5>1 DEF Put
        <5> QED  BY <5>2, ClientAssumption DEF Sender
      <4>3. CASE put'.by = c  BY <2>2, <4>3 DEF Sender
      <4> QED  BY <4>1, <4>2, <4>3
    <3> QED  BY <1>1, <2>2, <3>2, <3>3
  <2> QED  BY <2>1, <2>2
<1> QED  BY <1>1, <1>2, <1>3 DEF Inv

\* A step that only moves the operation of c on
LEMMA Moving ==
  ASSUME Inv, NEW c \in Client, NEW o, Good(hist, Busy, cache[c], o),
         op[c].pc # "flush" \/ ~Awaits(c),
         op' = [op EXCEPT ![c] = o], UNCHANGED <<hist, put, late, cache, edits>>
  PROVE  Inv'
<1>1. op' = [op EXCEPT ![c] = op'[c]] /\ op'[c] = o  BY DEF Inv
<1>2. cache' = [cache EXCEPT ![c] = cache'[c]] /\ cache'[c] = cache[c]  BY DEF Inv
<1>3. hist' = hist /\ edits' \in Nat /\ Leads(hist, put', late') /\ Busy' = Busy
  BY DEF Inv, Busy
<1>4. Good(hist, Busy', cache'[c], op'[c])  BY <1>1, <1>2, <1>3
<1>5. Sender(put', c, cache'[c], op'[c])  BY DEF Inv, Sender, Awaits
<1> QED  BY <1>1, <1>2, <1>3, <1>4, <1>5, Quiet

\* A step that changes the copy of c as well
LEMMA Changing ==
  ASSUME Inv, NEW c \in Client, NEW k, NEW o, Good(hist, Busy, k, o),
         op[c].pc # "flush",
         cache' = [cache EXCEPT ![c] = k], op' = [op EXCEPT ![c] = o],
         UNCHANGED <<hist, put, late>>, edits' \in Nat
  PROVE  Inv'
<1>1. /\ op' = [op EXCEPT ![c] = op'[c]] /\ op'[c] = o
      /\ cache' = [cache EXCEPT ![c] = cache'[c]] /\ cache'[c] = k
  BY DEF Inv
<1>2. hist' = hist /\ Leads(hist, put', late') /\ Busy' = Busy  BY DEF Inv, Busy
<1>3. Good(hist, Busy', cache'[c], op'[c])  BY <1>1, <1>2
<1>4. Sender(put', c, cache'[c], op'[c])  BY DEF Inv, Sender
<1> QED  BY <1>1, <1>2, <1>3, <1>4, Quiet

-----------------------------------------------------------------------------
(* One lemma per action.                                                   *)

USE DEF Modes, Opening

LEMMA Starting ==
  ASSUME Inv, NEW c \in Client,
         NEW mode \in Modes \cup {"sync", "create", "put"}, Start(c, mode)
  PROVE  Inv'
<1>1. Good(hist, Busy, cache[c], op[c])  BY DEF Inv
<1>2. Leads(hist, put', late') /\ put' = put /\ Busy' = Busy
  <2>1. \A r \in late : Follows(hist, r)
          => [r EXCEPT !.creator = None] \in Late /\ Follows(hist, [r EXCEPT !.creator = None])
    BY DEF Inv, Leads, Late, Follows, Builds
  <2> QED  BY <2>1 DEF Start, Inv, Leads, Busy
<1>3. cache' = [cache EXCEPT ![c] = cache'[c]] /\ cache'[c] = cache[c]
  BY DEF Start, Inv
<1>4. op' = [op EXCEPT ![c] = op'[c]]
      /\ op'[c] = [op[c] EXCEPT !.pc = FirstStep(c, mode), !.mode = mode,
                                !.since = IF mode \in Modes THEN Len(hist) ELSE 0,
                                !.base = IF mode = "put" THEN cache[c].label ELSE 0]
  BY DEF Start, Inv
<1>5. op[c].pc = "idle" /\ op[c] \in Operation /\ Len(hist) \in Nat
      /\ cache[c].label \in Nat /\ (mode = "put" => cache[c].exists)
  BY <1>1 DEF Start, Good, Copy, Inv
<1>6. FirstStep(c, mode) \in {"test", "version", "create", "flush"}
      /\ (FirstStep(c, mode) = "test" => cache[c].exists /\ cache[c].label > 0)
      /\ (FirstStep(c, mode) = "create" <=> mode = "create")
      /\ (FirstStep(c, mode) = "flush" <=> mode = "put")
  BY DEF FirstStep
<1>7. op'[c] \in Operation
  <2>1. (IF mode \in Modes THEN Len(hist) ELSE 0) \in Nat
        /\ (IF mode = "put" THEN cache[c].label ELSE 0) \in Nat
    BY <1>5
  <2> QED  BY <1>4, <1>5, <1>6, <2>1 DEF Operation
<1>8. /\ op'[c].pc = FirstStep(c, mode) /\ op'[c].mode = mode /\ op'[c].met = op[c].met
      /\ op'[c].ver = op[c].ver /\ op'[c].got = op[c].got /\ op'[c].made = op[c].made
      /\ op'[c].since = (IF mode \in Modes THEN Len(hist) ELSE 0)
      /\ op'[c].base = (IF mode = "put" THEN cache[c].label ELSE 0)
  BY <1>4, <1>5 DEF Operation
<1>9. Bounded(hist, cache[c], op'[c])  BY <1>1, <1>5, <1>8 DEF Good, Bounded
<1>10. /\ Fetched(hist, Busy, cache[c], op'[c]) /\ Opened(hist, cache[c], op'[c])
       /\ Creating(hist, cache[c], op'[c])
  BY <1>1, <1>5, <1>6, <1>8 DEF Good, Fetched, Opened, Creating
<1>11. Good(hist, Busy, cache[c], op'[c])
  BY <1>1, <1>7, <1>9, <1>10 DEF Good
<1>12. ~Awaits(c)  BY <1>5 DEF Inv, Sender, Awaits
<1>13. Sender(put', c, cache'[c], op'[c])  BY <1>2, <1>12 DEF Sender, Awaits
<1>14. Good(hist, Busy', cache'[c], op'[c])  BY <1>2, <1>3, <1>11
<1>15. hist' = hist /\ edits' \in Nat  BY DEF Start, Inv
<1> QED  BY <1>2, <1>3, <1>4, <1>13, <1>14, <1>15, Quiet

\* An operation may end at any moment.
LEMMA Ending ==
  ASSUME NEW h \in Seq(Version), NEW b, NEW k, NEW o, Good(h, b, k, o)
  PROVE  Good(h, b, k, Idle)
<1>1. Idle \in Operation  BY DEF Idle, Operation, Content
<1>2. /\ Idle.pc = "idle" /\ Idle.ver = 0 /\ Idle.base = 0 /\ Idle.since = 0
      /\ Idle.got = {} /\ Idle.made = FALSE
  BY DEF Idle
<1>3. Len(h) \in Nat  OBVIOUS
<1> QED
  BY <1>1, <1>2, <1>3 DEF Good, Bounded, Fetched, Opened, Creating

\* A copy labelled with the last version builds on it.
LEMMA BuildsOnLast ==
  ASSUME NEW h \in Seq(Version), NEW k \in Copy, Worth(h, FALSE, k, Len(h))
  PROVE  Builds(h, k)
<1>1. CASE Len(h) = 0  BY <1>1 DEF Builds
<1>2. CASE Len(h) # 0  BY <1>2 DEF Worth, Counts, Builds
<1> QED  BY <1>1, <1>2

LEMMA Waiting ==
  ASSUME Inv, NEW c \in Client
  PROVE  /\ PutWithout(c) \in Put \cup {None}
         /\ PutWithout(c) = None <=> put = None
         /\ PutWithout(c) # None => PutWithout(c).by # c
         /\ Builds(hist, put) /\ put # None => Builds(hist, PutWithout(c))
<1>1. put \in Put \cup {None}  BY DEF Inv, Leads
<1>2. CASE Awaits(c)
  <2>1. put \in Put /\ PutWithout(c) = [put EXCEPT !.by = None]
    BY <1>1, <1>2 DEF Awaits, PutWithout
  <2>2. /\ PutWithout(c) \in Put /\ PutWithout(c).by = None
        /\ PutWithout(c).data = put.data /\ PutWithout(c).cut = put.cut
    BY <2>1 DEF Put
  <2>3. PutWithout(c) # None  BY <2>2, NoneAssumption
  <2> QED  BY <1>2, <2>2, <2>3, ClientAssumption DEF Awaits, Builds
<1>3. CASE ~Awaits(c)
  <2>1. PutWithout(c) = put  BY <1>3 DEF PutWithout
  <2> QED  BY <1>1, <1>3, <2>1 DEF Awaits
<1> QED  BY <1>2, <1>3

LEMMA Missing ==
  ASSUME Inv, NEW c \in Client, Miss(c)
  PROVE  Inv'
<1>1. Good(hist, Busy, cache[c], op[c]) /\ hist \in Seq(Version) /\ Leads(hist, put, late)
  BY DEF Inv
<1>2. ASSUME NEW r \in LeftBehind(c) PROVE put = None /\ r \in Late /\ Follows(hist, r)
  <2>1. CASE op[c].pc = "flush" /\ put = None /\ op[c].base = Len(hist)
    <3>1. r = [data |-> cache[c].data, cut |-> cache[c].cut, creator |-> None]
      BY <1>2, <2>1 DEF LeftBehind
    <3>2. Worth(hist, FALSE, cache[c], Len(hist)) /\ cache[c] \in Copy
      BY <1>1, <2>1 DEF Good, Opened, Busy
    <3>3. Builds(hist, cache[c])  BY <1>1, <3>2, BuildsOnLast
    <3> QED  BY <2>1, <3>1, <3>2, <3>3 DEF Late, Follows, Builds, Copy
  <2>2. CASE op[c].pc = "create" /\ put = None /\ hist = <<>>
    <3>1. r = [data |-> {}, cut |-> FALSE, creator |-> c]
      BY <1>2, <2>2 DEF LeftBehind
    <3> QED  BY <2>2, <3>1 DEF Late, Follows, Builds, Content
  <2> QED  BY <1>2, <2>1, <2>2 DEF LeftBehind
<1>3. Leads(hist, put', late')
  <2>1. late' \in {late, late \cup LeftBehind(c)} /\ put' = PutWithout(c)
    BY DEF Miss
  <2>2. late' \subseteq Late /\ \A r \in late' : Follows(hist, r)
    BY <1>1, <1>2, <2>1 DEF Leads
  <2>3. put # None => late' = {}
    <3>1. put # None => LeftBehind(c) = {}  BY <1>2
    <3> QED  BY <1>1, <2>1, <3>1 DEF Leads
  <2>4. put' \in Put \cup {None} /\ (put' # None => put # None /\ Builds(hist, put'))
    BY <1>1, <2>1, Waiting DEF Leads
  <2> QED  BY <2>2, <2>3, <2>4 DEF Leads
<1>4. cache' = [cache EXCEPT ![c] = cache'[c]] /\ cache'[c] = cache[c]
  BY DEF Miss, Inv
<1>5. PICK o \in {Again(c), AfterFailure(c)} : op' = [op EXCEPT ![c] = o]
  BY DEF Miss
<1>6. op' = [op EXCEPT ![c] = op'[c]] /\ op'[c] = o  BY <1>5 DEF Inv
<1>7. Good(hist, Busy, cache[c], Again(c))
  <2>1. CASE op[c].pc = "stamp"
    <3>1. Again(c) = [op[c] EXCEPT !.pc = "bytes", !.got = {}]
      BY <1>1, <2>1 DEF Again, At, Good, Operation
    <3>2. /\ Again(c).pc = "bytes" /\ Again(c).got = {} /\ Again(c) \in Operation
          /\ \A f \in {"mode", "ver", "base", "since", "made", "met"} :
               Again(c)[f] = op[c][f]
      BY <1>1, <3>1 DEF Good, Operation, Content
    <3> QED
      BY <1>1, <2>1, <3>2 DEF Good, Bounded, Fetched, Opened, Creating
  <2>2. CASE op[c].pc # "stamp"
    <3>1. Again(c) = op[c]  BY <2>2 DEF Again
    <3> QED  BY <1>1, <3>1
  <2> QED  BY <2>1, <2>2
<1>8. Good(hist, Busy, cache[c], AfterFailure(c))
  <2>1. CASE op[c].pc = "test" /\ op[c].mode \in Modes
    <3>1. AfterFailure(c) = [op[c] EXCEPT !.pc = "version"]  BY <2>1 DEF AfterFailure, At
    <3>2. /\ AfterFailure(c).pc = "version" /\ AfterFailure(c) \in Operation
          /\ \A f \in {"mode", "ver", "got", "base", "since", "made", "met"} :
               AfterFailure(c)[f] = op[c][f]
      BY <1>1, <3>1 DEF Good, Operation
    <3> QED
      BY <1>1, <2>1, <3>2 DEF Good, Bounded, Fetched, Opened, Creating
  <2>2. CASE ~(op[c].pc = "test" /\ op[c].mode \in Modes)
    BY <1>1, <2>2, Ending DEF AfterFailure
  <2> QED  BY <2>1, <2>2
<1>9. put' \in {PutWithout(c)} /\ Busy' = Busy /\ (put = None \/ put' # None)
      /\ Sender(put', c, cache'[c], op'[c])
  BY Waiting DEF Miss, Busy, Sender
<1>10. Good(hist, Busy', cache'[c], op'[c])
  BY <1>4, <1>5, <1>6, <1>7, <1>8, <1>9
<1>11. hist' = hist /\ edits' \in Nat  BY DEF Miss, Inv
<1> QED  BY <1>3, <1>4, <1>6, <1>9, <1>10, <1>11, Quiet

\* The step of an operation to another pc, with another ver
LEMMA Fields ==
  ASSUME NEW o \in Operation, NEW pc, NEW v
  PROVE  LET p == [o EXCEPT !.pc = pc, !.ver = v] IN
         /\ p.pc = pc /\ p.ver = v
         /\ p.mode = o.mode /\ p.got = o.got /\ p.base = o.base
         /\ p.since = o.since /\ p.made = o.made /\ p.met = o.met
BY DEF Operation

LEMMA Testing ==
  ASSUME Inv, ~Lag, NEW c \in Client, TestAuth(c)
  PROVE  Inv'
<1>1. Good(hist, Busy, cache[c], op[c]) /\ hist \in Seq(Version) /\ Len(hist) \in Nat
  BY DEF Inv
<1>2. PICK pc \in {"bytes", "label", "version", "have"}, m \in BOOLEAN :
        /\ op' = [op EXCEPT ![c].met = m, ![c].pc = pc]
        /\ pc = "have" => op[c].mode # "sync" /\ Len(hist) = cache[c].label /\ m = Busy
        /\ pc = "label" => op[c].mode = "sync" /\ Len(hist) = cache[c].label
  BY DEF TestAuth, Held, Busy
<1> DEFINE o == [op[c] EXCEPT !.met = m, !.pc = pc]
<1>3. op' = [op EXCEPT ![c] = o]  BY <1>2 DEF Inv
<1>4. /\ o.pc = pc /\ o.ver = op[c].ver /\ o.mode = op[c].mode /\ o.got = op[c].got
      /\ o.base = op[c].base /\ o.since = op[c].since /\ o.made = op[c].made
      /\ o.met = m
  BY <1>1 DEF Good, Operation
<1>5. o \in Operation  BY <1>1, <1>2, <1>4 DEF Good, Operation
<1>6. Bounded(hist, cache[c], o) /\ Creating(hist, cache[c], o)
  BY <1>1, <1>2, <1>4 DEF Good, Bounded, Creating, TestAuth
<1>7. /\ op[c].pc = "test" /\ cache[c].label \in Nat
      /\ op[c].ver \in Nat /\ op[c].since \in Nat
      /\ op[c].ver <= Len(hist) /\ op[c].since <= Len(hist)
  BY <1>1 DEF TestAuth, Good, Bounded, Operation, Copy
<1>8. Fetched(hist, Busy, cache[c], o)
  <2>1. pc = "label" /\ cache[c].exists => Worth(hist, Busy, cache[c], op[c].ver)
    BY <1>1, <1>2, <1>7 DEF Good, Worth, Counts
  <2> QED  BY <1>2, <1>4, <2>1 DEF Fetched
<1>9. Opened(hist, cache[c], o)
  <2>1. pc = "have" => cache[c].exists /\ cache[c].label > 0
    BY <1>1, <1>2, <1>7 DEF Good, Opened
  <2>2. pc = "have" /\ ~m /\ ~cache[c].dirty /\ ~cache[c].cut
          => hist[Len(hist)].data = cache[c].data
    BY <1>1, <1>2, <1>7, <2>1 DEF Good, Worth, Counts
  <2>3. pc = "have" /\ ~m /\ ~cache[c].dirty /\ ~cache[c].cut
          => Served(hist, cache[c].data, op[c].since)
    <3>1. pc = "have" => Len(hist) \in 1..Len(hist)  BY <1>1, <1>2, <1>7, <2>1
    <3> QED  BY <1>7, <2>2, <3>1 DEF Served
  <2> QED  BY <1>2, <1>4, <2>1, <2>3 DEF Opened
<1>10. Good(hist, Busy, cache[c], o)  BY <1>1, <1>5, <1>6, <1>8, <1>9 DEF Good
<1> QED  BY <1>3, <1>7, <1>10, Moving DEF TestAuth

LEMMA Looking ==
  ASSUME Inv, ~Lag, NEW c \in Client, Open(c)
  PROVE  Inv'
<1>1. Good(hist, Busy, cache[c], op[c]) /\ hist \in Seq(Version) /\ Len(hist) \in Nat
  BY DEF Inv
<1>2. PICK pc \in {"test", "bytes"} :
        /\ op' = [op EXCEPT ![c].pc = pc, ![c].ver = Len(hist)]
        /\ pc = "test" => op[c].mode = "sync"
  BY DEF Open, Held
<1> DEFINE o == [op[c] EXCEPT !.pc = pc, !.ver = Len(hist)]
<1>3. op' = [op EXCEPT ![c] = o]  BY <1>1, <1>2 DEF Inv
<1>4. /\ o.pc = pc /\ o.ver = Len(hist) /\ o.mode = op[c].mode /\ o.got = op[c].got
      /\ o.base = op[c].base /\ o.since = op[c].since /\ o.made = op[c].made
  BY <1>1, Fields DEF Good
<1>5. o \in Operation  BY <1>1, <1>2, <1>4 DEF Good, Operation
<1>6. Good(hist, Busy, cache[c], o)
  BY <1>1, <1>2, <1>4, <1>5
  DEF Good, Bounded, Fetched, Opened, Creating, Open
<1> QED  BY <1>3, <1>6, Moving DEF Open

LEMMA Fetching ==
  ASSUME Inv, ~Lag, NEW c \in Client, GetFile(c)
  PROVE  Inv'
<1>1. Good(hist, Busy, cache[c], op[c]) /\ hist \in Seq(Version) /\ Len(hist) \in Nat
  BY DEF Inv
<1>2. op[c].pc = "bytes" /\ Held = {Len(hist)}  BY DEF GetFile, Held
<1>3. CASE op' = [op EXCEPT ![c] = Idle]
  BY <1>1, <1>2, <1>3, Ending, Moving DEF GetFile
<1>4. ASSUME NEW g \in Bytes(Len(hist)),
             op' = [op EXCEPT ![c] =
                      [@ EXCEPT !.got = g, !.met = put # None,
                                !.pc = IF op[c].mode = "sync" THEN "stamp" ELSE "store",
                                !.ver = IF op[c].mode = "sync" THEN Len(hist)
                                        ELSE op[c].ver]]
      PROVE  Inv'
  <2> DEFINE v == IF op[c].mode = "sync" THEN Len(hist) ELSE op[c].ver
             pc == IF op[c].mode = "sync" THEN "stamp" ELSE "store"
             o == [op[c] EXCEPT !.got = g, !.met = put # None, !.pc = pc, !.ver = v]
  <2>1. op' = [op EXCEPT ![c] = o]  BY <1>4
  <2>2. g \in Content /\ (~Busy => Len(hist) > 0 /\ g = hist[Len(hist)].data)
    <3>1. CASE put = None
      <4>1. Len(hist) # 0 /\ g = hist[Len(hist)].data  BY <1>4, <3>1 DEF Bytes
      <4>2. hist[Len(hist)] \in Version  BY <1>1, <4>1
      <4> QED  BY <1>1, <4>1, <4>2 DEF Version
    <3>2. CASE put # None
      <4>1. put \in Put  BY <3>2 DEF Inv, Leads
      <4>2. g \in {put.data} \/ g \in SUBSET put.data  BY <1>1, <1>4, <3>2 DEF Bytes
      <4> QED  BY <3>2, <4>1, <4>2 DEF Put, Content, Busy
    <3> QED  BY <3>1, <3>2
  <2>3. v \in Nat /\ v <= Len(hist)  BY <1>1 DEF Good, Bounded, Operation
  <2>4. /\ o.pc = pc /\ o.ver = v /\ o.got = g /\ o.met = Busy /\ o.mode = op[c].mode
        /\ o.base = op[c].base /\ o.since = op[c].since /\ o.made = op[c].made
    BY <1>1 DEF Good, Operation, Busy
  <2>5. o \in Operation  BY <1>1, <2>2, <2>3 DEF Good, Operation
  <2>6. op[c].since \in Nat /\ op[c].since <= Len(hist)
    BY <1>1 DEF Good, Bounded, Operation
  <2>7. ~Busy => Served(hist, g, op[c].since)
    <3>1. ~Busy => Len(hist) \in 1..Len(hist)  BY <1>1, <2>2
    <3> QED  BY <2>2, <2>6, <3>1 DEF Served
  <2>8. Bounded(hist, cache[c], o)  BY <1>1, <2>3, <2>4 DEF Good, Bounded
  <2>9. Fetched(hist, Busy, cache[c], o) /\ Opened(hist, cache[c], o)
    BY <2>2, <2>4, <2>7 DEF Fetched, Opened, Counts
  <2>10. Creating(hist, cache[c], o)
    BY <1>1, <1>2, <2>4 DEF Good, Creating
  <2>11. Good(hist, Busy, cache[c], o)
    BY <1>1, <2>5, <2>8, <2>9, <2>10 DEF Good
  <2> QED  BY <1>2, <2>1, <2>11, Moving DEF GetFile
<1> QED  BY <1>2, <1>3, <1>4 DEF GetFile

LEMMA Stamping ==
  ASSUME Inv, ~Lag, NEW c \in Client, Stamp(c)
  PROVE  Inv'
<1> DEFINE m == Len(hist) # op[c].ver
           o == [op[c] EXCEPT !.pc = "store", !.ver = Len(hist), !.mixed = m]
<1>1. Good(hist, Busy, cache[c], op[c]) /\ hist \in Seq(Version) /\ Len(hist) \in Nat
  BY DEF Inv
<1>2. op[c].pc = "stamp" /\ op' = [op EXCEPT ![c] = o]  BY DEF Stamp, Held, Inv
<1>3. /\ o.pc = "store" /\ o.ver = Len(hist) /\ o.mode = op[c].mode /\ o.got = op[c].got
      /\ o.base = op[c].base /\ o.since = op[c].since /\ o.made = op[c].made
      /\ o.met = op[c].met /\ o.mixed = m
  BY <1>1 DEF Good, Operation
<1>4. o \in Operation  BY <1>1 DEF Good, Operation
<1>5. Fetched(hist, Busy, cache[c], o)
  BY <1>1, <1>2, <1>3 DEF Good, Fetched, Counts
<1>6. Good(hist, Busy, cache[c], o)
  BY <1>1, <1>2, <1>3, <1>4, <1>5 DEF Good, Bounded, Opened, Creating
<1> QED  BY <1>2, <1>6, Moving DEF Stamp

LEMMA Storing ==
  ASSUME Inv, NEW c \in Client, Store(c)
  PROVE  Inv'
<1> DEFINE k == [NoCopy EXCEPT !.exists = TRUE, !.data = op[c].got,
                               !.cut = op[c].mixed, !.label = cache[c].label]
           o == [At(c, "label") EXCEPT !.got = {}, !.mixed = FALSE]
<1>1. Good(hist, Busy, cache[c], op[c]) /\ hist \in Seq(Version) /\ Len(hist) \in Nat
  BY DEF Inv
<1>2. /\ k \in Copy /\ k.exists /\ ~k.dirty /\ k.cut = op[c].mixed
      /\ k.data = op[c].got /\ k.label = cache[c].label
  BY <1>1 DEF NoCopy, Good, Copy, Operation
<1>3. /\ o \in Operation /\ o.pc = "label" /\ o.got = {} /\ o.mode = op[c].mode
      /\ o.ver = op[c].ver /\ o.base = op[c].base /\ o.since = op[c].since
      /\ o.made = op[c].made /\ o.met = op[c].met
  BY <1>1 DEF At, Good, Operation, Content
<1>4. Worth(hist, Busy, k, k.label) /\ Worth(hist, Busy, k, o.ver)
  BY <1>1, <1>2, <1>3 DEF Store, Good, Fetched, Worth
<1>5. ~o.met => Served(hist, k.data, o.since)
  BY <1>1, <1>2, <1>3 DEF Store, Good, Fetched
<1>6. Bounded(hist, k, o)  BY <1>1, <1>2, <1>3 DEF Good, Bounded
<1>7. Fetched(hist, Busy, k, o) /\ Opened(hist, k, o)
  BY <1>2, <1>3, <1>4, <1>5 DEF Fetched, Opened
<1>8. Creating(hist, k, o)  BY <1>1, <1>3 DEF Good, Creating, Store
<1>9. Good(hist, Busy, k, o)  BY <1>2, <1>3, <1>4, <1>6, <1>7, <1>8 DEF Good
<1> QED  BY <1>9, Changing DEF Store, Inv

LEMMA Labelling ==
  ASSUME Inv, NEW c \in Client, Label(c)
  PROVE  Inv'
<1> DEFINE k == [cache[c] EXCEPT !.label = op[c].ver]
           o == IF op[c].mode \in Opening THEN At(c, "have") ELSE Idle
<1>1. Good(hist, Busy, cache[c], op[c]) /\ hist \in Seq(Version) /\ Len(hist) \in Nat
  BY DEF Inv
<1>2. /\ k \in Copy /\ k.label = op[c].ver /\ k.exists = cache[c].exists
      /\ k.data = cache[c].data /\ k.dirty = cache[c].dirty /\ k.cut = cache[c].cut
  BY <1>1 DEF Good, Copy, Operation
<1>3. k.exists => Worth(hist, Busy, k, k.label)
  BY <1>1, <1>2 DEF Label, Good, Fetched, Worth
<1>4. Good(hist, Busy, k, op[c])
  BY <1>1, <1>2, <1>3
  DEF Label, Good, Bounded, Fetched, Opened, Creating, Worth
<1>5. Good(hist, Busy, k, o)
  <2>1. CASE op[c].mode \in Opening
    <3>1. /\ o \in Operation /\ o.pc = "have" /\ o.got = op[c].got
          /\ o.ver = op[c].ver /\ o.base = op[c].base /\ o.since = op[c].since
          /\ o.made = op[c].made /\ o.met = op[c].met
      BY <1>1, <2>1 DEF At, Good, Operation
    <3> QED
      BY <1>4, <2>1, <3>1 DEF Label, Good, Bounded, Fetched, Opened, Creating
  <2>2. CASE op[c].mode \notin Opening  BY <1>1, <1>4, <2>2, Ending
  <2> QED  BY <2>1, <2>2
<1> QED  BY <1>5, Changing DEF Label, Inv

LEMMA LocallyOpening ==
  ASSUME Inv, NEW c \in Client, OpenLocal(c)
  PROVE  Inv'
<1> DEFINE o == [At(c, "open") EXCEPT !.base = cache[c].label, !.ver = 0]
           e == [cache[c] EXCEPT !.data = {}, !.cut = TRUE, !.dirty = TRUE]
           k == IF op[c].mode # "w" THEN cache[c] ELSE e
<1>1. Good(hist, Busy, cache[c], op[c]) /\ hist \in Seq(Version) /\ Len(hist) \in Nat
  BY DEF Inv
<1>2. /\ e \in Copy /\ e.label = cache[c].label /\ e.exists = cache[c].exists
      /\ e.dirty /\ e.cut
  BY <1>1 DEF Good, Copy, Content
<1>3. /\ o \in Operation /\ o.pc = "open" /\ o.ver = 0 /\ o.base = cache[c].label
      /\ o.got = op[c].got /\ o.since = op[c].since /\ o.made = op[c].made
      /\ o.met = op[c].met
  BY <1>1 DEF At, Good, Operation, Copy
<1>4. Good(hist, Busy, cache[c], o)
  BY <1>1, <1>3 DEF OpenLocal, Good, Bounded, Fetched, Opened, Creating
<1>5. Good(hist, Busy, e, o)
  BY <1>2, <1>3, <1>4 DEF Good, Bounded, Fetched, Opened, Creating, Worth
<1>6. cache' = [cache EXCEPT ![c] = k]  BY DEF OpenLocal, Inv
<1> QED  BY <1>4, <1>5, <1>6, Changing DEF OpenLocal, Inv

LEMMA Writing ==
  ASSUME Inv, NEW c \in Client, Write(c)
  PROVE  Inv'
<1> DEFINE k == [cache[c] EXCEPT !.data = cache[c].data \cup {edits + 1}, !.dirty = TRUE]
<1>1. Good(hist, Busy, cache[c], op[c]) /\ hist \in Seq(Version) /\ edits + 1 \in Nat
  BY DEF Inv
<1>2. /\ k.label = cache[c].label /\ k.exists = cache[c].exists /\ k.dirty
      /\ k.cut = cache[c].cut /\ cache[c].data \subseteq k.data
      /\ k \in Copy
  BY <1>1 DEF Good, Copy, Content
<1>3. Worth(hist, Busy, cache[c], cache[c].label) => Worth(hist, Busy, k, k.label)
  BY <1>2 DEF Worth
<1>4. Good(hist, Busy, k, op[c])
  BY <1>1, <1>2, <1>3 DEF Write, Good, Bounded, Fetched, Opened, Creating
<1>5. op' = [op EXCEPT ![c] = op[c]]  BY DEF Write, Inv
<1>6. cache' = [cache EXCEPT ![c] = k]  BY DEF Write
<1> QED  BY <1>1, <1>4, <1>5, <1>6, Changing DEF Write

LEMMA Closing ==
  ASSUME Inv, NEW c \in Client, Close(c)
  PROVE  Inv'
<1> DEFINE o == [At(c, "flush") EXCEPT !.mode = "close", !.since = 0]
<1>1. Good(hist, Busy, cache[c], op[c]) /\ hist \in Seq(Version) /\ Len(hist) \in Nat
  BY DEF Inv
<1>2. CASE op[c].mode = "r"
  BY <1>1, <1>2, Ending, Moving DEF Close
<1>3. CASE op[c].mode # "r"
  <2>1. /\ o \in Operation /\ o.pc = "flush" /\ o.ver = op[c].ver /\ o.base = op[c].base
        /\ o.got = op[c].got /\ o.since = 0 /\ o.made = op[c].made
    BY <1>1 DEF At, Good, Operation
  <2>2. Good(hist, Busy, cache[c], o)
    BY <1>1, <2>1 DEF Close, Good, Bounded, Fetched, Opened, Creating
  <2> QED  BY <1>3, <2>2, Moving DEF Close
<1> QED  BY <1>2, <1>3

\* Only a write that builds on the last version is added.
LEMMA AddedKeeps ==
  ASSUME NEW h \in Seq(Version), NEW e \in Version,
         e.cut \/ h = <<>> \/ h[Len(h)].data \subseteq e.data,
         \A n \in 1..Len(h) - 1 : h[n + 1].cut \/ h[n].data \subseteq h[n + 1].data
  PROVE  LET g == Append(h, e) IN
         \A n \in 1..Len(g) - 1 : g[n + 1].cut \/ g[n].data \subseteq g[n + 1].data
<1> DEFINE g == Append(h, e)
<1>1. Len(g) = Len(h) + 1 /\ g[Len(h) + 1] = e /\ Extends(h, g)  BY Appended
<1> HIDE DEF g
<1> SUFFICES ASSUME NEW n \in 1..Len(g) - 1
             PROVE  g[n + 1].cut \/ g[n].data \subseteq g[n + 1].data
  BY DEF g
<1>2. CASE n = Len(h)
  <2>1. h # <<>> /\ g[n] = h[Len(h)]  BY <1>1, <1>2 DEF Extends
  <2> QED  BY <1>1, <1>2, <2>1
<1>3. CASE n # Len(h)
  <2>1. n \in 1..Len(h) - 1 /\ g[n] = h[n] /\ g[n + 1] = h[n + 1]
    BY <1>1, <1>3 DEF Extends
  <2> QED  BY <2>1
<1> QED  BY <1>2, <1>3

LEMMA Putting ==
  ASSUME Inv, NEW c \in Client, PutFile(c)
  PROVE  Inv'
<1>1. /\ Good(hist, Busy, cache[c], op[c]) /\ hist \in Seq(Version)
      /\ Len(hist) \in Nat /\ op[c].pc = "flush" /\ put = None
  BY DEF Inv, PutFile, Begin, Free
<1>2. /\ put' = [data |-> cache[c].data, cut |-> cache[c].cut, by |-> c, whole |-> FALSE]
      /\ late' = {} /\ UNCHANGED <<hist, cache, edits, op>>
  BY DEF PutFile, Begin, Free
<1>3. /\ put' \in Put /\ put'.data = cache[c].data /\ put'.cut = cache[c].cut
      /\ put'.by = c /\ put' # None
  <2>1. /\ put' \in Put /\ put'.data = cache[c].data /\ put'.cut = cache[c].cut
        /\ put'.by = c
    BY <1>1, <1>2 DEF Put, Good, Copy
  <2> QED  BY <2>1, NoneAssumption
<1>4. Builds(hist, put')
  <2>1. Worth(hist, FALSE, cache[c], Len(hist)) /\ cache[c] \in Copy
    <3>1. op[c].base = Len(hist)  BY DEF PutFile, Accepts
    <3> QED  BY <1>1, <3>1 DEF Good, Opened, Busy
  <2>2. Builds(hist, cache[c])  BY <1>1, <2>1, BuildsOnLast
  <2> QED  BY <1>3, <2>2 DEF Builds
<1>5. Leads(hist, put', late')  BY <1>2, <1>3, <1>4 DEF Leads
<1>6. /\ cache' = [cache EXCEPT ![c] = cache'[c]] /\ op' = [op EXCEPT ![c] = op'[c]]
      /\ cache'[c] = cache[c] /\ op'[c] = op[c]
  BY <1>2 DEF Inv
<1>7. Good(hist, Busy', cache'[c], op'[c])
  <2>1. Busy' = TRUE  BY <1>3 DEF Busy
  <2>2. Good(hist, TRUE, cache[c], op[c])  BY <1>1, Begins
  <2> QED  BY <1>6, <2>1, <2>2
<1>8. Sender(put', c, cache'[c], op'[c])  BY <1>1, <1>3, <1>6 DEF Sender
<1>9. edits' \in Nat  BY <1>2 DEF Inv
<1> QED  BY <1>1, <1>2, <1>3, <1>5, <1>6, <1>7, <1>8, <1>9, Quiet

LEMMA Refusing ==
  ASSUME Inv, NEW c \in Client, Refuse(c)
  PROVE  Inv'
<1>1. Good(hist, Busy, cache[c], op[c]) /\ hist \in Seq(Version)  BY DEF Inv
<1>2. Good(hist, Busy, cache[c], Idle)  BY <1>1, Ending
<1> QED  BY <1>2, Moving DEF Refuse

\* A step of the write under way that no client sees
LEMMA Progress ==
  ASSUME Inv, UNCHANGED <<hist, cache, op, edits>>, Leads(hist, put', late'),
         put' # None, put = None \/ put'.by = put.by, put' # None => put'.by = None \/ put # None,
         put # None => put'.data = put.data /\ put'.cut = put.cut
  PROVE  Inv'
<1>1. Busy' = TRUE  BY DEF Busy
<1>2. ASSUME NEW c \in Client
      PROVE  Good(hist, Busy', cache[c], op[c]) /\ Sender(put', c, cache[c], op[c])
  <2>1. Good(hist, TRUE, cache[c], op[c])  BY Begins DEF Inv
  <2>2. Sender(put, c, cache[c], op[c])  BY DEF Inv
  <2>3. Sender(put', c, cache[c], op[c])  BY <2>2, ClientAssumption DEF Sender
  <2> QED  BY <1>1, <2>1, <2>3
<1>3. NoLostUpdate'  BY DEF Inv, NoLostUpdate
<1> QED  BY <1>2, <1>3 DEF Inv

LEMMA WritingOn ==
  ASSUME Inv, Written
  PROVE  Inv'
<1>1. put \in Put /\ put' = [put EXCEPT !.whole = TRUE]  BY DEF Written, Inv, Leads
<1>2. /\ put' \in Put /\ put'.by = put.by /\ put'.data = put.data /\ put'.cut = put.cut
  BY <1>1 DEF Put
<1>3. Leads(hist, put', late')
  BY <1>2 DEF Written, Inv, Leads, Builds
<1> QED  BY <1>2, <1>3, NoneAssumption, Progress DEF Written

LEMMA RunningLate ==
  ASSUME Inv, NEW r \in late, RunLate(r)
  PROVE  Inv'
<1>1. /\ put' = [data |-> r.data, cut |-> r.cut, by |-> None, whole |-> FALSE]
      /\ late' = {} /\ put = None /\ UNCHANGED <<hist, cache, edits, op>>
  BY DEF RunLate, Begin, Free
<1>2. r \in Late /\ Follows(hist, r)  BY DEF Inv, Leads
<1>3. /\ put' \in Put /\ put'.by = None /\ put'.data = r.data /\ put'.cut = r.cut
  BY <1>1, <1>2 DEF Put, Late
<1>4. Leads(hist, put', late')
  BY <1>1, <1>2, <1>3 DEF Leads, Follows, Builds
<1> QED  BY <1>1, <1>3, <1>4, NoneAssumption, Progress

\* A new version: what nobody takes for the last one is good as it was.
LEMMA Arrives ==
  ASSUME Inv, NEW e \in Version, Builds(hist, e), hist' = Append(hist, e),
         put' = None, late' = {}, edits' = edits,
         cache' = [c \in Client |-> cache'[c]], op' = [c \in Client |-> op'[c]],
         \A c \in Client : \/ cache'[c] = cache[c] /\ op'[c] = op[c]
                           \/ Good(hist', FALSE, cache'[c], op'[c])
  PROVE  Inv'
<1>1. hist \in Seq(Version)  BY DEF Inv
<1>2. /\ hist' \in Seq(Version) /\ Len(hist') = Len(hist) + 1 /\ Extends(hist, hist')
  BY <1>1, Appended
<1>3. NoLostUpdate'
  BY <1>1, AddedKeeps DEF Inv, NoLostUpdate, Builds
<1>4. ASSUME NEW c \in Client PROVE Good(hist', FALSE, cache'[c], op'[c])
  <2>1. Good(hist, Busy, cache[c], op[c]) /\ Len(hist) < Len(hist')
    BY <1>1, <1>2 DEF Inv
  <2>2. Good(hist', FALSE, cache[c], op[c])
    BY <1>1, <1>2, <2>1, Grows
  <2> QED  BY <2>2
<1>5. Busy' = FALSE /\ Leads(hist', put', late')  BY DEF Busy, Leads
<1>6. \A c \in Client : Sender(put', c, cache'[c], op'[c])  BY DEF Sender
<1> QED  BY <1>2, <1>3, <1>4, <1>5, <1>6 DEF Inv

LEMMA EndingPut ==
  ASSUME Inv, EndPut
  PROVE  Inv'
<1> DEFINE e == [data |-> put.data, cut |-> put.cut]
<1>1. hist \in Seq(Version) /\ Len(hist) \in Nat  BY DEF Inv
<1>2. /\ put \in Put /\ put # None /\ Builds(hist, put) /\ late = {}
      /\ hist' = Append(hist, e) /\ put' = None /\ late' = {} /\ edits' = edits
  BY DEF EndPut, Add, Inv, Leads
<1>3. e \in Version /\ Builds(hist, e) /\ e.data = put.data
  BY <1>2 DEF Put, Version, Builds
<1>4. /\ hist' \in Seq(Version) /\ Len(hist') = Len(hist) + 1
      /\ hist'[Len(hist) + 1] = e /\ Extends(hist, hist')
  BY <1>1, <1>2, <1>3, Appended
<1>5. CASE put.by = None
  <2>1. UNCHANGED <<op, cache>>  BY <1>5 DEF EndPut
  <2>2. cache' = [c \in Client |-> cache'[c]] /\ op' = [c \in Client |-> op'[c]]
    BY <2>1 DEF Inv
  <2>3. \A c \in Client : cache'[c] = cache[c] /\ op'[c] = op[c]
    BY <1>2, <2>1
  <2> HIDE DEF e
  <2> QED  BY <1>2, <1>3, <2>2, <2>3, Arrives
<1>6. CASE put.by # None
  <2> DEFINE c == put.by
             k == [cache[c] EXCEPT !.dirty = FALSE, !.cut = FALSE]
             o == [op[c] EXCEPT !.pc = "label", !.ver = Len(hist) + 1]
  <2>1. c \in Client /\ Answered(c)  BY <1>2, <1>6 DEF EndPut, Put
  <2>2. /\ Good(hist, Busy, cache[c], op[c])
        /\ op[c].pc = "flush" /\ cache[c].data = put.data /\ cache[c].exists
    <3>1. Sender(put, c, cache[c], op[c]) /\ Good(hist, Busy, cache[c], op[c])
      BY <2>1 DEF Inv
    <3> QED  BY <1>2, <3>1 DEF Sender, Good, Opened
  <2>3. Good(hist', FALSE, cache[c], op[c])
    <3>1. Len(hist) < Len(hist')  BY <1>1, <1>4
    <3> HIDE DEF c, e
    <3> QED  BY <1>1, <1>4, <2>2, <3>1, Grows
  <2>4. CASE op' = [op EXCEPT ![c] = Idle] /\ UNCHANGED cache
    <3>1. Good(hist', FALSE, cache[c], Idle)  BY <1>4, <2>3, Ending
    <3>2. /\ cache' = [d \in Client |-> cache'[d]] /\ op' = [d \in Client |-> op'[d]]
          /\ op'[c] = Idle /\ cache'[c] = cache[c]
          /\ \A d \in Client \ {c} : cache'[d] = cache[d] /\ op'[d] = op[d]
      BY <2>1, <2>4 DEF Inv
    <3>3. \A d \in Client : \/ cache'[d] = cache[d] /\ op'[d] = op[d]
                            \/ Good(hist', FALSE, cache'[d], op'[d])
      BY <1>2, <3>1, <3>2
    <3> HIDE DEF e, c
    <3> QED  BY <1>2, <1>3, <3>2, <3>3, Arrives
  <2>5. CASE /\ op' = [op EXCEPT ![c].pc = "label", ![c].ver = Len(hist) + 1]
             /\ cache' = [cache EXCEPT ![c] = [@ EXCEPT !.dirty = FALSE, !.cut = FALSE]]
    <3>1. /\ cache' = [d \in Client |-> cache'[d]] /\ op' = [d \in Client |-> op'[d]]
          /\ cache'[c] = k /\ op'[c] = o
          /\ \A d \in Client \ {c} : cache'[d] = cache[d] /\ op'[d] = op[d]
      BY <2>1, <2>5 DEF Inv
    <3>2. /\ k \in Copy /\ k.label = cache[c].label /\ k.exists
          /\ k.data = put.data /\ ~k.dirty /\ ~k.cut
      BY <2>2 DEF Good, Copy
    <3>3. /\ o.pc = "label" /\ o.ver = Len(hist) + 1 /\ o.mode = op[c].mode
          /\ o.got = op[c].got /\ o.base = op[c].base /\ o.since = op[c].since
          /\ o.made = op[c].made /\ o.met = op[c].met
      BY <2>2, Fields DEF Good
    <3>4. o \in Operation
      <4>1. op[c] \in Operation /\ Len(hist) + 1 \in Nat  BY <1>1, <2>2 DEF Good
      <4> QED  BY <4>1 DEF Operation
    <3>5. \A v : Worth(hist', FALSE, k, v)
      BY <1>3, <1>4, <3>2 DEF Worth
    <3>6. Served(hist', k.data, o.since)
      <4>1. Len(hist) + 1 \in 1..Len(hist') /\ hist'[Len(hist) + 1].data = k.data
        BY <1>1, <1>3, <1>4, <3>2
      <4>2. o.since \in Nat /\ o.since <= Len(hist) + 1
        BY <1>1, <2>2, <3>3 DEF Good, Bounded, Operation
      <4> QED  BY <4>1, <4>2 DEF Served
    <3>7. Bounded(hist', k, o)
      BY <1>1, <1>4, <2>3, <3>2, <3>3 DEF Good, Bounded
    <3>8. Fetched(hist', FALSE, k, o) /\ Opened(hist', k, o)
      BY <3>2, <3>3, <3>5, <3>6 DEF Fetched, Opened
    <3>9. Creating(hist', k, o)
      BY <2>2, <3>3 DEF Good, Creating
    <3>10. Good(hist', FALSE, k, o)
      BY <3>2, <3>4, <3>5, <3>7, <3>8, <3>9 DEF Good
    <3>11. \A d \in Client : \/ cache'[d] = cache[d] /\ op'[d] = op[d]
                             \/ Good(hist', FALSE, cache'[d], op'[d])
      BY <1>2, <3>1, <3>10
    <3> HIDE DEF e, c, k, o
    <3> QED  BY <1>2, <1>3, <3>1, <3>11, Arrives
  <2> QED  BY <2>1, <2>4, <2>5 DEF Answered
<1> QED  BY <1>5, <1>6

LEMMA CreatingLate ==
  ASSUME Inv, NEW r \in late, CreateLate(r)
  PROVE  Inv'
<1> DEFINE e == [data |-> r.data, cut |-> r.cut]
<1>1. /\ r \in Late /\ Follows(hist, r) /\ r.creator # None /\ put = None
      /\ hist \in Seq(Version) /\ hist' = Append(hist, e)
      /\ UNCHANGED <<put, cache, edits>> /\ late' = {}
  BY DEF Inv, Leads, CreateLate, Add, Free
<1>2. /\ e \in Version /\ Builds(hist, e) /\ e.data = {} /\ hist = <<>>
  BY <1>1 DEF Late, Version, Follows, Builds
<1>3. hist' \in Seq(Version) /\ Extends(hist, hist') /\ Len(hist') = 1 /\ hist'[1] = e
  <2> HIDE DEF e
  <2>1. Len(hist) = 0 /\ Len(hist) + 1 = 1  BY <1>2
  <2>2. /\ hist' \in Seq(Version) /\ Extends(hist, hist')
        /\ Len(hist') = Len(hist) + 1 /\ hist'[Len(hist) + 1] = e
    BY <1>1, <1>2, Appended
  <2> QED  BY <2>1, <2>2
<1>4. ASSUME NEW c \in Client
      PROVE  \/ cache'[c] = cache[c] /\ op'[c] = op[c]
             \/ Good(hist', FALSE, cache'[c], op'[c])
  <2>1. Good(hist, Busy, cache[c], op[c]) /\ cache'[c] = cache[c]
    BY <1>1 DEF Inv
  <2>2. Good(hist', FALSE, cache[c], op[c])
    <3>1. Len(hist) < Len(hist')  BY <1>2, <1>3
    <3> QED  BY <1>1, <1>3, <2>1, <3>1, Grows
  <2>3. CASE c = r.creator /\ op[c].pc = "create"
    <3>1. op'[c] = [op[c] EXCEPT !.made = TRUE]  BY <2>3 DEF CreateLate
    <3>2. /\ op'[c] \in Operation /\ op'[c].made
          /\ \A f \in {"pc", "mode", "ver", "got", "base", "since", "met"} :
               op'[c][f] = op[c][f]
      BY <2>1, <3>1 DEF Good, Operation
    <3>3. cache[c].label = 0
      <4>1. cache[c].label \in Nat /\ cache[c].label <= Len(hist) /\ Len(hist) = 0
        BY <1>2, <2>1 DEF Good, Bounded, Copy
      <4> QED  BY <4>1
    <3>4. Len(hist') > 0 /\ hist'[1].data = {}  BY <1>2, <1>3
    <3> QED
      BY <2>1, <2>2, <2>3, <3>2, <3>3, <3>4
      DEF Good, Bounded, Fetched, Opened, Creating
  <2>4. CASE ~(c = r.creator /\ op[c].pc = "create")
    <3>1. op'[c] = op[c]  BY <2>4 DEF CreateLate
    <3> QED  BY <2>1, <3>1
  <2> QED  BY <2>3, <2>4
<1>5. op' = [c \in Client |-> op'[c]]  BY DEF CreateLate
<1>6. cache' = [c \in Client |-> cache'[c]] /\ edits' = edits /\ put' = None
  BY <1>1 DEF Inv
<1> HIDE DEF e
<1> QED  BY <1>1, <1>2, <1>4, <1>5, <1>6, Arrives

LEMMA Making ==
  ASSUME Inv, NEW c \in Client, Create(c)
  PROVE  Inv'
<1> DEFINE o == [op[c] EXCEPT !.pc = "store", !.ver = 1, !.made = FALSE]
<1>1. Good(hist, Busy, cache[c], op[c]) /\ hist \in Seq(Version) /\ Len(hist) \in Nat
  BY DEF Inv
<1>2. /\ op[c].pc = "create" /\ op[c].since = 0 /\ op[c].got = {}
      /\ op[c].base \in Nat /\ op[c].base <= Len(hist)
      /\ cache[c].label \in Nat /\ cache[c].label <= Len(hist)
  BY <1>1 DEF Create, Good, Creating, Operation, Bounded, Copy
<1>3. /\ o \in Operation /\ o.pc = "store" /\ o.ver = 1 /\ ~o.made /\ o.got = {}
      /\ o.base = op[c].base /\ o.since = 0 /\ o.mode = op[c].mode
  BY <1>1, <1>2 DEF Good, Operation
<1>4. UNCHANGED <<put, cache, edits>>  BY DEF Create
<1>5. ASSUME NEW h \in Seq(Version), NEW b, Good(h, b, cache[c], op[c]),
             cache[c].label = 0, Len(h) > 0, h[1].data = {}
      PROVE  Good(h, b, cache[c], o)
  <2>1. Served(h, {}, 0)
    <3>1. 1 \in 1..Len(h)  BY <1>5
    <3> QED  BY <1>5, <3>1 DEF Served
  <2>2. Fetched(h, b, cache[c], o) /\ Opened(h, cache[c], o) /\ Creating(h, cache[c], o)
    <3>1. \A v \in {cache[c].label, 1} : Counts(h, b, v) => h[Len(h)].data = {}
      BY <1>5 DEF Counts
    <3> HIDE DEF o
    <3> QED  BY <1>3, <1>5, <2>1, <3>1 DEF Fetched, Opened, Creating
  <2>3. Bounded(h, cache[c], o)
    <3>1. Len(h) \in Nat  BY <1>5
    <3> QED  BY <1>3, <1>5, <3>1 DEF Good, Bounded
  <2> QED  BY <1>3, <1>5, <2>2, <2>3 DEF Good
<1>6. CASE /\ op' = [op EXCEPT ![c].pc = "store", ![c].ver = 1, ![c].made = FALSE]
           /\ hist = <<>> /\ Free /\ Add({}, FALSE)
  <2> DEFINE e == [data |-> {}, cut |-> FALSE]
  <2>1. /\ hist' = Append(hist, e) /\ late' = {} /\ e \in Version /\ put = None
        /\ hist = <<>> /\ e.data = {} /\ Builds(hist, e)
    BY <1>6 DEF Add, Free, Version, Content, Builds
  <2>2. /\ hist' \in Seq(Version) /\ Extends(hist, hist')
        /\ Len(hist') = 1 /\ hist'[1] = e
    <3> HIDE DEF e
    <3>1. Len(hist) = 0 /\ Len(hist) + 1 = 1  BY <2>1
    <3>2. /\ hist' \in Seq(Version) /\ Extends(hist, hist')
          /\ Len(hist') = Len(hist) + 1 /\ hist'[Len(hist) + 1] = e
      BY <1>1, <2>1, Appended
    <3> QED  BY <3>1, <3>2
  <2>3. Good(hist', FALSE, cache[c], op[c])
    <3>1. Len(hist) < Len(hist')  BY <2>1, <2>2
    <3> QED  BY <1>1, <2>2, <3>1, Grows
  <2>4. Good(hist', FALSE, cache[c], o)
    <3>1. cache[c].label = 0 /\ Len(hist') > 0 /\ hist'[1].data = {}
      BY <1>2, <2>1, <2>2
    <3> QED  BY <1>5, <2>2, <2>3, <3>1
  <2>5. /\ cache' = [d \in Client |-> cache'[d]] /\ op' = [d \in Client |-> op'[d]]
        /\ op'[c] = o /\ cache' = cache
        /\ \A d \in Client \ {c} : op'[d] = op[d]
    BY <1>4, <1>6 DEF Inv
  <2>6. \A d \in Client : \/ cache'[d] = cache[d] /\ op'[d] = op[d]
                          \/ Good(hist', FALSE, cache'[d], op'[d])
    BY <2>4, <2>5
  <2> HIDE DEF e, o
  <2> QED  BY <1>4, <2>1, <2>5, <2>6, Arrives
<1>7. CASE /\ op' = [op EXCEPT ![c].pc = "store", ![c].ver = 1, ![c].made = FALSE]
           /\ op[c].made /\ UNCHANGED <<hist, late>>
  <2>1. op' = [op EXCEPT ![c] = o]  BY <1>7 DEF Inv
  <2>2. Good(hist, Busy, cache[c], o)  BY <1>1, <1>5, <1>7 DEF Good, Creating
  <2> QED  BY <1>2, <1>4, <1>7, <2>1, <2>2, Moving
<1>8. CASE op' = [op EXCEPT ![c] = Idle] /\ UNCHANGED <<hist, late>>
  BY <1>1, <1>2, <1>4, <1>8, Ending, Moving
<1> QED  BY <1>6, <1>7, <1>8 DEF Create

LEMMA Killing ==
  ASSUME Inv, NEW c \in Client, Kill(c)
  PROVE  Inv'
<1>1. Good(hist, Busy, cache[c], op[c]) /\ hist \in Seq(Version) /\ Len(hist) \in Nat
  BY DEF Inv
<1>2. PICK k \in Remains(c) : cache' = [cache EXCEPT ![c] = k]  BY DEF Kill
<1>3. Good(hist, Busy, cache[c], Idle)  BY <1>1, Ending
<1>4. Good(hist, Busy, k, Idle)
  <2>1. CASE k = cache[c]  BY <1>3, <2>1
  <2>2. CASE k = [cache[c] EXCEPT !.exists = TRUE, !.data = {},
                                  !.dirty = TRUE, !.cut = TRUE]
    <3>1. k \in Copy /\ k.label = cache[c].label /\ k.dirty /\ k.cut
      BY <1>1, <2>2 DEF Good, Copy, Content
    <3> QED
      BY <1>3, <3>1 DEF Good, Bounded, Fetched, Opened, Creating, Worth, Idle
  <2>3. CASE op[c].pc = "label" /\ k = [cache[c] EXCEPT !.label = 0]
    <3>1. k \in Copy /\ k.label = 0
      BY <1>1, <2>3 DEF Good, Copy
    <3>2. Worth(hist, Busy, k, 0)  BY DEF Worth, Counts
    <3> QED
      BY <1>1, <1>3, <3>1, <3>2 DEF Good, Bounded, Fetched, Opened, Creating, Idle
  <2> QED  BY <1>2, <2>1, <2>2, <2>3 DEF Remains
<1>5. /\ cache' = [cache EXCEPT ![c] = cache'[c]] /\ cache'[c] = k
      /\ op' = [op EXCEPT ![c] = op'[c]] /\ op'[c] = Idle
      /\ put' = PutWithout(c) /\ hist' = hist /\ edits' \in Nat /\ late' = late
  BY <1>2 DEF Kill, Inv
<1>6. Leads(hist, put', late')
  BY <1>5, Waiting DEF Inv, Leads
<1>7. Busy' = Busy /\ (put = None \/ put' # None) /\ Sender(put', c, cache'[c], op'[c])
  BY <1>5, Waiting DEF Busy, Sender
<1>8. Good(hist, Busy', cache'[c], op'[c])  BY <1>4, <1>5, <1>7
<1> QED  BY <1>5, <1>6, <1>7, <1>8, Quiet

-----------------------------------------------------------------------------
(* The theorems.                                                           *)

LEMMA Initially == Init => Inv
<1> SUFFICES ASSUME Init PROVE Inv  OBVIOUS
<1>1. hist \in Seq(Version) /\ Len(hist) \in Nat
  <2>1. [data |-> {}, cut |-> FALSE] \in Version  BY DEF Version, Content
  <2>2. <<>> \in Seq(Version) /\ <<[data |-> {}, cut |-> FALSE]>> \in Seq(Version)
    BY <2>1
  <2> QED  BY <2>2 DEF Init
<1>2. NoLostUpdate
  <2>1. Len(hist) \in {0, 1}  BY DEF Init
  <2> QED  BY <2>1 DEF NoLostUpdate
<1>3. ASSUME NEW c \in Client
      PROVE  Good(hist, Busy, cache[c], op[c]) /\ Sender(put, c, cache[c], op[c])
  <2>1. cache[c] = NoCopy /\ op[c] = Idle /\ put = None  BY DEF Init
  <2>2. NoCopy \in Copy /\ Idle \in Operation
    BY DEF NoCopy, Copy, Idle, Operation, Content
  <2>3. /\ ~NoCopy.exists /\ NoCopy.label = 0
        /\ Idle.pc = "idle" /\ Idle.got = {} /\ ~Idle.made
        /\ Idle.ver = 0 /\ Idle.base = 0 /\ Idle.since = 0
    BY DEF NoCopy, Idle
  <2> QED
    BY <1>1, <2>1, <2>2, <2>3
    DEF Good, Bounded, Fetched, Opened, Creating, Sender
<1> QED  BY <1>1, <1>2, <1>3 DEF Init, Inv, Leads

LEMMA Step ==
  ASSUME Inv, ~Lag, [Next]_vars
  PROVE  Inv'
<1>1. CASE UNCHANGED vars
  BY <1>1 DEF vars, Inv, NoLostUpdate, Busy
<1>2. CASE Written \/ EndPut  BY <1>2, WritingOn, EndingPut
<1>3. ASSUME NEW r \in late, RunLate(r) \/ CreateLate(r) PROVE Inv'
  BY <1>3, RunningLate, CreatingLate
<1>4. ASSUME NEW c \in Client, NEW mode \in Modes \cup {"sync", "create", "put"},
             Start(c, mode)
      PROVE  Inv'
  BY <1>4, Starting
<1>5. ASSUME NEW c \in Client,
             \/ Miss(c) \/ TestAuth(c) \/ Open(c) \/ GetFile(c) \/ Stamp(c)
             \/ Store(c) \/ Label(c) \/ OpenLocal(c) \/ Write(c) \/ Close(c)
             \/ PutFile(c) \/ Refuse(c) \/ Create(c) \/ Kill(c)
      PROVE  Inv'
  BY <1>5, Missing, Testing, Looking, Fetching, Stamping, Storing, Labelling,
     LocallyOpening, Writing, Closing, Putting, Refusing, Making, Killing
<1> QED  BY <1>1, <1>2, <1>3, <1>4, <1>5 DEF Next

LEMMA InvHolds ==
  ASSUME ~Lag
  PROVE  Spec => []Inv
<1>1. Init => Inv  BY Initially
<1>2. Inv /\ [Next]_vars => Inv'  BY Step
<1> QED  BY <1>1, <1>2, PTL DEF Spec

\* Whatever the clients do, the cache, the operations and the versions keep to
\* the values the code gives them.
THEOREM TypesCorrect ==
  ASSUME ~Lag
  PROVE  Spec => []TypeOK
<1>1. Inv => TypeOK
  <2> SUFFICES ASSUME Inv PROVE TypeOK  OBVIOUS
  <2>1. \A c \in Client : cache[c] \in Copy /\ op[c] \in Operation
    BY DEF Inv, Good
  <2> QED  BY <2>1 DEF Inv, Leads, TypeOK
<1> QED  BY <1>1, InvHolds, PTL

\* A copy that the client has not changed, nor mixed, and that has the label of
\* the current version is that version as soon as no write is under way: what GetFile reads
\* of a file that is being written gets the label from before the write, and
\* kills come between the bytes and their label.
THEOREM CachedServed ==
  ASSUME ~Lag
  PROVE  Spec => []CachedIsServed
<1>1. Inv => CachedIsServed
  <2> SUFFICES ASSUME Inv, NEW c \in Client, cache[c].exists, ~cache[c].dirty,
                      ~cache[c].cut, put = None, cache[c].label > 0, cache[c].label = Len(hist)
               PROVE  cache[c].data = hist[Len(hist)].data
    BY DEF CachedIsServed
  <2> QED  BY DEF Inv, Good, Worth, Counts, Busy
<1> QED  BY <1>1, InvHolds, PTL

\* A file that has been opened beside no write shows what had been closed
\* before the open began: neither the label, be it that of a copy read from a
\* half-written file, nor the retries of a call can hide it.
THEOREM OpenRecent ==
  ASSUME ~Lag
  PROVE  Spec => []OpenIsRecent
<1>1. Inv => OpenIsRecent
  <2> SUFFICES ASSUME Inv, NEW c \in Client, op[c].pc = "open", ~cache[c].dirty,
                      ~cache[c].cut, ~op[c].met
               PROVE  HoldsSince(c, op[c].since)
    BY DEF OpenIsRecent
  <2>1. Good(hist, Busy, cache[c], op[c]) /\ hist \in Seq(Version)  BY DEF Inv
  <2>2. Served(hist, cache[c].data, op[c].since) /\ op[c].since \in Nat
    BY <2>1 DEF Good, Opened, Operation
  <2>3. PICK n \in 1..Len(hist) : n >= op[c].since /\ hist[n].data = cache[c].data
    BY <2>2 DEF Served
  <2>4. n \in op[c].since..Len(hist) /\ n > 0  BY <2>2, <2>3
  <2> QED  BY <2>3, <2>4 DEF HoldsSince
<1> QED  BY <1>1, InvHolds, PTL

\* No flush, late, repeated, after a kill or of edits made to a half-written
\* file, drops what another client has closed, unless the file was cut off or
\* the copy of an open_sync_read was mixed.
THEOREM UpdatesKept ==
  ASSUME ~Lag
  PROVE  Spec => []NoLostUpdate
<1>1. Inv => NoLostUpdate  BY DEF Inv
<1> QED  BY <1>1, InvHolds, PTL

=============================================================================

----------------------------- MODULE AFSClient ------------------------------
(***************************************************************************)
(* AFSClient (afs/client.py), its cache on disk, and the RPC client        *)
(* (rpc/client.py) with its timeouts and retries, for one file.            *)
(*                                                                         *)
(* One server leads and holds every version, the others follow.  The RPC   *)
(* client takes them in turn, but for the calls of all files, so a call    *)
(* for this file meets any.  A PutFile empties the file, writes it and     *)
(* only then has a new version, while GetFile reads whatever is there.     *)
(* The other requests are one step each.  No handler meets its deadline,   *)
(* and Create and PutFile do not overlap (FileServer has both).  A content *)
(* is the set of edits that went into it, so that a lost edit can be told. *)
(* A client has one operation under way, and one file open.                *)
(***************************************************************************)
EXTENDS Naturals, Sequences, FiniteSets

CONSTANTS Client, None,
          Lag,          \* FALSE: assume that followers keep step with the leader
          MaxVersion, MaxEdit, MaxLate   \* bounds

ASSUME ClientAssumption ==
  /\ None \notin Client /\ Lag \in BOOLEAN
  /\ {MaxVersion, MaxEdit, MaxLate} \subseteq Nat

VARIABLES
  hist,     \* the versions of the file: content, and whether its writer cut
            \* off what had been there, or had a copy that mixed two versions
  put,      \* the PutFile under way at the leader (it holds the lock), who
            \* waits for it, and if all its bytes are written; or None
  late,     \* writes whose client gave up, and which the leader may still run
  cache,    \* the cached file (exists, data; dirty: changed since the servers
            \* had it; cut: lacks what its version had, as for hist) and the
            \* version it is labelled with
  op,       \* the operation under way and where it stands
  edits

vars == <<hist, put, late, cache, op, edits>>

Modes == {"r", "r+", "w", "a"}

Content == SUBSET Nat
Version == [data : Content, cut : BOOLEAN]
Put == [data : Content, cut : BOOLEAN, by : Client \cup {None}, whole : BOOLEAN]
ASSUME NoneAssumption == None \notin Put

Late == [data : Content, cut : BOOLEAN, creator : Client \cup {None}]
Copy == [exists : BOOLEAN, data : Content, label : Nat, dirty : BOOLEAN, cut : BOOLEAN]
Operation ==
  [pc : {"idle", "test", "version", "bytes", "stamp", "store", "label", "have", "open",
         "flush", "create"},
   mode : Modes \cup {"sync", "create", "put", "close", None},
   ver : Nat, got : Content, base : Nat, since : Nat, made : BOOLEAN,
   met : BOOLEAN, mixed : BOOLEAN]

NoCopy == [exists |-> FALSE, data |-> {}, label |-> 0, dirty |-> FALSE, cut |-> FALSE]

\* since is the newest version when the operation began; met is set if a write
\* was under way when the bytes were read or found unchanged; mixed if one ended
\* between the bytes and the version with them; made if the Create of this
\* operation made the file, which the op log then answers.
Idle == [pc |-> "idle", mode |-> None, ver |-> 0,
         got |-> {}, base |-> 0, since |-> 0, made |-> FALSE, met |-> FALSE,
         mixed |-> FALSE]

Init ==
  /\ hist \in {<<>>, <<[data |-> {}, cut |-> FALSE]>>}
  /\ put = None /\ late = {}
  /\ cache = [c \in Client |-> NoCopy]
  /\ op = [c \in Client |-> Idle]
  /\ edits = 0

-----------------------------------------------------------------------------
(* The RPC client.                                                         *)

At(c, pc) == [op[c] EXCEPT !.pc = pc]

\* mutant: an open that cannot validate its copy uses it
OnTrust(c) == IF op[c].pc = "test" THEN At(c, "have") ELSE Idle

\* What an operation does when its call has failed: open() fetches the file
\* if it could not validate its copy, anything else gives up.
AfterFailure(c) ==
  IF op[c].pc = "test" /\ op[c].mode \in Modes THEN At(c, "version") ELSE Idle

\* The leader works on the PutFile of c.
Awaits(c) == put # None /\ put.by = c

\* Nobody waits for the PutFile of c any more.
PutWithout(c) == IF Awaits(c) THEN [put EXCEPT !.by = None] ELSE put

\* The write that a call without an answer may have left with the leader. One
\* that is based on an older version would be refused, and so will be one that
\* waits for the lock while another is under way.
LeftBehind(c) ==
  CASE op[c].pc = "flush" /\ put = None /\ op[c].base = Len(hist)
         -> {[data |-> cache[c].data, cut |-> cache[c].cut, creator |-> None]}
    [] op[c].pc = "create" /\ put = None /\ hist = <<>>
         -> {[data |-> {}, cut |-> FALSE, creator |-> c]}
    [] OTHER -> {}

\* The call is made again from its start.
Again(c) ==
  IF op[c].pc = "stamp" THEN [At(c, "bytes") EXCEPT !.got = {}] ELSE op[c]

\* Connecting, writing or waiting for the answer times out: the next server
\* is tried (clients are made with different numbers of retries), or the call
\* fails. Whether the request arrived is open.
Miss(c) ==
  /\ op[c].pc \in {"test", "version", "bytes", "stamp", "flush", "create"}
  /\ late' \in {late, late \cup LeftBehind(c)} /\ Cardinality(late') <= MaxLate
  /\ op' \in {[op EXCEPT ![c] = o] : o \in {Again(c), AfterFailure(c)}}
  /\ put' = PutWithout(c)
  /\ UNCHANGED <<hist, cache, edits>>

-----------------------------------------------------------------------------
(* The servers.                                                            *)

\* mutant: PutFile takes older versions as well
AcceptsOlder(base) == base <= Len(hist)

\* PutFile is based on the current version.
Accepts(base) == base = Len(hist)

\* A new version
Add(data, cut) == hist' = Append(hist, [data |-> data, cut |-> cut])

\* Nobody writes; the writes that are late then are refused, as they wait for
\* the lock until there is a new version.
Free == put = None /\ Len(hist) < MaxVersion /\ late' = {}

\* A PutFile has got the lock and found its base to be the current version;
\* the file is emptied.
Begin(data, cut, by) ==
  /\ Free
  /\ put' = [data |-> data, cut |-> cut, by |-> by, whole |-> FALSE]
  /\ UNCHANGED <<hist, cache, edits>>

\* The bytes of the PutFile under way are all written.
Written ==
  /\ put # None /\ ~put.whole
  /\ put' = [put EXCEPT !.whole = TRUE]
  /\ UNCHANGED <<hist, late, cache, op, edits>>

\* mutant: an answer without a version is taken for one
Unversioned(c) ==
  /\ op' = [op EXCEPT ![c].pc = "label", ![c].ver = None]
  /\ UNCHANGED cache

\* The client that waits is answered the version to label the cached file
\* with, or an error.
Answered(c) ==
  \/ /\ op' = [op EXCEPT ![c].pc = "label", ![c].ver = Len(hist) + 1]
     /\ cache' = [cache EXCEPT ![c] = [@ EXCEPT !.dirty = FALSE, !.cut = FALSE]]
  \/ /\ op' = [op EXCEPT ![c] = Idle]
     /\ UNCHANGED cache

\* Only then there is a new version.
EndPut ==
  /\ put # None /\ put.whole
  /\ Add(put.data, put.cut) /\ put' = None
  /\ IF put.by = None THEN UNCHANGED <<op, cache>> ELSE Answered(put.by)
  /\ UNCHANGED <<late, edits>>

\* A write of a client that no longer waits for it.
RunLate(r) ==
  /\ r \in late /\ r.creator = None
  /\ Begin(r.data, r.cut, None)
  /\ UNCHANGED op

\* The result of a late Create is kept for the repetition that may follow.
CreateLate(r) ==
  /\ r \in late /\ r.creator # None
  /\ Free /\ Add(r.data, r.cut)
  /\ op' = [c \in Client |-> IF c = r.creator /\ op[c].pc = "create"
                             THEN [op[c] EXCEPT !.made = TRUE] ELSE op[c]]
  /\ UNCHANGED <<put, cache, edits>>

\* The versions that the server asked may have
Held == IF Lag THEN 0..Len(hist) ELSE {Len(hist)}

\* The bytes that a server with version n may have in the file: those of the
\* version, or as much as has been written of the next. (A follower that lags
\* is seen between its writes only.)
Bytes(n) ==
  (IF n = 0 \/ (put # None /\ ~Lag) THEN {} ELSE {hist[n].data})
  \cup (IF put = None \/ n < Len(hist) THEN {}
        ELSE IF put.whole THEN {put.data} ELSE SUBSET put.data)

-----------------------------------------------------------------------------
(* Opening.                                                                *)

\* Only a labelled copy is worth a TestAuth, and only for reading and r+.
FirstStep(c, mode) ==
  IF mode \in {"r", "r+"} /\ cache[c].label > 0 /\ cache[c].exists THEN "test"
  ELSE IF mode = "create" THEN "create"
  ELSE IF mode = "put" THEN "flush" ELSE "version"

\* open, open_sync_read ("sync"), create or put is called. A Create that is
\* still on its way has an op_id of its own.
Start(c, mode) ==
  /\ op[c].pc = "idle"
  /\ mode = "put" => cache[c].exists
  /\ op' = [op EXCEPT ![c] = [@ EXCEPT !.pc = FirstStep(c, mode), !.mode = mode,
                                       !.since = IF mode \in Modes THEN Len(hist) ELSE 0,
                                       !.base = IF mode = "put" THEN cache[c].label ELSE 0]]
  /\ late' = {IF r.creator = c THEN [r EXCEPT !.creator = None] ELSE r : r \in late}
  /\ UNCHANGED <<hist, put, cache, edits>>

\* TestAuth compares the version of the server with the label.
\* open_sync_read then labels an unchanged copy with what Open has answered.
TestAuth(c) ==
  /\ op[c].pc = "test"
  /\ \E n \in Held :
       op' = [op EXCEPT ![c].met = (n = cache[c].label /\ put # None),
                        ![c].pc =
                CASE op[c].mode = "sync" -> IF n # cache[c].label THEN "bytes" ELSE "label"
                  [] OTHER -> IF n # cache[c].label THEN "version" ELSE "have"]
  /\ UNCHANGED <<hist, put, late, cache, edits>>

Open(c) ==
  /\ op[c].pc = "version"
  /\ \E n \in Held :
       op' = [op EXCEPT ![c].pc = IF op[c].mode = "sync" THEN "test" ELSE "bytes",
                        ![c].ver = n]
  /\ UNCHANGED <<hist, put, late, cache, edits>>

\* GetFile reads the bytes in a thread, and fails if there is no file.
GetFile(c) ==
  /\ op[c].pc = "bytes"
  /\ \E n \in Held :
       \/ \E b \in Bytes(n) :
            op' = [op EXCEPT ![c] =
                     [@ EXCEPT !.got = b, !.met = put # None,
                               !.pc = IF op[c].mode = "sync" THEN "stamp" ELSE "store",
                               !.ver = IF op[c].mode = "sync" THEN n ELSE op[c].ver]]
       \/ n = 0 /\ (put = None \/ Lag) /\ op' = [op EXCEPT ![c] = Idle]
  /\ UNCHANGED <<hist, put, late, cache, edits>>

\* Once the thread is done GetFile takes the version to go with the bytes, which
\* a write that has ended in between has made another: open_sync_read uses it,
\* while open() has the answer of Open from before.
Stamp(c) ==
  /\ op[c].pc = "stamp"
  /\ \E n \in Held :
       /\ n >= op[c].ver
       /\ op' = [op EXCEPT ![c].pc = "store", ![c].ver = n, ![c].mixed = (n # op[c].ver)]
  /\ UNCHANGED <<hist, put, late, cache, edits>>

\* The file of the cache is written, and after that its label.
Store(c) ==
  /\ op[c].pc = "store"
  /\ cache' = [cache EXCEPT ![c] = [NoCopy EXCEPT !.exists = TRUE, !.data = op[c].got,
                                                  !.cut = op[c].mixed,
                                                  !.label = cache[c].label]]
  /\ op' = [op EXCEPT ![c] = [At(c, "label") EXCEPT !.got = {}, !.mixed = FALSE]]
  /\ UNCHANGED <<hist, put, late, edits>>

\* set_version_async
Label(c) ==
  /\ op[c].pc = "label"
  /\ cache' = [cache EXCEPT ![c].label = op[c].ver]
  /\ op' = [op EXCEPT ![c] = IF op[c].mode \in Modes \cup {"create"}
                             THEN At(c, "have") ELSE Idle]
  /\ UNCHANGED <<hist, put, late, edits>>

\* The file of the cache is opened; mode w empties it.
OpenLocal(c) ==
  /\ op[c].pc = "have"
  /\ cache' = IF op[c].mode # "w" THEN cache
              ELSE [cache EXCEPT ![c] = [@ EXCEPT !.data = {}, !.cut = TRUE, !.dirty = TRUE]]
  /\ op' = [op EXCEPT ![c] = [At(c, "open") EXCEPT !.base = cache[c].label, !.ver = 0]]
  /\ UNCHANGED <<hist, put, late, edits>>

-----------------------------------------------------------------------------
(* Writing.                                                                *)

Write(c) ==
  /\ op[c].pc = "open" /\ op[c].mode # "r"
  /\ edits < MaxEdit /\ edits' = edits + 1
  /\ cache' = [cache EXCEPT ![c] = [@ EXCEPT !.data = cache[c].data \cup {edits + 1},
                                           !.dirty = TRUE]]
  /\ UNCHANGED <<hist, put, late, op>>

\* A file opened for writing is sent when it is closed, changed or not.
Close(c) ==
  /\ op[c].pc = "open"
  /\ op' = [op EXCEPT ![c] = IF op[c].mode = "r" THEN Idle
                             ELSE [At(c, "flush") EXCEPT !.mode = "close", !.since = 0]]
  /\ UNCHANGED <<hist, put, late, cache, edits>>

\* PutFile is begun by a leader if it is based on the current version, and
\* answered when it has ended.
PutFile(c) ==
  /\ op[c].pc = "flush" /\ ~Awaits(c)
  /\ Accepts(op[c].base) /\ Begin(cache[c].data, cache[c].cut, c)
  /\ UNCHANGED op

\* The answer of a follower has no version, and a leader answers an error if
\* the base is old or its other execution was first; the operation ends.
Refuse(c) ==
  /\ op[c].pc = "flush" /\ ~Awaits(c)
  /\ op' = [op EXCEPT ![c] = Idle]
  /\ UNCHANGED <<hist, put, late, cache, edits>>

\* Create: the cached file is emptied like the new one. A repetition is
\* answered from the op log; one that finds the first still at work, or a
\* follower, fails.
Create(c) ==
  /\ op[c].pc = "create"
  /\ \/ /\ \/ hist = <<>> /\ Free /\ Add({}, FALSE)
           \/ op[c].made /\ UNCHANGED <<hist, late>>
        /\ op' = [op EXCEPT ![c].pc = "store", ![c].ver = 1, ![c].made = FALSE]
     \/ op' = [op EXCEPT ![c] = Idle] /\ UNCHANGED <<hist, late>>
  /\ UNCHANGED <<put, cache, edits>>

\* mutant: the label is saved before the file is written
LabelledFirst(c) ==
  {cache[c]} \cup IF op[c].pc = "store" THEN {[cache[c] EXCEPT !.label = op[c].ver]} ELSE {}

\* What a client that is killed leaves on its disk: a file that was being
\* written may have been emptied, a label may be lost.
Remains(c) ==
  {cache[c]} \cup
  CASE op[c].pc = "store" -> {[cache[c] EXCEPT !.exists = TRUE, !.data = {},
                                               !.dirty = TRUE, !.cut = TRUE]}
    [] op[c].pc = "label" -> {[cache[c] EXCEPT !.label = 0]}
    [] OTHER -> {}

Kill(c) ==
  /\ op[c].pc # "idle"
  /\ cache' \in {[cache EXCEPT ![c] = r] : r \in Remains(c)}
  /\ op' = [op EXCEPT ![c] = Idle]
  /\ put' = PutWithout(c)
  /\ UNCHANGED <<hist, late, edits>>

Next ==
  \/ Written \/ EndPut
  \/ \E r \in late : RunLate(r) \/ CreateLate(r)
  \/ \E c \in Client :
       \/ \E mode \in Modes \cup {"sync", "create", "put"} : Start(c, mode)
       \/ Miss(c) \/ TestAuth(c) \/ Open(c) \/ GetFile(c) \/ Stamp(c)
       \/ Store(c) \/ Label(c) \/ OpenLocal(c) \/ Write(c) \/ Close(c) \/ PutFile(c)
       \/ Refuse(c) \/ Create(c) \/ Kill(c)

Spec == Init /\ [][Next]_vars

-----------------------------------------------------------------------------
(* Properties.                                                             *)

\* Every variable keeps to the values the code gives it.
TypeOK ==
  /\ hist \in Seq(Version)
  /\ put \in Put \cup {None}
  /\ late \subseteq Late
  /\ cache \in [Client -> Copy]
  /\ op \in [Client -> Operation]
  /\ edits \in Nat

\* The bytes of c are one of the versions from v on.
HoldsSince(c, v) == \E n \in v..Len(hist) : n > 0 /\ cache[c].data = hist[n].data

\* A copy with the label of the current version is that version, or else a
\* write is under way after which the label is old: what TestAuth finds
\* unchanged at rest is what the servers have, though an open may have read a
\* half-written file. Copies that the client itself has changed, or was killed
\* while it rewrote, are not those of a server, nor are those of an
\* open_sync_read inside whose GetFile a write ended.
CachedIsServed ==
  \A c \in Client :
    /\ cache[c].exists /\ ~cache[c].dirty /\ ~cache[c].cut /\ put = None
    /\ cache[c].label > 0 /\ cache[c].label = Len(hist)
    => cache[c].data = hist[Len(hist)].data

\* An open that succeeds shows what was there when it began, or newer: what had
\* been closed before is seen. Beside a write it may show a part of it, and with
\* a mixed copy of open_sync_read what that had mixed.
OpenIsRecent ==
  \A c \in Client :
    op[c].pc = "open" /\ ~cache[c].dirty /\ ~cache[c].cut /\ ~op[c].met
      => HoldsSince(c, op[c].since)

\* No version drops the edits of the one before it, unless its writer has cut
\* the file off or edited a mixed copy of open_sync_read.
NoLostUpdate ==
  \A n \in 1..Len(hist) - 1 : hist[n + 1].cut \/ hist[n].data \subseteq hist[n + 1].data
=============================================================================

----------------------------- MODULE FileServer -----------------------------
(***************************************************************************)
(* One file server: the handlers of afs/handlers.py behind the RPC server  *)
(* of rpc/server.py, with its op log.                                      *)
(*                                                                         *)
(* The server is one asyncio process, so a step is the code between two    *)
(* awaits, or the work of a thread that a handler awaits (to_thread).      *)
(* Connections are independent: the call a client repeats on a new one runs*)
(* beside the first.  wait_for cancels a handler at the deadline of its    *)
(* request; the thread it awaited goes on by itself.                       *)
(***************************************************************************)
EXTENDS Naturals, FiniteSets

CONSTANTS Path, Data,    \* file names, and the contents clients send
          Empty, None,   \* b"", and Python's None
          Torn,          \* a text that json.loads refuses
          OpId,          \* ids of calls that are not to be executed twice
          Call,          \* requests that reach the server
          Existing,      \* the paths the data directory holds at the start
          MaxVersion,    \* bound: versions clients name
          MaxRestart     \* bound: crashes of the server

ASSUME FileAssumption ==
  /\ Empty \notin Data /\ None \notin Data \cup {Empty, Torn} \cup Call \cup OpId
  /\ Existing \subseteq Path
  /\ MaxVersion \in Nat /\ MaxRestart \in Nat

VARIABLES
  meta,       \* _meta: version and sha256, which stands for the content
  disk,       \* the files; None is no file
  meta_file,  \* .meta.json
  tmp,        \* .meta.json.tmp (no file if its text is None), the calls that
              \* have it open, and those that opened what is now .meta.json
  lock,       \* _locks: the call that holds the lock of a path
  op_log,     \* the result recorded under an op_id
  call,       \* the calls: where they are, and what they hold
  restarts

vars == <<meta, disk, meta_file, tmp, lock, op_log, call, restarts>>

Content == Data \cup {Empty}
Version == [version : Nat, data : Content]
Meta == [Path -> Version \cup {None}]

Request ==
  [op : {"PutFile"}, path : Path, data : Data, version : 0..MaxVersion, op_id : {None}]
    \cup [op : {"Create"}, path : Path, data : {Empty}, version : {0},
          op_id : OpId \cup {None}]
    \cup [op : {"Open", "GetFile", "TestAuth"}, path : Path, data : {Empty},
          version : {0}, op_id : {None}]

\* What the two files of the metadata may hold, and what is known of the second
Text == Meta \cup {Empty, Torn}
Temporary == [text : Text \cup {None}, open : SUBSET Call, moved : SUBSET Call]

ASSUME NoneAssumption ==
  /\ None \notin Version \cup Meta \cup Request \cup Content
  /\ Empty # Torn /\ {Empty, Torn} \cap Meta = {}

\* Where a call is, its request, and the local variables of its handler
CallState ==
  [pc : {"none", "look_up", "start", "look", "read", "got", "truncate", "write",
         "written", "save", "fill", "replace", "record", "done"},
   req : Request \cup {None}, version : Nat, data : Content \cup {None},
   text : Meta \cup {None}, code : {"none", "ok", "error", "timeout", "lost"}]

NotReceived == [pc |-> "none", req |-> None, version |-> 0, data |-> Empty,
                text |-> None, code |-> "none"]

\* The files that are there have been created and not yet written.
Init ==
  /\ meta = [p \in Path |-> IF p \in Existing THEN [version |-> 1, data |-> Empty]
                                              ELSE None]
  /\ disk = [p \in Path |-> IF p \in Existing THEN Empty ELSE None]
  /\ meta_file = meta /\ tmp = [text |-> None, open |-> {}, moved |-> {}]
  /\ lock = [p \in Path |-> None]
  /\ op_log = [o \in OpId |-> None]
  /\ call = [h \in Call |-> NotReceived]
  /\ restarts = 0

-----------------------------------------------------------------------------
(* The RPC server around a handler.                                        *)

\* The call h comes to be in the state r.
Moves(h, r) == call' = [call EXCEPT ![h] = r]

\* Two requests with one op_id; a request that is not there has none.
SameOperation(q, r) == q # None /\ r # None /\ r.op_id # None /\ q.op_id = r.op_id

\* A request arrives; one with an op_id may be a repetition.
Receive(h) ==
  \E r \in Request :
    /\ call[h].pc = "none"
    /\ \A g \in Call : call[g].req = r \/ ~SameOperation(call[g].req, r)
    /\ Moves(h, [NotReceived EXCEPT !.req = r,
                                    !.pc = IF r.op_id = None THEN "start" ELSE "look_up"])
    /\ UNCHANGED <<meta, disk, meta_file, tmp, lock, op_log, restarts>>

\* The result recorded for the op_id is the answer, if there is one.
LookUp(h) ==
  /\ call[h].pc = "look_up"
  /\ LET prev == op_log[call[h].req.op_id]
     IN  Moves(h, IF prev = None THEN [call[h] EXCEPT !.pc = "start"]
                  ELSE [call[h] EXCEPT !.pc = "done", !.code = "ok", !.version = prev])
  /\ UNCHANGED <<meta, disk, meta_file, tmp, lock, op_log, restarts>>

\* The result is recorded before it is sent.
Record(h) ==
  /\ call[h].pc = "record"
  /\ op_log' = [op_log EXCEPT ![call[h].req.op_id] =
                  IF @ = None THEN call[h].version ELSE @]
  /\ Moves(h, [call[h] EXCEPT !.pc = "done"])
  /\ UNCHANGED <<meta, disk, meta_file, tmp, lock, restarts>>

\* The handler of h returns; an exception is an answer that is not recorded.
Ok(h, version, data) ==
  [call[h] EXCEPT !.pc = IF call[h].req.op_id # None THEN "record" ELSE "done",
                  !.code = "ok", !.version = version, !.data = data, !.text = None]
Fails(h) == [call[h] EXCEPT !.pc = "done", !.code = "error", !.text = None]

Cancelled(h) == call[h].code = "timeout"
Goes(h, pc) == [call[h] EXCEPT !.pc = IF Cancelled(h) THEN "done" ELSE pc]

Unlocked(h) ==
  [p \in Path |-> IF lock[p] = h THEN None ELSE lock[p]]

\* Where a handler awaits a thread that changes files
Threads == {"truncate", "write", "save", "fill", "replace"}

\* The thread is awaited, and may not have begun.
Queued(h) == \/ call[h].pc \in {"truncate", "save", "replace"}
             \/ call[h].pc = "write" /\ call[h].req.op = "Create"

\* The deadline of the request: the handler is cancelled and gives up its
\* lock; a thread under way finishes, one that has not begun may never begin.
Deadline(h) ==
  /\ call[h].pc \in {"start", "look", "read", "got", "written"} \cup Threads
  /\ ~Cancelled(h)
  /\ \E next \in {call[h].pc, "done"} :
       /\ next = "done" => Queued(h) \/ call[h].pc \notin Threads
       /\ next # "done" => call[h].pc \in Threads
       /\ Moves(h, [call[h] EXCEPT !.code = "timeout", !.pc = next])
  /\ lock' = Unlocked(h)
  /\ UNCHANGED <<meta, disk, meta_file, tmp, op_log, restarts>>

\* _load_meta: there are no metadata if the file is not JSON.
Loaded == IF meta_file \in Meta THEN meta_file ELSE [p \in Path |-> None]

\* The files of a process that is killed are closed.
Closed == [tmp EXCEPT !.open = {}, !.moved = {}]

\* The server is killed and started again.
Crash ==
  /\ restarts < MaxRestart
  /\ restarts' = restarts + 1
  /\ meta' = Loaded /\ tmp' = Closed
  /\ lock' = [p \in Path |-> None]
  /\ call' = [h \in Call |->
                IF call[h].pc \in {"none", "done"} THEN call[h]
                ELSE [call[h] EXCEPT !.pc = "done", !.text = None,
                                     !.code = IF Cancelled(h) THEN @ ELSE "lost"]]
  /\ UNCHANGED <<disk, meta_file, op_log>>

-----------------------------------------------------------------------------
(* The handlers, up to their first await.                                  *)

Begins(h, op) == call[h].pc = "start" /\ call[h].req.op = op
MetaOf(h) == meta[call[h].req.path]
\* mutant: no version for a path without metadata
VersionUnset(h) == IF MetaOf(h) = None THEN None ELSE MetaOf(h).version
VersionOf(h) == IF MetaOf(h) = None THEN 0 ELSE MetaOf(h).version

StartOpen(h) ==
  /\ Begins(h, "Open")
  /\ Moves(h, IF MetaOf(h) # None THEN Ok(h, VersionOf(h), Empty) ELSE Goes(h, "look"))
  /\ UNCHANGED <<meta, disk, meta_file, tmp, lock, op_log, restarts>>

StartGetFile(h) ==
  /\ Begins(h, "GetFile")
  /\ Moves(h, Goes(h, "look"))
  /\ UNCHANGED <<meta, disk, meta_file, tmp, lock, op_log, restarts>>

\* The client compares the version of the answer with its own.
TestAuth(h) ==
  /\ Begins(h, "TestAuth")
  /\ Moves(h, Ok(h, VersionOf(h), Empty))
  /\ UNCHANGED <<meta, disk, meta_file, tmp, lock, op_log, restarts>>

\* Only for a path that is known the file itself is looked for.
StartCreate(h) ==
  /\ Begins(h, "Create")
  /\ Moves(h, [Goes(h, IF MetaOf(h) # None THEN "look" ELSE "write")
                 EXCEPT !.version = 1, !.data = Empty])
  /\ UNCHANGED <<meta, disk, meta_file, tmp, lock, op_log, restarts>>

\* mutant: a lock that is taken does not hold a call up
LockIgnored(p) == TRUE

\* mutant: PutFile does not look at the version it is based on
VersionIgnored(h) == TRUE

\* The lock of a path is free, and the version named is the current one.
LockFree(p) == lock[p] = None
Current(h) == call[h].req.version = VersionOf(h)

StartPutFile(h) ==
  LET p == call[h].req.path
  IN  /\ Begins(h, "PutFile")
      /\ LockFree(p)
      /\ IF Current(h)
         THEN /\ lock' = [lock EXCEPT ![p] = h]
              /\ Moves(h, [Goes(h, "truncate") EXCEPT !.version = VersionOf(h) + 1,
                                                      !.data = call[h].req.data])
         ELSE Moves(h, Fails(h)) /\ UNCHANGED lock
      /\ UNCHANGED <<meta, disk, meta_file, tmp, op_log, restarts>>

-----------------------------------------------------------------------------
(* Their threads, and what they do in between.                             *)

\* fp.exists
Look(h) ==
  LET r == call[h].req
      exists == disk[r.path] # None
  IN  /\ call[h].pc = "look"
      /\ Moves(h, CASE r.op = "Open" /\ exists -> Goes(h, "read")
                    [] r.op = "Open" /\ ~exists -> Goes(h, "written")
                    [] r.op = "Create" /\ exists -> Fails(h)
                    [] r.op = "Create" /\ ~exists -> Goes(h, "write")
                    [] r.op = "GetFile" /\ exists -> Goes(h, "read")
                    [] r.op = "GetFile" /\ ~exists -> Fails(h))
      /\ UNCHANGED <<meta, disk, meta_file, tmp, lock, op_log, restarts>>

\* fp.read_bytes: Open takes what it finds for version 1.
Read(h) ==
  LET r == call[h].req
  IN  /\ call[h].pc = "read"
      /\ Moves(h, [Goes(h, IF r.op = "Open" THEN "written" ELSE "got")
                     EXCEPT !.data = disk[r.path],
                            !.version = IF r.op = "Open" THEN 1 ELSE 0])
      /\ UNCHANGED <<meta, disk, meta_file, tmp, lock, op_log, restarts>>

\* GetFile answers with the version that the path has by now.
Got(h) ==
  /\ call[h].pc = "got"
  /\ Moves(h, Ok(h, VersionOf(h), call[h].data))
  /\ UNCHANGED <<meta, disk, meta_file, tmp, lock, op_log, restarts>>

\* fp.write_bytes empties the file and fills it.
Truncate(h) ==
  /\ call[h].pc = "truncate"
  /\ disk' = [disk EXCEPT ![call[h].req.path] = Empty]
  /\ Moves(h, [call[h] EXCEPT !.pc = "write"])
  /\ UNCHANGED <<meta, meta_file, tmp, lock, op_log, restarts>>

Write(h) ==
  /\ call[h].pc = "write"
  /\ disk' = [disk EXCEPT ![call[h].req.path] = call[h].data]
  /\ Moves(h, Goes(h, "written"))
  /\ UNCHANGED <<meta, meta_file, tmp, lock, op_log, restarts>>

\* What the handler answers once its metadata are saved.
Saved(h) ==
  IF call[h].req.op = "Open" THEN Ok(h, VersionOf(h), Empty)
  ELSE Ok(h, call[h].version, Empty)

\* mutant: the handler answers before its metadata are saved
WrittenUnsaved(h) ==
  /\ call[h].pc = "written"
  /\ meta' = [meta EXCEPT ![call[h].req.path] =
                [version |-> call[h].version, data |-> call[h].data]]
  /\ Moves(h, Saved(h))
  /\ lock' = Unlocked(h)
  /\ UNCHANGED <<disk, meta_file, tmp, op_log, restarts>>

\* The new entry of _meta, and the text that _save_meta will write.
Written(h) ==
  LET new == [meta EXCEPT ![call[h].req.path] =
                [version |-> call[h].version, data |-> call[h].data]]
  IN  /\ call[h].pc = "written"
      /\ meta' = new
      /\ Moves(h, [Goes(h, "save") EXCEPT !.text = new])
      /\ UNCHANGED <<disk, meta_file, tmp, lock, op_log, restarts>>

\* tmp.write_text empties the file ...
Save(h) ==
  /\ call[h].pc = "save"
  /\ tmp' = [tmp EXCEPT !.text = Empty, !.open = @ \cup {h}]
  /\ Moves(h, [call[h] EXCEPT !.pc = "fill"])
  /\ UNCHANGED <<meta, disk, meta_file, lock, op_log, restarts>>

\* What becomes of a text that h writes over old, where the calls in open write
\* as well: parts of several texts are no text.
Over(old, open, h) ==
  {call[h].text} \cup IF old = Empty /\ open = {h} THEN {} ELSE {Torn}

\* ... and fills it, under the name that it has by now. If it is neither file
\* any more, nobody will read it.
Fill(h) ==
  /\ call[h].pc = "fill"
  /\ \E text \in Over(tmp.text, tmp.open, h) :
       tmp' = [tmp EXCEPT !.text = IF h \in tmp.open THEN text ELSE @,
                          !.open = @ \ {h}, !.moved = @ \ {h}]
  /\ IF h \in tmp.moved THEN meta_file' \in Over(meta_file, tmp.moved, h)
                         ELSE UNCHANGED meta_file
  /\ Moves(h, Goes(h, "replace"))
  /\ UNCHANGED <<meta, disk, lock, op_log, restarts>>

\* tmp.replace: it fails if another call has moved the file meanwhile.
Replace(h) ==
  /\ call[h].pc = "replace"
  /\ IF tmp.text = None THEN UNCHANGED <<meta_file, tmp>>
     ELSE /\ meta_file' = tmp.text
          /\ tmp' = [text |-> None, open |-> {}, moved |-> tmp.open]
  /\ Moves(h, IF Cancelled(h) THEN Goes(h, "done")
              ELSE IF tmp.text = None THEN Fails(h) ELSE Saved(h))
  /\ lock' = Unlocked(h)
  /\ UNCHANGED <<meta, disk, op_log, restarts>>

-----------------------------------------------------------------------------

Next ==
  \/ Crash
  \/ \E h \in Call :
       \/ Receive(h) \/ LookUp(h) \/ Record(h) \/ Deadline(h)
       \/ StartOpen(h) \/ StartGetFile(h) \/ TestAuth(h) \/ StartCreate(h)
       \/ StartPutFile(h) \/ Look(h) \/ Read(h) \/ Got(h) \/ Truncate(h)
       \/ Write(h) \/ Written(h) \/ Save(h) \/ Fill(h) \/ Replace(h)

Spec == Init /\ [][Next]_vars

-----------------------------------------------------------------------------
(* Properties.                                                             *)

\* Every variable keeps to the values the code gives it.
TypeOK ==
  /\ meta \in Meta /\ meta_file \in Text /\ tmp \in Temporary
  /\ disk \in [Path -> Content \cup {None}]
  /\ lock \in [Path -> Call \cup {None}]
  /\ op_log \in [OpId -> Nat \cup {None}]
  /\ call \in [Call -> CallState]
  /\ restarts \in Nat

Received(p) == {h \in Call : call[h].pc # "none" /\ call[h].req.path = p}

\* Calls for other paths save the same .meta.json, and cancelled ones go on
\* saving after they have given up their lock.
Undisturbed(p) ==
  \A h \in Call : call[h].pc # "none" => h \in Received(p) /\ call[h].code # "timeout"

AnsweredPuts(p) ==
  {h \in Received(p) : /\ call[h].req.op = "PutFile"
                       /\ call[h].pc = "done" /\ call[h].code = "ok"}

\* No acknowledged write of a file that exists is taken back or merged with
\* another: they have different versions, and the metadata are those of the last
\* of them or of a write since (PutFile's lock and version check). With any
\* interleaving, other paths and deadlines this is promised until the first
\* crash, and after one if all calls are for this path and none met its deadline.
\* Of the bytes it says nothing: a cancelled call's thread may still replace them.
NoLostWrite ==
  \A p \in Existing : restarts = 0 \/ Undisturbed(p) =>
    \A h \in AnsweredPuts(p) :
      /\ call[h].version <= meta[p].version
      /\ call[h].version = meta[p].version => meta[p].data = call[h].req.data
      /\ \A g \in AnsweredPuts(p) \ {h} : call[g].version # call[h].version

\* A version that was acknowledged survives a crash of the server, with its
\* content, or a later version does (_save_meta before the answer).
AnsweredIsSaved ==
  \A p \in Existing : Undisturbed(p) =>
    \A h \in AnsweredPuts(p) :
      /\ meta_file[p].version >= call[h].version
      /\ meta_file[p].version = call[h].version => meta_file[p].data = call[h].req.data

\* When no call is under way the file holds what its metadata say, as long as
\* nothing was cancelled or killed.
MetaMatchesFile ==
  \A p \in Existing :
    restarts = 0 /\ (\A h \in Received(p) : call[h].pc = "done" /\ call[h].code # "timeout")
      => disk[p] = meta[p].data
=============================================================================

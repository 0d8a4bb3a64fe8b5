--------------------------- MODULE FileServerProofs -------------------------
(***************************************************************************)
(* Theorems about FileServer, for any paths, contents, calls and bounds:   *)
(* no acknowledged write of a file that exists is lost, each is saved, and *)
(* the file is what its metadata say, whatever calls overlap with it.      *)
(***************************************************************************)
EXTENDS FileServer, TLAPS

-----------------------------------------------------------------------------
(* Types, and what the place of a call says of the rest of it.             *)

Pc == {"none", "look_up", "start", "look", "read", "got", "truncate", "write",
       "written", "save", "fill", "replace", "record", "done"}
Code == {"none", "ok", "error", "timeout", "lost"}

\* r is a call, d are the files.
Fits(r, d) ==
  /\ r.pc # "none" => r.req \in Request
  /\ r.pc \notin Threads \cup {"record", "done"} => r.code = "none"
  /\ r.pc \in Threads => r.code \in {"none", "timeout"}
  /\ r.pc \in {"look_up", "record"} => r.req.op_id # None
  /\ r.pc = "look" => r.req.op \in {"Open", "Create", "GetFile"}
  /\ r.pc = "read" => r.req.op \in {"Open", "GetFile"} /\ d[r.req.path] # None
  /\ r.pc = "got" => r.req.op = "GetFile"
  /\ r.pc = "truncate" => r.req.op = "PutFile"
  /\ r.pc = "write" => r.req.op \in {"Create", "PutFile"}
  /\ r.pc \in {"written", "save", "fill", "replace"} => r.req.op \in {"Open", "Create", "PutFile"}
  /\ r.pc \in {"look_up", "start", "look", "truncate", "write", "written"}
       => r.data \in Content
  /\ r.pc \in {"save", "fill"} => r.text # None

Typing == TypeOK /\ \A h \in Call : Fits(call[h], disk)

\* What a request holds
LEMMA RequestType ==
  ASSUME NEW r \in Request
  PROVE  /\ r.path \in Path /\ r.data \in Content /\ r.version \in Nat
         /\ r.op_id \in OpId \cup {None}
         /\ r.op \in {"PutFile", "Create", "Open", "GetFile", "TestAuth"}
         /\ r.op # "Create" => r.op_id = None
BY FileAssumption DEF Request, Content

\* What is in the record q of a call
Is(q, pc, req, v, d, t, code) ==
  /\ q \in CallState /\ q.pc = pc /\ q.req = req /\ q.version = v /\ q.data = d
  /\ q.text = t /\ q.code = code

\* The records that the actions make of a call's record
WithPc(r, pc) == [r EXCEPT !.pc = pc]
WithEnd(r, pc, code) == [r EXCEPT !.pc = pc, !.code = code, !.text = None]
WithCode(r, pc, code) == [r EXCEPT !.code = code, !.pc = pc]
WithResult(r, v) == [r EXCEPT !.pc = "done", !.code = "ok", !.version = v]
WithAnswer(r, pc, v, d) ==
  [r EXCEPT !.pc = pc, !.code = "ok", !.version = v, !.data = d, !.text = None]
WithVersion(r, v, d) == [r EXCEPT !.version = v, !.data = d]
WithData(r, d, v) == [r EXCEPT !.data = d, !.version = v]
WithText(r, t) == [r EXCEPT !.text = t]
New(req, pc) == [NotReceived EXCEPT !.req = req, !.pc = pc]

LEMMA Fields ==
  ASSUME NEW r \in CallState, NEW pc \in Pc, NEW code \in Code
  PROVE  /\ Is(WithPc(r, pc), pc, r.req, r.version, r.data, r.text, r.code)
         /\ Is(WithEnd(r, pc, code), pc, r.req, r.version, r.data, None, code)
         /\ Is(WithCode(r, pc, code), pc, r.req, r.version, r.data, r.text, code)
<1>1. Is(WithPc(r, pc), pc, r.req, r.version, r.data, r.text, r.code)
  BY DEF Is, WithPc, CallState, Pc
<1>2. Is(WithEnd(r, pc, code), pc, r.req, r.version, r.data, None, code)
  BY DEF Is, WithEnd, CallState, Pc, Code
<1>3. Is(WithCode(r, pc, code), pc, r.req, r.version, r.data, r.text, code)
  BY DEF Is, WithCode, CallState, Pc, Code
<1> QED  BY <1>1, <1>2, <1>3

LEMMA FieldsAnswer ==
  ASSUME NEW r \in CallState, NEW pc \in Pc, NEW v \in Nat, NEW d \in Content \cup {None}
  PROVE  /\ Is(WithResult(r, v), "done", r.req, v, r.data, r.text, "ok")
         /\ Is(WithAnswer(r, pc, v, d), pc, r.req, v, d, None, "ok")
<1>1. Is(WithResult(r, v), "done", r.req, v, r.data, r.text, "ok")
  BY DEF Is, WithResult, CallState, Pc
<1>2. Is(WithAnswer(r, pc, v, d), pc, r.req, v, d, None, "ok")
  BY DEF Is, WithAnswer, CallState, Pc
<1> QED  BY <1>1, <1>2

LEMMA FieldsData ==
  ASSUME NEW r \in CallState, NEW v \in Nat, NEW d \in Content \cup {None}
  PROVE  /\ Is(WithVersion(r, v, d), r.pc, r.req, v, d, r.text, r.code)
         /\ Is(WithData(r, d, v), r.pc, r.req, v, d, r.text, r.code)
<1>1. Is(WithVersion(r, v, d), r.pc, r.req, v, d, r.text, r.code)
  BY DEF Is, WithVersion, CallState
<1>2. Is(WithData(r, d, v), r.pc, r.req, v, d, r.text, r.code)
  BY DEF Is, WithData, CallState
<1> QED  BY <1>1, <1>2

LEMMA FieldText ==
  ASSUME NEW r \in CallState, NEW t \in Meta
  PROVE  Is(WithText(r, t), r.pc, r.req, r.version, r.data, t, r.code)
BY DEF Is, WithText, CallState

LEMMA FieldsNew ==
  ASSUME NEW r \in Request, NEW pc \in Pc
  PROVE  Is(New(r, pc), pc, r, 0, Empty, None, "none")
<1>1. Is(NotReceived, "none", None, 0, Empty, None, "none")
  BY DEF Is, CallState, NotReceived, Content
<1> QED  BY <1>1 DEF Is, New, CallState, Pc

\* The same for the operators of the handlers
LEMMA GoesIs ==
  ASSUME Typing, NEW h \in Call, NEW pc \in Pc
  PROVE  Is(Goes(h, pc), IF Cancelled(h) THEN "done" ELSE pc, call[h].req,
            call[h].version, call[h].data, call[h].text, call[h].code)
<1> DEFINE where == IF Cancelled(h) THEN "done" ELSE pc
<1>1. call[h] \in CallState /\ where \in Pc  BY DEF Typing, TypeOK, Pc
<1>2. Goes(h, pc) = WithPc(call[h], where)  BY DEF Goes, WithPc
<1> HIDE DEF where
<1>3. Is(WithPc(call[h], where), where, call[h].req, call[h].version,
         call[h].data, call[h].text, call[h].code)
  BY <1>1, Fields DEF Code
<1> QED  BY <1>2, <1>3 DEF where

LEMMA OkIs ==
  ASSUME Typing, NEW h \in Call, NEW v \in Nat, NEW d \in Content \cup {None}
  PROVE  Is(Ok(h, v, d), IF call[h].req.op_id # None THEN "record" ELSE "done",
            call[h].req, v, d, None, "ok")
<1> DEFINE where == IF call[h].req.op_id # None THEN "record" ELSE "done"
<1>1. call[h] \in CallState /\ where \in Pc  BY DEF Typing, TypeOK, Pc
<1>2. Ok(h, v, d) = WithAnswer(call[h], where, v, d)  BY DEF Ok, WithAnswer
<1> HIDE DEF where
<1>3. Is(WithAnswer(call[h], where, v, d), where, call[h].req, v, d, None, "ok")
  BY <1>1, FieldsAnswer
<1> QED  BY <1>2, <1>3 DEF where

LEMMA FailsIs ==
  ASSUME Typing, NEW h \in Call
  PROVE  Is(Fails(h), "done", call[h].req, call[h].version, call[h].data, None, "error")
<1>1. call[h] \in CallState /\ "done" \in Pc /\ "error" \in Code
  BY DEF Typing, TypeOK, Pc, Code
<1>2. Fails(h) = WithEnd(call[h], "done", "error")  BY DEF Fails, WithEnd
<1>3. Is(WithEnd(call[h], "done", "error"), "done", call[h].req, call[h].version,
         call[h].data, None, "error")
  BY <1>1, Fields
<1> QED  BY <1>2, <1>3

LEMMA VersionType ==
  ASSUME Typing, NEW h \in Call, call[h].pc # "none"
  PROVE  VersionOf(h) \in Nat
<1>1. call[h].req.path \in Path /\ meta \in Meta
  BY RequestType DEF Typing, TypeOK, Fits
<1> QED  BY <1>1 DEF VersionOf, MetaOf, Meta, Version

LEMMA SavedIs ==
  ASSUME Typing, NEW h \in Call, call[h].pc # "none"
  PROVE  Is(Saved(h), IF call[h].req.op_id # None THEN "record" ELSE "done",
            call[h].req, IF call[h].req.op = "Open" THEN VersionOf(h) ELSE call[h].version,
            Empty, None, "ok")
<1>1. VersionOf(h) \in Nat /\ call[h].version \in Nat /\ Empty \in Content
  BY VersionType DEF Typing, TypeOK, CallState, Content
<1> QED  BY <1>1, OkIs DEF Saved

\* Only the call h moves.
LEMMA Moved ==
  ASSUME Typing, NEW h \in Call, NEW r, Moves(h, r)
  PROVE  call'[h] = r /\ \A g \in Call \ {h} : call'[g] = call[g]
BY DEF Typing, TypeOK, Moves

LEMMA TypingStep ==
  ASSUME Typing, NEW h \in Call, NEW r \in CallState, Moves(h, r), Fits(r, disk'),
         meta' \in Meta, meta_file' \in Text, tmp' \in Temporary,
         disk' \in [Path -> Content \cup {None}],
         \A p \in Path : disk[p] # None => disk'[p] # None,
         lock' \in [Path -> Call \cup {None}],
         op_log' \in [OpId -> Nat \cup {None}], restarts' = restarts
  PROVE  Typing'
<1>1. call' \in [Call -> CallState]  BY DEF Typing, TypeOK, Moves
<1>2. TypeOK'  BY <1>1 DEF Typing, TypeOK
<1>3. ASSUME NEW g \in Call PROVE Fits(call'[g], disk')
  <2>1. CASE g = h  BY <2>1, Moved
  <2>2. CASE g # h
    <3>1. call'[g] = call[g] /\ Fits(call[g], disk)  BY <2>2, Moved DEF Typing
    <3>2. call[g].pc = "read" => call[g].req.path \in Path
      BY <3>1, RequestType DEF Fits
    <3> QED  BY <3>1, <3>2 DEF Fits
  <2> QED  BY <2>1, <2>2
<1> QED  BY <1>2, <1>3 DEF Typing

\* The usual case: nothing but the call changes, and perhaps its lock.
LEMMA TypingCall ==
  ASSUME Typing, NEW h \in Call, NEW r \in CallState, Moves(h, r), Fits(r, disk),
         UNCHANGED <<meta, disk, meta_file, tmp, restarts>>,
         lock' \in [Path -> Call \cup {None}],
         op_log' \in [OpId -> Nat \cup {None}]
  PROVE  Typing'
<1>1. /\ meta \in Meta /\ meta_file \in Text /\ tmp \in Temporary
      /\ disk \in [Path -> Content \cup {None}]
  BY DEF Typing, TypeOK
<1> QED  BY <1>1, TypingStep

LEMMA UnlockedType ==
  ASSUME Typing, NEW h \in Call
  PROVE  Unlocked(h) \in [Path -> Call \cup {None}]
BY DEF Typing, TypeOK, Unlocked

\* The call h goes on with its request, at one of the given places.
GoesTo(h, pcs) ==
  /\ call[h].pc \notin {"none", "done"}
  /\ call'[h].req = call[h].req /\ call'[h].pc \in pcs
  /\ call[h].code = "timeout" => call'[h].code = "timeout"

LEMMA InitTyping == Init => Typing
<1> SUFFICES ASSUME Init PROVE Typing  OBVIOUS
<1>1. NotReceived \in CallState /\ NotReceived.pc = "none" /\ NotReceived.code = "none"
  BY DEF NotReceived, CallState, Content
<1>2. meta \in Meta  BY DEF Init, Meta, Version, Content
<1>3. disk \in [Path -> Content \cup {None}]  BY DEF Init, Content
<1>4. TypeOK  BY <1>1, <1>2, <1>3 DEF Init, TypeOK, Text, Temporary
<1>5. \A h \in Call : Fits(call[h], disk)  BY <1>1 DEF Init, Fits, Threads
<1> QED  BY <1>4, <1>5 DEF Typing

LEMMA ReceiveTyped ==
  ASSUME Typing, NEW h \in Call, Receive(h)
  PROVE  /\ Typing' /\ call[h].pc = "none" /\ call'[h].pc \in {"start", "look_up"}
         /\ call'[h].code = "none"
<1>1. PICK r \in Request :
        Moves(h, [NotReceived EXCEPT !.req = r,
                                     !.pc = IF r.op_id = None THEN "start" ELSE "look_up"])
  BY DEF Receive
<1> DEFINE pc == IF r.op_id = None THEN "start" ELSE "look_up"
<1>2. Moves(h, New(r, pc))  BY <1>1 DEF New
<1>3. pc \in Pc  BY DEF Pc
<1>4. Is(New(r, pc), pc, r, 0, Empty, None, "none")  BY <1>3, FieldsNew
<1>5. Fits(New(r, pc), disk)  BY <1>4 DEF Is, Fits, Threads, Content
<1>6. New(r, pc) \in CallState  BY <1>4 DEF Is
<1> HIDE DEF pc
<1>7. Typing'  BY <1>2, <1>5, <1>6, TypingCall DEF Receive, Typing, TypeOK
<1>8. call'[h] = New(r, pc)  BY <1>2, Moved
<1> QED  BY <1>4, <1>7, <1>8 DEF Is, pc, Receive

LEMMA LookUpTyped ==
  ASSUME Typing, NEW h \in Call, LookUp(h)
  PROVE  Typing' /\ GoesTo(h, {"start", "done"})
<1> DEFINE prev == op_log[call[h].req.op_id]
           r == IF prev = None THEN WithPc(call[h], "start") ELSE WithResult(call[h], prev)
<1>1. Moves(h, r)  BY DEF LookUp, WithPc, WithResult
<1>2. /\ call[h] \in CallState /\ Fits(call[h], disk) /\ call[h].pc = "look_up"
      /\ prev \in Nat \cup {None}
  BY RequestType DEF Typing, TypeOK, LookUp, Fits
<1>3. CASE prev = None
  <2>1. Is(r, "start", call[h].req, call[h].version, call[h].data, call[h].text,
           call[h].code)
    BY <1>2, <1>3, Fields DEF Pc, Code
  <2>2. r \in CallState /\ Fits(r, disk)  BY <1>2, <2>1 DEF Is, Fits, Threads
  <2> HIDE DEF r
  <2>3. Typing'  BY <1>1, <2>2, TypingCall DEF LookUp, Typing, TypeOK
  <2> QED  BY <1>1, <1>2, <2>1, <2>3, Moved DEF Is, GoesTo, Fits, Threads
<1>4. CASE prev # None
  <2>1. Is(r, "done", call[h].req, prev, call[h].data, call[h].text, "ok")
    BY <1>2, <1>4, FieldsAnswer DEF Pc
  <2>2. r \in CallState /\ Fits(r, disk)  BY <1>2, <2>1 DEF Is, Fits, Threads
  <2> HIDE DEF r
  <2>3. Typing'  BY <1>1, <2>2, TypingCall DEF LookUp, Typing, TypeOK
  <2> QED  BY <1>1, <1>2, <2>1, <2>3, Moved DEF Is, GoesTo, Fits, Threads
<1> QED  BY <1>3, <1>4

LEMMA RecordTyped ==
  ASSUME Typing, NEW h \in Call, Record(h)
  PROVE  Typing' /\ GoesTo(h, {"done"}) /\ call[h].req.op_id # None
<1> DEFINE r == WithPc(call[h], "done")
<1>1. Moves(h, r)  BY DEF Record, WithPc
<1>2. call[h] \in CallState /\ Fits(call[h], disk) /\ call[h].pc = "record"
  BY DEF Typing, TypeOK, Record
<1>3. Is(r, "done", call[h].req, call[h].version, call[h].data, call[h].text,
         call[h].code)
  BY <1>2, Fields DEF Pc, Code
<1>4. r \in CallState /\ Fits(r, disk)  BY <1>2, <1>3 DEF Is, Fits, Threads
<1>5. op_log' \in [OpId -> Nat \cup {None}]
  <2>1. call[h].version \in Nat /\ op_log \in [OpId -> Nat \cup {None}]
    BY <1>2 DEF CallState, Typing, TypeOK
  <2> QED  BY <2>1 DEF Record
<1> HIDE DEF r
<1>6. Typing'  BY <1>1, <1>4, <1>5, TypingCall DEF Record, Typing, TypeOK
<1> QED  BY <1>1, <1>2, <1>3, <1>6, Moved DEF Is, GoesTo, Fits

LEMMA DeadlineTyped ==
  ASSUME Typing, NEW h \in Call, Deadline(h)
  PROVE  Typing' /\ GoesTo(h, {call[h].pc, "done"}) /\ call'[h].code = "timeout"
         /\ call'[h].text = call[h].text
<1>1. PICK next \in {call[h].pc, "done"} :
        /\ next # "done" => call[h].pc \in Threads
        /\ Moves(h, [call[h] EXCEPT !.code = "timeout", !.pc = next])
  BY DEF Deadline
<1> DEFINE r == WithCode(call[h], next, "timeout")
<1>2. Moves(h, r)  BY <1>1 DEF WithCode
<1>3. /\ call[h] \in CallState /\ Fits(call[h], disk)
      /\ call[h].pc # "none" /\ call[h].pc # "look_up" /\ call[h].pc # "record"
  BY DEF Typing, TypeOK, Deadline, Threads
<1>4. next \in Pc /\ "timeout" \in Code  BY <1>3 DEF Pc, Code, CallState
<1>5. Is(r, next, call[h].req, call[h].version, call[h].data, call[h].text, "timeout")
  BY <1>3, <1>4, Fields
<1>6. r \in CallState  BY <1>5 DEF Is
<1>7. Fits(r, disk)  BY <1>1, <1>3, <1>5 DEF Is, Fits, Threads
<1> HIDE DEF r
<1>8. Typing'  BY <1>2, <1>6, <1>7, TypingCall, UnlockedType DEF Deadline, Typing, TypeOK
<1>9. call'[h] = r  BY <1>2, Moved
<1> QED  BY <1>3, <1>5, <1>8, <1>9 DEF Is, GoesTo, Deadline, Threads

\* An answer fits in any place.
LEMMA AnswerFits ==
  ASSUME NEW r, NEW d, NEW req \in Request, NEW v, NEW data, NEW t, NEW code,
         \/ Is(r, IF req.op_id # None THEN "record" ELSE "done", req, v, data, t, code)
         \/ Is(r, "done", req, v, data, t, code)
  PROVE  r \in CallState /\ Fits(r, d)
BY DEF Is, Fits, Threads

LEMMA StartOpenTyped ==
  ASSUME Typing, NEW h \in Call, StartOpen(h)
  PROVE  /\ Typing' /\ GoesTo(h, {"look", "record", "done"})
         /\ call[h].req.op = "Open" /\ (call'[h].pc = "look" => MetaOf(h) = None)
<1> DEFINE r == IF MetaOf(h) # None THEN Ok(h, VersionOf(h), Empty) ELSE Goes(h, "look")
<1>1. Moves(h, r)  BY DEF StartOpen
<1>2. /\ call[h].pc = "start" /\ call[h].req \in Request /\ call[h].req.op = "Open"
      /\ Fits(call[h], disk) /\ VersionOf(h) \in Nat /\ Empty \in Content
  BY VersionType DEF Typing, StartOpen, Begins, Fits, Content
<1>3. /\ r \in CallState /\ Fits(r, disk) /\ r.req = call[h].req
      /\ r.pc \in {"look", "record", "done"} /\ (r.pc = "look" => MetaOf(h) = None)
  <2>1. CASE MetaOf(h) # None
    <3>1. Is(r, IF call[h].req.op_id # None THEN "record" ELSE "done", call[h].req,
             VersionOf(h), Empty, None, "ok")
      BY <1>2, <2>1, OkIs
    <3> HIDE DEF r
    <3> QED  BY <1>2, <3>1, AnswerFits DEF Is
  <2>2. CASE MetaOf(h) = None
    <3>1. Is(r, IF Cancelled(h) THEN "done" ELSE "look", call[h].req, call[h].version,
             call[h].data, call[h].text, call[h].code)
      BY <2>2, GoesIs DEF Pc
    <3> HIDE DEF r
    <3> QED  BY <1>2, <2>2, <3>1 DEF Is, Fits, Threads, Cancelled
  <2> QED  BY <2>1, <2>2
<1> HIDE DEF r
<1>4. Typing'  BY <1>1, <1>3, TypingCall DEF StartOpen, Typing, TypeOK
<1> QED  BY <1>1, <1>2, <1>3, <1>4, Moved DEF GoesTo, Fits, Threads

LEMMA StartGetFileTyped ==
  ASSUME Typing, NEW h \in Call, StartGetFile(h)
  PROVE  /\ Typing' /\ GoesTo(h, {"look"}) /\ call[h].req.op = "GetFile"
<1> DEFINE r == Goes(h, "look")
<1>1. Moves(h, r)  BY DEF StartGetFile
<1>2. /\ call[h].pc = "start" /\ call[h].req.op = "GetFile" /\ Fits(call[h], disk)
  BY DEF Typing, StartGetFile, Begins
<1>3. Is(r, IF Cancelled(h) THEN "done" ELSE "look", call[h].req, call[h].version,
         call[h].data, call[h].text, call[h].code)
  BY GoesIs DEF Pc
<1> HIDE DEF r
<1>4. r \in CallState /\ Fits(r, disk)  BY <1>2, <1>3 DEF Is, Fits, Threads, Cancelled
<1>5. Typing'  BY <1>1, <1>4, TypingCall DEF StartGetFile, Typing, TypeOK
<1> QED
  BY <1>1, <1>2, <1>3, <1>5, Moved
  DEF Is, GoesTo, Typing, Fits, Threads, Cancelled, StartGetFile, Begins

LEMMA TestAuthTyped ==
  ASSUME Typing, NEW h \in Call, TestAuth(h)
  PROVE  /\ Typing' /\ GoesTo(h, {"record", "done"}) /\ call[h].req.op = "TestAuth"
<1> DEFINE r == Ok(h, VersionOf(h), Empty)
<1>1. Moves(h, r)  BY DEF TestAuth
<1>2. /\ call[h].pc = "start" /\ call[h].req \in Request
      /\ VersionOf(h) \in Nat /\ Empty \in Content
  BY VersionType DEF Typing, TestAuth, Begins, Fits, Content
<1>3. Is(r, IF call[h].req.op_id # None THEN "record" ELSE "done", call[h].req,
         VersionOf(h), Empty, None, "ok")
  BY <1>2, OkIs
<1> HIDE DEF r
<1>4. r \in CallState /\ Fits(r, disk)  BY <1>2, <1>3, AnswerFits
<1>5. Typing'  BY <1>1, <1>4, TypingCall DEF TestAuth, Typing, TypeOK
<1> QED
  BY <1>1, <1>2, <1>3, <1>5, Moved
  DEF Is, GoesTo, Typing, Fits, Threads, Cancelled, TestAuth, Begins

LEMMA StartCreateTyped ==
  ASSUME Typing, NEW h \in Call, StartCreate(h)
  PROVE  /\ Typing' /\ GoesTo(h, {"look", "write"}) /\ call[h].req.op = "Create"
         /\ call'[h].pc = "write" => MetaOf(h) = None
<1> DEFINE pc == IF MetaOf(h) # None THEN "look" ELSE "write"
           r == WithVersion(Goes(h, pc), 1, Empty)
<1>1. Moves(h, r)  BY DEF StartCreate, WithVersion
<1>2. call[h].pc = "start" /\ call[h].req.op = "Create" /\ Fits(call[h], disk)
  BY DEF Typing, StartCreate, Begins
<1>3. Is(Goes(h, pc), IF Cancelled(h) THEN "done" ELSE pc, call[h].req, call[h].version,
         call[h].data, call[h].text, call[h].code)
  BY GoesIs DEF Pc
<1>4. Is(r, IF Cancelled(h) THEN "done" ELSE pc, call[h].req, 1, Empty,
         call[h].text, call[h].code)
  <2>1. Empty \in Content /\ Goes(h, pc) \in CallState  BY <1>3 DEF Content, Is
  <2> HIDE DEF pc
  <2> QED  BY <1>3, <2>1, FieldsData DEF Is
<1> HIDE DEF r
<1>5. r \in CallState /\ Fits(r, disk)
  BY <1>2, <1>4 DEF Is, Fits, Threads, Cancelled, Content
<1>6. Typing'  BY <1>1, <1>5, TypingCall DEF StartCreate, Typing, TypeOK
<1> QED
  BY <1>1, <1>2, <1>4, <1>6, Moved
  DEF Is, GoesTo, Typing, Fits, Threads, Cancelled, StartCreate, Begins

LEMMA StartPutFileTyped ==
  ASSUME Typing, NEW h \in Call, StartPutFile(h)
  PROVE  /\ Typing'
         /\ call[h].pc = "start" /\ call[h].code = "none"
         /\ call[h].req.op = "PutFile" /\ lock[call[h].req.path] = None
         /\ \/ /\ lock' = [lock EXCEPT ![call[h].req.path] = h]
               /\ Is(call'[h], "truncate", call[h].req, VersionOf(h) + 1,
                     call[h].req.data, call[h].text, "none")
            \/ /\ lock' = lock
               /\ call'[h].req = call[h].req /\ call'[h].pc = "done"
               /\ call'[h].code = "error"
<1> DEFINE r == WithVersion(Goes(h, "truncate"), VersionOf(h) + 1, call[h].req.data)
<1>1. /\ call[h].pc = "start" /\ call[h].code = "none" /\ call[h].req.op = "PutFile"
      /\ Fits(call[h], disk) /\ call[h].req \in Request /\ VersionOf(h) \in Nat
      /\ lock[call[h].req.path] = None
  BY VersionType DEF Typing, StartPutFile, Begins, Fits, Threads, LockFree
<1>2. CASE Current(h)
  <2>1. Moves(h, r) /\ lock' = [lock EXCEPT ![call[h].req.path] = h]
    BY <1>2 DEF StartPutFile, WithVersion
  <2>2. Is(Goes(h, "truncate"), IF Cancelled(h) THEN "done" ELSE "truncate",
           call[h].req, call[h].version, call[h].data, call[h].text, call[h].code)
    BY GoesIs DEF Pc
  <2>3. Is(r, IF Cancelled(h) THEN "done" ELSE "truncate", call[h].req,
           VersionOf(h) + 1, call[h].req.data, call[h].text, call[h].code)
    <3> DEFINE q == Goes(h, "truncate")
               v == VersionOf(h) + 1
    <3>1. call[h].req.data \in Content /\ q \in CallState /\ v \in Nat
      BY <1>1, <2>2, RequestType DEF Is
    <3>2. Is(WithVersion(q, v, call[h].req.data), q.pc, q.req, v, call[h].req.data,
             q.text, q.code)
      <4> HIDE DEF q, v
      <4> QED  BY <3>1, FieldsData
    <3> QED  BY <2>2, <3>2, Zenon DEF Is
  <2> HIDE DEF r
  <2>4. r \in CallState /\ Fits(r, disk)
    BY <1>1, <2>3, RequestType DEF Is, Fits, Threads, Cancelled
  <2>5. Typing'  BY <2>1, <2>4, TypingCall DEF StartPutFile, Typing, TypeOK
  <2>6. call'[h] = r  BY <2>1, Moved
  <2>7. Is(r, "truncate", call[h].req, VersionOf(h) + 1, call[h].req.data, call[h].text, "none")
    BY <1>1, <2>3 DEF Cancelled
  <2> QED  BY <1>1, <2>1, <2>5, <2>6, <2>7
<1>3. CASE ~Current(h)
  <2>1. Moves(h, Fails(h)) /\ lock' = lock  BY <1>3 DEF StartPutFile
  <2>2. Fails(h) \in CallState /\ Fits(Fails(h), disk)
    BY <1>1, FailsIs, AnswerFits
  <2>3. Typing'  BY <2>1, <2>2, TypingCall DEF StartPutFile, Typing, TypeOK
  <2>4. call'[h] = Fails(h)  BY <2>1, Moved
  <2> QED  BY <1>1, <2>1, <2>3, <2>4, FailsIs DEF Is
<1> QED  BY <1>2, <1>3

\* fp.exists: where the call goes from there
LEMMA LookIs ==
  ASSUME Typing, NEW h \in Call, Look(h)
  PROVE  \E r : /\ Moves(h, r) /\ call[h].pc = "look" /\ call[h].code = "none"
                /\ \/ /\ Is(r, "done", call[h].req, call[h].version, call[h].data,
                            None, "error")
                      /\ call[h].req.op \in {"Create", "GetFile"}
                   \/ \E pc \in {"read", "written", "write"} :
                        /\ Is(r, pc, call[h].req, call[h].version, call[h].data,
                              call[h].text, "none")
                        /\ pc = "read" => /\ call[h].req.op \in {"Open", "GetFile"}
                                          /\ disk[call[h].req.path] # None
                        /\ pc = "written" => /\ call[h].req.op = "Open"
                                             /\ disk[call[h].req.path] = None
                        /\ pc = "write" => /\ call[h].req.op = "Create"
                                           /\ disk[call[h].req.path] = None
<1> DEFINE q == call[h].req
           exists == disk[q.path] # None
<1>1. /\ call[h].pc = "look" /\ call[h].code = "none"
      /\ q.op \in {"Open", "Create", "GetFile"} /\ ~Cancelled(h)
  BY DEF Look, Typing, Fits, Threads, Cancelled
<1>2. \A pc \in {"read", "written", "write"} :
        Is(Goes(h, pc), pc, q, call[h].version, call[h].data, call[h].text, "none")
  <2> TAKE pc \in {"read", "written", "write"}
  <2>1. Is(Goes(h, pc), IF Cancelled(h) THEN "done" ELSE pc, q, call[h].version,
           call[h].data, call[h].text, call[h].code)
    BY GoesIs DEF Pc
  <2> QED  BY <1>1, <2>1
<1>3. Is(Fails(h), "done", q, call[h].version, call[h].data, None, "error")
  BY FailsIs
<1>4. CASE q.op \in {"Create", "GetFile"} /\ (q.op = "Create" <=> exists)
  <2>1. Moves(h, Fails(h))  BY <1>4 DEF Look
  <2> QED  BY <1>1, <1>3, <1>4, <2>1
<1>5. CASE q.op \in {"Open", "GetFile"} /\ exists
  <2>1. Moves(h, Goes(h, "read"))  BY <1>5 DEF Look
  <2> QED  BY <1>1, <1>2, <1>5, <2>1
<1>6. CASE q.op = "Open" /\ ~exists
  <2>1. Moves(h, Goes(h, "written"))  BY <1>6 DEF Look
  <2> QED  BY <1>1, <1>2, <1>6, <2>1
<1>7. CASE q.op = "Create" /\ ~exists
  <2>1. Moves(h, Goes(h, "write"))  BY <1>7 DEF Look
  <2> QED  BY <1>1, <1>2, <1>7, <2>1
<1> QED  BY <1>1, <1>4, <1>5, <1>6, <1>7

LEMMA LookTyped ==
  ASSUME Typing, NEW h \in Call, Look(h)
  PROVE  /\ Typing' /\ GoesTo(h, {"read", "written", "write", "done"})
         /\ call'[h].pc # "done" => disk[call[h].req.path] = None \/ call'[h].pc = "read"
         /\ call'[h].pc = "read" => call[h].req.op \in {"Open", "GetFile"}
         /\ call'[h].code # "ok" /\ call[h].req.op # "PutFile"
<1>1. PICK r :
        /\ Moves(h, r) /\ call[h].pc = "look" /\ call[h].code = "none"
        /\ \/ /\ Is(r, "done", call[h].req, call[h].version, call[h].data,
                    None, "error")
              /\ call[h].req.op \in {"Create", "GetFile"}
           \/ \E pc \in {"read", "written", "write"} :
                /\ Is(r, pc, call[h].req, call[h].version, call[h].data,
                      call[h].text, "none")
                /\ pc = "read" => /\ call[h].req.op \in {"Open", "GetFile"}
                                  /\ disk[call[h].req.path] # None
                /\ pc = "written" => /\ call[h].req.op = "Open"
                                     /\ disk[call[h].req.path] = None
                /\ pc = "write" => /\ call[h].req.op = "Create"
                                   /\ disk[call[h].req.path] = None
  BY LookIs
<1>2. Fits(call[h], disk)  BY DEF Typing
<1>3. r \in CallState /\ r.req = call[h].req /\ r.pc \in {"read", "written", "write", "done"}
  BY <1>1 DEF Is
<1>4. Fits(r, disk)  BY <1>1, <1>2 DEF Is, Fits, Threads
<1>5. Typing'  BY <1>1, <1>3, <1>4, TypingCall DEF Look, Typing, TypeOK
<1>6. call'[h] = r  BY <1>1, Moved
<1> QED  BY <1>1, <1>2, <1>3, <1>5, <1>6 DEF Is, GoesTo, Fits, Threads

LEMMA ReadTyped ==
  ASSUME Typing, NEW h \in Call, Read(h)
  PROVE  /\ Typing' /\ GoesTo(h, {"written", "got"})
         /\ call[h].pc = "read" /\ call[h].req.op \in {"Open", "GetFile"}
         /\ call'[h].pc = "written" => call[h].req.op = "Open"
<1> DEFINE q == Goes(h, IF call[h].req.op = "Open" THEN "written" ELSE "got")
           v == IF call[h].req.op = "Open" THEN 1 ELSE 0
           d == disk[call[h].req.path]
           r == WithData(q, d, v)
<1>1. Moves(h, r)  BY DEF Read, WithData
<1>2. /\ call[h].pc = "read" /\ call[h].code = "none" /\ Fits(call[h], disk)
      /\ call[h].req \in Request /\ call[h].req.op \in {"Open", "GetFile"}
  BY DEF Typing, Read, Fits, Threads
<1>3. d \in Content /\ v \in Nat
  BY <1>2, RequestType DEF Typing, TypeOK, Fits
<1>4. /\ Is(q, q.pc, call[h].req, call[h].version, call[h].data, call[h].text, "none")
      /\ q.pc = IF call[h].req.op = "Open" THEN "written" ELSE "got"
  <2> DEFINE pc == IF call[h].req.op = "Open" THEN "written" ELSE "got"
  <2>1. pc \in Pc  BY DEF Pc
  <2>2. Is(Goes(h, pc), IF Cancelled(h) THEN "done" ELSE pc, call[h].req,
           call[h].version, call[h].data, call[h].text, call[h].code)
    BY <2>1, GoesIs
  <2> QED  BY <1>2, <2>2 DEF Is, Cancelled
<1>5. Is(r, q.pc, call[h].req, v, d, call[h].text, "none")
  <2> HIDE DEF q, d, v
  <2>1. q \in CallState  BY <1>4 DEF Is
  <2>2. Is(r, q.pc, q.req, v, d, q.text, q.code)  BY <1>3, <2>1, FieldsData
  <2> QED  BY <1>4, <2>2, Zenon DEF Is
<1> HIDE DEF q, d, v, r
<1>6. r \in CallState /\ Fits(r, disk)  BY <1>2, <1>3, <1>4, <1>5 DEF Is, Fits, Threads
<1>7. Typing'  BY <1>1, <1>6, TypingCall DEF Read, Typing, TypeOK
<1>8. call'[h] = r  BY <1>1, Moved
<1> QED  BY <1>2, <1>4, <1>5, <1>7, <1>8 DEF Is, GoesTo

LEMMA GotTyped ==
  ASSUME Typing, NEW h \in Call, Got(h)
  PROVE  /\ Typing' /\ GoesTo(h, {"record", "done"})
         /\ call[h].pc = "got" /\ call[h].req.op = "GetFile"
<1> DEFINE r == Ok(h, VersionOf(h), call[h].data)
<1>1. Moves(h, r)  BY DEF Got
<1>2. /\ call[h].pc = "got" /\ call[h].code = "none"
      /\ call[h].req \in Request /\ call[h].req.op = "GetFile"
      /\ VersionOf(h) \in Nat /\ call[h].data \in Content \cup {None}
  BY VersionType DEF Typing, TypeOK, CallState, Got, Fits, Threads
<1>3. Is(r, IF call[h].req.op_id # None THEN "record" ELSE "done", call[h].req,
         VersionOf(h), call[h].data, None, "ok")
  BY <1>2, OkIs
<1> HIDE DEF r
<1>4. r \in CallState /\ Fits(r, disk)  BY <1>2, <1>3, AnswerFits
<1>5. Typing'  BY <1>1, <1>4, TypingCall DEF Got, Typing, TypeOK
<1> QED  BY <1>1, <1>2, <1>3, <1>5, Moved DEF Is, GoesTo

LEMMA TruncateTyped ==
  ASSUME Typing, NEW h \in Call, Truncate(h)
  PROVE  /\ Typing'
         /\ call[h].pc = "truncate" /\ call[h].req \in Request
         /\ call[h].req.op = "PutFile" /\ call[h].code \in {"none", "timeout"}
         /\ Is(call'[h], "write", call[h].req, call[h].version, call[h].data,
               call[h].text, call[h].code)
<1> DEFINE r == WithPc(call[h], "write")
<1>1. Moves(h, r)  BY DEF Truncate, WithPc
<1>2. /\ call[h].pc = "truncate" /\ call[h].req \in Request
      /\ call[h].req.op = "PutFile" /\ call[h].code \in {"none", "timeout"}
      /\ call[h].data \in Content /\ call[h] \in CallState
  BY DEF Typing, TypeOK, Truncate, Fits, Threads
<1>3. Is(r, "write", call[h].req, call[h].version, call[h].data, call[h].text,
         call[h].code)
  BY <1>2, Fields DEF Pc, Code
<1> HIDE DEF r
<1>4. r \in CallState /\ Fits(r, disk')  BY <1>2, <1>3 DEF Is, Fits, Threads
<1>5. /\ disk' \in [Path -> Content \cup {None}]
      /\ \A p \in Path : disk[p] # None => disk'[p] # None
  BY NoneAssumption DEF Truncate, Typing, TypeOK, Content
<1>6. Typing'  BY <1>1, <1>4, <1>5, TypingStep DEF Truncate, Typing, TypeOK
<1>7. call'[h] = r  BY <1>1, Moved
<1> QED  BY <1>2, <1>3, <1>6, <1>7

LEMMA WriteTyped ==
  ASSUME Typing, NEW h \in Call, Write(h)
  PROVE  /\ Typing'
         /\ call[h].pc = "write" /\ call[h].req \in Request
         /\ call[h].req.op \in {"Create", "PutFile"} /\ call[h].data \in Content
         /\ call[h].code \in {"none", "timeout"}
         /\ Is(call'[h], IF Cancelled(h) THEN "done" ELSE "written", call[h].req,
               call[h].version, call[h].data, call[h].text, call[h].code)
<1> DEFINE r == Goes(h, "written")
<1>1. Moves(h, r)  BY DEF Write
<1>2. /\ call[h].pc = "write" /\ call[h].req \in Request
      /\ call[h].req.op \in {"Create", "PutFile"} /\ call[h].data \in Content
      /\ call[h].code \in {"none", "timeout"}
  BY DEF Typing, Write, Fits, Threads
<1>3. Is(r, IF Cancelled(h) THEN "done" ELSE "written", call[h].req,
         call[h].version, call[h].data, call[h].text, call[h].code)
  BY GoesIs DEF Pc
<1> HIDE DEF r
<1>4. r \in CallState /\ Fits(r, disk')
  BY <1>2, <1>3 DEF Is, Fits, Threads, Cancelled
<1>5. /\ disk' \in [Path -> Content \cup {None}]
      /\ \A p \in Path : disk[p] # None => disk'[p] # None
  BY <1>2, NoneAssumption DEF Write, Typing, TypeOK
<1>6. Typing'  BY <1>1, <1>4, <1>5, TypingStep DEF Write, Typing, TypeOK
<1>7. call'[h] = r  BY <1>1, Moved
<1> QED  BY <1>2, <1>3, <1>6, <1>7

LEMMA WrittenTyped ==
  ASSUME Typing, NEW h \in Call, Written(h)
  PROVE  /\ Typing'
         /\ call[h].pc = "written" /\ call[h].code = "none" /\ call[h].req \in Request
         /\ call[h].req.op \in {"Open", "Create", "PutFile"}
         /\ Is(call'[h], "save", call[h].req, call[h].version, call[h].data, meta', "none")
<1> DEFINE q == Goes(h, "save")
           r == WithText(q, meta')
<1>1. Moves(h, r)  BY DEF Written, WithText
<1>2. /\ call[h].pc = "written" /\ call[h].code = "none" /\ call[h].req \in Request
      /\ call[h].req.op \in {"Open", "Create", "PutFile"}
      /\ call[h].data \in Content /\ call[h].version \in Nat
  BY DEF Typing, TypeOK, CallState, Written, Fits, Threads
<1>3. Is(q, "save", call[h].req, call[h].version, call[h].data, call[h].text, "none")
  <2>1. Is(Goes(h, "save"), IF Cancelled(h) THEN "done" ELSE "save", call[h].req,
           call[h].version, call[h].data, call[h].text, call[h].code)
    BY GoesIs DEF Pc
  <2> QED  BY <1>2, <2>1 DEF Cancelled
<1>4. meta' \in Meta
  BY <1>2 DEF Written, Typing, TypeOK, Meta, Version
<1>5. Is(r, "save", call[h].req, call[h].version, call[h].data, meta', "none")
  <2> HIDE DEF q
  <2>1. Is(r, q.pc, q.req, q.version, q.data, meta', q.code)
    BY <1>3, <1>4, FieldText DEF Is
  <2> QED  BY <1>3, <2>1, Zenon DEF Is
<1> HIDE DEF r, q
<1>6. r \in CallState /\ Fits(r, disk)
  BY <1>2, <1>4, <1>5, NoneAssumption DEF Is, Fits, Threads
<1>7. Typing'  BY <1>1, <1>4, <1>6, TypingStep DEF Written, Typing, TypeOK
<1>8. call'[h] = r  BY <1>1, Moved
<1> QED  BY <1>2, <1>5, <1>7, <1>8

LEMMA SaveTyped ==
  ASSUME Typing, NEW h \in Call, Save(h)
  PROVE  /\ Typing'
         /\ call[h].pc = "save" /\ call[h].req \in Request
         /\ call[h].code \in {"none", "timeout"}
         /\ call[h].req.op \in {"Open", "Create", "PutFile"} /\ call[h].text \in Meta
         /\ Is(call'[h], "fill", call[h].req, call[h].version, call[h].data,
               call[h].text, call[h].code)
<1> DEFINE r == WithPc(call[h], "fill")
<1>1. Moves(h, r)  BY DEF Save, WithPc
<1>2. /\ call[h].pc = "save" /\ call[h].req \in Request
      /\ call[h].req.op \in {"Open", "Create", "PutFile"} /\ call[h].text \in Meta
      /\ call[h].code \in {"none", "timeout"} /\ call[h] \in CallState
  BY DEF Typing, TypeOK, CallState, Save, Fits, Threads
<1>3. Is(r, "fill", call[h].req, call[h].version, call[h].data, call[h].text, call[h].code)
  BY <1>2, Fields DEF Pc, Code
<1> HIDE DEF r
<1>4. r \in CallState /\ Fits(r, disk)
  BY <1>2, <1>3, NoneAssumption DEF Is, Fits, Threads
<1>5. tmp' \in Temporary
  BY DEF Save, Typing, TypeOK, Temporary, Text
<1>6. Typing'  BY <1>1, <1>4, <1>5, TypingStep DEF Save, Typing, TypeOK
<1>7. call'[h] = r  BY <1>1, Moved
<1> QED  BY <1>2, <1>3, <1>6, <1>7

LEMMA FillTyped ==
  ASSUME Typing, NEW h \in Call, Fill(h)
  PROVE  /\ Typing'
         /\ call[h].pc = "fill" /\ call[h].req \in Request
         /\ call[h].code \in {"none", "timeout"}
         /\ call[h].req.op \in {"Open", "Create", "PutFile"} /\ call[h].text \in Meta
         /\ Is(call'[h], IF Cancelled(h) THEN "done" ELSE "replace", call[h].req,
               call[h].version, call[h].data, call[h].text, call[h].code)
<1> DEFINE r == Goes(h, "replace")
<1>1. Moves(h, r)  BY DEF Fill
<1>2. /\ call[h].pc = "fill" /\ call[h].req \in Request
      /\ call[h].req.op \in {"Open", "Create", "PutFile"} /\ call[h].text \in Meta
      /\ call[h].code \in {"none", "timeout"}
  BY DEF Typing, TypeOK, CallState, Fill, Fits, Threads
<1>3. Is(r, IF Cancelled(h) THEN "done" ELSE "replace", call[h].req,
         call[h].version, call[h].data, call[h].text, call[h].code)
  BY GoesIs DEF Pc
<1> HIDE DEF r
<1>4. r \in CallState /\ Fits(r, disk)
  BY <1>2, <1>3 DEF Is, Fits, Threads, Cancelled
<1>5. \A old, open : Over(old, open, h) \subseteq Text
  BY <1>2 DEF Over, Text
<1>6. tmp' \in Temporary /\ meta_file' \in Text
  <2>1. meta_file' \in Text  BY <1>5 DEF Fill, Typing, TypeOK
  <2>2. PICK text \in Over(tmp.text, tmp.open, h) :
          tmp' = [tmp EXCEPT !.text = IF h \in tmp.open THEN text ELSE @,
                             !.open = @ \ {h}, !.moved = @ \ {h}]
    BY DEF Fill
  <2>3. text \in Text  BY <1>5, <2>2
  <2> QED  BY <2>1, <2>2, <2>3 DEF Typing, TypeOK, Temporary
<1>7. Typing'  BY <1>1, <1>4, <1>6, TypingStep DEF Fill, Typing, TypeOK
<1>8. call'[h] = r  BY <1>1, Moved
<1> QED  BY <1>2, <1>3, <1>7, <1>8

LEMMA ReplaceTyped ==
  ASSUME Typing, NEW h \in Call, Replace(h)
  PROVE  /\ Typing'
         /\ call[h].pc = "replace" /\ call[h].req \in Request
         /\ call[h].code \in {"none", "timeout"}
         /\ call[h].req.op \in {"Open", "Create", "PutFile"}
         /\ call'[h].req = call[h].req /\ call'[h].pc \in {"record", "done"}
         /\ Cancelled(h) => call'[h].code = "timeout"
         /\ call'[h].code = "ok" /\ call[h].req.op # "Open"
              => tmp.text # None /\ call'[h].version = call[h].version
<1> DEFINE r == IF Cancelled(h) THEN Goes(h, "done")
                ELSE IF tmp.text = None THEN Fails(h) ELSE Saved(h)
<1>1. Moves(h, r)  BY DEF Replace
<1>2. /\ call[h].pc = "replace" /\ call[h].req \in Request
      /\ call[h].req.op \in {"Open", "Create", "PutFile"}
      /\ call[h].code \in {"none", "timeout"}
  BY DEF Typing, Replace, Fits, Threads
<1>3. /\ r \in CallState /\ Fits(r, disk)
      /\ r.req = call[h].req /\ r.pc \in {"record", "done"}
      /\ Cancelled(h) => r.code = "timeout"
      /\ r.code = "ok" /\ call[h].req.op # "Open"
           => tmp.text # None /\ r.version = call[h].version
  <2>1. CASE Cancelled(h)
    <3>1. Is(Goes(h, "done"), IF Cancelled(h) THEN "done" ELSE "done", call[h].req,
             call[h].version, call[h].data, call[h].text, call[h].code)
      BY GoesIs DEF Pc
    <3>2. Is(r, "done", call[h].req, call[h].version, call[h].data, call[h].text, "timeout")
      BY <2>1, <3>1 DEF Cancelled
    <3> HIDE DEF r
    <3> QED  BY <1>2, <3>2, AnswerFits DEF Is
  <2>2. CASE ~Cancelled(h) /\ tmp.text = None
    <3>1. Is(r, "done", call[h].req, call[h].version, call[h].data, None, "error")
      BY <2>2, FailsIs
    <3> HIDE DEF r
    <3> QED  BY <1>2, <2>2, <3>1, AnswerFits DEF Is
  <2>3. CASE ~Cancelled(h) /\ tmp.text # None
    <3> DEFINE pc == IF call[h].req.op_id # None THEN "record" ELSE "done"
               v == IF call[h].req.op = "Open" THEN VersionOf(h) ELSE call[h].version
    <3>1. Is(r, pc, call[h].req, v, Empty, None, "ok")
      BY <1>2, <2>3, SavedIs
    <3>2. r \in CallState /\ Fits(r, disk)
      <4> HIDE DEF r, v
      <4> QED  BY <1>2, <3>1, AnswerFits
    <3> HIDE DEF r
    <3> QED  BY <2>3, <3>1, <3>2 DEF Is
  <2> QED  BY <2>1, <2>2, <2>3
<1> HIDE DEF r
<1>4. /\ meta_file' \in Text /\ lock' \in [Path -> Call \cup {None}]
      /\ tmp' \in Temporary
  BY UnlockedType DEF Replace, Typing, TypeOK, Temporary
<1>5. Typing'  BY <1>1, <1>3, <1>4, TypingStep DEF Replace, Typing, TypeOK
<1>6. call'[h] = r  BY <1>1, Moved
<1> QED  BY <1>2, <1>3, <1>5, <1>6

\* A call that the crash of the server ends
Ended(h) == call[h].pc \notin {"none", "done"}

LEMMA CrashTyped ==
  ASSUME Typing, Crash
  PROVE  /\ Typing'
         /\ \A h \in Call : IF Ended(h)
              THEN /\ call'[h].pc = "done" /\ call'[h].req = call[h].req
                   /\ call'[h].code = IF Cancelled(h) THEN "timeout" ELSE "lost"
              ELSE call'[h] = call[h]
<1>1. ASSUME NEW h \in Call
      PROVE  /\ call'[h] \in CallState /\ Fits(call'[h], disk')
             /\ IF Ended(h)
                THEN /\ call'[h].pc = "done" /\ call'[h].req = call[h].req
                     /\ call'[h].code = IF Cancelled(h) THEN "timeout" ELSE "lost"
                ELSE call'[h] = call[h]
  <2>1. call[h] \in CallState /\ Fits(call[h], disk) /\ disk' = disk
    BY DEF Typing, TypeOK, Crash
  <2>2. CASE Ended(h)
    <3> DEFINE code == IF Cancelled(h) THEN "timeout" ELSE "lost"
               r == WithEnd(call[h], "done", code)
    <3>1. call'[h] = r  BY <2>1, <2>2 DEF Crash, Ended, WithEnd, Cancelled, CallState
    <3>2. Is(r, "done", call[h].req, call[h].version, call[h].data, None, code)
      BY <2>1, Fields DEF Pc, Code
    <3>3. call[h].req \in Request  BY <2>1, <2>2 DEF Fits, Ended
    <3> HIDE DEF r
    <3>4. r \in CallState /\ Fits(r, disk')  BY <3>2, <3>3, AnswerFits
    <3> QED  BY <2>2, <3>1, <3>2, <3>4 DEF Is
  <2>3. CASE ~Ended(h)
    <3>1. call'[h] = call[h]  BY <2>3 DEF Crash, Ended
    <3> QED  BY <2>1, <2>3, <3>1
  <2> QED  BY <2>2, <2>3
<1>2. DOMAIN call' = Call /\ call' = [h \in Call |-> call'[h]]  BY DEF Crash
<1>3. call' \in [Call -> CallState]  BY <1>1, <1>2
<1>4. TypeOK'
  <2>1. /\ restarts' = restarts + 1 /\ meta' = Loaded /\ tmp' = Closed
        /\ lock' = [p \in Path |-> None]
        /\ UNCHANGED <<disk, meta_file, op_log>>
    BY DEF Crash
  <2>2. Loaded \in Meta  BY DEF Loaded, Meta
  <2>3. Closed \in Temporary  BY DEF Closed, Temporary, Typing, TypeOK
  <2> QED  BY <1>3, <2>1, <2>2, <2>3 DEF Typing, TypeOK
<1>5. \A h \in Call : Fits(call'[h], disk')  BY <1>1
<1>6. Typing'  BY <1>4, <1>5 DEF Typing
<1> QED  BY <1>1, <1>6

LEMMA TypingNext == Typing /\ [Next]_vars => Typing'
<1> SUFFICES ASSUME Typing, [Next]_vars PROVE Typing'  OBVIOUS
<1>1. CASE UNCHANGED vars
  BY <1>1 DEF vars, Typing, TypeOK
<1>2. CASE Crash  BY <1>2, CrashTyped
<1>3. ASSUME NEW h \in Call,
             Receive(h) \/ LookUp(h) \/ Record(h) \/ Deadline(h)
               \/ StartOpen(h) \/ StartGetFile(h) \/ TestAuth(h) \/ StartCreate(h)
      PROVE  Typing'
  BY <1>3, ReceiveTyped, LookUpTyped, RecordTyped, DeadlineTyped, StartOpenTyped,
     StartGetFileTyped, TestAuthTyped, StartCreateTyped
<1>4. ASSUME NEW h \in Call,
             StartPutFile(h) \/ Look(h) \/ Read(h) \/ Got(h) \/ Truncate(h)
               \/ Write(h) \/ Written(h) \/ Save(h) \/ Fill(h) \/ Replace(h)
      PROVE  Typing'
  BY <1>4, StartPutFileTyped, LookTyped, ReadTyped, GotTyped, TruncateTyped,
     WriteTyped, WrittenTyped, SaveTyped, FillTyped, ReplaceTyped
<1> QED  BY <1>1, <1>2, <1>3, <1>4 DEF Next

\* Every variable keeps to the values the code gives it, whatever the calls.
THEOREM TypeCorrect == Spec => []TypeOK
<1>1. Typing => TypeOK  BY DEF Typing
<1> QED  BY <1>1, InitTyping, TypingNext, PTL DEF Spec

-----------------------------------------------------------------------------
(* A file that exists: one PutFile at a time takes it from one version to  *)
(* the next, in memory and then on the disk.                               *)

Putting(r, p) == r.pc # "none" /\ r.req.path = p /\ r.req.op = "PutFile"
At(r, p, pcs) == Putting(r, p) /\ r.pc \in pcs /\ r.code # "timeout"
Holding == {"truncate", "write", "written", "save", "fill", "replace"}
Answered(r, p) == Putting(r, p) /\ r.pc = "done" /\ r.code = "ok"

\* The path has a file and metadata, and only PutFile changes them.
Known(p) == disk[p] # None /\ meta[p] # None

OnlyPuts(r, p) ==
  r.pc # "none" /\ r.req.path = p /\ r.req.op # "PutFile" =>
    /\ r.pc \notin {"write", "written", "save", "fill", "replace"}
    /\ r.req.op = "Open" => r.pc \notin {"look", "read"}

HoldsLock(r, h, p) == At(r, p, Holding) => lock[p] = h

\* The version that the call which holds the lock makes
Numbered(r, p) ==
  /\ At(r, p, Holding) => r.data = r.req.data
  /\ At(r, p, {"truncate", "write", "written"}) => r.version = meta[p].version + 1
  /\ At(r, p, {"save", "fill", "replace"}) =>
       r.version = meta[p].version /\ r.data = meta[p].data
  /\ At(r, p, {"save", "fill"}) => r.text[p] = meta[p]

Saving(p) == \E h \in Call : At(call[h], p, {"save", "fill", "replace"})

\* No other path has been called for, and no call cancelled.
Calm(p) ==
  \A h \in Call : call[h].pc # "none" => call[h].req.path = p /\ call[h].code # "timeout"

\* Until the first crash, or as long as nothing else writes the metadata
Intact(p) == restarts = 0 \/ Calm(p)

\* What was answered is in _meta, or a version after it is.
InMemory(p) ==
  \A h \in Call : Answered(call[h], p) =>
    /\ call[h].version <= meta[p].version
    /\ Saving(p) => call[h].version < meta[p].version
    /\ call[h].version = meta[p].version => call[h].req.data = meta[p].data

\* The same of .meta.json; the call that fills its successor is alone with it.
OnDisk(p) ==
  Calm(p) =>
    /\ meta_file \in Meta /\ meta_file[p] # None
    /\ meta_file[p].version <= meta[p].version
    /\ Saving(p) => meta_file[p].version < meta[p].version
    /\ tmp.moved = {} /\ tmp.open \subseteq {h \in Call : At(call[h], p, {"fill"})}
    /\ \A h \in Call : At(call[h], p, {"fill"}) => tmp.text = Empty /\ tmp.open = {h}
    /\ \A h \in Call : At(call[h], p, {"replace"}) =>
         tmp.text \in Meta /\ tmp.text[p] = meta[p]
    /\ \A h \in Call : Answered(call[h], p) =>
         /\ call[h].version <= meta_file[p].version
         /\ call[h].version = meta_file[p].version => call[h].req.data = meta_file[p].data

Distinct(p) ==
  \A g, h \in Call : Answered(call[g], p) /\ Answered(call[h], p) /\ g # h
    => call[g].version # call[h].version

\* Nothing was killed, and no call for p cancelled.
Clean(p) ==
  restarts = 0 /\ \A h \in Call : call[h].pc # "none" /\ call[h].req.path = p
                                   => call[h].code # "timeout"

Filled(p) ==
  Clean(p) =>
    /\ (\A h \in Call : ~At(call[h], p, {"write", "written"})) => disk[p] = meta[p].data
    /\ \A h \in Call : At(call[h], p, {"written"}) => disk[p] = call[h].data

PathInv(p) ==
  /\ Known(p)
  /\ \A h \in Call : OnlyPuts(call[h], p) /\ HoldsLock(call[h], h, p) /\ Numbered(call[h], p)
  /\ InMemory(p) /\ OnDisk(p) /\ Distinct(p) /\ Filled(p)

\* The lock of the path admits one call that is not cancelled.
LEMMA Alone ==
  ASSUME NEW p, PathInv(p), NEW g \in Call, NEW h \in Call,
         At(call[g], p, Holding), At(call[h], p, Holding)
  PROVE  g = h
BY DEF PathInv, HoldsLock

LEMMA AtWhere ==
  ASSUME NEW r, NEW p, NEW pcs \in SUBSET Holding, At(r, p, pcs)
  PROVE  At(r, p, Holding) /\ r.pc \in pcs
BY DEF At

LEMMA Versions ==
  ASSUME Typing, NEW p \in Existing, PathInv(p)
  PROVE  /\ meta[p] \in Version /\ meta[p].version \in Nat
         /\ Calm(p) => meta_file[p] \in Version /\ meta_file[p].version \in Nat
         /\ \A h \in Call : call[h].version \in Nat
         /\ p \in Path
<1>1. p \in Path  BY FileAssumption
<1>2. /\ meta[p] \in Version
      /\ Calm(p) => meta_file[p] \in Version
  BY <1>1 DEF Typing, TypeOK, Meta, PathInv, Known, OnDisk
<1>3. \A v \in Version : v.version \in Nat  BY DEF Version
<1>4. \A h \in Call : call[h].version \in Nat  BY DEF Typing, TypeOK, CallState
<1> QED  BY <1>1, <1>2, <1>3, <1>4

-----------------------------------------------------------------------------
(* Steps that do not take the path from one version to the next            *)

\* The call h moves, and is no call with the lock of p: not one that goes on
\* with it, and not one that has just been answered.
Apart(h, p) ==
  /\ \A g \in Call \ {h} : call'[g] = call[g] /\ (lock[p] = g => lock'[p] = g)
  /\ call[h].pc # "done" /\ restarts' = restarts
  /\ call[h].pc # "none" => call'[h].req = call[h].req
  /\ call[h].pc # "none" /\ call[h].code = "timeout" => call'[h].code = "timeout"
  /\ call'[h].pc # "none"
  /\ ~At(call'[h], p, Holding) /\ ~Answered(call'[h], p) /\ OnlyPuts(call'[h], p)
  /\ Calm(p)' => ~At(call[h], p, Holding)
  /\ Clean(p)' => ~At(call[h], p, {"write", "written"})

LEMMA Backwards ==
  ASSUME NEW h \in Call, NEW p, Apart(h, p)
  PROVE  /\ Calm(p)' => Calm(p)
         /\ Clean(p)' => Clean(p)
<1>1. Calm(p)' => Calm(p)
  <2> SUFFICES ASSUME Calm(p)', NEW g \in Call, call[g].pc # "none"
               PROVE  call[g].req.path = p /\ call[g].code # "timeout"
    BY DEF Calm
  <2>1. CASE g = h  BY <2>1 DEF Apart, Calm
  <2>2. CASE g # h  BY <2>2 DEF Apart, Calm
  <2> QED  BY <2>1, <2>2
<1>2. Clean(p)' => Clean(p)
  <2> SUFFICES ASSUME Clean(p)'  PROVE Clean(p)  OBVIOUS
  <2>1. restarts = 0  BY DEF Clean, Apart
  <2>2. ASSUME NEW g \in Call, call[g].pc # "none", call[g].req.path = p
        PROVE  call[g].code # "timeout"
    <3>1. CASE g = h  BY <2>2, <3>1 DEF Apart, Clean
    <3>2. CASE g # h  BY <2>2, <3>2 DEF Apart, Clean
    <3> QED  BY <3>1, <3>2
  <2> QED  BY <2>1, <2>2 DEF Clean
<1> QED  BY <1>1, <1>2

\* Such a step leaves what is known of the path as it was.
LEMMA Elsewhere ==
  ASSUME NEW p, PathInv(p), NEW h \in Call, Apart(h, p),
         meta'[p] = meta[p], disk'[p] # None,
         Clean(p)' => disk'[p] = disk[p],
         Calm(p)' => UNCHANGED <<meta_file, tmp>>
  PROVE  PathInv(p)'
<1>1. \A g \in Call \ {h} : call'[g] = call[g] /\ (lock[p] = g => lock'[p] = g)
  BY DEF Apart
<1>2. /\ ~At(call'[h], p, Holding) /\ ~Answered(call'[h], p) /\ OnlyPuts(call'[h], p)
      /\ restarts' = restarts
  BY DEF Apart
<1>3. \A pcs \in SUBSET Holding : ~At(call'[h], p, pcs)  BY <1>2 DEF At
<1>4. Known(p)'  BY DEF PathInv, Known
<1>5. ASSUME NEW g \in Call
      PROVE  (OnlyPuts(call[g], p) /\ HoldsLock(call[g], g, p) /\ Numbered(call[g], p))'
  <2>1. CASE g = h
    BY <1>2, <1>3, <2>1 DEF HoldsLock, Numbered, Holding
  <2>2. CASE g # h
    BY <1>1, <2>2 DEF PathInv, HoldsLock, Numbered
  <2> QED  BY <2>1, <2>2
<1>6. Saving(p)' => Saving(p)
  BY <1>1, <1>3 DEF Saving, Holding
<1>7. InMemory(p)'
  BY <1>1, <1>2, <1>6 DEF PathInv, InMemory
<1>8. OnDisk(p)'
  <2> SUFFICES ASSUME Calm(p)' PROVE OnDisk(p)'  BY DEF OnDisk
  <2>1. Calm(p) /\ meta_file' = meta_file /\ tmp' = tmp  BY Backwards
  <2>2. \A g \in Call, pcs \in SUBSET Holding : At(call'[g], p, pcs) <=> At(call[g], p, pcs)
    <3>1. \A pcs \in SUBSET Holding : ~At(call[h], p, pcs)  BY DEF Apart, At
    <3> QED  BY <1>1, <1>3, <3>1
  <2>3. \A g \in Call : Answered(call'[g], p) => g # h  BY <1>2
  <2> QED  BY <1>1, <1>6, <2>1, <2>2, <2>3 DEF PathInv, OnDisk, Holding
<1>9. Distinct(p)'
  BY <1>1, <1>2, Backwards DEF PathInv, Distinct
<1>10. Filled(p)'
  <2> SUFFICES ASSUME Clean(p)' PROVE Filled(p)'  BY DEF Filled
  <2>1. Clean(p) /\ disk'[p] = disk[p] /\ ~At(call[h], p, {"write", "written"})
    BY Backwards DEF Apart
  <2>2. \A g \in Call : At(call[g], p, {"write", "written"})
                       => At(call'[g], p, {"write", "written"})
    BY <1>1, <2>1
  <2>3. \A g \in Call : At(call'[g], p, {"written"}) => g # h
    BY <1>3 DEF Holding
  <2> QED  BY <1>1, <2>1, <2>2, <2>3 DEF PathInv, Filled
<1> QED  BY <1>4, <1>5, <1>7, <1>8, <1>9, <1>10 DEF PathInv

Quiet(h) == \/ Receive(h) \/ LookUp(h) \/ Record(h) \/ StartOpen(h) \/ StartGetFile(h)
            \/ TestAuth(h) \/ StartCreate(h) \/ Look(h) \/ Read(h) \/ Got(h)
Puts(h) == \/ StartPutFile(h) \/ Truncate(h) \/ Write(h) \/ Written(h) \/ Save(h)
           \/ Fill(h) \/ Replace(h) \/ Deadline(h)

\* Every step but a crash is one of a call.
LEMMA OneMoves ==
  ASSUME Typing, NEW h \in Call, Quiet(h) \/ Puts(h)
  PROVE  /\ \A g \in Call \ {h} : call'[g] = call[g]
         /\ restarts' = restarts
<1>1. \E r : Moves(h, r)
  <2>1. CASE Quiet(h)
    BY <2>1 DEF Quiet, Receive, LookUp, Record, StartOpen, StartGetFile, TestAuth,
       StartCreate, Look, Read, Got
  <2>2. CASE StartPutFile(h)
    BY <2>2 DEF StartPutFile
  <2>3. CASE Puts(h) /\ ~StartPutFile(h)
    BY <2>3 DEF Puts, Truncate, Write, Written, Save, Fill, Replace, Deadline
  <2> QED  BY <2>1, <2>2, <2>3
<1>2. restarts' = restarts
  BY DEF Quiet, Puts, Receive, LookUp, Record, StartOpen, StartGetFile, TestAuth,
     StartCreate, Look, Read, Got, StartPutFile, Truncate, Write, Written, Save, Fill,
     Replace, Deadline
<1> QED  BY <1>1, <1>2, Moved

LEMMA QuietUnchanged ==
  ASSUME NEW h \in Call, Quiet(h)
  PROVE  UNCHANGED <<meta, disk, meta_file, tmp, lock>>
BY DEF Quiet, Receive, LookUp, Record, StartOpen, StartGetFile, TestAuth, StartCreate,
   Look, Read, Got

\* The calls that are no PutFile
LEMMA OtherCalls ==
  ASSUME Typing, NEW p \in Existing, PathInv(p), NEW h \in Call, Quiet(h), ~Receive(h)
  PROVE  /\ call[h].pc \notin {"none", "done"} /\ call[h].req.op # "PutFile"
         /\ call'[h].req = call[h].req /\ call'[h].pc \notin {"none", "save"}
         /\ call[h].code = "timeout" => call'[h].code = "timeout"
         /\ OnlyPuts(call'[h], p)
<1>1. /\ Fits(call[h], disk) /\ OnlyPuts(call[h], p)
      /\ meta[p] # None /\ disk[p] # None
  BY DEF Typing, PathInv, Known
<1>2. CASE LookUp(h)
  <2>1. call[h].pc = "look_up" /\ call[h].req \in Request /\ call[h].req.op_id # None
    BY <1>1, <1>2 DEF LookUp, Fits
  <2> QED  BY <1>2, <2>1, LookUpTyped, RequestType DEF GoesTo, OnlyPuts
<1>3. CASE Record(h)
  <2>1. call[h].pc = "record" /\ call[h].req \in Request /\ call[h].req.op_id # None
    BY <1>1, <1>3 DEF Record, Fits
  <2> QED  BY <1>3, <2>1, RecordTyped, RequestType DEF GoesTo, OnlyPuts
<1>4. CASE StartOpen(h)
  BY <1>1, <1>4, StartOpenTyped DEF GoesTo, OnlyPuts, MetaOf
<1>5. CASE StartGetFile(h)
  BY <1>5, StartGetFileTyped DEF GoesTo, OnlyPuts
<1>6. CASE TestAuth(h)
  BY <1>6, TestAuthTyped DEF GoesTo, OnlyPuts
<1>7. CASE StartCreate(h)
  BY <1>1, <1>7, StartCreateTyped DEF GoesTo, OnlyPuts, MetaOf
<1>8. CASE Look(h)
  <2>1. call[h].pc = "look"  BY <1>8 DEF Look
  <2> QED  BY <1>1, <1>8, <2>1, LookTyped DEF GoesTo, OnlyPuts
<1>9. CASE Read(h)
  BY <1>1, <1>9, ReadTyped DEF GoesTo, OnlyPuts
<1>10. CASE Got(h)
  BY <1>10, GotTyped DEF GoesTo, OnlyPuts
<1> QED
  BY <1>2, <1>3, <1>4, <1>5, <1>6, <1>7, <1>8, <1>9, <1>10 DEF Quiet

LEMMA QuietKeeps ==
  ASSUME Typing, NEW p \in Existing, PathInv(p), NEW h \in Call, Quiet(h)
  PROVE  PathInv(p)'
<1>1. Apart(h, p)
  <2>1. CASE Receive(h)
    <3>1. /\ call[h].pc = "none" /\ call'[h].pc \in {"start", "look_up"}
      BY <2>1, ReceiveTyped
    <3>2. /\ ~At(call'[h], p, Holding) /\ ~Answered(call'[h], p) /\ OnlyPuts(call'[h], p)
          /\ ~At(call[h], p, {"write", "written"}) /\ ~At(call[h], p, Holding)
      BY <3>1 DEF At, Putting, Answered, OnlyPuts, Holding
    <3> QED  BY <3>1, <3>2, OneMoves, QuietUnchanged DEF Apart
  <2>2. CASE ~Receive(h)
    <3>1. /\ call[h].pc \notin {"none", "done"} /\ call[h].req.op # "PutFile"
          /\ call'[h].req = call[h].req /\ call'[h].pc \notin {"none", "save"}
          /\ call[h].code = "timeout" => call'[h].code = "timeout"
          /\ OnlyPuts(call'[h], p)
      BY <2>2, OtherCalls
    <3>2. /\ ~At(call'[h], p, Holding) /\ ~Answered(call'[h], p)
          /\ ~At(call[h], p, {"write", "written"}) /\ ~At(call[h], p, Holding)
      BY <3>1 DEF At, Putting, Answered
    <3> QED  BY <3>1, <3>2, OneMoves, QuietUnchanged DEF Apart
  <2> QED  BY <2>1, <2>2
<1>2. disk[p] # None  BY DEF PathInv, Known
<1> QED  BY <1>1, <1>2, Elsewhere, QuietUnchanged

-----------------------------------------------------------------------------
(* Calls that do not hold the lock of p: those for other paths, those that *)
(* are cancelled, and the one whose deadline comes.                        *)

LEMMA LocksKept ==
  ASSUME Typing, NEW h \in Call, NEW p \in Path,
         lock' = Unlocked(h) \/ lock' = lock
           \/ \E q \in Path \ {p} : lock' = [lock EXCEPT ![q] = h]
  PROVE  \A g \in Call \ {h} : lock[p] = g => lock'[p] = g
BY DEF Typing, TypeOK, Unlocked

LEMMA DeadlineKeeps ==
  ASSUME Typing, NEW p \in Existing, PathInv(p), NEW h \in Call, Deadline(h)
  PROVE  PathInv(p)'
<1>1. /\ call[h].pc \notin {"none", "done"} /\ call'[h].req = call[h].req
      /\ call'[h].pc \in {call[h].pc, "done"} /\ call'[h].code = "timeout"
      /\ call'[h].text = call[h].text
  BY DeadlineTyped DEF GoesTo
<1>2. OnlyPuts(call[h], p) /\ disk[p] # None  BY DEF PathInv, Known
<1>3. /\ ~At(call'[h], p, Holding) /\ ~Answered(call'[h], p) /\ OnlyPuts(call'[h], p)
  BY <1>1, <1>2 DEF At, Answered, OnlyPuts
<1>4. ~Calm(p)' /\ (Clean(p)' => ~At(call[h], p, {"write", "written"}))
  BY <1>1 DEF Calm, Clean, At, Putting
<1>5. \A g \in Call \ {h} : lock[p] = g => lock'[p] = g
  BY FileAssumption, LocksKept DEF Deadline
<1>6. Apart(h, p)  BY <1>1, <1>2, <1>3, <1>4, <1>5, OneMoves DEF Apart, Puts
<1> QED  BY <1>2, <1>4, <1>6, Elsewhere DEF Deadline

\* A step of a handler or its thread that is not the work of p's PutFile
Foreign(h, p) == call[h].req.path # p \/ Cancelled(h)

LEMMA ForeignKeeps ==
  ASSUME Typing, NEW p \in Existing, PathInv(p), NEW h \in Call, Foreign(h, p),
         Puts(h), ~Deadline(h)
  PROVE  PathInv(p)'
<1> DEFINE q == call[h].req.path
<1>1. OnlyPuts(call[h], p) /\ p \in Path /\ disk[p] # None
  BY FileAssumption DEF PathInv, Known
<1>2. /\ \A g \in Call \ {h} : call'[g] = call[g]
      /\ restarts' = restarts
  BY OneMoves
<1>3. /\ call[h].pc \notin {"none", "done"} /\ call'[h].req = call[h].req
      /\ call'[h].pc # "none"
      /\ call[h].code = "timeout" => call'[h].code = "timeout"
  BY StartPutFileTyped, TruncateTyped, WriteTyped, WrittenTyped, SaveTyped, FillTyped,
     ReplaceTyped
  DEF Puts, Is, Foreign, Cancelled
<1>4. q \in Path
  BY <1>3, RequestType DEF Typing, Fits
<1>5. ~At(call'[h], p, Holding) /\ ~Answered(call'[h], p)
  BY <1>3 DEF At, Putting, Answered, Foreign, Cancelled
<1>6. Clean(p)' => ~At(call[h], p, {"write", "written"})
  BY <1>3 DEF At, Putting, Foreign, Cancelled
<1>7. OnlyPuts(call'[h], p)
  <2>1. CASE call[h].req.op = "PutFile" \/ q # p  BY <1>3, <2>1 DEF OnlyPuts
  <2>2. CASE call[h].req.op # "PutFile" /\ q = p
    BY <1>1, <1>3, <2>2, StartPutFileTyped, TruncateTyped, WriteTyped, WrittenTyped,
       SaveTyped, FillTyped, ReplaceTyped DEF OnlyPuts, Puts, Is
  <2> QED  BY <2>1, <2>2
<1>8. \A g \in Call \ {h} : lock[p] = g => lock'[p] = g
  <2>1. CASE StartPutFile(h)
    <3>1. q # p  BY <2>1, StartPutFileTyped DEF Foreign, Cancelled
    <3> QED  BY <1>1, <1>4, <2>1, <3>1, StartPutFileTyped, LocksKept
  <2>2. CASE ~StartPutFile(h)
    <3>1. lock' = Unlocked(h) \/ lock' = lock
      BY <2>2 DEF Puts, Truncate, Write, Written, Save, Fill, Replace
    <3> QED  BY <1>1, <3>1, LocksKept
  <2> QED  BY <2>1, <2>2
<1>9. meta'[p] = meta[p] /\ meta[p] # None
  <2>1. CASE Written(h)
    <3>1. q # p  BY <2>1, WrittenTyped DEF Foreign, Cancelled
    <3> QED  BY <2>1, <3>1, <1>1 DEF Written, Typing, TypeOK, Meta, PathInv, Known
  <2>2. CASE ~Written(h)
    BY <2>2 DEF Puts, StartPutFile, Truncate, Write, Save, Fill, Replace, PathInv, Known
  <2> QED  BY <2>1, <2>2
<1>10. ~Calm(p)'
  BY <1>3 DEF Calm, Foreign, Cancelled
<1>11. Apart(h, p)
  BY <1>2, <1>3, <1>5, <1>6, <1>7, <1>8, <1>10 DEF Apart
<1>12. Clean(p)' => q # p
  BY <1>3 DEF Clean, Foreign, Cancelled
<1>13. disk'[p] # None /\ (Clean(p)' => disk'[p] = disk[p])
  <2>1. CASE Truncate(h)
    BY <1>1, <1>4, <1>12, <2>1, NoneAssumption DEF Truncate, Typing, TypeOK, Content
  <2>2. CASE Write(h)
    <3>1. call[h].data # None  BY <2>2, WriteTyped, NoneAssumption
    <3> QED  BY <1>1, <1>4, <1>12, <2>2, <3>1 DEF Write, Typing, TypeOK
  <2>3. CASE ~Truncate(h) /\ ~Write(h)
    BY <1>1, <2>3 DEF Puts, StartPutFile, Written, Save, Fill, Replace
  <2> QED  BY <2>1, <2>2, <2>3
<1> QED  BY <1>9, <1>10, <1>11, <1>13, Elsewhere

-----------------------------------------------------------------------------
(* The PutFile of p that is not cancelled: from the lock to the answer     *)

\* The step is one of that call; no other call holds the lock of p.
Working(h, p) ==
  /\ \A g \in Call \ {h} : call'[g] = call[g] /\ ~At(call[g], p, Holding)
  /\ restarts' = restarts
  /\ Putting(call[h], p) /\ call[h].code # "timeout" /\ call[h].pc # "done"
  /\ call'[h].req = call[h].req /\ call'[h].pc # "none"

LEMMA WorkingStep ==
  ASSUME NEW p, PathInv(p), NEW h \in Call, Working(h, p)
  PROVE  /\ \A g \in Call \ {h} : (OnlyPuts(call[g], p) /\ HoldsLock(call[g], g, p)
                                   /\ Numbered(call[g], p))'
         /\ OnlyPuts(call'[h], p)
         /\ \A g \in Call, pcs \in SUBSET Holding : At(call'[g], p, pcs) => g = h
         /\ \A g \in Call, pcs \in SUBSET Holding : At(call[g], p, pcs) => g = h
         /\ \A g \in Call \ {h} : Answered(call'[g], p) <=> Answered(call[g], p)
         /\ Calm(p)' => Calm(p)
         /\ Clean(p)' => Clean(p)
<1>1. \A g \in Call \ {h} : call'[g] = call[g] /\ ~At(call[g], p, Holding)
  BY DEF Working
<1>2. \A g \in Call \ {h} : \A pcs \in SUBSET Holding : ~At(call[g], p, pcs)
  BY <1>1 DEF At
<1>3. \A g \in Call \ {h} : (OnlyPuts(call[g], p) /\ HoldsLock(call[g], g, p)
                            /\ Numbered(call[g], p))'
  BY <1>1, <1>2 DEF PathInv, HoldsLock, Numbered, Holding
<1>4. OnlyPuts(call'[h], p)  BY DEF Working, Putting, OnlyPuts
<1>5. Calm(p)' => Calm(p)
  <2> SUFFICES ASSUME Calm(p)', NEW g \in Call, call[g].pc # "none"
               PROVE  call[g].req.path = p /\ call[g].code # "timeout"
    BY DEF Calm
  <2>1. CASE g = h  BY <2>1 DEF Working, Putting
  <2>2. CASE g # h  BY <1>1, <2>2 DEF Calm
  <2> QED  BY <2>1, <2>2
<1>6. Clean(p)' => Clean(p)
  <2> SUFFICES ASSUME Clean(p)'  PROVE Clean(p)  OBVIOUS
  <2>1. restarts = 0  BY DEF Clean, Working
  <2>2. ASSUME NEW g \in Call, call[g].pc # "none", call[g].req.path = p
        PROVE  call[g].code # "timeout"
    <3>1. CASE g = h  BY <3>1 DEF Working
    <3>2. CASE g # h  BY <1>1, <2>2, <3>2 DEF Clean
    <3> QED  BY <3>1, <3>2
  <2> QED  BY <2>1, <2>2 DEF Clean
<1> QED  BY <1>1, <1>2, <1>3, <1>4, <1>5, <1>6

\* It begins when no call holds the lock, or it is the one that does.
LEMMA WorkingIf ==
  ASSUME Typing, NEW p \in Existing, PathInv(p), NEW h \in Call,
         Puts(h), Putting(call[h], p), call[h].code # "timeout",
         call[h].pc # "done", call'[h].req = call[h].req, call'[h].pc # "none",
         lock[p] = None \/ call[h].pc \in Holding
  PROVE  Working(h, p)
<1>1. ASSUME NEW g \in Call \ {h} PROVE ~At(call[g], p, Holding)
  <2>1. CASE lock[p] = None
    BY <2>1, FileAssumption DEF PathInv, HoldsLock
  <2>2. CASE call[h].pc \in Holding
    BY <2>2, Alone DEF At
  <2> QED  BY <2>1, <2>2
<1> QED  BY <1>1, OneMoves DEF Working

\* Until it saves the metadata, what is known of the path stays.
LEMMA BeforeSaving ==
  ASSUME NEW p, PathInv(p), NEW h \in Call, Working(h, p),
         UNCHANGED <<meta, meta_file, tmp>>, disk'[p] # None,
         call[h].pc \in {"start", "truncate", "write"},
         call'[h].pc \in {"truncate", "write", "written", "done"},
         ~Answered(call'[h], p)
  PROVE  (Known(p) /\ InMemory(p) /\ OnDisk(p) /\ Distinct(p))'
<1>1. Known(p) /\ InMemory(p) /\ OnDisk(p) /\ Distinct(p)  BY DEF PathInv
<1>2. (\A g \in Call \ {h} : call'[g] = call[g]) /\ restarts' = restarts  BY DEF Working
<1>3. \A g \in Call : /\ ~At(call'[g], p, {"save", "fill", "replace"})
                      /\ ~At(call'[g], p, {"replace"}) /\ ~At(call'[g], p, {"fill"})
                      /\ ~At(call[g], p, {"fill"})
  <2>1. /\ ~At(call'[h], p, {"save", "fill", "replace"}) /\ ~At(call'[h], p, {"replace"})
        /\ ~At(call'[h], p, {"fill"}) /\ ~At(call[h], p, {"fill"})
    BY DEF At
  <2> QED  BY <2>1, WorkingStep DEF Holding
<1>4. ~Saving(p)'  BY <1>3 DEF Saving
<1>5. Known(p)'  BY <1>1, <1>2 DEF Known
<1>6. InMemory(p)'  BY <1>1, <1>2, <1>4, WorkingStep DEF InMemory
<1>7. OnDisk(p)'
  <2>1. Calm(p) => tmp.open = {}
    <3>1. Calm(p) => \A g \in tmp.open : g \in Call
      BY <1>1 DEF OnDisk, At
    <3> QED  BY <1>1, <1>3, <3>1 DEF OnDisk
  <2> QED  BY <1>1, <1>2, <1>3, <1>4, <2>1, WorkingStep DEF OnDisk
<1>8. Distinct(p)'  BY <1>1, <1>2, WorkingStep DEF Distinct
<1> QED  BY <1>5, <1>6, <1>7, <1>8

\* The version and the lock are taken.
LEMMA StartPutFileKeeps ==
  ASSUME Typing, NEW p \in Existing, PathInv(p), NEW h \in Call, StartPutFile(h),
         ~Foreign(h, p)
  PROVE  PathInv(p)'
<1>1. /\ call[h].pc = "start" /\ call[h].code = "none" /\ call[h].req.path = p
      /\ call[h].req.op = "PutFile" /\ lock[p] = None
      /\ \/ /\ lock' = [lock EXCEPT ![p] = h]
            /\ Is(call'[h], "truncate", call[h].req, VersionOf(h) + 1,
                  call[h].req.data, call[h].text, "none")
         \/ /\ lock' = lock
            /\ call'[h].req = call[h].req /\ call'[h].pc = "done"
            /\ call'[h].code = "error"
  BY StartPutFileTyped DEF Foreign
<1>2. UNCHANGED <<meta, disk, meta_file, tmp>>  BY DEF StartPutFile
<1>3. Working(h, p)
  BY <1>1, WorkingIf DEF Puts, Putting, Is
<1>4. Known(p) /\ InMemory(p) /\ OnDisk(p) /\ Distinct(p) /\ Filled(p)  BY DEF PathInv
<1>5. /\ VersionOf(h) = meta[p].version /\ p \in Path /\ h # None
      /\ lock \in [Path -> Call \cup {None}]
  BY <1>1, <1>4, FileAssumption DEF VersionOf, MetaOf, Known, Typing, TypeOK
<1>6. ~Answered(call'[h], p)  BY <1>1 DEF Answered, Is
<1>7. \A pcs \in SUBSET Holding : At(call'[h], p, pcs) => "truncate" \in pcs
  BY <1>1 DEF At, Is, Holding
<1>8. (HoldsLock(call[h], h, p) /\ Numbered(call[h], p))'
  <2>1. CASE call'[h].pc = "done"
    BY <2>1 DEF HoldsLock, Numbered, At, Holding
  <2>2. CASE call'[h].pc # "done"
    <3>1. /\ lock'[p] = h /\ call'[h].pc = "truncate" /\ call'[h].req = call[h].req
          /\ call'[h].version = meta[p].version + 1 /\ call'[h].data = call[h].req.data
      BY <1>1, <1>5, <2>2 DEF Is
    <3> QED  BY <1>2, <3>1 DEF HoldsLock, Numbered, At
  <2> QED  BY <2>1, <2>2
<1>9. (Known(p) /\ InMemory(p) /\ OnDisk(p) /\ Distinct(p))'
  BY <1>1, <1>2, <1>3, <1>4, <1>6, BeforeSaving DEF Known, Is
<1>10. Filled(p)'
  <2>1. \A g \in Call : ~At(call'[g], p, {"write", "written"}) /\ ~At(call'[g], p, {"written"})
    BY <1>3, <1>7, WorkingStep DEF Holding
  <2>2. \A g \in Call : ~At(call[g], p, {"write", "written"})
    <3>1. ~At(call[h], p, {"write", "written"})  BY <1>1 DEF At
    <3> QED  BY <1>3, <3>1, WorkingStep DEF Holding
  <2> QED  BY <1>2, <1>3, <1>4, <2>1, <2>2, WorkingStep DEF Filled
<1> QED
  BY <1>3, <1>8, <1>9, <1>10, WorkingStep DEF PathInv

\* The thread has emptied the file.
LEMMA TruncateKeeps ==
  ASSUME Typing, NEW p \in Existing, PathInv(p), NEW h \in Call, Truncate(h),
         ~Foreign(h, p)
  PROVE  PathInv(p)'
<1>1. /\ call[h].pc = "truncate" /\ call[h].req.path = p /\ call[h].req.op = "PutFile"
      /\ call[h].code = "none"
      /\ call'[h].pc = "write" /\ call'[h].req = call[h].req /\ call'[h].code = "none"
      /\ call'[h].version = call[h].version /\ call'[h].data = call[h].data
  BY TruncateTyped DEF Foreign, Cancelled, Is
<1>2. UNCHANGED <<meta, meta_file, tmp, lock>>  BY DEF Truncate
<1>3. Working(h, p)
  BY <1>1, WorkingIf DEF Puts, Putting, Holding
<1>4. disk'[p] # None
  BY <1>1, FileAssumption, NoneAssumption DEF Truncate, Typing, TypeOK, Content
<1>5. ~Answered(call'[h], p)  BY <1>1 DEF Answered
<1>6. (Known(p) /\ InMemory(p) /\ OnDisk(p) /\ Distinct(p))'
  BY <1>1, <1>2, <1>3, <1>4, <1>5, BeforeSaving
<1>7. (HoldsLock(call[h], h, p) /\ Numbered(call[h], p))'
  <2>1. HoldsLock(call[h], h, p) /\ Numbered(call[h], p)  BY DEF PathInv
  <2> QED  BY <1>1, <1>2, <2>1 DEF HoldsLock, Numbered, At, Putting, Holding
<1>8. Filled(p)'
  <2>1. At(call'[h], p, {"write", "written"}) /\ ~At(call'[h], p, {"written"})
    BY <1>1 DEF At, Putting
  <2>2. \A g \in Call : ~At(call'[g], p, {"written"})
    BY <1>3, <2>1, WorkingStep DEF Holding
  <2> QED  BY <2>1, <2>2 DEF Filled
<1> QED
  BY <1>3, <1>6, <1>7, <1>8, WorkingStep DEF PathInv

\* The thread has written the file.
LEMMA WriteKeeps ==
  ASSUME Typing, NEW p \in Existing, PathInv(p), NEW h \in Call, Write(h),
         ~Foreign(h, p)
  PROVE  PathInv(p)'
<1>1. /\ call[h].pc = "write" /\ call[h].req.path = p /\ call[h].req.op = "PutFile"
      /\ call[h].code = "none" /\ call[h].data \in Content
      /\ call'[h].pc = "written" /\ call'[h].req = call[h].req /\ call'[h].code = "none"
      /\ call'[h].version = call[h].version /\ call'[h].data = call[h].data
  <2>1. OnlyPuts(call[h], p)  BY DEF PathInv
  <2> QED  BY <2>1, WriteTyped DEF Foreign, Cancelled, Is, OnlyPuts
<1>2. UNCHANGED <<meta, meta_file, tmp, lock>>  BY DEF Write
<1>3. Working(h, p)
  BY <1>1, WorkingIf DEF Puts, Putting, Holding
<1>4. disk'[p] = call[h].data /\ call[h].data # None
  BY <1>1, FileAssumption, NoneAssumption DEF Write, Typing, TypeOK
<1>5. ~Answered(call'[h], p)  BY <1>1 DEF Answered
<1>6. (Known(p) /\ InMemory(p) /\ OnDisk(p) /\ Distinct(p))'
  BY <1>1, <1>2, <1>3, <1>4, <1>5, BeforeSaving
<1>7. (HoldsLock(call[h], h, p) /\ Numbered(call[h], p))'
  <2>1. HoldsLock(call[h], h, p) /\ Numbered(call[h], p)  BY DEF PathInv
  <2> QED  BY <1>1, <1>2, <2>1 DEF HoldsLock, Numbered, At, Putting, Holding
<1>8. Filled(p)'
  <2>1. At(call'[h], p, {"write", "written"})
    BY <1>1 DEF At, Putting
  <2>2. \A g \in Call : At(call'[g], p, {"written"}) => g = h
    BY <1>3, WorkingStep DEF Holding
  <2> QED  BY <1>1, <1>4, <2>1, <2>2 DEF Filled
<1> QED
  BY <1>3, <1>6, <1>7, <1>8, WorkingStep DEF PathInv

\* The handler has made the new entry of _meta.
LEMMA WrittenKeeps ==
  ASSUME Typing, NEW p \in Existing, PathInv(p), NEW h \in Call, Written(h),
         ~Foreign(h, p)
  PROVE  PathInv(p)'
<1>1. /\ call[h].pc = "written" /\ call[h].req.path = p /\ call[h].req.op = "PutFile"
      /\ call[h].code = "none" /\ call[h].req \in Request
      /\ call'[h].pc = "save" /\ call'[h].req = call[h].req /\ call'[h].code = "none"
      /\ call'[h].version = call[h].version /\ call'[h].data = call[h].data
      /\ call'[h].text = meta'
  <2>1. OnlyPuts(call[h], p)  BY DEF PathInv
  <2> QED  BY <2>1, WrittenTyped DEF Foreign, Is, OnlyPuts
<1>2. UNCHANGED <<disk, meta_file, tmp, lock>>  BY DEF Written
<1>3. Working(h, p)
  BY <1>1, WorkingIf DEF Puts, Putting, Holding
<1>4. /\ At(call[h], p, Holding) /\ At(call[h], p, {"truncate", "write", "written"})
      /\ At(call[h], p, {"written"})
  BY <1>1 DEF At, Putting, Holding
<1>5. /\ Known(p) /\ InMemory(p) /\ OnDisk(p) /\ Distinct(p) /\ Filled(p)
      /\ call[h].version = meta[p].version + 1 /\ lock[p] = h
      /\ call[h].data = call[h].req.data
      /\ Clean(p) => disk[p] = call[h].data
  BY <1>4 DEF PathInv, Numbered, HoldsLock, Filled
<1>6. /\ meta'[p].version = meta[p].version + 1 /\ meta'[p].data = call[h].data
      /\ meta'[p] # None
  <2>1. meta' = [meta EXCEPT ![p] = [version |-> call[h].version, data |-> call[h].data]]
    BY <1>1 DEF Written
  <2>2. p \in Path /\ meta \in Meta /\ meta' \in Meta
    BY FileAssumption, WrittenTyped DEF Typing, TypeOK
  <2>3. meta'[p] = [version |-> call[h].version, data |-> call[h].data]
    BY <2>1, <2>2 DEF Meta
  <2>4. meta'[p] # None
    <3>1. call[h].version \in Nat /\ call[h].data \in Content
      BY <1>1, <1>5, RequestType DEF Typing, TypeOK, CallState
    <3> QED  BY <2>3, <3>1, NoneAssumption DEF Version
  <2> QED  BY <1>5, <2>3, <2>4
<1>7. /\ meta[p].version \in Nat /\ (Calm(p) => meta_file[p].version \in Nat)
      /\ \A g \in Call : call[g].version \in Nat
  BY Versions
<1>8. (\A g \in Call \ {h} : call'[g] = call[g]) /\ restarts' = restarts  BY <1>3 DEF Working
<1>9. ~Answered(call'[h], p)  BY <1>1 DEF Answered
<1>10. Known(p)'  BY <1>1, <1>2, <1>5, <1>6, <1>8 DEF Known
<1>11. InMemory(p)'
  BY <1>3, <1>5, <1>6, <1>7, <1>8, <1>9, WorkingStep DEF InMemory
<1>12. OnDisk(p)'
  <2>1. \A g \in Call : /\ ~At(call'[g], p, {"replace"}) /\ ~At(call'[g], p, {"fill"})
                        /\ ~At(call[g], p, {"fill"})
    <3>1. /\ ~At(call'[h], p, {"replace"}) /\ ~At(call'[h], p, {"fill"})
          /\ ~At(call[h], p, {"fill"})
      BY <1>1 DEF At
    <3> QED  BY <1>3, <3>1, WorkingStep DEF Holding
  <2>2. Calm(p) => tmp.open = {}
    <3>1. Calm(p) => \A g \in tmp.open : g \in Call
      BY <1>5 DEF OnDisk, At
    <3> QED  BY <1>5, <2>1, <3>1 DEF OnDisk
  <2> QED
    BY <1>2, <1>3, <1>5, <1>6, <1>7, <1>8, <1>9, <2>1, <2>2, WorkingStep DEF OnDisk
<1>13. Distinct(p)'
  BY <1>3, <1>5, <1>8, <1>9, WorkingStep DEF Distinct
<1>14. Filled(p)'
  <2>1. \A g \in Call : ~At(call'[g], p, {"written"})
    <3>1. ~At(call'[h], p, {"written"})  BY <1>1 DEF At
    <3> QED  BY <1>3, <3>1, WorkingStep DEF Holding
  <2> QED  BY <1>2, <1>3, <1>5, <1>6, <2>1, WorkingStep DEF Filled
<1>15. (HoldsLock(call[h], h, p) /\ Numbered(call[h], p))'
  BY <1>1, <1>2, <1>5, <1>6 DEF HoldsLock, Numbered, At
<1> QED
  BY <1>3, <1>10, <1>11, <1>12, <1>13, <1>14, <1>15, WorkingStep DEF PathInv

\* The thread has opened the file that is to replace .meta.json.
LEMMA SaveKeeps ==
  ASSUME Typing, NEW p \in Existing, PathInv(p), NEW h \in Call, Save(h),
         ~Foreign(h, p)
  PROVE  PathInv(p)'
<1>1. /\ call[h].pc = "save" /\ call[h].req.path = p /\ call[h].req.op = "PutFile"
      /\ call[h].code = "none"
      /\ call'[h].pc = "fill" /\ call'[h].req = call[h].req /\ call'[h].code = "none"
      /\ call'[h].version = call[h].version /\ call'[h].data = call[h].data
      /\ call'[h].text = call[h].text
  <2>1. OnlyPuts(call[h], p)  BY DEF PathInv
  <2> QED  BY <2>1, SaveTyped DEF Foreign, Cancelled, Is, OnlyPuts
<1>2. /\ UNCHANGED <<meta, disk, meta_file, lock>>
      /\ tmp'.text = Empty /\ tmp'.open = tmp.open \cup {h} /\ tmp'.moved = tmp.moved
  BY DEF Save, Typing, TypeOK, Temporary
<1>3. Working(h, p)
  BY <1>1, WorkingIf DEF Puts, Putting, Holding
<1>4. /\ At(call[h], p, Holding) /\ At(call[h], p, {"save", "fill", "replace"})
      /\ At(call[h], p, {"save", "fill"}) /\ Saving(p)
  BY <1>1 DEF At, Putting, Holding, Saving
<1>5. /\ Known(p) /\ InMemory(p) /\ OnDisk(p) /\ Distinct(p) /\ Filled(p)
      /\ call[h].version = meta[p].version /\ lock[p] = h
      /\ call[h].data = call[h].req.data /\ call[h].data = meta[p].data
      /\ call[h].text[p] = meta[p]
  BY <1>4 DEF PathInv, Numbered, HoldsLock
<1>6. (\A g \in Call \ {h} : call'[g] = call[g]) /\ restarts' = restarts  BY <1>3 DEF Working
<1>7. ~Answered(call'[h], p)  BY <1>1 DEF Answered
<1>9. Known(p)'  BY <1>2, <1>5 DEF Known
<1>10. InMemory(p)'
  BY <1>2, <1>3, <1>4, <1>5, <1>6, <1>7, WorkingStep DEF InMemory
<1>11. OnDisk(p)'
  <2> SUFFICES ASSUME Calm(p)' PROVE OnDisk(p)'  BY DEF OnDisk
  <2>1. Calm(p)  BY <1>3, WorkingStep
  <2>2. tmp.open = {}
    <3>1. ~At(call[h], p, {"fill"}) /\ \A g \in tmp.open : g \in Call
      BY <1>1, <1>5, <2>1 DEF OnDisk, At
    <3> QED  BY <1>3, <1>5, <2>1, <3>1, WorkingStep DEF OnDisk, Holding
  <2>3. At(call'[h], p, {"fill"}) /\ ~At(call'[h], p, {"replace"})
    BY <1>1 DEF At, Putting
  <2> QED
    BY <1>2, <1>3, <1>4, <1>5, <1>6, <1>7, <2>1, <2>2, <2>3, WorkingStep DEF OnDisk, Holding
<1>12. Distinct(p)'
  BY <1>3, <1>5, <1>6, <1>7, WorkingStep DEF Distinct
<1>13. Filled(p)'
  <2>1. ~At(call[h], p, {"write", "written"}) /\ ~At(call'[h], p, {"written"})
    BY <1>1 DEF At
  <2>2. \A g \in Call : ~At(call[g], p, {"write", "written"}) /\ ~At(call'[g], p, {"written"})
    BY <1>3, <2>1, WorkingStep DEF Holding
  <2> QED  BY <1>2, <1>3, <1>5, <2>2, WorkingStep DEF Filled
<1>14. (HoldsLock(call[h], h, p) /\ Numbered(call[h], p))'
  BY <1>1, <1>2, <1>5 DEF HoldsLock, Numbered, At
<1> QED
  BY <1>3, <1>9, <1>10, <1>11, <1>12, <1>13, <1>14, WorkingStep DEF PathInv

\* The thread has written the text of the metadata.
LEMMA FillKeeps ==
  ASSUME Typing, NEW p \in Existing, PathInv(p), NEW h \in Call, Fill(h),
         ~Foreign(h, p)
  PROVE  PathInv(p)'
<1>1. /\ call[h].pc = "fill" /\ call[h].req.path = p /\ call[h].req.op = "PutFile"
      /\ call[h].code = "none" /\ call[h].text \in Meta
      /\ call'[h].pc = "replace" /\ call'[h].req = call[h].req /\ call'[h].code = "none"
      /\ call'[h].version = call[h].version /\ call'[h].data = call[h].data
  <2>1. OnlyPuts(call[h], p)  BY DEF PathInv
  <2> QED  BY <2>1, FillTyped DEF Foreign, Cancelled, Is, OnlyPuts
<1>2. UNCHANGED <<meta, disk, lock>>  BY DEF Fill
<1>3. Working(h, p)
  BY <1>1, WorkingIf DEF Puts, Putting, Holding
<1>4. /\ At(call[h], p, Holding) /\ At(call[h], p, {"save", "fill", "replace"})
      /\ At(call[h], p, {"save", "fill"}) /\ At(call[h], p, {"fill"}) /\ Saving(p)
  BY <1>1 DEF At, Putting, Holding, Saving
<1>5. /\ Known(p) /\ InMemory(p) /\ OnDisk(p) /\ Distinct(p) /\ Filled(p)
      /\ call[h].version = meta[p].version /\ lock[p] = h
      /\ call[h].data = call[h].req.data /\ call[h].data = meta[p].data
      /\ call[h].text[p] = meta[p]
  BY <1>4 DEF PathInv, Numbered, HoldsLock
<1>6. (\A g \in Call \ {h} : call'[g] = call[g]) /\ restarts' = restarts  BY <1>3 DEF Working
<1>7. ~Answered(call'[h], p)  BY <1>1 DEF Answered
<1>9. Known(p)'  BY <1>2, <1>5 DEF Known
<1>10. InMemory(p)'
  BY <1>2, <1>3, <1>4, <1>5, <1>6, <1>7, WorkingStep DEF InMemory
<1>11. OnDisk(p)'
  <2> SUFFICES ASSUME Calm(p)' PROVE OnDisk(p)'  BY DEF OnDisk
  <2>1. /\ Calm(p) /\ tmp.open = {h} /\ tmp.moved = {} /\ tmp.text = Empty
    BY <1>3, <1>4, <1>5, WorkingStep DEF OnDisk
  <2>2. /\ tmp'.text = call[h].text /\ tmp'.open = {} /\ tmp'.moved = {}
        /\ meta_file' = meta_file
    BY <2>1 DEF Fill, Over, Typing, TypeOK, Temporary
  <2>3. ~At(call'[h], p, {"fill"})
    BY <1>1 DEF At
  <2>4. \A g \in Call : ~At(call'[g], p, {"fill"})
    BY <1>3, <2>3, WorkingStep DEF Holding
  <2> QED
    BY <1>1, <1>2, <1>3, <1>4, <1>5, <1>6, <1>7, <2>1, <2>2, <2>4, WorkingStep DEF OnDisk
<1>12. Distinct(p)'
  BY <1>3, <1>5, <1>6, <1>7, WorkingStep DEF Distinct
<1>13. Filled(p)'
  <2>1. ~At(call[h], p, {"write", "written"}) /\ ~At(call'[h], p, {"written"})
    BY <1>1 DEF At
  <2>2. \A g \in Call : ~At(call[g], p, {"write", "written"}) /\ ~At(call'[g], p, {"written"})
    BY <1>3, <2>1, WorkingStep DEF Holding
  <2> QED  BY <1>2, <1>3, <1>5, <2>2, WorkingStep DEF Filled
<1>14. (HoldsLock(call[h], h, p) /\ Numbered(call[h], p))'
  BY <1>1, <1>2, <1>5 DEF HoldsLock, Numbered, At
<1> QED
  BY <1>3, <1>9, <1>10, <1>11, <1>12, <1>13, <1>14, WorkingStep DEF PathInv

\* The thread has replaced .meta.json, and the handler returns.
LEMMA ReplaceKeeps ==
  ASSUME Typing, NEW p \in Existing, PathInv(p), NEW h \in Call, Replace(h),
         ~Foreign(h, p)
  PROVE  PathInv(p)'
<1>1. /\ call[h].pc = "replace" /\ call[h].req.path = p /\ call[h].req.op = "PutFile"
      /\ call[h].code = "none"
      /\ call'[h].pc \in {"record", "done"} /\ call'[h].req = call[h].req
      /\ call'[h].code = "ok" => call'[h].version = call[h].version
  <2>1. OnlyPuts(call[h], p)  BY DEF PathInv
  <2> QED  BY <2>1, ReplaceTyped DEF Foreign, Cancelled, OnlyPuts
<1>2. UNCHANGED <<meta, disk>>  BY DEF Replace
<1>3. Working(h, p)
  BY <1>1, WorkingIf DEF Puts, Putting, Holding
<1>4. /\ At(call[h], p, Holding) /\ At(call[h], p, {"save", "fill", "replace"})
      /\ At(call[h], p, {"replace"}) /\ Saving(p)
  BY <1>1 DEF At, Putting, Holding, Saving
<1>5. /\ Known(p) /\ InMemory(p) /\ OnDisk(p) /\ Distinct(p) /\ Filled(p)
      /\ call[h].version = meta[p].version
      /\ call[h].data = call[h].req.data /\ call[h].data = meta[p].data
  BY <1>4 DEF PathInv, Numbered
<1>6. (\A g \in Call \ {h} : call'[g] = call[g]) /\ restarts' = restarts  BY <1>3 DEF Working
<1>7. \A pcs \in SUBSET Holding : ~At(call'[h], p, pcs)
  BY <1>1 DEF At, Holding
<1>8. \A g \in Call : \A pcs \in SUBSET Holding : ~At(call'[g], p, pcs)
  BY <1>3, <1>7, WorkingStep
<1>9. ~Saving(p)'  BY <1>8 DEF Saving, Holding
<1>10. Answered(call'[h], p) => call'[h].version = meta[p].version
  BY <1>1, <1>5 DEF Answered
<1>11. /\ meta[p].version \in Nat /\ (Calm(p) => meta_file[p].version \in Nat)
       /\ \A g \in Call : call[g].version \in Nat
  BY Versions
<1>12. Calm(p) => /\ meta_file' = tmp.text /\ tmp.text \in Meta /\ tmp.text[p] = meta[p]
                  /\ tmp'.open = {} /\ tmp'.moved = {}
  <2> SUFFICES ASSUME Calm(p)
               PROVE  /\ meta_file' = tmp.text /\ tmp.text \in Meta /\ tmp.text[p] = meta[p]
                      /\ tmp'.open = {} /\ tmp'.moved = {}
    OBVIOUS
  <2>1. tmp.text \in Meta /\ tmp.text[p] = meta[p]  BY <1>4, <1>5 DEF OnDisk
  <2>2. tmp.open = {}
    <3>1. ~At(call[h], p, {"fill"}) /\ \A g \in tmp.open : g \in Call
      BY <1>1, <1>5 DEF OnDisk, At
    <3> QED  BY <1>3, <1>5, <3>1, WorkingStep DEF OnDisk, Holding
  <2> QED  BY <2>1, <2>2, NoneAssumption DEF Replace
<1>13. Known(p)'  BY <1>2, <1>5 DEF Known
<1>14. InMemory(p)'
  <2> SUFFICES ASSUME NEW g \in Call, Answered(call'[g], p)
               PROVE  /\ call'[g].version <= meta[p].version
                      /\ call'[g].version = meta[p].version
                           => call'[g].req.data = meta[p].data
    BY <1>2, <1>9 DEF InMemory
  <2>1. CASE g = h
    <3>1. call'[g].version = meta[p].version  BY <1>10, <2>1
    <3>2. call'[g].req.data = meta[p].data  BY <1>1, <1>5, <2>1
    <3> QED  BY <1>11, <3>1, <3>2
  <2>2. CASE g # h  BY <1>3, <1>5, <1>6, <2>2, WorkingStep DEF InMemory
  <2> QED  BY <2>1, <2>2
<1>15. OnDisk(p)'
  <2> SUFFICES ASSUME Calm(p)' PROVE OnDisk(p)'  BY DEF OnDisk
  <2>1. Calm(p) /\ meta_file'[p] = meta[p]  BY <1>3, <1>12, WorkingStep
  <2>2. ASSUME NEW g \in Call, Answered(call'[g], p)
        PROVE  /\ call'[g].version <= meta_file'[p].version
               /\ call'[g].version = meta_file'[p].version
                    => call'[g].req.data = meta_file'[p].data
    <3>1. CASE g = h
      <4>1. call'[g].version = meta_file'[p].version /\ meta_file'[p].version \in Nat
        BY <1>10, <1>11, <2>1, <2>2, <3>1
      <4>2. call'[g].req.data = meta_file'[p].data
        BY <1>1, <1>5, <2>1, <3>1
      <4> QED  BY <4>1, <4>2
    <3>2. CASE g # h
      <4>1. Answered(call[g], p) /\ call'[g] = call[g]
        BY <1>3, <1>6, <2>2, <3>2, WorkingStep
      <4>2. call[g].version <= meta_file[p].version /\ meta_file[p].version < meta[p].version
        BY <1>4, <1>5, <2>1, <4>1 DEF OnDisk
      <4> QED  BY <1>11, <2>1, <4>1, <4>2
    <3> QED  BY <3>1, <3>2
  <2>3. \A g \in Call : ~At(call'[g], p, {"replace"}) /\ ~At(call'[g], p, {"fill"})
    BY <1>8 DEF Holding
  <2> QED  BY <1>2, <1>5, <1>9, <1>11, <1>12, <2>1, <2>2, <2>3 DEF OnDisk, Known
<1>16. Distinct(p)'
  <2> SUFFICES ASSUME NEW g \in Call \ {h}, Answered(call[g], p), Answered(call'[h], p)
               PROVE  call[g].version # call'[h].version
    BY <1>3, <1>5, <1>6, WorkingStep DEF Distinct
  <2>1. call[g].version < meta[p].version  BY <1>4, <1>5 DEF InMemory
  <2> QED  BY <1>10, <1>11, <2>1
<1>17. Filled(p)'
  <2>1. ~At(call[h], p, {"write", "written"})  BY <1>1 DEF At
  <2>2. \A g \in Call : ~At(call[g], p, {"write", "written"})
    BY <1>3, <2>1, WorkingStep DEF Holding
  <2>3. \A g \in Call : ~At(call'[g], p, {"written"})  BY <1>8 DEF Holding
  <2> QED  BY <1>2, <1>3, <1>5, <2>2, <2>3, WorkingStep DEF Filled
<1>18. (HoldsLock(call[h], h, p) /\ Numbered(call[h], p))'
  BY <1>8 DEF HoldsLock, Numbered, Holding
<1> QED
  BY <1>3, <1>13, <1>14, <1>15, <1>16, <1>17, <1>18, WorkingStep DEF PathInv

-----------------------------------------------------------------------------
(* Crashes, and the theorems                                               *)

\* After a crash the path is what .meta.json says, if nothing else wrote that.
LEMMA CrashKeeps ==
  ASSUME Typing, NEW p \in Existing, Intact(p) => PathInv(p), Crash, Intact(p)'
  PROVE  PathInv(p)'
<1>1. \A h \in Call : IF Ended(h)
        THEN /\ call'[h].pc = "done" /\ call'[h].req = call[h].req
             /\ call'[h].code = IF Cancelled(h) THEN "timeout" ELSE "lost"
        ELSE call'[h] = call[h]
  BY CrashTyped
<1>2. restarts' # 0
  <2>1. restarts' = restarts + 1 /\ restarts \in Nat  BY DEF Crash, Typing, TypeOK
  <2> QED  BY <2>1
<1>3. \A h \in Call : call'[h].pc \in {"none", "done"}  BY <1>1 DEF Ended
<1>4. \A h \in Call : \A pcs \in SUBSET Holding : ~At(call'[h], p, pcs)
  BY <1>3 DEF At, Putting, Holding
<1>5. \A h \in Call : Answered(call'[h], p) => call'[h] = call[h]
  BY <1>1 DEF Answered
<1>6. Calm(p) /\ PathInv(p)
  <2>1. Calm(p)'  BY <1>2 DEF Intact
  <2>2. ASSUME NEW h \in Call, call[h].pc # "none"
        PROVE  call[h].req.path = p /\ call[h].code # "timeout"
    <3>1. CASE Ended(h)  BY <1>1, <2>1, <2>2, <3>1 DEF Ended, Calm, Cancelled
    <3>2. CASE ~Ended(h)  BY <1>1, <2>1, <2>2, <3>2 DEF Calm
    <3> QED  BY <3>1, <3>2
  <2> QED  BY <2>2 DEF Calm, Intact
<1>7. /\ Known(p) /\ OnDisk(p) /\ Distinct(p) /\ meta_file \in Meta
      /\ meta_file[p] # None /\ meta_file[p].version \in Nat
  BY <1>6, Versions DEF PathInv, OnDisk
<1>8. /\ meta' = meta_file /\ UNCHANGED <<disk, meta_file>>
      /\ tmp'.open = {} /\ tmp'.moved = {}
  BY <1>7 DEF Crash, Loaded, Closed, Typing, TypeOK, Temporary
<1>9. Known(p)'  BY <1>7, <1>8 DEF Known
<1>10. ASSUME NEW h \in Call
       PROVE  (OnlyPuts(call[h], p) /\ HoldsLock(call[h], h, p) /\ Numbered(call[h], p))'
  BY <1>3, <1>4 DEF OnlyPuts, HoldsLock, Numbered, Holding
<1>11. ~Saving(p)'  BY <1>4 DEF Saving, Holding
<1>12. InMemory(p)'  BY <1>5, <1>6, <1>7, <1>8, <1>11 DEF InMemory, OnDisk
<1>13. OnDisk(p)'
  <2>1. \A h \in Call : ~At(call'[h], p, {"replace"}) /\ ~At(call'[h], p, {"fill"})
    BY <1>4 DEF Holding
  <2> QED  BY <1>5, <1>6, <1>7, <1>8, <1>11, <2>1 DEF OnDisk
<1>14. Distinct(p)'  BY <1>5, <1>7 DEF Distinct
<1>15. Filled(p)'  BY <1>2 DEF Filled, Clean
<1> QED  BY <1>9, <1>10, <1>12, <1>13, <1>14, <1>15 DEF PathInv

Invariant == Typing /\ \A p \in Existing : Intact(p) => PathInv(p)

LEMMA InitInvariant == Init => Invariant
<1> SUFFICES ASSUME Init PROVE \A p \in Existing : PathInv(p)
  BY InitTyping DEF Invariant
<1> TAKE p \in Existing
<1>1. \A h \in Call : call[h].pc = "none"  BY DEF Init, NotReceived
<1>2. /\ p \in Path /\ meta[p] = [version |-> 1, data |-> Empty] /\ disk[p] = Empty
      /\ meta_file = meta /\ meta_file \in Meta /\ tmp.open = {} /\ tmp.moved = {}
  BY FileAssumption, InitTyping DEF Init, Typing, TypeOK
<1>3. [version |-> 1, data |-> Empty] \in Version /\ Empty \in Content
  BY DEF Version, Content
<1>4. Known(p)  BY <1>2, <1>3, NoneAssumption DEF Known
<1>5. \A h \in Call : /\ \A pcs \in SUBSET Holding : ~At(call[h], p, pcs)
                      /\ ~Answered(call[h], p) /\ OnlyPuts(call[h], p)
  BY <1>1 DEF At, Putting, Answered, OnlyPuts
<1>6. \A h \in Call : HoldsLock(call[h], h, p) /\ Numbered(call[h], p)
  BY <1>5 DEF HoldsLock, Numbered, Holding
<1>7. ~Saving(p) /\ \A h \in Call : /\ ~At(call[h], p, {"written"})
                                    /\ ~At(call[h], p, {"fill"}) /\ ~At(call[h], p, {"replace"})
  BY <1>5 DEF Saving, Holding
<1>8. InMemory(p) /\ OnDisk(p) /\ Distinct(p)
  BY <1>2, <1>3, <1>4, <1>5, <1>7 DEF InMemory, OnDisk, Distinct, Known, Version
<1>9. Filled(p)  BY <1>2, <1>7 DEF Filled
<1> QED  BY <1>4, <1>5, <1>6, <1>8, <1>9 DEF PathInv

\* A step of a call leaves its request and its cancellation what they are.
LEMMA IntactBefore ==
  ASSUME Typing, NEW p \in Existing, NEW h \in Call, Quiet(h) \/ Puts(h), Intact(p)'
  PROVE  Intact(p)
<1>1. (\A g \in Call \ {h} : call'[g] = call[g]) /\ restarts' = restarts  BY OneMoves
<1>2. call[h].pc # "none" =>
        /\ call'[h].pc # "none" /\ call'[h].req = call[h].req
        /\ call[h].code = "timeout" => call'[h].code = "timeout"
  <2>1. CASE Quiet(h)
    BY <2>1, ReceiveTyped, LookUpTyped, RecordTyped, StartOpenTyped, StartGetFileTyped,
       TestAuthTyped, StartCreateTyped, LookTyped, ReadTyped, GotTyped DEF Quiet, GoesTo
  <2>2. CASE Puts(h)
    BY <2>2, StartPutFileTyped, TruncateTyped, WriteTyped, WrittenTyped, SaveTyped,
       FillTyped, ReplaceTyped, DeadlineTyped DEF Puts, GoesTo, Is, Cancelled
  <2> QED  BY <2>1, <2>2
<1>3. CASE restarts' = 0  BY <1>1, <1>3 DEF Intact
<1>4. CASE Calm(p)'
  <2>1. ASSUME NEW g \in Call, call[g].pc # "none"
        PROVE  call[g].req.path = p /\ call[g].code # "timeout"
    <3>1. CASE g = h  BY <1>2, <1>4, <2>1, <3>1 DEF Calm
    <3>2. CASE g # h  BY <1>1, <1>4, <2>1, <3>2 DEF Calm
    <3> QED  BY <3>1, <3>2
  <2> QED  BY <2>1 DEF Calm, Intact
<1> QED  BY <1>3, <1>4 DEF Intact

LEMMA InvariantNext == Invariant /\ [Next]_vars => Invariant'
<1> SUFFICES ASSUME Typing, NEW p \in Existing, Intact(p) => PathInv(p), [Next]_vars,
                    Intact(p)'
             PROVE  PathInv(p)'
  BY TypingNext DEF Invariant
<1>1. CASE UNCHANGED vars
  BY <1>1 DEF vars, PathInv, Known, HoldsLock, Numbered, InMemory, OnDisk, Saving, Calm,
     Intact, Distinct, Filled, Clean
<1>2. CASE Crash  BY <1>2, CrashKeeps
<1>3. ASSUME NEW h \in Call, Quiet(h) PROVE PathInv(p)'
  BY <1>3, IntactBefore, QuietKeeps
<1>4. ASSUME NEW h \in Call, Puts(h) PROVE PathInv(p)'
  <2> PathInv(p)  BY <1>4, IntactBefore
  <2>1. CASE Deadline(h)  BY <2>1, DeadlineKeeps
  <2>2. CASE Foreign(h, p) /\ ~Deadline(h)  BY <1>4, <2>2, ForeignKeeps
  <2>3. CASE ~Foreign(h, p) /\ ~Deadline(h)
    BY <1>4, <2>3, StartPutFileKeeps, TruncateKeeps, WriteKeeps, WrittenKeeps, SaveKeeps,
       FillKeeps, ReplaceKeeps DEF Puts
  <2> QED  BY <2>1, <2>2, <2>3
<1>5. Next => Crash \/ \E h \in Call : Quiet(h) \/ Puts(h)
  BY DEF Next, Quiet, Puts
<1> QED  BY <1>1, <1>2, <1>3, <1>4, <1>5

LEMMA InvariantHolds == Spec => []Invariant
BY InitInvariant, InvariantNext, PTL DEF Spec

\* An answered call of NoLostWrite and AnsweredIsSaved
LEMMA AnsweredPut ==
  ASSUME NEW p, NEW h \in AnsweredPuts(p)
  PROVE  h \in Call /\ Answered(call[h], p)
BY DEF AnsweredPuts, Received, Answered, Putting

LEMMA UndisturbedCalm == ASSUME NEW p, Undisturbed(p) PROVE Calm(p) /\ Intact(p)
BY DEF Undisturbed, Received, Calm, Intact

\* No acknowledged write of a file that exists is taken back or merged with
\* another, until the first crash with any deadlines and other paths, and after
\* crashes if all calls are for its path and none met its deadline: of two of them
\* the versions differ, and the metadata are those of the last or of a write since
\* (PutFile's lock and its version check).
THEOREM LostNever == Spec => []NoLostWrite
<1> SUFFICES Invariant => NoLostWrite  BY InvariantHolds, PTL
<1> SUFFICES ASSUME Invariant, NEW p \in Existing, restarts = 0 \/ Undisturbed(p),
                    NEW h \in AnsweredPuts(p)
             PROVE  /\ call[h].version <= meta[p].version
                    /\ call[h].version = meta[p].version => meta[p].data = call[h].req.data
                    /\ \A g \in AnsweredPuts(p) \ {h} : call[g].version # call[h].version
  BY DEF NoLostWrite
<1>1. PathInv(p)  BY UndisturbedCalm DEF Invariant, Intact
<1> QED  BY <1>1, AnsweredPut DEF PathInv, InMemory, Distinct

\* A write that was acknowledged is in .meta.json, or a later one is, when
\* no other path was called for and no call cancelled (_save_meta before the
\* answer).
THEOREM SavedWhenAnswered == Spec => []AnsweredIsSaved
<1> SUFFICES Invariant => AnsweredIsSaved  BY InvariantHolds, PTL
<1> SUFFICES ASSUME Invariant, NEW p \in Existing, Undisturbed(p),
                    NEW h \in AnsweredPuts(p)
             PROVE  /\ meta_file[p].version >= call[h].version
                    /\ meta_file[p].version = call[h].version
                         => meta_file[p].data = call[h].req.data
  BY DEF AnsweredIsSaved
<1>1. Typing /\ PathInv(p) /\ Calm(p) /\ h \in Call
  BY AnsweredPut, UndisturbedCalm DEF Invariant
<1>2. /\ call[h].version <= meta_file[p].version
      /\ call[h].version = meta_file[p].version => call[h].req.data = meta_file[p].data
  BY <1>1, AnsweredPut DEF PathInv, OnDisk
<1>3. call[h].version \in Nat /\ meta_file[p].version \in Nat  BY <1>1, Versions
<1> QED  BY <1>2, <1>3

\* When no call for it is under way and nothing was cancelled or killed, a
\* file holds what its metadata say (write_bytes before the entry of _meta).
THEOREM FileMatches == Spec => []MetaMatchesFile
<1> SUFFICES Invariant => MetaMatchesFile  BY InvariantHolds, PTL
<1> SUFFICES ASSUME Invariant, NEW p \in Existing, restarts = 0,
                    \A h \in Received(p) : call[h].pc = "done" /\ call[h].code # "timeout"
             PROVE  disk[p] = meta[p].data
  BY DEF MetaMatchesFile
<1>1. Clean(p)  BY DEF Clean, Received
<1>2. \A h \in Call : ~At(call[h], p, {"write", "written"})
  BY DEF At, Putting, Received
<1> QED  BY <1>1, <1>2 DEF Invariant, Intact, PathInv, Filled
=============================================================================

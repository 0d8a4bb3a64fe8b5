-------------------------------- MODULE Job ---------------------------------
(***************************************************************************)
(* The distributed prime finder of integration/: the coordinator           *)
(* (coordinator_afs.py) hands out chunks of numbers, the workers           *)
(* (worker_afs.py) send back the primes they find, and a snapshot          *)
(* (snapshot_afs.py), driven by markers, is written to the file system     *)
(* for a coordinator or a worker that starts again.                        *)
(*                                                                         *)
(* A connection delivers its messages in order.  The coordinator is one    *)
(* asyncio process: a step is a handler's work on one message, and the     *)
(* handler that stores a snapshot is busy until the files are written.     *)
(***************************************************************************)
EXTENDS Naturals, Sequences, FiniteSets

CONSTANTS Worker,        \* worker ids, none of them 0
          None,
          Readable,      \* the numbers run() may get to read of its input
                         \* files: it leaves out the files that it cannot
                         \* read, so that these are several sequences
          Primes,        \* the numbers for which is_prime returns True
          NUM_WORKERS,   \* the number of chunks asked for (--workers)
          RECOVERY_REWIND_COUNT,
          Slots,         \* connections one worker id may have at a time: {1}
                         \* assumes that the coordinator has dropped a
                         \* worker's old connection before it gets a new one
          MaxStart,      \* bound: starts of the coordinator
          MaxKill,       \* bound: workers that are killed or time out
          MaxSnapshot    \* bound: snapshots of one coordinator process

ASSUME InputAssumption ==
  /\ Readable \subseteq Seq(Nat) /\ Primes \subseteq Nat
  /\ NUM_WORKERS \in Nat \ {0} /\ RECOVERY_REWIND_COUNT \in Nat
ASSUME WorkerAssumption == IsFiniteSet(Worker) /\ None \notin Worker
ASSUME BoundsAssumption ==
  /\ Slots \subseteq Nat /\ None \notin Slots
  /\ MaxStart \in Nat /\ MaxKill \in Nat /\ MaxSnapshot \in Nat

VARIABLES
  (* the coordinator process *)
  phase, starts, primes, tasks, in_progress, workers, finished, total,
  snap,       \* the globals of snapshot_afs
  saving,     \* the snapshot being written to AFS, and by which handler
  stage,      \* how far run() is: "working", the listener "closed", "saved"
  input,      \* history: the numbers read for the job that is under way
  (* the file of the results, with the numbers they were found in *)
  output,
  (* the connections, and what is under way on them *)
  conn,
  (* snapshots/snapshot_latest.pkl *)
  latest,
  (* the worker processes *)
  at, slot, saved, task, numid,
  kills

job == <<stage, input, output>>
coordinator == <<phase, starts, primes, tasks, in_progress, workers, finished,
                 total, snap, saving, job>>
worker == <<at, slot, saved, task, numid>>
vars == <<coordinator, conn, latest, worker, kills>>

Conn == Worker \X Slots

-----------------------------------------------------------------------------
(* Chunks.                                                                 *)

\* What a job may start from: without numbers there is none.
Input == Readable \ {<<>>}

ceil(a, b) == (a + b - 1) \div b
chunk_size(of) == ceil(Len(of), NUM_WORKERS)
NumTasks(of) == ceil(Len(of), chunk_size(of))

\* A task is a chunk, the n-th of the numbers it is cut from, and an id that
\* is unique: it belongs to one fresh start of a coordinator.
Task == {t \in [run : 1..MaxStart, of : Input, n : Nat] : t.n \in 1..NumTasks(t.of)}
ASSUME TaskAssumption == None \notin Task

Chunk(of, n) ==
  LET first == (n - 1) * chunk_size(of)
      size == IF n = NumTasks(of) THEN Len(of) - first ELSE chunk_size(of)
  IN  [k \in 1..size |-> of[first + k]]
PrimesUpTo(of, n, k) == {Chunk(of, n)[a] : a \in 1..k} \cap Primes
PrimesOf(of) == {of[k] : k \in 1..Len(of)} \cap Primes
split_numbers(run, of) ==
  [n \in 1..NumTasks(of) |-> [run |-> run, of |-> of, n |-> n]]

Values(f) == {f[w] : w \in DOMAIN f} \ {None}

\* The values of a dict, in the order of their insertion, which is not kept.
Listings(S) == {l \in [1..Cardinality(S) -> S] : Values(l) = S}

-----------------------------------------------------------------------------

NoSnapshot == [id |-> 0, active |-> FALSE, marker_received |-> [w \in {} |-> FALSE],
               inflight |-> [w \in {} |-> {}], worker_state |-> [w \in {} |-> None],
               finished |-> 0]
Unused == [open |-> FALSE, handler |-> "none", up |-> <<>>, down |-> <<>>]
Fresh == [task_id |-> None, numid |-> 0]

Init ==
  /\ phase = "off" /\ starts = 0
  /\ primes = {} /\ tasks = <<>> /\ finished = 0 /\ total = 0
  /\ in_progress = [w \in Worker |-> None]
  /\ workers = [w \in Worker |-> None]
  /\ snap = NoSnapshot /\ saving = None
  /\ stage = "working" /\ input = <<>> /\ output = None
  /\ conn = [c \in Conn |-> Unused]
  /\ latest = None
  /\ at = [w \in Worker |-> "off"] /\ slot = [w \in Worker |-> None]
  /\ saved = [w \in Worker |-> Fresh]
  /\ task = [w \in Worker |-> None] /\ numid = [w \in Worker |-> 0]
  /\ kills = 0

-----------------------------------------------------------------------------
(* The coordinator.                                                        *)

\* Every prime a snapshot knows of.
Recovered(s) == s.primes \cup UNION {s.inflight[w] : w \in DOMAIN s.inflight}

\* run() with a snapshot it can read: what was in progress goes first.
Restore ==
  /\ latest # None
  /\ primes' = Recovered(latest)
  /\ \E again \in Listings(Values(latest.in_progress)) : tasks' = again \o latest.tasks
  /\ finished' = latest.finished
  /\ total' = latest.total
  /\ input' = latest.input

\* run() without one, or when reading it fails: a job for the numbers of those
\* input files that can be read
StartFresh ==
  \E of \in Input :
    /\ primes' = {}
    /\ tasks' = split_numbers(starts + 1, of)
    /\ finished' = 0
    /\ total' = NumTasks(of)
    /\ input' = of

Start ==
  /\ phase = "off" /\ starts < MaxStart
  /\ Restore \/ StartFresh
  /\ phase' = "up" /\ starts' = starts + 1
  /\ UNCHANGED <<in_progress, workers, snap, saving, stage, output, conn, latest,
                 worker, kills>>

\* No snapshot, and no input file that can be read: run() returns.
NothingRead ==
  /\ phase = "off" /\ starts < MaxStart
  /\ <<>> \in Readable
  /\ starts' = starts + 1
  /\ UNCHANGED <<phase, primes, tasks, in_progress, workers, finished, total, snap,
                 saving, job, conn, latest, worker, kills>>

Popped(c) == [conn[c] EXCEPT !.up = Tail(@)]

\* A handler that has returned closes its connection; the worker may still
\* read what was sent before.
Closed(c) ==
  IF conn[c].open THEN [conn[c] EXCEPT !.handler = "ended", !.up = <<>>]
  ELSE Unused

\* Mutant of Leave: the task of a worker that is gone is dropped.
LeaveUnqueued(w, progress) ==
  /\ workers' = [workers EXCEPT ![w] = None]
  /\ in_progress' = [progress EXCEPT ![w] = None]
  /\ tasks' = tasks

\* The finally clause of handle_worker: the worker is forgotten and what it
\* has in progress is queued again.
Leave(w, progress) ==
  /\ workers' = [workers EXCEPT ![w] = None]
  /\ in_progress' = [progress EXCEPT ![w] = None]
  /\ tasks' = IF progress[w] = None THEN tasks ELSE <<progress[w]>> \o tasks

\* c's handler is writing the files of a snapshot.
Busy(c) == IF saving = None THEN FALSE ELSE saving.conn = c

\* c's handler can take the message of the given type.
Receives(c, handler, type) ==
  /\ phase = "up"
  /\ conn[c].handler = handler
  /\ ~Busy(c)
  /\ conn[c].up # <<>> /\ Head(conn[c].up).type = type

\* The hello of a worker: it gets the next task, or is sent away.
HandleHello(c) ==
  LET w == c[1]
      reply(msg) == [Popped(c) EXCEPT !.handler = "serving", !.down = Append(@, msg)]
  IN  /\ Receives(c, "hello", "hello")
      /\ \/ /\ tasks = <<>>
            /\ Leave(w, in_progress)
            /\ conn' = [conn EXCEPT ![c] =
                 IF @.open THEN [reply([type |-> "shutdown"]) EXCEPT !.handler = "ended"]
                 ELSE Unused]
         \/ /\ tasks # <<>>
            /\ workers' = [workers EXCEPT ![w] = c[2]]
            /\ in_progress' = [in_progress EXCEPT ![w] = Head(tasks)]
            /\ tasks' = Tail(tasks)
            /\ conn' = [conn EXCEPT ![c] = reply([type |-> "task", task |-> Head(tasks)])]
      /\ UNCHANGED <<phase, starts, job, primes, finished, total, snap, saving,
                     latest, worker, kills>>

\* What was not answered for yet belongs to the snapshot.
Recording(w) ==
  snap.active /\ (w \in DOMAIN snap.marker_received => ~snap.marker_received[w])
save_inflight(w, n) ==
  IF Recording(w) THEN [snap EXCEPT !.inflight[w] = @ \cup {n}] ELSE snap

\* A prime.  save_inflight fails for a worker that the active snapshot does
\* not know, and the failure ends the connection.
HandleResult(c) ==
  LET w == c[1]
      n == Head(conn[c].up).prime
      known == w \in DOMAIN snap.inflight
  IN  /\ Receives(c, "serving", "result")
      /\ primes' = primes \cup {n}
      /\ IF Recording(w) /\ ~known
         THEN /\ Leave(w, in_progress)
              /\ conn' = [conn EXCEPT ![c] = Closed(c)]
              /\ UNCHANGED snap
         ELSE /\ snap' = save_inflight(w, n)
              /\ conn' = [conn EXCEPT ![c] = Popped(c)]
              /\ UNCHANGED <<tasks, in_progress, workers>>
      /\ UNCHANGED <<phase, starts, job, finished, total, saving, latest, worker, kills>>

\* Mutant of Contents: the primes as they were when the snapshot began, and
\* none of those that have come in since.
ContentsAtStart(s) ==
  [input |-> input, finished |-> s.finished, total |-> total,
   primes |-> primes \ UNION Values(s.inflight), tasks |-> tasks,
   in_progress |-> in_progress, worker_state |-> s.worker_state,
   inflight |-> [w \in DOMAIN s.inflight |-> {}]]

\* What a snapshot holds: the coordinator's own sets as they are when it is
\* written, and its counters as they were when the snapshot began.
Contents(s) ==
  [input |-> input, finished |-> s.finished, total |-> total, primes |-> primes,
   tasks |-> tasks, in_progress |-> in_progress, worker_state |-> s.worker_state,
   inflight |-> s.inflight]

\* A worker's state (save_snapshot); the last one starts the writing.
HandleMarker(c) ==
  LET w == c[1]
      m == Head(conn[c].up)
      counted == /\ snap.active /\ m.sid = snap.id
                 /\ w \in DOMAIN snap.marker_received /\ ~snap.marker_received[w]
      next == [snap EXCEPT !.marker_received[w] = TRUE,
                           !.worker_state[w] = [task_id |-> m.task, numid |-> m.numid]]
      complete == \A v \in DOMAIN snap.marker_received \ {w} : snap.marker_received[v]
  IN  /\ Receives(c, "serving", "marker")
      /\ snap' = IF counted THEN next ELSE snap
      /\ saving' = IF counted /\ complete THEN [conn |-> c, data |-> Contents(next)]
                   ELSE saving
      /\ conn' = [conn EXCEPT ![c] = Popped(c)]
      /\ UNCHANGED <<phase, starts, job, primes, tasks, in_progress, workers,
                     finished, total, latest, worker, kills>>

\* The files are written, or the flush fails with a warning.
Store ==
  /\ saving # None
  /\ latest' \in {latest, saving.data}
  /\ saving' = None
  /\ snap' = [snap EXCEPT !.active = FALSE]
  /\ UNCHANGED <<phase, starts, job, primes, tasks, in_progress, workers, finished,
                 total, conn, worker, kills>>

\* Mutant of HandleFinish: the task counts, and is queued again all the same.
FinishRequeued(c) ==
  /\ Receives(c, "serving", "finish")
  /\ finished' = finished + 1
  /\ Leave(c[1], in_progress)
  /\ conn' = [conn EXCEPT ![c] = Closed(c)]
  /\ UNCHANGED <<phase, starts, job, primes, total, snap, saving, latest, worker, kills>>

\* The task of the worker is done.
HandleFinish(c) ==
  /\ Receives(c, "serving", "finish")
  /\ finished' = finished + 1
  /\ Leave(c[1], [in_progress EXCEPT ![c[1]] = None])
  /\ conn' = [conn EXCEPT ![c] = Closed(c)]
  /\ UNCHANGED <<phase, starts, job, primes, total, snap, saving, latest, worker, kills>>

\* The connection ends before the task does.
HandleDisconnect(c) ==
  /\ phase = "up"
  /\ conn[c].handler \in {"hello", "serving"} /\ ~conn[c].open /\ conn[c].up = <<>>
  /\ ~Busy(c)
  /\ conn' = [conn EXCEPT ![c] = Unused]
  /\ IF conn[c].handler = "serving" THEN Leave(c[1], in_progress)
     ELSE UNCHANGED <<tasks, in_progress, workers>>
  /\ UNCHANGED <<phase, starts, job, primes, finished, total, snap, saving, latest,
                 worker, kills>>

\* start(): a snapshot of the workers that are there.
start(active) ==
  [id |-> snap.id + 1, active |-> TRUE,
   marker_received |-> [w \in active |-> FALSE],
   inflight |-> [w \in active |-> {}],
   worker_state |-> [w \in active |-> None],
   finished |-> finished]

\* snapshot_loop: none while one is active, or without workers; then the
\* markers.
StartSnapshot ==
  LET active == {w \in Worker : workers[w] # None}
  IN  /\ phase = "up" /\ stage # "saved"
      /\ ~snap.active /\ active # {} /\ snap.id < MaxSnapshot
      /\ snap' = start(active)
      /\ conn' = [c \in Conn |->
           IF workers[c[1]] = c[2] /\ conn[c].open
           THEN [conn[c] EXCEPT !.down = Append(@, [type |-> "marker", sid |-> snap.id + 1])]
           ELSE conn[c]]
      /\ UNCHANGED <<phase, starts, job, primes, tasks, in_progress, workers,
                     finished, total, saving, latest, worker, kills>>

\* The main loop sees every task finished: the listener is closed.  What is
\* connected is still served.
EndLoop ==
  /\ phase = "up" /\ stage = "working" /\ finished >= total
  /\ stage' = "closed"
  /\ UNCHANGED <<phase, starts, primes, tasks, in_progress, workers, finished, total,
                 snap, saving, input, output, conn, latest, worker, kills>>

Empty == [of |-> <<>>, primes |-> {}]

\* save_results_to_afs: the primes found are written.  When that fails, the
\* failure is only printed; a new file may then have been created.
SaveResults ==
  /\ phase = "up" /\ stage = "closed"
  /\ output' \in {output, [of |-> input, primes |-> primes]}
                  \cup (IF output = None THEN {Empty} ELSE {})
  /\ stage' = "saved"
  /\ UNCHANGED <<phase, starts, primes, tasks, in_progress, workers, finished, total,
                 snap, saving, input, conn, latest, worker, kills>>

\* The snapshot is emptied, saved results or not, or that fails with a warning.
Done ==
  /\ phase = "up" /\ stage = "saved"
  /\ phase' = "done"
  /\ latest' \in {None, latest}
  /\ UNCHANGED <<starts, primes, tasks, in_progress, workers, finished, total,
                 snap, saving, job, conn, worker, kills>>

\* The process is killed; a write under way may or may not get through.
Crash ==
  /\ phase = "up" /\ starts < MaxStart
  /\ phase' = "off"
  /\ latest' \in {latest} \cup (IF saving = None THEN {} ELSE {saving.data})
  /\ primes' = {} /\ tasks' = <<>> /\ finished' = 0 /\ total' = 0
  /\ in_progress' = [w \in Worker |-> None]
  /\ workers' = [w \in Worker |-> None]
  /\ snap' = NoSnapshot /\ saving' = None
  /\ stage' = "working" /\ input' = <<>>
  /\ conn' = [c \in Conn |-> IF conn[c].handler = "none" THEN conn[c] ELSE Closed(c)]
  /\ UNCHANGED <<starts, output, worker, kills>>

-----------------------------------------------------------------------------
(* A worker process, which runs one task per connection.                   *)

\* load_snapshot: the state saved for this worker, if there is one and the
\* file can be read
LoadSnapshot(w) ==
  /\ at[w] = "off"
  /\ saved' \in {[saved EXCEPT ![w] = s] :
       s \in {Fresh} \cup
             {latest.worker_state[v] :
                v \in IF latest = None THEN {} ELSE {w} \cap DOMAIN latest.worker_state}}
  /\ at' = [at EXCEPT ![w] = "loaded"]
  /\ UNCHANGED <<coordinator, conn, latest, slot, task, numid, kills>>

Connect(w) ==
  \E s \in Slots :
    /\ at[w] = "loaded" /\ phase = "up" /\ stage = "working"
    /\ conn[<<w, s>>] = Unused
    /\ conn' = [conn EXCEPT ![<<w, s>>] =
                  [open |-> TRUE, handler |-> "hello",
                   up |-> <<[type |-> "hello"]>>, down |-> <<>>]]
    /\ at' = [at EXCEPT ![w] = "waiting"]
    /\ slot' = [slot EXCEPT ![w] = s]
    /\ UNCHANGED <<coordinator, latest, saved, task, numid, kills>>

\* No coordinator listens: the process ends, and is started again later.
Refused(w) ==
  /\ at[w] = "loaded" /\ (phase # "up" \/ stage # "working")
  /\ at' = [at EXCEPT ![w] = "off"]
  /\ saved' = [saved EXCEPT ![w] = Fresh]
  /\ UNCHANGED <<coordinator, conn, latest, slot, task, numid, kills>>

\* The worker closes its end, with the given messages still on their way.
Hang(c, up) ==
  conn' = [conn EXCEPT ![c] = IF @.handler = "ended" THEN Unused
                              ELSE [@ EXCEPT !.open = FALSE, !.up = up, !.down = <<>>]]

Forget(w, next) ==
  /\ at' = [at EXCEPT ![w] = next]
  /\ slot' = [slot EXCEPT ![w] = None]
  /\ saved' = [saved EXCEPT ![w] = Fresh]
  /\ task' = [task EXCEPT ![w] = None]
  /\ numid' = [numid EXCEPT ![w] = 0]

Mine(w) == <<w, slot[w]>>
Sent(w, msg) == IF conn[Mine(w)].handler = "ended" THEN conn[Mine(w)].up
                ELSE Append(conn[Mine(w)].up, msg)
Arrived(w, type) == conn[Mine(w)].down # <<>> /\ Head(conn[Mine(w)].down).type = type

\* Mutant of StartAt: the number named by the saved state counts as done.
StartAfter(w, t) ==
  IF t = saved[w].task_id /\ saved[w].numid > RECOVERY_REWIND_COUNT
  THEN saved[w].numid - RECOVERY_REWIND_COUNT + 1 ELSE 0

\* Where to begin with the task: for the one of the saved state, some numbers
\* before the place it names.
StartAt(w, t) ==
  IF t = saved[w].task_id /\ saved[w].numid > RECOVERY_REWIND_COUNT
  THEN saved[w].numid - RECOVERY_REWIND_COUNT ELSE 0

TakeTask(w) ==
  /\ at[w] = "waiting" /\ Arrived(w, "task")
  /\ LET t == Head(conn[Mine(w)].down).task
     IN  /\ task' = [task EXCEPT ![w] = t]
         /\ numid' = [numid EXCEPT ![w] = StartAt(w, t)]
  /\ at' = [at EXCEPT ![w] = "working"]
  /\ conn' = [conn EXCEPT ![Mine(w)].down = Tail(@)]
  /\ UNCHANGED <<coordinator, latest, slot, saved, kills>>

\* No task is left: the process ends.
TakeShutdown(w) ==
  /\ at[w] = "waiting" /\ Arrived(w, "shutdown")
  /\ Hang(Mine(w), <<>>)
  /\ Forget(w, "exited")
  /\ UNCHANGED <<coordinator, latest, kills>>

Working(w) == at[w] = "working" /\ numid[w] < Len(Chunk(task[w].of, task[w].n))

\* Between two numbers: answer a marker with the place reached.
ReplyMarker(w) ==
  /\ Working(w) /\ Arrived(w, "marker")
  /\ conn' = [conn EXCEPT ![Mine(w)].down = Tail(@),
                          ![Mine(w)].up =
                 Sent(w, [type |-> "marker", sid |-> Head(conn[Mine(w)].down).sid,
                          numid |-> numid[w], task |-> task[w]])]
  /\ UNCHANGED <<coordinator, latest, worker, kills>>

\* The next number; a marker may still be on its way.
Process(w) ==
  LET n == Chunk(task[w].of, task[w].n)[numid[w] + 1]
  IN  /\ Working(w)
      /\ conn' = IF n \in Primes
                 THEN [conn EXCEPT ![Mine(w)].up = Sent(w, [type |-> "result", prime |-> n])]
                 ELSE conn
      /\ numid' = [numid EXCEPT ![w] = numid[w] + 1]
      /\ UNCHANGED <<coordinator, latest, at, slot, saved, task, kills>>

\* After the last number: finish, and off to the next connection.
Finish(w) ==
  /\ at[w] = "working" /\ numid[w] = Len(Chunk(task[w].of, task[w].n))
  /\ Hang(Mine(w), Sent(w, [type |-> "finish"]))
  /\ Forget(w, "off")
  /\ UNCHANGED <<coordinator, latest, kills>>

\* The coordinator closed the connection: sending or reading fails.
LoseCoordinator(w) ==
  /\ at[w] \in {"waiting", "working"}
  /\ conn[Mine(w)].handler = "ended" /\ conn[Mine(w)].down = <<>>
  /\ Hang(Mine(w), <<>>)
  /\ Forget(w, "off")
  /\ UNCHANGED <<coordinator, latest, kills>>

\* The process is killed, or gives up after 5 seconds without a task; what it
\* sent last may be lost.  It may be started again.
Kill(w) ==
  /\ at[w] \in {"waiting", "working"} /\ kills < MaxKill
  /\ kills' = kills + 1
  /\ \E n \in 0..Len(conn[Mine(w)].up) : Hang(Mine(w), SubSeq(conn[Mine(w)].up, 1, n))
  /\ Forget(w, "off")
  /\ UNCHANGED <<coordinator, latest>>

-----------------------------------------------------------------------------

\* A handler's work on what arrives on connection c.
Handle(c) == \/ HandleHello(c) \/ HandleResult(c) \/ HandleMarker(c)
             \/ HandleFinish(c) \/ HandleDisconnect(c)

\* A step of worker w.
Work(w) == \/ LoadSnapshot(w) \/ Connect(w) \/ Refused(w)
           \/ TakeTask(w) \/ TakeShutdown(w) \/ ReplyMarker(w)
           \/ Process(w) \/ Finish(w) \/ LoseCoordinator(w)

Next ==
  \/ Start \/ NothingRead \/ Store \/ StartSnapshot
  \/ EndLoop \/ SaveResults \/ Done \/ Crash
  \/ \E c \in Conn : Handle(c)
  \/ \E w \in Worker : Work(w) \/ Kill(w)

Spec == Init /\ [][Next]_vars

-----------------------------------------------------------------------------
(* Properties.                                                             *)

Unfinished(t_tasks, progress) == {t_tasks[k] : k \in DOMAIN t_tasks} \cup Values(progress)

\* When the main loop ends, the coordinator has every prime of the numbers that
\* were read for the job, whatever was killed, restored or done twice; and a
\* file of results has all of them or is empty (run, save_results_to_afs).  The
\* job is done all the same when input files were left out, and when saving
\* the results has failed.
ResultComplete ==
  /\ stage # "working" => PrimesOf(input) \subseteq primes
  /\ output # None => PrimesOf(output.of) \subseteq output.primes

\* A saved snapshot loses no prime: it has every prime of a task that it does
\* not hand out again, and of the part of a task that a worker would skip
\* (save_snapshot, run of the coordinator, run of the worker).
SnapshotResumable ==
  latest # None =>
    LET again == Unfinished(latest.tasks, latest.in_progress)
        of == latest.input
    IN  /\ \A n \in 1..NumTasks(of) :
             (\A u \in again : ~(u.of = of /\ u.n = n))
               => PrimesUpTo(of, n, Len(Chunk(of, n))) \subseteq Recovered(latest)
        /\ \A w \in DOMAIN latest.worker_state :
             LET state == latest.worker_state[w]
             IN  PrimesUpTo(state.task_id.of, state.task_id.n, state.numid)
                   \subseteq Recovered(latest)

\* Before the first restart every task is queued, in the hands of one worker,
\* or counted as finished, and never two of these.
TasksAccounted ==
  phase = "up" /\ starts = 1 =>
    /\ finished + Cardinality(Unfinished(tasks, in_progress)) = total
    /\ Len(tasks) + Cardinality({w \in Worker : in_progress[w] # None})
         = Cardinality(Unfinished(tasks, in_progress))

\* No task is both counted as finished and to be done in a saved snapshot, so
\* that a job restored from it does not end too early.  The count may be too
\* small, since it is taken when the snapshot begins (snapshot.start) while the
\* tasks are those of its end (save_snapshot): then the job never ends.
SnapshotNeverOvercounts ==
  latest # None =>
    latest.finished + Cardinality(Unfinished(latest.tasks, latest.in_progress))
      <= latest.total
=============================================================================

# A formal model of the fault-tolerant AFS-like file system

This directory holds TLA+ models of the repository's program, the TLC
configurations that check them on small instances, and TLAPS proofs, for every
instance, of the elections and the logs of Raft, of the file server, of the
client's cache and of the job's tasks.
`PROJECT.json` maps each definition to the lines it models, and each run to the
question it answers.

## The system

A prime finder (coordinator and workers) runs on a whole-file-caching file
system, whose servers may replicate their writes with Raft. All processes are
Python `asyncio` programs that talk over TCP: inside one process, code
interleaves only at `await`, and with the threads of `asyncio.to_thread`.

| Component | State it keeps | Operations | Talks to |
|---|---|---|---|
| `RaftNode` (`raft/state.py`), `RaftRPC` (`raft/rpc.py`), loops and RPC handlers of `RaftServer` (`raft/server.py`) | saved: term, vote, log; lost in a crash: commit id, last applied, role, next and match ids, known leader | elections, votes, heartbeats, replication, commit, handing entries over; `handle_create`, `handle_put_file` | its peers by RPC; the file handlers by `commit_callback` |
| Applying entries (`apply_to_state_machine`, `apply_*_idem`) | none of its own: one task per entry | runs `Create`/`PutFile` of a committed entry | the file handlers |
| `RaftService` (`src/run_afs_server.py`) | a `RaftNode` | a second server program, with loops of its own | its peers; not the file handlers |
| File handlers (`afs/handlers.py`) | `_meta`, `_locks`, files, `.meta.json` | `Open`, `Create`, `TestAuth`, `GetFile`, `PutFile` | the disk, in threads |
| RPC server (`rpc/server.py`) | `op_log` in SQLite | one request at a time per connection, deadline, record and replay of results | the handlers |
| RPC client (`rpc/client.py`) | round-robin index | connect, send, read, each with a timeout; retries | servers |
| `AFSClient` (`afs/client.py`) | cached files with their versions, open files | `open`, `create`, `read`, `write`, `close`, `put`, `open_sync_read` | the RPC client |
| Coordinator (`integration/coordinator_afs.py`) | primes, tasks, tasks in progress, workers, count of finished tasks | hand out tasks, collect primes, requeue, restore, finish | workers by a TCP connection each; AFS |
| Snapshot (`integration/snapshot_afs.py`) | the snapshot under way: markers, in-flight primes, worker states | `start`, `save_inflight`, `save_snapshot` | called by the coordinator; AFS |
| Worker (`integration/worker_afs.py`) | its task and the index it is at | load the snapshot, take a task, answer markers, send primes | coordinator; AFS |
| `is_prime` (`primefinder/prime.py`) | none | primality test | called by the workers |
| The first prime finder (`primefinder/*.py`) | as the coordinator and workers above, with threads and local files | superseded by `integration/` | |

What makes each part correct, and what makes it hard:

* **Raft.** One leader per term, logs that agree, what is applied is never
  taken back, a leader that stays makes progress, clients get the result of
  their own write. Hard: the two loops and the handlers of a server interleave
  at every await, a request may be handled long after its sender gave up, an
  answer may arrive in a later term, a server may be killed between two saves
  of its state.
* **File server.** No acknowledged write is lost, versions only grow, metadata
  fit the file and survive a crash, a repeated call has one effect. Hard:
  handlers await threads between their checks and their effects, only `PutFile`
  takes a lock, one temporary file serves the metadata of every path, a deadline
  cancels a handler but not its thread.
* **Client cache.** What `open` shows is at least as new as what was closed
  before. Hard: `open` asks for version and bytes in two calls, a flush may
  fail after the cached file has been changed.
* **Job.** A job that ends has every prime; a restored coordinator hands out
  again whatever its snapshot lacks; the job ends. Hard: primes and markers in
  flight, crashes on both sides, a worker that is back before it was missed,
  snapshots that outlive their workers.
* **`is_prime`.** It answers True exactly for the primes.

## The modules

| Module | What it is |
|---|---|
| `Raft` | Elections, replication and the client handlers of a cluster |
| `MCRaft`, `MCRaftLog`, `MCRaftRepair` | Raft on small instances: views, bounds, the abstract log beside it, a start in mid-history |
| `ReplicatedLog`, `RaftRefinement` | What `Raft` promises its clients and the file handlers, abstractly, and how its variables carry that |
| `RaftProofs` | Theorems about the elections and the logs of `Raft`, with proofs |
| `RaftSafetyProofs` | Theorems about what its servers apply, with proofs |
| `RaftRefinementProofs` | `Raft` implements `ReplicatedLog`, with the proof |
| `RaftService`, `MCService` | The second server program, on the node of `Raft` |
| `FileServer`, `MCFileServer` | One file server: handlers, op log, deadlines, crashes |
| `FileServerProofs` | Theorems about `FileServer`, with proofs |
| `Replica`, `MCReplica` | One replica that executes the committed log with the handlers of `FileServer` |
| `ReplicaProofs` | Theorems about `Replica`, on top of `FileServerProofs` |
| `AFSClient`, `MCClient` | The client with its cache, its RPC calls and their retries, over one file |
| `AFSClientProofs` | Theorems about `AFSClient`, with proofs |
| `Job`, `MCJob` | Coordinator, snapshot and workers |
| `JobProofs` | Theorems about the tasks of `Job`, with proofs |
| `JobPrimesProofs` | Theorems about its primes, on top of `JobProofs` |
| `IsPrime` | `is_prime` as an operator, with what it computes as an assumption that TLC evaluates; `MCJob` extends it |

How they fit together: `Raft` says which commands the servers hand over and
`ReplicatedLog` states that without Raft's machinery. `Replica` takes such a
sequence as given and runs it through the handlers of `FileServer`, which it
extends. `AFSClient` takes the servers as given, as a file with versions. `Job`
takes the file system as given, as one snapshot file.

### Raft

One action is the code from one `await` to the next.

| Action | Code |
|---|---|
| `Election` | `_election_loop` from the expired timeout through `election()` to the `gather` of `broadcast_vote` |
| `HandleVoteRequest` | `vote()` at the receiver and its reply on the same connection, which is counted in the candidate's `ballot` |
| `Tally` | the `gather` returns with those of the votes that came in time; `leader()` if they suffice and the state is still candidate |
| `Beat`, `Replicate`, `EndRound` | one turn of `_heartbeat_loop`: `send_hb` to all, `replicate_log` for one peer after the other, then `update_commit_id` and `apply_commited_entries`. `round` is where the loop stands and the answer it waits for |
| `HandleAppendEntries` | `append_entries()`, `apply_commited_entries()` and the reply |
| `Submit`, `Answer`, `GiveUp` | `handle_create`/`handle_put_file`: append, wait for the id, execute what is found there, or time out |
| `Restart`, `RestartInHandler` | a kill between two steps, or between the save of the new term and the save of the vote or log inside a handler |

A log is a sequence, whose position is the entry's `index`; `applied` is the
sequence of commands handed to `commit_callback`, and `last_applied` its length.
A request that `net` holds may be handled at any later time or never: that is
loss, delay and reordering. Connections are made per request and a request is
written once, so a request is not duplicated by the network.

`LateRounds` names the one assumption. The loop checks `node.state` once per
turn and then awaits one peer after the other; a leader deposed meanwhile goes
on in the new term, with its new term number in the requests. With `LateRounds = TRUE` the
model does just that, and state machine safety fails (`raft_late_round`). With
`FALSE` what such a round sends or receives after its leader stepped down is
taken to be lost, and the log properties hold. Elections are checked, and
proved, without the assumption.

### ReplicatedLog

Three variables: the sequence of commands decided on, what each server has
handed over of it, and the command whose result each client got. A server that starts
again hands the sequence over from its beginning (`Restart`, for `RaftNode.__init__`), and what
was decided on stays decided. `Raft` implements it (`ImplementsReplicatedLog`) as long as late
rounds are lost. `answered` are the clients' calls. For `chosen` no variable of the
code will do, since the servers that have applied a command may all have crashed
since: `RaftRefinement` adds a history variable that remembers the longest sequence
any server ever applied (`Remember`). It is set in every step of `Next` and looked at
in none, so `LogSpec` has the behaviours of `Spec`. The abstract log does
not promise a client the result of its own command: `handle_create` waits for an
id and takes what it finds there.

### RaftService

`RaftService` extends `Raft` and replaces the loops. A round sends to all peers at once, so
`pending` holds one record per call under way, and what `Raft` says of the one
call of a round is used for each of them: `One(p)` is `Raft` with `p` as its
round. `TakeOffice` is the end of the election, without the check that
`RaftServer` makes, and `HandleAppend` is `append_entries` without handing
anything over.

### FileServer

A call is a request on a connection of its own. `Receive`, `LookUp`, `Record`
and `Deadline` are `_handle_conn`; `StartOpen`, `StartCreate`, ... are the
handlers up to their first await, and `Look`, `Read`, `Truncate`, `Write`,
`Save`, `Fill`, `Replace` the threads they await, with `Written` and `Got` the code in
between. `write_bytes` is two steps, `Truncate` and `Write`, because opening the file
empties it, and so is `write_text`, `Save` and `Fill`. All paths write one temporary file
and move it to `.meta.json`, so one call may move what another has only emptied, which
it then fills under the new name. `tmp` says what the temporary file holds, which calls
have it open, and which have what is now `.meta.json` open (`moved`). Texts of
two calls in one file may be no JSON (`Torn`); a server that starts with such a file, or
an empty one, has no metadata (`Loaded`). The
`sha256` of an entry of `_meta` stands for the content. A handler cancelled at
its deadline frees its lock at once while its thread goes on (`code` is
"timeout" and the thread steps stay enabled), and may replace what a later call
has written and been acknowledged for. `NoLostWrite` therefore speaks of versions, which
acknowledged writes keep, and not of the bytes. A crash keeps the files, the two
metadata files and the op log. `TestAuth` answers with the server's version; the
comparison with the client's is left to the client.

### Replica

A call of `FileServer` is here an execution of a log entry: `<<"task", n>>`,
started by `apply_to_state_machine`, or `<<"handler", n>>`, the second execution
in the client's handler on the leader. `HandOver` is `apply_commited_entries`;
`Execute` the handler that has seen its id committed; `Step` any step of a
handler of `FileServer`; `RestartReplica` a crash at any step, after which the
whole log is handed over again onto the files that were left. `FileAfter` is what
the log alone determines: its entries executed one after the other. Tasks begin
in the order of their creation, and `asyncio.Lock` serves those that wait in
order (`InOrder`); their threads interleave freely.

Nothing makes the handler on the leader wait for the tasks (`server.py:145-150`), so
`Execute` may come at any time once the entry is handed over, before its task or after
it, and before the tasks of the entries ahead of it. The history variable `led` says
that a handler has run: this replica has been a leader. A handler may meet its deadline,
a task has none. `Existing` is the set of files that are there at the start; entries may
create the others.

What a replica promises is stated for replicas that have followed only (`~led`) and for
the files that exist (`AppliedInOrder`, `MovesAlongLog`, `AppliedIsSaved`), and after a
crash for a log of one file only (`Kept`). `LeaderAgrees` says when a leader agrees as
well: if each write is based on what the entries before it have left and no handler was
cancelled. The model has all of the cases, and the run explores them for a replica that
has only followed; once one has led, the run goes on only where `LeaderAgrees` speaks
(`LeadsOnce`). In the cases left out the replica does go wrong:

* Two clients write one version at once: the leader's handler executes the second entry before
  the task of the first, which is then refused; followers refuse the second.
* A handler cancelled at its deadline frees the lock while its thread still saves; the
  task of the same entry meets the new version, takes the entry for applied and is done,
  and what it stands for is not on the disk yet.
* Tasks of several files save through one temporary file. One moves the
  `.meta.json.tmp` that another has just emptied; after a crash the replica has no metadata
  and refuses the entries of the replay.
* The `Create` of a file and its first `PutFile` are handed over together: the `PutFile`
  may find no version and is refused, on this replica only. `AppliedInOrder` is about
  files that exist, for this reason.

### AFSClient

One file. `hist` is the sequence of its versions, `put` the `PutFile` under way
at the leader; `cache` is each client's copy with its label (the saved
version), `op` its operation under way, and `late` the writes whose client gave
up and which the leader may still run. A content is the set of edits in it, so
that a lost edit shows.

| Action | Code |
|---|---|
| `Start` | the call of `open`, `open_sync_read`, `create` or `put`, up to its first request |
| `TestAuth`, `Open`, `Create` | one RPC each, answered by the server in one step, and what the client does with the answer |
| `GetFile`, `Stamp` | the thread that reads the bytes, and the version that `GetFile` takes after it, which only `open_sync_read` looks at |
| `PutFile`, `Refuse` | the leader takes the write, holds the lock and empties the file; or it, or a follower, refuses |
| `Written`, `EndPut` | the thread has written all bytes; the new version and the answer |
| `Store`, `Label`, `OpenLocal` | the writing of the cached file, of its version, and the opening of the file |
| `Write`, `Close` | the same, `Close` up to the request |
| `Miss` | a connection, write or read that times out in `RPCClient.call`: the next server is tried or the call fails, and the request may have arrived |
| `RunLate`, `CreateLate` | the server runs such a request later |
| `Kill` | the client is killed and starts again from what is on its disk |

`GetFile` takes no lock, so it reads what the write under way has left of the
file (`Bytes`): nothing, a part, or all of the new content. For `open` this is
harmless in the end. Its label is the version that `Open` answered before, so a
torn copy is labelled with a version that is old once the write has ended: the next
`TestAuth` finds it changed, and an edit of it is refused. What the properties
say is just that: `CachedIsServed` speaks of moments at which no write is under way.
That the open itself may show torn bytes is so, and is not excluded. For
`open_sync_read` it is not harmless: it keeps the version that `GetFile` took after the
bytes, and a write that ends in between (`mixed`) leaves it with old bytes under the new
version, for good. The model does this, and the properties leave such a copy out by
name (`cut`).

`since`, `met`, `made`, `dirty` and `cut` do not exist in the code as variables. `since`
is the newest version when the operation began, `met` says that a write was under way
when its bytes were read or found unchanged, `made` that the op log holds the result of this
operation's `Create`, `dirty` that the client itself has changed its copy,
`cut` that it opened it with mode `w` since or got it with a version that is not that
of its bytes, and `mixed` that the answer to `open_sync_read` is such a one. The client takes the servers in
turn over all its calls, those for other files included, so a call for this file
meets any of them. `Lag` says whether a follower may answer with an older version than
the leader has. It may: a follower applies an entry a heartbeat later. With `Lag`
an old copy gets a new label (`client_lag`); the passing run and the
theorems are about followers that keep up.

Left out: offsets (`read` and `seek` only move a position), several files open at
once, deadlines of handlers, and a `Create` beside a `PutFile` (`FileServer` has both).

### Job

A connection holds two sequences of messages, `up` and `down`, delivered in
order; it ends with `open = FALSE` on the worker's side and
`handler = "ended"` on the coordinator's. The `Handle...` actions are the
branches of `handle_worker`, `Leave` its `finally` clause, `StartSnapshot` a
turn of `snapshot_loop`. `Contents` is what `save_snapshot` pickles: since
`snapshot_loop` passes the live sets, these are as they are at the end of the
snapshot, while the count of finished tasks is the one of its beginning.
`Store` is the writing of the files, during which the handler is busy; it may
fail. The worker's actions are `load_snapshot`, connecting, and the loop over the numbers of its
chunk. A task is its chunk, given by the numbers it is cut from and its position, with a
start of the coordinator, so that tasks are unique as `uuid4` makes their ids. AFS is one
snapshot file that can be written and read or not, the input files, and one file of
results; reading different copies from
different replicas is outside this module. Worker ids are not 0 (an id of 0 is
never cleaned up, `coordinator_afs.py:203`), and a worker that was told to shut down is
not started again.

A coordinator without a snapshot reads its input files and leaves out those that it
cannot read, with a message (`coordinator_afs.py:249`): `Readable` is the set of
sequences that it may get. With nothing read, `run()` returns (`NothingRead`). The end of `run()` is
three steps: `EndLoop` closes the listener, `SaveResults` writes the results or fails with a
message (line 74), `Done` empties the snapshot in either case. What is connected is served
until the end, and a crash may come in between. `stage` says how far `run()` is; `input` is a history
variable, what was read for the job, and `output` keeps with the results the
numbers they are of. So a job may be declared complete without the primes of an
unreadable file, and with its results nowhere: `ResultComplete` says what does
hold, that every prime of the numbers read is known when the main loop ends, and that
a file of results has all of them or is empty.

`Slots` is the number of connections of one worker id that may overlap. With
one, the coordinator has seen the end of the old connection before the worker is
back, which its pause of three seconds makes usual; two is what the code allows.

### IsPrime

`is_prime` line by line, with `pow` as a recursive function, by squaring.
`PrimalityAssumption` says that it is right for every number up to `MaxNumber`
but those primes that divide a base, such as 73. TLC evaluates it in `job_restart`, whose
module extends this one. `Job` itself has its primes as a constant.

## The runs

Passing runs:

| Run | Instance | What it shows |
|---|---|---|
| `raft_election` | 3 servers, terms to 2, 2 crashes, no commands, late rounds | One leader per term (`ElectionSafety`); every vote counted is still saved by its voter and ballots of a term are disjoint (`VotesBacked`); a vote is never changed within its term, nor a term left for an earlier one, crashes included (`VotesAreKept`) |
| `raft_log` | 3 servers, 2 commands, terms to 2, a crash, clients that wait | No two servers apply different commands at an id, a leader never cuts its own log, AppendEntries of a term under way have one sender, the cluster implements `ReplicatedLog`, over a crash too, types |
| `raft_repair` | 3 servers, 3 commands, terms to 4, a crash; from the state where two crashed leaders left conflicting entries | Logs match, a leader has whatever was applied, what is applied is on a majority's disks |
| `raft_progress` | 2 servers, 1 command, terms to 3, fair | A leader that stays brings its peer up to date, entries of old terms included, and commits its own entries |
| `job_restart` | 2 workers, 2 chunks of 3 numbers, or one chunk or nothing if files are unreadable, one crash of the coordinator, one kill of a worker, one snapshot per coordinator process | When the main loop ends every prime of the numbers read is known, and a file of results has all of them or is empty; a snapshot lacks no prime that would not be computed again; before a restart a task is queued, with one worker, or counted, exactly once; no task is both counted in a snapshot and to be done in it |
| `files_steps` | 3 calls of any kind, 2 paths, one of which exists; deadlines, one crash | Acknowledged writes of the existing file have different versions, and its metadata are those of the last or of a write since (after a crash: if nothing else saved metadata); an acknowledged version is saved; a file and its metadata agree once no call is under way (if nothing was cancelled or killed) |
| `replica_steps` | a replica that follows, and leads for a while, every log of 3 entries for a file that exists and one that does not, 2 contents, two crashes | As long as it has only followed: at rest a replica holds of the existing file what the log alone determines, so followers agree; the file moves along the log and never beside it; what its tasks have applied is saved; after a crash, if all entries are for this file. A leader agrees if each write is based on what was there and no handler was cancelled |
| `client_cache` | 2 clients, 3 versions, one edit, one late write | At rest a copy with the current label is the current version; an open that met no write shows what had been closed before; no flush drops another client's edits; types |

Runs that TLC refutes, each the statement of a doc, comment or test that the
code does not keep (details in `PROJECT.json`, "findings"):

| Run | What the code does |
|---|---|
| `raft_late_round` | A deposed leader finishes its heartbeat round in the new term and overwrites an applied entry: two servers apply different commands at one id |
| `job_overlap` | A worker back before the end of its old connection is noticed: its old task is lost, its new one counted twice, the job ends incomplete |
| `client_lag` | `open` asks one server for the version and the next for the bytes: the bytes of an old version are kept, and later trusted, under the new one |
| `service_election` | `RaftService` takes office on the count alone: a candidate that has meanwhile followed a later term leads that term, which has a leader |

### Known divergences that no run shows

The models have these behaviours, found while modelling; the properties exclude them
by name.

* The four of `Replica` listed above.
* `GetFile` takes no lock: an open shows bytes that nobody wrote while a `PutFile`
  has the file emptied or half-written (`handlers.py:88`, `:103`).
* `GetFile` takes its version after its bytes: `open_sync_read` may keep the bytes from
  before a write under the version from after it (`handlers.py:90`; `mixed`).
* The thread of a `PutFile` that was cancelled at its deadline may replace the bytes of
  a later one that was acknowledged (`handlers.py:103`; `Cancelled`).
* A job is declared complete without the primes of an input file that could not be
  read, and with its results unsaved (`coordinator_afs.py:249`, `:74`).
* A handler of `RaftServer` waits for a log id, and answers with the result of
  the command that another leader put there (`raft/server.py:149`; `Answer`).
* A task that ends during a snapshot is missing from its tasks and from its
  count (`coordinator_afs.py:97`): the coordinator that restores this snapshot
  never reaches its count and waits for ever. What holds is that no task is in
  both (`SnapshotNeverOvercounts`).
* A call repeated while the first is running is not in the op log yet and runs
  again, with another answer (`rpc/server.py:62`; `Receive`, `LookUp`).
* `is_prime` leaves out the bases that divide the number where it should leave out
  those that are multiples of it: 73 is found composite (`prime.py:22`).
* `Open` and `Create` of a path without metadata set its version without the
  lock, after awaits (`handlers.py:57`, `:65`).
* A worker that ends or joins during a snapshot leaves it active for ever, or
  raises `KeyError` (`snapshot_afs.py:57`, `:45`).
* An answer `not_leader` or `commit_timeout` is kept in the op log, and repeated to
  every retry under its op id (`rpc/server.py:102`).

### Bounds, views, symmetry

* Terms, crashes, starts, kills, snapshots and versions are bounded in guards
  (`MaxTerm`, `MaxRestart`, `MaxStart`, `MaxKill`, `MaxSnapshot`, `MaxVersion`).
  Two terms are needed for two leaders and a conflict, and four for an entry
  that is replicated in a later term than its own and overwritten in a third,
  which is where committing by count goes wrong. Reaching that from the initial
  state is too far for TLC, so `raft_repair` begins after it: in
  `AfterTwoLeaders`, which three crashes reach, each of two leaders has
  one entry nobody else has. Three servers are the least with a proper
  majority, two the least for `raft_progress`, where the majority is both.
* `MaxNet` bounds how many requests that still matter are under way at once
  (1 to 3). States with more are not explored further. One is enough for
  the logs because a server can handle a request only one at a time, and which
  of the others arrive later is a choice `Send` makes; what this leaves out are
  behaviours in which several old requests are handled much later. In
  `raft_progress` the same bound cuts such behaviours off, so that run shows
  progress for those that stay within it.
* `Matters` and the views of `MCRaft` leave out requests, votes and
  answers that no action can still take account of (each clause says why), so two
  states that TLC identifies have the same future. `Matters` in `MCJob` leaves
  out the sets of a snapshot that is not active, and in `MCFileServer` the answers of
  calls that only read, at which no checked property looks.
* `raft_log` follows only behaviours in which clients go on waiting
  (`ClientsWait`) as long as the server runs that they wait for: nothing a server does depends on it, and an answer or a
  failure is the end of a call. The step that answers is still checked. The crash comes once something has been
  applied (`CrashOnceChosen`), which is when there is something to forget; crashes at any
  time are in `raft_election` and `raft_repair`. `MCClient`'s `Matters` identifies modes that are treated alike from
  the point where they are, and keeps of old versions, and of how recent a copy is, only
  what an open under way may still be compared with. In `client_cache` three versions are two more than the first, so
  that a copy can be old by two, and a write late by one; one edit is enough
  for an edit to get lost.
* `replica_steps` has three entries: two that race, and one that what they
  leave is judged by; the second crash is one during the replay after the first. `LeadsOnce`
  ends a behaviour in which a handler has run when the replica crashes, a handler is
  cancelled, or the log has an entry for another file or one that is not based on what
  the entries before it left: of those no property speaks.
* Servers, commands, workers, clients, calls, contents, files that exist and op ids are symmetric. The liveness run
  uses no symmetry and no view; it looks at one of the two mirror images of
  behaviours (`PatientClients`), and at clients that wait for their answer.
* `job_restart` reads two files, one file, or none (`Files`). It has chunks of two and
  one numbers, so that a worker can be
  in the middle of one, and a rewind of 0 instead of 100: the rewind
  only repeats work, so 0 is the case in which a prime could get lost. TLC
  does not look beyond the end of the job. Nothing reads the file of results, so it
  counts only in the state after it was written.
* Deadlock checking is off: bounded models stop when their bounds are used up.

### Fairness

Only `raft_progress` uses it. The heartbeat loop of a running server never
ends and each of its awaits has a timeout of 0.5 s, hence weak fairness of
`Beat`, `Replicate` and `EndRound`. That a request, tried again in every round,
arrives now and then, is handled while the leader waits and answered in time, is
assumed of the network as strong fairness; without it a peer is simply cut
off. Nothing is assumed of elections, clients and crashes.

## What is proved

`RaftProofs` proves of `Spec`, for every finite set of servers, every set of
commands, any bounds and either value of `LateRounds`:

* `TypingInvariant`, `TypeCorrect`: `[]TypeOK`. `TypeOK` is not
  inductive by itself. `Typing` adds what the actions need to be well defined:
  `commit_id` is never more than the number of commands applied, a round with
  an answer has the request it answers, a waiting call has a server and an id,
  and no request goes to its own sender. There is one lemma per action.
* `VotesInvariant`: `[]VotesBacked`. It is the inductive heart of elections: a
  vote that counts is what its voter has saved, or the voter has moved to a
  later term; ballots of a term share no voter; a leader's ballot of its own
  term is a majority.
* `ElectionSafe`: `[]ElectionSafety`. Two leaders of one term would have two
  majorities of voters in disjoint ballots, which a finite set does not have
  (`MajoritiesMeet`).
* `VotesKept`: the action property `VotesAreKept`.

On the logs it goes on from there, under the assumption `~LateRounds`: late
rounds get lost. Without it these statements are false.

* `OneSender`: `[]OneSenderPerTerm`. A leader that crashes forgets its ballot,
  while its requests are still under way, so `VotesBacked` says nothing of it
  any more. `Elected(i, t)` does: a majority has saved a vote for `i` in `t`, or has
  moved on, and nobody of it is in the ballot of another candidate of `t`. No
  step takes that away (`ElectedStays`), a leader has it (`LeaderElected`), nobody
  else leads that term (`OneWinner`), and every sender of an append request has
  it (`Sent`, which is the inductive invariant).
* `AppendsOnly`: the action property `LeaderAppendOnly`. A request of its own term
  that reached a leader would come from a rival that was elected too (`NoRival`).
* `LogsMatch`: `[]LogMatching`. The request under way may be a slice of a log that
  its sender no longer has, so the induction is over a set `H` of logs that only
  grows (`History`): the logs servers have or had, any two of which match, whose
  terms all have somebody elected, and in which there is no entry of a leader's
  own term that the leader lacks. A follower's new log is its old one, a prefix
  of it, or the log the request is a slice of (`MergeResult`); a leader's new
  entry has a place in its term that no log in `H` has taken (`SubmitHistory`).

`RaftSafetyProofs` proves, under the same assumption, what all this is for:

* `StateMachinesAgree`: `[]StateMachineSafety`; `LeadersAreComplete`:
  `[]LeaderCompleteness`; `AppliedStored`: `[]AppliedIsStored`.

Their inductive invariant is `Explainable`: there is a past that explains the state. A
past is a set `H` of logs, `B` of elections that were won, `V` of votes with the
logs that the voters had, and `A` of logs that followers had accepted in a term.
An entry is decided (`Decided`) once a majority has had it in their logs in the term
it is from, by the word of that term's leader.

* `LeadersHave`: whoever won a later election had the entry. Otherwise take the
  first winner that lacked it; one of its voters had accepted the entry
  before, and the comparison of logs in `vote` makes the winner's log one that
  a leader in between, or the leader itself, would have had to write without it.
* `ChosenAgree`, `ChosenIsStored`: hence two chosen logs agree, and a
  majority still has each.
* A step never rewrites the past, it only extends it (`Extended`). There is a
  lemma for each part of it: `OfficesStep` for elections, `VotesStep`,
  `AcceptsStep`, `ReplicationStep` for what leaders count as stored, and
  `CommitsStep` for the commit ids that are handed from one server to another.

`RaftRefinementProofs` proves that `Raft` implements `ReplicatedLog`
(`LogImplemented`), for any number of crashes, under `~LateRounds` and for finitely many
commands. The invariant says of `chosen` that it is the beginning of a log that was decided on
(`Remembered`, in the past that `RaftSafetyProofs` has built), and that no server has
got further (`Covered`). So whatever is applied later agrees with it, by `ChosenAgree`,
although nobody may have it applied any more (`RememberStep`). A command
has one place in all logs and requests, the id its call waits for (`Placed`), so that
none is twice in `chosen` (`OneLog`); and what is committed is what was applied
at that id (`CommitsApplied`), so that the answer to a call is a result of the
sequence. `EndRound` and `HandleAppendEntries` are a `Decide` or a `Follow` (`DecideMaps`,
`FollowMaps`), `Answer` is an `Answer` (`AnswerMaps`), a crash is a `Restart`; all other
steps stutter.

`AFSClientProofs` proves of `AFSClient`, for every set of clients and any bounds,
under the assumption `~Lag`, that is, of servers that keep up:

* `TypesCorrect`, `CachedServed`, `OpenRecent`, `UpdatesKept`: `[]TypeOK`,
  `[]CachedIsServed`, `[]OpenIsRecent`, `[]NoLostUpdate`. The inductive
  invariant says of each client (`Good`) that its variables have their
  types and its versions exist; that a clean copy with the label of the current version is
  that version, unless a write is under way that will make the label old; the same of
  what an operation has fetched and the version it goes with; that an open file that met no write is as new
  as the last version before it; and that a `Create` that found the file missing really made it.
  Of each late write, and of the one under way, it says that it builds on the last version. There is one lemma
  per action.

`FileServerProofs` proves of `FileServer`, for any paths, contents, calls and
crashes, and with deadlines:

* `TypeCorrect`: `[]TypeOK`. The steps of a handler keep its local variables,
  so `Fits` says what the place of a call says of them; there is one lemma per
  action.
* `LostNever`, `SavedWhenAnswered`, `FileMatches`: `[]NoLostWrite`,
  `[]AnsweredIsSaved`, `[]MetaMatchesFile`. The invariant `PathInv(p)` speaks of
  one existing file, until the first crash and, as long as no other path was called for
  and no call cancelled, after it (`Intact`): only `PutFile` changes it (`OnlyPuts`, `Known`); a
  `PutFile` that is not cancelled has the lock (`HoldsLock`) and makes the
  version after the current one until it has entered it, which is the current
  one from then on (`Numbered`). While it saves, the versions
  that were acknowledged are smaller than the current one in memory (`InMemory`), and
  that is why they are distinct (`Distinct`). In `.meta.json` they are so as long as no
  other path and no cancelled thread saves (`OnDisk`): then the call that fills the temporary
  file is the only one that has it open, and nobody moves it too early.
  A step is that of the call with the lock (`Working`, and a lemma for each of its seven
  steps), of a call that does not have it (`Apart`, `Elsewhere`), or a crash.

`ReplicaProofs` proves of `Replica`, for a log of any length, any number of files and
crashes and any interleaving of tasks and their threads:

* `ReplicaHoldsLog`, `ReplicaSaves`: `[]AppliedInOrder`, `[]AppliedIsSaved`;
  `ReplicaMovesAlongLog`: the action property `MovesAlongLog`.
* They speak of a replica as long as it has only followed (`~led`, `LedStays`): of a
  leader the properties do not hold, and what does, `LeaderAgrees`, is only
  model-checked. They speak of the files that exist at the start; entries may create others
  (`CreateKeeps`: `Create` finds an existing file there, and another file's tasks
  leave it alone, `OtherPath`). After a crash they speak of a log of one file (`Kept`).
* What the log determines is a recursive function, `FileHistory`. Its equations
  (`HistoryIs`, `AfterIs`) and what follows from them for every length (versions never go
  back, and one version is one content: `AfterGrows`, `AfterSame`) are proved
  with sets of indices that contain 0 and with each index its successor (`UpTo`), since
  the induction theorems of the library are out of reach.
* The invariant is `ReplicaInv`. Executions and entries belong together
  (`Handed`, `Placed`). Of each file: writes begin in the order of the
  log (`Ordered`); once the writes among the first `n` entries are through, the
  file has at least their version (`Applied`); the task that has got past the version
  check works on what the entries before its own have left, and no later write has begun
  (`Writing`); the file is what its metadata say, except while it is written
  and, after a crash, until the replay has come to where it was (`Matching`).
  The metadata are those that some entry has left (`MetaIs`). If all entries are for
  one file, then nobody else has the temporary file open, what is saved or on its way is
  the last text or the one before it (`OnItsWay`), and a crash loads what some entry has
  left (`SavedIsOf`). This is why a replay over the files a crash left ends at the
  same place (`MatchingAgain`).
* A step is one of an execution that touches no file (`IdleStep`), or a step of the
  one task that writes (`TaskStep`, with a lemma for each of its seven steps), or a crash.

`JobProofs` proves of `Job`, for all workers, inputs, kills and snapshots, if a worker
has one connection at a time (`OneSlot`):

* `TasksKept`, `NeverOvercounted`: `[]TasksAccounted`,
  `[]SnapshotNeverOvercounts`. The invariant `Accounted` adds that no task
  is twice in the queue, held by two workers, or queued and held (`Accounts`), and
  that a worker holds a task exactly as long as its connection is served
  (`Serving`): without it a finish or a disconnect might give back or count a task
  that the worker does not have. With two connections per worker this fails, as
  `job_overlap` shows. A restored coordinator may count too few tasks, since its
  snapshot's count is older than the snapshot's tasks: `Counts` says that some number
  `g`, at least the count, does add up with the unfinished tasks, and that it is
  the count itself until the first restart. The same is said of every snapshot that
  may be restored, saved or being saved (`Stored`, `Sums`). What workers do touches none of it
  (`WorkServed`, `Unseen`); each handler step is one of handing out
  (`Assigned`), giving back (`Requeued`) and counting (`Completed`), and a
  restore queues again what was in progress (`Requeueing`).

`JobPrimesProofs` proves from it, again under `OneSlot`, that no prime is lost, over
any number of crashes, restores, kills and snapshots:

* `SnapshotsResumable`, `ResultKept`: `[]SnapshotResumable`, `[]ResultComplete`.
  Neither property speaks of the messages under way, on which both depend. `Links` does.
  On a served connection each message counts only on primes that the
  coordinator has or that are ahead of it on the same connection (`Flows`): a finish
  on those of the whole chunk, the answer to a marker on those up to the place it
  names. It also ties each worker to its connection (`Attach`): what it has done of
  its task is known once its messages are read, and the task is the
  one that the coordinator has in progress for it. A kill may cut off the last messages,
  which leaves such a sequence one (`FlowsSub`).
* `Books` is the rest: the coordinator has the primes of every chunk that no
  unfinished task covers (`Sound`); the answers counted in a snapshot name places whose primes
  it has (`Recorded`), so that a snapshot is `Complete` when the last
  answer is in; and a state that a worker may start from, its own or the saved
  one, is either of another task or skips only primes that are known (`Backs`),
  both now and in every snapshot that may be restored. That is what makes it safe
  for a worker to resume with a newer state than the one its coordinator was restored from.
* The main loop ends when the count reaches the total, which by
  `Accounted` leaves nothing unfinished; `EveryPrime` (each prime of the input is in a
  chunk, whatever the rounding of `split_numbers`) gives the result, and `Whole` carries it
  through the steps that follow.

The assumptions used besides are those on the constants: `Server` is finite, `None` is
neither a server nor a command, the bounds are naturals, and `LateRounds` is a
Boolean; likewise for the constants of `AFSClient`, `Job`, `FileServer` and `Replica`,
where `None` is no task, request or metadata either.

Only model-checked: everything about `RaftService`; `LeaderAgrees`; `PrimalityAssumption`, which
is about a recursive operator; and liveness, which is out of the prover's reach.

## What is not modelled

* `rpc/framing.py`, logging, path normalisation: no state of their own.
* Timeouts as durations: whatever may expire may do so at any time.
* A save of the Raft state that fails half-way, and a disk that loses data.
* `primefinder/coordinator.py`, `worker.py`, `snapshot.py`: the predecessor of
  `integration/`, whose protocol `Job` models. Tests and demos are drivers; what
  they expect is where the statements of the findings come from.
* `Init` of `FileServer` has the existing file just created. Paths without
  metadata, calls for another path, and deadlines are in the model, but the
  properties say by name where they do not hold under them (`Existing`,
  `Undisturbed`, `restarts = 0`): `Open` and `Create` set metadata without the lock, all
  paths share one temporary metadata file, and threads outlive their handlers.
* The composition of all parts: a client over replicas over Raft has too many
  states for TLC. The parts meet at what one promises and the next assumes, see
  "The modules"; what `Replica` and `AFSClient` assume beyond that is named by
  `Existing` and `Lag`, and what their properties leave out by `led`, `Kept` and `cut`.
* Stale copies of the snapshot file on other replicas (`worker_afs.py:160`), a
  second job after the first, a worker id of 0.

## Plan

What is left, in this order:

1. **Job**: the ending of a job under fairness, for jobs without snapshots under
   way; stale copies of the snapshot; id 0.
2. **Abstract specifications**: an atomic versioned file that `FileServer`
   refines for one existing path without deadlines, and that is the `hist` of
   `AFSClient`.
3. **Proofs**: the elections and terms of `RaftService`, whose node is that of
   `Raft`.

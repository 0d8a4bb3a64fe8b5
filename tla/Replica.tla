------------------------------ MODULE Replica -------------------------------
(***************************************************************************)
(* One replica of the file system: the committed entries of the Raft log,  *)
(* as RaftServer (raft/server.py) executes them with the file handlers.    *)
(*                                                                         *)
(* apply_to_state_machine starts a task of its own for every entry, so     *)
(* entries run beside each other; on the leader the client's handler runs  *)
(* its entry a second time, for the answer, and may do so before the tasks *)
(* that were created a moment ago have begun.  A call of FileServer is here*)
(* an execution of an entry: <<"task", n>> or <<"handler", n>>.            *)
(* Agreement on the log itself is Raft's: here it is given.  Replicas of   *)
(* one log agree if each of them holds what the log alone determines.      *)
(***************************************************************************)
EXTENDS FileServer, Sequences

CONSTANT MaxLog      \* bound: entries of the log

VARIABLES log,       \* the entries the cluster commits
          handed,    \* last_applied: how many have been handed over
          replay,    \* the entries that this process found in its saved log
          led        \* history: this replica has been the leader and has
                     \* executed an entry in a client's handler; one that only
                     \* follows answers clients with "not_leader"

Executions == {"task", "handler"} \X (1..MaxLog)

ASSUME ReplicaAssumption ==
  Call = Executions /\ MaxLog \in Nat

replicaVars == <<vars, log, handed, replay, led>>

Command == {r \in Request : r.op \in {"Create", "PutFile"} /\ r.op_id = None}

-----------------------------------------------------------------------------
(* What the log determines: its entries executed one after the other.      *)

\* The files of the start
Initially(p) == IF p \in Existing THEN [version |-> 1, data |-> Empty] ELSE None

VersionIn(e) == IF e = None THEN 0 ELSE e.version

\* Create of a file that is there, and PutFile of another version, fail.
Effect(e, r) ==
  CASE r.op = "Create" /\ e = None -> [version |-> 1, data |-> Empty]
    [] r.op = "PutFile" /\ r.version = VersionIn(e)
         -> [version |-> VersionIn(e) + 1, data |-> r.data]
    [] OTHER -> e

\* What p is after each number of entries
FileHistory(p, entries) ==
  LET after[n \in 0..Len(entries)] ==
        IF n = 0 THEN Initially(p)
        ELSE IF entries[n].path = p THEN Effect(after[n - 1], entries[n])
        ELSE after[n - 1]
  IN  after

FileAfter(p, n) == FileHistory(p, log)[n]

\* Clients name the versions they have seen, which the file had by then.
Plausible(entries) ==
  \A n \in DOMAIN entries :
    entries[n].op = "PutFile" =>
      entries[n].version <= VersionIn(FileHistory(entries[n].path, entries)[n - 1])

ReplicaInit ==
  /\ Init
  /\ log \in {l \in [1..MaxLog -> Command] : Plausible(l)}
  /\ handed = 0 /\ replay = 0 /\ led = FALSE

-----------------------------------------------------------------------------

task(n) == <<"task", n>>
handler(n) == <<"handler", n>>

Started(r) == [NotReceived EXCEPT !.pc = "start", !.req = r]

\* apply_commited_entries hands the next entry to a task.  That several are
\* handed over at once means that no task has begun in between.
HandOver ==
  LET n == handed + 1
  IN  /\ n <= Len(log)
      /\ handed' = n
      /\ call' = [call EXCEPT ![task(n)] = Started(log[n])]
      /\ UNCHANGED <<meta, disk, meta_file, tmp, lock, op_log, restarts, log, replay, led>>

\* The client's handler has seen its entry committed and executes it too; it
\* does not wait for the tasks. Entries from before a crash have no client.
Execute(n) ==
  /\ n \in replay + 1..handed
  /\ call[handler(n)].pc = "none"
  /\ call' = [call EXCEPT ![handler(n)] = Started(log[n])]
  /\ led' = TRUE
  /\ UNCHANGED <<meta, disk, meta_file, tmp, lock, op_log, restarts, log, handed, replay>>

\* Tasks begin in the order in which they were created, and those that wait
\* for a lock get it in this order.
InOrder(h) ==
  h[1] = "task" =>
    \A k \in 1..h[2] - 1 :
      \/ call[task(k)].pc # "start"
      \/ /\ call[h].req.op = "Create"
         /\ call[task(k)].req.op = "PutFile" /\ lock[call[task(k)].req.path] # None

\* mutant: a process that starts again goes on behind the last entry
RestartBehind ==
  /\ restarts < MaxRestart
  /\ restarts' = restarts + 1
  /\ meta' = Loaded /\ tmp' = Closed
  /\ lock' = [p \in Path |-> None]
  /\ call' = [h \in Call |-> NotReceived]
  /\ replay' = handed
  /\ UNCHANGED <<disk, meta_file, op_log, log, handed, led>>

\* The process is killed and started again: its files are what was saved, and
\* the whole log is handed over again.
RestartReplica ==
  /\ restarts < MaxRestart
  /\ restarts' = restarts + 1
  /\ meta' = Loaded /\ tmp' = Closed
  /\ lock' = [p \in Path |-> None]
  /\ call' = [h \in Call |-> NotReceived]
  /\ handed' = 0
  /\ replay' = IF handed > replay THEN handed ELSE replay
  /\ UNCHANGED <<disk, meta_file, op_log, log, led>>

\* A step of the handler that executes h (FileServer); clients set a deadline
\* for theirs.
Step(h) ==
  /\ \/ call[h].pc = "start" /\ InOrder(h) /\ (StartCreate(h) \/ StartPutFile(h))
     \/ Look(h) \/ Truncate(h) \/ Write(h) \/ Written(h) \/ Save(h) \/ Fill(h)
     \/ Replace(h)
     \/ h[1] = "handler" /\ Deadline(h)
  /\ UNCHANGED <<log, handed, replay, led>>

ReplicaNext ==
  \/ HandOver \/ RestartReplica
  \/ \E n \in 1..MaxLog : Execute(n)
  \/ \E h \in Call : Step(h)

ReplicaSpec == ReplicaInit /\ [][ReplicaNext]_replicaVars

-----------------------------------------------------------------------------
(* Properties.                                                             *)

Resting == \A h \in Call : call[h].pc \in {"none", "done"}

\* All executions of the entries handed over have come to an end, and a process
\* that has started again has caught up.
CaughtUp == Resting /\ handed >= replay

\* The file and its metadata are what the log determines.
Holds(p) ==
  LET e == FileAfter(p, handed)
  IN  meta[p] = e /\ disk[p] = IF e = None THEN None ELSE e.data

\* All paths save to one .meta.json, where a crash may leave what is no JSON.
OnlyFor(p) == \A n \in DOMAIN log : log[n].path = p
Kept(p) == restarts = 0 \/ OnlyFor(p)

\* A replica that follows agrees with the log on the files that exist, however
\* the tasks of its entries interleave (apply_to_state_machine), those that
\* create files beside included; and again after crashes at any step and
\* the replay over what they left, if the entries are for this file alone.
AppliedInOrder == CaughtUp /\ ~led => \A p \in Existing : Kept(p) => Holds(p)

\* The file moves along the log only: each change of its metadata is the
\* effect of one entry on what the entries before it have left, and no entry
\* takes effect twice or is skipped (apply_put_idem's version conflicts).
\* Followers promise this, within the limits of AppliedInOrder.
MovesAlongLog ==
  [][\A p \in Existing : ~led' /\ Kept(p) /\ meta'[p] # meta[p] /\ restarts' = restarts =>
       \E n \in 1..handed : /\ meta[p] = FileAfter(p, n - 1)
                            /\ meta'[p] = FileAfter(p, n)]_replicaVars

\* What the tasks that are done have applied is saved: a crash of the replica
\* never takes it behind them. Followers promise this; a leader does not: a task
\* takes a version conflict for "already applied" while the cancelled handler
\* that has applied the entry still saves.
AppliedIsSaved ==
  ~led => \A p \in Existing, n \in 1..handed :
            OnlyFor(p) /\ (\A k \in 1..n : call[task(k)].pc = "done")
              => VersionIn(Loaded[p]) >= VersionIn(FileAfter(p, n))

\* Every PutFile is based on what the entries before it have left.
Sequential ==
  \A n \in DOMAIN log :
    log[n].op = "PutFile" => log[n].version = VersionIn(FileAfter(log[n].path, n - 1))

\* The leader agrees with the log as well if no two clients write a version at
\* once and no handler meets its deadline: whichever of its two executions
\* of an entry comes first, the other finds another version (PutFile). Of two
\* clients that write one version the wrong one may win on the leader alone: the
\* handler of the later entry may run before the task of the earlier one.
LeaderAgrees ==
  CaughtUp /\ (\A h \in Call : ~Cancelled(h)) /\ restarts = 0 /\ Sequential
    => \A p \in Existing : Holds(p)
=============================================================================

------------------------------ MODULE MCClient ------------------------------
(* The AFS client on small instances. *)
EXTENDS AFSClient, TLC

\* Clients differ in nothing but their names.
Symmetry == Permutations(Client)

\* It matters how recent a file is that c opens, but not if c empties it, has
\* changed it or met a write, nor if it only brings its copy up to date.
Minds(c) ==
  /\ op[c].mode \notin {"w", "sync"}
  /\ \/ op[c].pc \in {"test", "version", "bytes"}
     \/ op[c].pc \in {"store", "label", "have"} /\ ~op[c].met
     \/ op[c].pc = "open" /\ ~op[c].met /\ ~cache[c].dirty

\* Of old versions only those matter that an open may be compared with.
Versions ==
  [n \in 1..Len(hist) |->
     IF n = Len(hist) \/ \E c \in Client : Minds(c) /\ op[c].since <= n
     THEN hist[n].data ELSE {}]

\* As long as followers keep step, a version is only compared with the current
\* one: one that is old stays so.
Age(v) == IF v \in 1..Len(hist) - 1 THEN "old" ELSE v

\* Once they fetch, files opened with r+, a or create are treated alike, and
\* with w too from when the file is open. What a file that is open or flushed
\* is based on is its label.
Matters ==
  <<Versions, NoLostUpdate, put, late, edits,
    [c \in Client |-> [cache[c] EXCEPT !.label = Age(@)]],
    [c \in Client |->
       [op[c] EXCEPT
          !.mode = IF \/ @ \in {"a", "r+"} /\ op[c].pc # "test"
                      \/ @ = "create" /\ op[c].pc # "create"
                      \/ @ = "w" /\ op[c].pc = "open"
                   THEN "r+" ELSE @,
          !.ver = IF op[c].pc = "bytes" /\ op[c].mode = "sync" THEN 0 ELSE Age(@),
          !.base = op[c].pc \in {"open", "flush"} => @ = cache[c].label,
          !.met = @ /\ op[c].mode # "sync" /\ op[c].pc \in {"store", "label", "have", "open"},
          !.since = IF Minds(c) THEN @ ELSE 0]]>>
=============================================================================

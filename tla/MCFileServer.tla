---------------------------- MODULE MCFileServer ----------------------------
(* The file server on small instances. *)
EXTENDS FileServer, TLC

\* Calls, contents and op_ids differ in nothing but their names.
Symmetry == Permutations(Call) \cup Permutations(Data) \cup Permutations(OpId)

\* No property looks at the answer of a call that only read.
Matters ==
  <<meta, disk, meta_file, tmp, lock, op_log, restarts,
    [h \in Call |->
       IF call[h].pc = "done" /\ call[h].req.op \in {"Open", "GetFile", "TestAuth"}
       THEN <<call[h].req.path, call[h].code = "timeout">>
       ELSE call[h]]>>
=============================================================================

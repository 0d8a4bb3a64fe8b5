---------------------------- MODULE ReplicatedLog ----------------------------
(***************************************************************************)
(* What AFS/raft promises the file handlers and the clients above it: the  *)
(* servers hand the commands of one and the same sequence to               *)
(* commit_callback, in order and without a gap, each command at one place  *)
(* of it; and a client that is answered gets the result of a command of    *)
(* that sequence.  A server that starts again hands the sequence over from *)
(* its beginning; what was decided on stays decided.                       *)
(***************************************************************************)
EXTENDS Naturals, Sequences, SequencesExt

CONSTANTS Server, Command, None

VARIABLES chosen,    \* the commands decided on, in order
          applied,   \* what each server has handed to commit_callback
          answered   \* the command whose result a client's call got, or None

vars == <<chosen, applied, answered>>

Init ==
  /\ chosen = <<>>
  /\ applied = [i \in Server |-> <<>>]
  /\ answered = [c \in Command |-> None]

\* A server decides on commands not decided on before, and hands over
\* everything up to them.
Decide(i) ==
  \E more \in SeqOf(Command \ ToSet(chosen), Cardinality(Command)) :
    /\ more # <<>>
    /\ IsInjective(more)
    /\ chosen' = chosen \o more
    /\ applied' = [applied EXCEPT ![i] = chosen']
    /\ UNCHANGED answered

\* A server hands over more of what has been decided on.
Follow(i) ==
  /\ \E n \in Len(applied[i])+1..Len(chosen) :
       applied' = [applied EXCEPT ![i] = SubSeq(chosen, 1, n)]
  /\ UNCHANGED <<chosen, answered>>

\* A client gets the result of a command decided on, though not always of its
\* own: handle_create and handle_put_file look at the id only.
Answer(c) ==
  /\ answered[c] = None
  /\ \E d \in ToSet(chosen) : answered' = [answered EXCEPT ![c] = d]
  /\ UNCHANGED <<chosen, applied>>

\* A server starts again, and has handed nothing over yet.
Restart(i) ==
  /\ applied' = [applied EXCEPT ![i] = <<>>]
  /\ UNCHANGED <<chosen, answered>>

Next == \/ \E i \in Server : Decide(i) \/ Follow(i) \/ Restart(i)
        \/ \E c \in Command : Answer(c)

Spec == Init /\ [][Next]_vars

=============================================================================

------------------------------- MODULE PipeQueue -------------------------------
(***************************************************************************)
(* What a pipe promises its users: a bounded queue of bytes.  The bytes of  *)
(* one write enter in order and, when the write fits the queue, all at      *)
(* once; bytes leave from the front; nothing enters once the last writer    *)
(* is gone.                                                                 *)
(***************************************************************************)
EXTENDS Integers, Sequences

CONSTANTS Task, Capacity, Count

VARIABLES
  q,        \* the bytes in the pipe, oldest first
  sent,     \* how much of its unfinished write each task has put in
  open      \* the tasks that can still write

vars == <<q, sent, open>>

Init ==
  /\ q = << >>
  /\ sent = [t \in Task |-> 0]
  /\ open = Task

(* A piece of n bytes of a write of the given size; the write may stop      *)
(* after it, and goes on only when it has bytes left.                       *)
Put(t, size, n) ==
  /\ t \in open
  /\ n > 0
  /\ sent[t] + n <= size
  /\ Len(q) + n <= Capacity
  /\ size <= Capacity => n = size
  /\ q' = [i \in 1 .. Len(q) + n |->
             IF i <= Len(q) THEN q[i]
             ELSE [by |-> t, size |-> size, at |-> sent[t] + (i - Len(q)) - 1]]
  /\ \/ sent' = [sent EXCEPT ![t] = 0]
     \/ sent[t] + n < size /\ sent' = [sent EXCEPT ![t] = sent[t] + n]
  /\ UNCHANGED open

Get(n) ==
  /\ n > 0
  /\ n <= Len(q)
  /\ q' = [i \in 1 .. Len(q) - n |-> q[i + n]]
  /\ UNCHANGED <<sent, open>>

(* A write that put in a part of its bytes stops. *)
Stop(t) ==
  /\ sent[t] > 0
  /\ sent' = [sent EXCEPT ![t] = 0]
  /\ UNCHANGED <<q, open>>

Close(t) ==
  /\ sent[t] = 0
  /\ open' = open \ {t}
  /\ UNCHANGED <<q, sent>>

Next ==
  \/ \E t \in Task : Stop(t) \/ Close(t)
  \/ \E t \in Task, size \in Count, n \in 1 .. Capacity : Put(t, size, n)
  \/ \E n \in 1 .. Capacity : Get(n)

Spec == Init /\ [][Next]_vars

-------------------------------------------------------------------------------
(* The byte k places behind b in its write. *)
Beside(b, k) == [b EXCEPT !.at = @ + k]

(* What is in the queue of a write that fits is in one piece, up to its     *)
(* last byte: only bytes that left can be missing, from its front.          *)
Whole ==
  \A i \in 1 .. Len(q) : q[i].size <= Capacity =>
    /\ q[i].at + 1 < q[i].size => i < Len(q) /\ q[i + 1] = Beside(q[i], 1)
    /\ q[i].at > 0 /\ i > 1 => q[i - 1] = Beside(q[i], -1)
===============================================================================

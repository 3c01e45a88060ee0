------------------------------- MODULE Queues -------------------------------
(***************************************************************************)
(* The queues of nginx (ngx_queue_t) that hold an element at most once, as *)
(* sequences.                                                              *)
(***************************************************************************)
EXTENDS Integers, SequencesExt

In(q, x) == x \in ToSet(q)

\* ngx_queue_insert_tail, under the flag that says that it is queued.
Enqueue(q, x) == IF In(q, x) THEN q ELSE Append(q, x)

\* ngx_queue_remove: an element that is in the queue leaves its place.
Without(q, x) ==
  IF In(q, x) THEN RemoveAt(q, CHOOSE i \in DOMAIN q : q[i] = x) ELSE q
=============================================================================

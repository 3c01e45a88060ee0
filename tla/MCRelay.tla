------------------------------ MODULE MCRelay ------------------------------
(* Model checking of Relay on small instances.                              *)
EXTENDS Relay

H(k, f, n) == [kind |-> k, fin |-> f, len |-> n]

\* Whole and fragmented messages, control frames with and without payload,
\* and a header that is refused.
MCHeads == {H("bin", TRUE, 2), H("bin", FALSE, 1), H("cont", TRUE, 1),
            H("ping", TRUE, 1), H("close", TRUE, 0), H("bad", TRUE, 0)}

\* Both peers have something to say, but not both all they could, and less
\* of it while the prefix is held up.
Traffic ==
  (MaxSends - sends) + usent <= (IF pend = <<>> THEN 3 ELSE 2) \/ pc = "ended"
=============================================================================

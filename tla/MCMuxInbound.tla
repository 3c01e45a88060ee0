---------------------------- MODULE MCMuxInbound ----------------------------
(* Model checking of MuxInbound on small instances.                        *)
EXTENDS MuxInbound, FiniteSetsExt, TLC

Symmetry == Permutations(Streams)

\* A bound for two long streams: either may use up MaxData, not both.
Traffic == MapThenSumSet(LAMBDA s : sent[s], Streams) <= MaxData

\* Every receive token is in the session's bucket or stands for one byte held
\* by a stream: the bucket neither leaks, which would stall the session for
\* good, nor grows (take_recv_tokens and return_recv_tokens clamp silently).
TokenConservation == tokens + MapThenSumSet(Held, Streams) = MaxRecv

\* The same bucket and buffers under the Mux.Cool read loop, which prepares a
\* payload again each time it is entered: direct payloads keep finding room,
\* stored bytes stay in order, tokens are conserved, no wake-up is lost.
CoolPayloads == DirectFits /\ InOrder /\ TokenConservation /\ NoLostResume
=============================================================================

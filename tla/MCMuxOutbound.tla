---------------------------- MODULE MCMuxOutbound ----------------------------
(* Small instances of MuxOutbound: the window of one version 2 stream, and  *)
(* two version 1 streams that share the connection.                         *)
EXTENDS MuxOutbound, TLC

OpensBoth  == 1 :> 2 @@ 2 :> 1
MaxOutBoth == 1 :> 3 @@ 2 :> 6

OpensOne  == 2 :> 1
MaxOutOne == 2 :> 3

OpensTwo  == 1 :> 2
MaxOutTwo == 1 :> 3

Symmetry == Permutations(Streams)
=============================================================================

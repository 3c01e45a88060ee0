--------------------------- MODULE StreamDirectory ---------------------------
(***************************************************************************)
(* What the stream table of a mux session promises: looking an identifier  *)
(* up finds the stream that was created under it and not yet removed.      *)
(***************************************************************************)
EXTENDS FiniteSets, Naturals

CONSTANTS Ids, MaxStreams

VARIABLE dir   \* the identifiers a lookup finds

Init == dir = {}

Create(id) ==
  /\ id \notin dir /\ Cardinality(dir) < MaxStreams
  /\ dir' = dir \cup {id}

Remove(id) == id \in dir /\ dir' = dir \ {id}

Close == dir' = {}

Next == Close \/ \E id \in Ids : Create(id) \/ Remove(id)

Spec == Init /\ [][Next]_dir
=============================================================================

------------------------------ MODULE MCTables ------------------------------
(* Small instances of the two kinds of hash table the module keeps: the    *)
(* stream table of a mux session, and one set of a cache of answers.  A    *)
(* behaviour is that of the one or of the other.                           *)
EXTENDS MuxTable, AnswerCache, FiniteSetsExt, TLC

VARIABLE which \* the table that is looked at

\* Identifiers are interchangeable and so are rotations of the table: it is
\* enough to start from hash functions that grow with the identifier, from
\* slot 0 on, and leave their widest gap at the end of the table.
LastId == Max(Ids)
MCInit ==
  /\ TableInit
  /\ home[1] = 0
  /\ \A i \in Ids \ {LastId} : /\ home[i] <= home[i + 1]
                             /\ home[i + 1] - home[i] <= Size - home[LastId]

OneInit ==
  /\ CacheInit
  /\ \/ which = "streams" /\ kind = "doh" /\ MCInit
     \/ /\ which = "cache"
        /\ home = [id \in Ids |-> 0]
        /\ table = NoTable /\ tombstones = 0 /\ streams = <<>>

OneNext ==
  \/ which = "streams" /\ TableNext /\ UNCHANGED <<which, cacheVars>>
  \/ which = "cache" /\ CacheNext /\ UNCHANGED <<which, tableVars>>

OneSpec == OneInit /\ [][OneNext]_<<which, tableVars, cacheVars>>

Symmetry == Permutations(Keys)
=============================================================================

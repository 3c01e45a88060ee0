------------------------------ MODULE MuxTable ------------------------------
(***************************************************************************)
(* The stream table of a mux session: an open-addressing hash table with   *)
(* linear probing and tombstones, beside the queue of all streams.  It is  *)
(* rebuilt when tombstones pile up.  A slot holds a stream; the stream is  *)
(* named by its identifier.                                                *)
(***************************************************************************)
EXTENDS Integers, FiniteSets, Queues

CONSTANTS
  Ids,         \* stream identifiers
  Empty,       \* NULL
  Tombstone,   \* NGX_STREAM_TROJAN_MUX_TOMBSTONE
  MaxStreams,  \* NGX_STREAM_TROJAN_MUX_MAX_STREAMS
  Size         \* NGX_STREAM_TROJAN_MUX_STREAM_TABLE_SIZE

ASSUME TableConstants ==
  /\ Empty \notin Ids /\ Tombstone \notin Ids /\ Empty # Tombstone
  /\ MaxStreams \in Nat \ {0} /\ Size = 2 * MaxStreams

VARIABLES
  home,        \* mux_stream_slot: any function of the identifier
  table,       \* ctx->mux_stream_table
  tombstones,  \* ctx->mux_tombstones
  streams      \* ctx->mux_streams; its length is ctx->mux_nstreams

tableVars == <<home, table, tombstones, streams>>

----------------------------------------------------------------------------
Slots == 0..(Size - 1)
At(id, n) == (home[id] + n) % Size

\* find_stream: probing reaches the identifier before an empty slot.
FoundAt(t, id, n) ==
  /\ t[At(id, n)] = id
  /\ \A m \in 0..(n - 1) : t[At(id, m)] # Empty
Found(t, id) == \E n \in Slots : FoundAt(t, id, n)

\* insert_stream takes the first free slot of the probe sequence: a
\* tombstone passed on the way, or the empty slot that ends it.
FreeAt(t, id, n) ==
  /\ t[At(id, n)] \in {Empty, Tombstone}
  /\ \A m \in 0..(n - 1) : t[At(id, m)] \notin {Empty, Tombstone}
Insertable(t, id) == ~Found(t, id) /\ \E n \in Slots : FreeAt(t, id, n)
FreeSlot(t, id) == At(id, CHOOSE n \in Slots : FreeAt(t, id, n))
Insert(t, id) ==
  IF Insertable(t, id) THEN [t EXCEPT ![FreeSlot(t, id)] = id] ELSE t

\* remove_stream probes like find_stream.  Fault: it leaves an empty slot.
EraseEmpty(t, id) ==
  IF Found(t, id)
  THEN [t EXCEPT ![At(id, CHOOSE n \in Slots : FoundAt(t, id, n))] = Empty]
  ELSE t
Erase(t, id) ==
  IF Found(t, id)
  THEN [t EXCEPT ![At(id, CHOOSE n \in Slots : FoundAt(t, id, n))] = Tombstone]
  ELSE t

NoTable == [i \in Slots |-> Empty]

\* rebuild_stream_table: every stream of the queue is inserted anew.
Rebuilt(q) ==
  LET t[k \in 0..Len(q)] == IF k = 0 THEN NoTable ELSE Insert(t[k - 1], q[k])
  IN t[Len(q)]

TableInit ==
  /\ home \in [Ids -> Slots]
  /\ table = NoTable /\ tombstones = 0 /\ streams = <<>>

\* insert_stream counts down the tombstones it reuses.
Reused(id) == table[FreeSlot(table, id)] = Tombstone /\ tombstones > 0

\* create_stream, called for an identifier find_stream did not find.
CreateStream(id) ==
  /\ ~Found(table, id)
  /\ Len(streams) < MaxStreams /\ Insertable(table, id)
  /\ table' = Insert(table, id)
  /\ tombstones' = IF Reused(id) THEN tombstones - 1 ELSE tombstones
  /\ streams' = Append(streams, id)
  /\ UNCHANGED home

\* maybe_rebuild_stream_table leaves a table with t tombstones and n streams
\* as it is.  Fault: always.
KeepsAlways(t, n) == TRUE
Keeps(t, n) == t = 0 \/ (t < Size \div 4 /\ t < n)

\* cleanup_stream: remove_stream, then maybe_rebuild_stream_table.
RemoveStream(id) ==
  LET rest  == Without(streams, id)
      t     == Erase(table, id)
      tombs == IF Found(table, id) THEN tombstones + 1 ELSE tombstones
      keep  == Keeps(tombs, Len(rest))
  IN /\ Contains(streams, id)
     /\ streams' = rest
     /\ table' = IF keep THEN t ELSE Rebuilt(rest)
     /\ tombstones' = IF keep THEN tombs ELSE 0
     /\ UNCHANGED home

\* close_streams, at the end of the session (also for the stream beyond the
\* limit that could not be created).
CloseStreams ==
  /\ streams' = <<>> /\ table' = NoTable /\ tombstones' = 0
  /\ UNCHANGED home

TableNext == CloseStreams \/ \E id \in Ids : CreateStream(id) \/ RemoveStream(id)

TableSpec == TableInit /\ [][TableNext]_tableVars

----------------------------------------------------------------------------
(* Properties.                                                             *)

\* Slots in use never outnumber the streams by more than two to one, however
\* many streams came and went: lookups stay short, those that fail end, and
\* create_stream always finds room.  The counter that decides when to rebuild
\* is the number of tombstones.
ProbesEnd ==
  /\ Cardinality({i \in Slots : table[i] # Empty}) <= 2 * Len(streams)
  /\ Cardinality({i \in Slots : table[i] = Tombstone}) = tombstones

\* The table implements the directory, whatever the hash function: the
\* identifiers that lookups find change only as streams come and go.
Directory == INSTANCE StreamDirectory
               WITH dir <- {id \in Ids : Found(table, id)}
ImplementsDirectory == Directory!Spec
=============================================================================
